---------------------------- MODULE Projections ----------------------------
(***************************************************************************)
(* What the base server shows of a Harvest record (control-plane/src/      *)
(* projection-*.ts) and what the offer letter's context shows of the same  *)
(* record (offer-letter-context.ts): for every field shown, the places of  *)
(* the record it is read from, in order.                                   *)
(*                                                                         *)
(* A record gives each place "good" (a value of the right type), "wrong"   *)
(* (one of another type) or "absent"; a field shows the place its value    *)
(* came from.  Nested places are written with a dot.                       *)
(***************************************************************************)
EXTENDS Integers, Sequences, FiniteSets, SequencesExt, FiniteSetsExt, Functions

CONSTANTS
    Kinds,      \* the kinds of record read
    Twins,      \* those whose two projections are compared
    MaxPresent, \* places of a record that are not absent
    None

(* Places of older versions of the interface; Harvest v3 sends the others. *)
Legacy == {"jobs.id", "job.id", "candidate.id", "current_stage.id", "current_stage.name",
    "start_date", "overall_recommendation", "overall_rating", "interviewer.id",
    "submitted_by.id", "reason_id", "rejected_by", "rejected_by.id", "rejected_by_user.id",
    "email"}

VARIABLES kind, record, broad, urls, shown, drafted
vars == <<kind, record, broad, urls, shown, drafted>>

Same(places) == [p \in places |-> <<p>>]

------------------------------------------------------------------------------
(* The allowlists, and what a profile adds to them.                        *)

projectApplication ==
    [id |-> <<"id">>, candidate_id |-> <<"candidate_id">>, job_id |-> <<"job_id", "jobs.id">>,
     stage_id |-> <<"stage_id", "current_stage.id">>,
     stage_name |-> <<"stage_name", "current_stage.name">>, status |-> <<"status">>]

computeHasBody == [has_body |-> <<"body">>]
projectNote ==
    Same({"id", "type", "user_id", "application_id", "candidate_id"}) @@ computeHasBody
projectNoteBody == Same({"subject", "body"})

projectOffer ==
    Same({"id", "application_id", "status"})
    @@ [start_date |-> <<"starts_on", "start_date">>]
projectOfferCompensation == Same({"created_at", "updated_at", "custom_fields"})

readScorecardRating == <<"candidate_rating", "overall_recommendation", "overall_rating">>
readNestedOrFlatId(flat, nested) == <<flat, nested>>
projectScorecard ==
    Same({"id", "application_id", "status", "submitted_at"})
    @@ [interviewer_id |-> readNestedOrFlatId("interviewer_id", "interviewer.id"),
        submitter_id |-> readNestedOrFlatId("submitter_id", "submitted_by.id"),
        overall_rating |-> readScorecardRating]
projectScorecardAnswers ==
    Same({"notes", "public_notes", "private_notes", "questions", "attributes"})

deriveRejectedBy == <<"rejected_by_id", "rejected_by", "rejected_by.id", "rejected_by_user.id">>
projectRejectionDetail ==
    Same({"application_id", "rejected_at"})
    @@ [reason_id |-> <<"rejection_reason_id", "reason_id">>, rejected_by |-> deriveRejectedBy]

projectCandidate == Same({"id", "last_activity_at", "tags", "private"})
firstStringField(list, flat) == <<list \o "[primary]", list, flat>>
deriveLocation == <<"addresses[primary]", "addresses">>
deriveLinkedInUrl ==
    <<"social[linkedin,primary]", "social[linkedin]", "social[primary]", "social">>
deriveAttachments == [attachments |-> <<"attachments">>, attachment_url |-> <<"attachments.url">>]
projectCandidateContact ==
    Same({"first_name", "last_name"})
    @@ [primary_email |-> firstStringField("email_addresses", "email"),
        location |-> deriveLocation, linkedin_url |-> deriveLinkedInUrl] @@ deriveAttachments

------------------------------------------------------------------------------
(* The same records in an offer letter's context.                          *)

letterApplication ==
    [id |-> <<"id">>, candidate_id |-> <<"candidate_id", "candidate.id">>,
     job_id |-> <<"job_id", "job.id">>, stage_id |-> <<"stage_id", "current_stage.id">>,
     stage_name |-> <<"stage_name", "current_stage.name">>, status |-> <<"status">>]
letterOffer ==
    Same({"id", "application_id", "status", "created_at", "updated_at", "custom_fields"})
    @@ [start_date |-> <<"starts_on", "start_date">>]
letterNote ==
    Same({"id", "type", "user_id", "application_id", "candidate_id", "subject", "body"})
letterScorecard ==
    Same({"id", "application_id", "interviewer_id", "submitter_id", "status",
          "submitted_at", "overall_rating", "questions", "attributes"})
letterCandidate ==
    Same({"id", "first_name", "last_name"})
    @@ [primary_email |-> firstStringField("email_addresses", "email"),
        location |-> deriveLocation, linkedin_url |-> deriveLinkedInUrl] @@ deriveAttachments

------------------------------------------------------------------------------
Narrow(k) ==
    CASE k = "application" -> projectApplication [] k = "note" -> projectNote
      [] k = "offer" -> projectOffer [] k = "scorecard" -> projectScorecard
      [] k = "rejection" -> projectRejectionDetail [] OTHER -> projectCandidate

Additions(k) ==
    CASE k = "note" -> projectNoteBody [] k = "offer" -> projectOfferCompensation
      [] k = "scorecard" -> projectScorecardAnswers
      [] k = "candidate" -> projectCandidateContact [] OTHER -> << >>

Letter(k) ==
    CASE k = "application" -> letterApplication [] k = "note" -> letterNote
      [] k = "offer" -> letterOffer [] k = "scorecard" -> letterScorecard
      [] k = "candidate" -> letterCandidate [] OTHER -> << >>

Places(k) == UNION {UNION {ToSet(t[f]) : f \in DOMAIN t} : t \in {Narrow(k), Additions(k), Letter(k)}}

Records(k) ==
    UNION {{[p \in Places(k) |-> IF p \notin s THEN "absent" ELSE IF p \in w THEN "wrong" ELSE "good"] :
              w \in SUBSET s} : s \in UNION {kSubset(n, Places(k)) : n \in 0..MaxPresent}}

(* The first place with a value of the right type.                         *)
readFlatOrNestedScalar(rec, places) ==
    LET good == {i \in DOMAIN places : rec[places[i]] = "good"}
    IN IF good = {} THEN None ELSE places[Min(good)]

Show(rec, table) == [f \in DOMAIN table |-> readFlatOrNestedScalar(rec, table[f])]

(* Signed URLs only when they are asked for.                               *)
Asked(table, u) == Restrict(table, DOMAIN table \ (IF u THEN {} ELSE {"attachment_url"}))

Init ==
    /\ kind \in Kinds /\ record \in Records(kind)
    /\ broad = FALSE /\ urls = FALSE /\ shown = None /\ drafted = None

Project ==
    /\ shown = None
    /\ \E b \in BOOLEAN, u \in BOOLEAN :
        /\ broad' = b /\ urls' = u
        /\ shown' = Show(record, Narrow(kind) @@ (IF b THEN Asked(Additions(kind), u) ELSE << >>))
    /\ UNCHANGED <<kind, record, drafted>>

buildOfferLetterContext ==
    /\ shown # None /\ drafted = None
    /\ drafted' = Show(record, Asked(Letter(kind), urls))
    /\ UNCHANGED <<kind, record, broad, urls, shown>>

Next == Project \/ buildOfferLetterContext
Spec == Init /\ [][Next]_vars

------------------------------------------------------------------------------
TypeOK ==
    /\ kind \in Kinds /\ DOMAIN record = Places(kind)
    /\ shown # None => \A f \in DOMAIN shown : shown[f] # None => record[shown[f]] = "good"
    /\ drafted # None => shown # None

(* What a profile adds is not shown under the default one, whatever shape  *)
(* the record has, and a signed URL only when it was asked for.            *)
NothingUnasked ==
    shown # None =>
        /\ ~broad => \A f \in DOMAIN shown :
              /\ shown[f] \in UNION {ToSet(Additions(kind)[g]) : g \in DOMAIN Additions(kind)}
                    => f = "has_body"
        /\ ~urls => \A x \in {shown, IF drafted = None THEN shown ELSE drafted} :
              \A f \in DOMAIN x : x[f] # "attachments.url"

(* Of a record as Harvest v3 sends it, the list and the letter's context   *)
(* show the same for every field both have.                                *)
TwinsAgree ==
    drafted # None /\ kind \in Twins /\ (\A p \in Places(kind) \cap Legacy : record[p] = "absent")
        => \A f \in DOMAIN shown \cap DOMAIN drafted : shown[f] = drafted[f]
=============================================================================
