---------------------------- MODULE ControlPlane ----------------------------
(***************************************************************************)
(* The base read server (control-plane/src/index.ts, tool-gates.ts,        *)
(* read-audit.ts, offer-letter-context.ts): which tools a start registers, *)
(* the approval list in front of the expanded reads, the profile a call    *)
(* asks for, and the audit line that must be written before the answer.    *)
(*                                                                         *)
(* Calls share nothing but the stream of audit lines, so one is in flight  *)
(* at a time.  A record is "narrow" (the projection's allowlist), "broad"  *)
(* (the profile's additions too) or "plain" (as Harvest returned it).      *)
(***************************************************************************)
EXTENDS Integers, Sequences, FiniteSets, FiniteSetsExt

CONSTANTS
    Environments, \* records [disable, tier3, ids] of the three variables
    ParseInt,     \* Number.parseInt of a token of ids, 0 for NaN
    Requests,     \* records [tool, broad, reason, urls, actor, cursor, application, offer, without]
    Offers,       \* numbers
    StatusOf,     \* an offer's status, as Harvest spells it
    UpdatedAt, CreatedAt, \* an offer's last update and its creation; -1: no date
    None

VARIABLES
    env,    \* the environment the server was started with
    pc, r,  \* the call in flight
    actor,  \* who passed the gate
    failed, \* history: Harvest or the arguments failed the call
    live,   \* the offers of the application that exist
    parts,  \* of an offer letter's context, those that were read
    offers, \* the offers among them
    lines,  \* the call's audit lines
    reply   \* [kind, data, primary]

vars == <<env, pc, r, actor, failed, live, parts, offers, lines, reply>>

------------------------------------------------------------------------------
(* The tools, in the order the server registers them.                      *)

PipelineTools == {"list_applications", "get_application", "list_applied_candidate_tags",
    "list_application_stages"}
CandidateTools == {"list_candidate_tags", "get_candidate", "list_close_reasons"}
JobTools == {"list_job_board_custom_locations", "list_job_candidate_attributes",
    "list_job_hiring_managers", "list_job_interview_stages", "list_job_interviews",
    "list_job_notes"}
PostTools == {"list_job_owners", "list_job_post_locations", "list_job_posts",
    "list_jobs", "get_job"}
CompanyTools == {"list_rejection_reasons", "list_users", "get_user", "list_departments",
    "list_offices", "list_sources"}
InterviewTools == {"list_interviews", "list_interviewers", "list_interviewer_tags",
    "list_default_interviewers", "list_openings"}
FieldTools == {"list_referrers", "list_custom_fields", "list_custom_field_options",
    "list_custom_field_departments", "list_custom_field_offices",
    "list_candidate_attribute_types", "list_candidate_educations"}
ProspectTools == {"list_candidate_employments", "list_prospect_pools",
    "list_prospect_pool_stages", "list_prospect_details", "list_approval_flows",
    "list_approver_groups", "list_approvers"}
PermissionTools == {"list_user_roles", "list_user_job_permissions",
    "list_future_job_permissions", "list_scorecard_questions",
    "list_scorecard_question_answers", "list_scorecard_question_options",
    "list_scorecard_question_answer_options", "list_scorecard_candidate_attributes"}
TrackingTools == {"list_scorecard_question_candidate_attributes", "list_tracking_links",
    "list_focus_candidate_attributes", "list_blocked_spam_sources", "list_bulk_requests"}

PlainTools == UNION {PipelineTools, CandidateTools, JobTools, PostTools, CompanyTools,
    InterviewTools, FieldTools, ProspectTools, PermissionTools, TrackingTools}

(* A profile broadens these; the gate stands before the broad one only.    *)
Profiled == {"list_scorecards", "list_offers", "list_notes"}
(* The gate stands before every call of these.                             *)
Letter == "get_offer_letter_context"
TIER3_TOOL_NAMES ==
    {"list_email_templates", "list_interview_kits", "list_scheduled_interviews",
     "list_user_emails"}
Expanded == TIER3_TOOL_NAMES \cup {Letter}
Wrapped == Profiled \cup Expanded
Audited == Wrapped \cup {"list_rejection_details"}
Tools == PlainTools \cup Audited \cup {"list_candidates"}

------------------------------------------------------------------------------
(* The configuration of a start.                                           *)

parseTier3ActorIds(tokens) == {ParseInt[t] : t \in tokens} \ {0}

createToolGateConfig ==
    [disabledTools |-> env.disable, tier3ReadsAvailable |-> env.tier3 # "false",
     tier3ActorIds |-> parseTier3ActorIds(env.ids)]

Registered ==
    {t \in Tools \ createToolGateConfig.disabledTools :
        t \in Expanded => createToolGateConfig.tier3ReadsAvailable}

Init ==
    /\ env \in Environments
    /\ live \in SUBSET Offers
    /\ pc = "idle" /\ r = None /\ actor = None /\ failed = FALSE
    /\ parts = {} /\ offers = {} /\ lines = <<>> /\ reply = None

------------------------------------------------------------------------------
(* The line and the answer.                                                *)

Answer(kind, data, primary) == [kind |-> kind, data |-> data, primary |-> primary]
AuditFailure == Answer("READ_AUDIT_FAILURE", "none", None)
Refusal(kind) == Answer(kind, "none", None)

(* logReadAudit: the sink takes the line, or the caller is told that and   *)
(* nothing else.                                                           *)
Emit(outcome, who, rep) ==
    \/ /\ lines' = Append(lines, [outcome |-> outcome, actor |-> who])
       /\ reply' = rep
    \/ lines' = lines /\ reply' = AuditFailure

Ends == pc' = "done" /\ UNCHANGED <<env, r, actor, live, parts, offers>>

(* An error past the gate: audited where the tool is, then passed on.      *)
Fails(kind) ==
    /\ Ends
    /\ failed' = TRUE
    /\ IF r.tool \in Audited THEN Emit("error", actor, Refusal(kind))
       ELSE lines' = lines /\ reply' = Refusal(kind)

emitTier3SuccessReadAudit(rep) ==
    /\ Ends
    /\ UNCHANGED failed
    /\ IF r.tool \in Audited THEN Emit("success", actor, rep)
       ELSE lines' = lines /\ reply' = rep

------------------------------------------------------------------------------
(* wrapTier3Handler: what stands before the read.                          *)

shouldGate(q) == q.tool \in Expanded \/ (q.tool \in Profiled /\ q.broad)

assertTier3ActorAllowed(q) == q.actor \in createToolGateConfig.tier3ActorIds

GateRequired(q) == shouldGate(q) /\ createToolGateConfig.tier3ActorIds # {}

Call(q) ==
    /\ pc = "idle"
    /\ q.tool \in Registered
    /\ r' = q
    /\ actor' = IF q.tool \in Wrapped /\ (GateRequired(q) => assertTier3ActorAllowed(q))
                THEN q.actor ELSE None
    /\ pc' = IF GateRequired(q) /\ ~assertTier3ActorAllowed(q) THEN "denied" ELSE "called"
    /\ UNCHANGED <<env, failed, live, parts, offers, lines, reply>>

Denied ==
    /\ pc = "denied"
    /\ Ends
    /\ UNCHANGED failed
    /\ Emit("denied", None, Refusal("TIER3_GATE_DENIED"))

------------------------------------------------------------------------------
(* The handlers.                                                           *)

(* A profile other than the default needs a reason; signed URLs need the   *)
(* broad profile of list_candidates; a cursor goes alone; a letter is of an*)
(* application or of an offer.                                             *)
assertDetailProfileReason(q) == q.broad => q.reason
UrlsAreOfContact(q) == q.tool = "list_candidates" /\ q.urls => q.broad
validateCursorExclusivity(q) == q.cursor # "with_others"
NamesOne(q) == q.application <=> q.offer = None

Accepts(q) ==
    IF q.tool = Letter THEN NamesOne(q)
    ELSE /\ q.tool \in Profiled \cup {"list_candidates"} => assertDetailProfileReason(q)
         /\ UrlsAreOfContact(q)
         /\ validateCursorExclusivity(q)

Rejected == pc = "called" /\ ~Accepts(r) /\ Fails("INVALID")

Projection(q) ==
    IF q.tool \in {"list_applications", "list_rejection_details"} THEN "narrow"
    ELSE IF q.tool \in Profiled \cup {"list_candidates"}
         THEN IF q.broad THEN "broad" ELSE "narrow"
         ELSE "plain"

(* The join of list_candidates with its applications is best effort: what  *)
(* of it fails leaves a snapshot out, and never the answer.                *)
Read ==
    /\ pc = "called" /\ r.tool # Letter /\ Accepts(r)
    /\ \/ emitTier3SuccessReadAudit(Answer("answer", Projection(r), None))
       \/ Fails("HARVEST")

(* An offer letter's context: from an offer to its application, to its     *)
(* candidate, then everything of the application at once.                  *)
Lookup ==
    /\ pc = "called" /\ r.tool = Letter /\ Accepts(r)
    /\ \/ /\ r.offer = None \/ r.offer \in live
          /\ pc' = "gather"
          /\ UNCHANGED <<env, r, actor, failed, live, parts, offers, lines, reply>>
       \/ Fails("HARVEST")

CONTEXT_PARTS == {"candidate", "offers", "notes", "scorecards"}
\* include_notes and include_scorecards may leave a part out.
Wanted(q) == CONTEXT_PARTS \ q.without

Gather ==
    /\ pc = "gather"
    /\ \/ /\ \E p \in Wanted(r) \ parts :
              /\ parts' = parts \cup {p}
              /\ offers' = IF p = "offers" THEN live ELSE offers
          /\ UNCHANGED <<env, pc, r, actor, failed, live, lines, reply>>
       \/ parts # Wanted(r) /\ Fails("HARVEST")

statusRank(status) ==
    CASE status = "created" -> 0 [] status = "accepted" -> 1
      [] status = "rejected" -> 2 [] status = "deprecated" -> 3
      [] OTHER -> 4

(* sortOffers, by status, then the latest update, then the latest creation,*)
(* then the highest id.                                                    *)
Before(a, b) ==
    LET rank(o) == statusRank(StatusOf[o])
    IN \/ rank(a) < rank(b)
       \/ /\ rank(a) = rank(b)
          /\ \/ UpdatedAt[a] > UpdatedAt[b]
             \/ /\ UpdatedAt[a] = UpdatedAt[b]
                /\ \/ CreatedAt[a] > CreatedAt[b]
                   \/ CreatedAt[a] = CreatedAt[b] /\ a > b

selectPrimaryOffer(of, preferred) ==
    IF preferred # None /\ preferred \in of THEN preferred
    ELSE IF of = {} THEN None
         ELSE CHOOSE o \in of : \A p \in of \ {o} : Before(o, p)

buildOfferLetterContext ==
    /\ pc = "gather" /\ parts = Wanted(r)
    /\ emitTier3SuccessReadAudit(
           Answer("answer", "broad", selectPrimaryOffer(offers, r.offer)))

(* The answer has been taken.                                             *)
Taken ==
    /\ pc = "done" /\ pc' = "idle"
    /\ r' = None /\ actor' = None /\ failed' = FALSE
    /\ parts' = {} /\ offers' = {} /\ lines' = <<>> /\ reply' = None
    /\ UNCHANGED <<env, live>>

(* Greenhouse: an offer is made or deleted.                                *)
OfferChanges ==
    /\ \E o \in Offers : live' = IF o \in live THEN live \ {o} ELSE live \cup {o}
    /\ UNCHANGED <<env, pc, r, actor, failed, parts, offers, lines, reply>>

Next ==
    \/ \E q \in Requests : Call(q)
    \/ Denied \/ Rejected \/ Read \/ Lookup \/ Gather \/ buildOfferLetterContext
    \/ Taken \/ OfferChanges

Spec == Init /\ [][Next]_vars

------------------------------------------------------------------------------
TypeOK ==
    /\ env \in Environments /\ live \subseteq Offers /\ offers \subseteq Offers
    /\ pc \in {"idle", "denied", "called", "gather", "done"}
    /\ parts \subseteq CONTEXT_PARTS /\ failed \in BOOLEAN
    /\ r # None => r.tool \in Tools
    /\ reply # None => reply.data \in {"none", "narrow", "broad", "plain"}

Answered == reply # None /\ reply.kind = "answer"

(* Whatever an audited tool returns has its line, written before it; a     *)
(* line that cannot be written takes the answer with it.                   *)
NothingLeavesUnaudited ==
    Answered /\ r.tool \in Audited =>
        lines = <<[outcome |-> "success", actor |-> actor]>>

(* The lines tell what happened: at most one a call, "error" only when the *)
(* read or the arguments failed (not when the line of a success could not  *)
(* be written), "denied" only when nothing was read.                       *)
LinesAreHonest ==
    /\ Len(lines) <= 1
    /\ \A i \in DOMAIN lines :
        /\ lines[i].outcome = "error" <=> failed
        /\ lines[i].outcome = "denied" => reply.kind = "TIER3_GATE_DENIED" /\ parts = {}

(* With an approval list, what the gate guards reaches only a call that    *)
(* names a user on the list, and the line names that user.                 *)
ApprovedOnly ==
    LET ids == createToolGateConfig.tier3ActorIds
    IN Answered /\ ids # {} /\ (r.tool \in Expanded \/ (r.tool \in Profiled /\ reply.data = "broad"))
       => r.actor \in ids /\ \A i \in DOMAIN lines : lines[i].actor = r.actor

(* A projected list gives more than its allowlist only to a call that asked*)
(* for it and gave a reason.                                               *)
BroadIsAskedFor ==
    Answered /\ r.tool \in Profiled \cup {"list_candidates"} /\ reply.data # "narrow"
        => r.broad /\ r.reason

(* The operator's switches hold: a disabled tool answers nothing, and none *)
(* of the expanded reads does once they are off.                           *)
SwitchesHold ==
    r # None => /\ r.tool \notin env.disable
                /\ env.tier3 = "false" => r.tool \notin Expanded

(* A context is drafted only from all the reads that its call asked for,   *)
(* for a call that names one application or one offer.                     *)
ContextsAreWhole ==
    Answered /\ r.tool = Letter => parts = Wanted(r) /\ ~failed /\ NamesOne(r)
=============================================================================
