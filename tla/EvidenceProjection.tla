-------------------------- MODULE EvidenceProjection -------------------------
(***************************************************************************)
(* What of a scoped row reaches the caller of an evidence tool             *)
(* (projectEvidenceResult, tools/evidence-projection.ts): documented       *)
(* fields only, less a list per endpoint, less the names of persons and    *)
(* their contacts at any depth, less what looks like a credential, less    *)
(* private notes and private custom fields; some fields come back on the   *)
(* row they belong to, or for a proven site admin.  Two tools give rows to *)
(* admins alone.  A manifest tells what was left out.                      *)
(*                                                                         *)
(* A value is text, text that looks sensitive, or a record of values; an   *)
(* array of records is a value of kind "list".                             *)
(***************************************************************************)
EXTENDS Integers, FiniteSets, Sequences, SequencesExt

CONSTANTS
    Documented,      \* of each endpoint, the fields of the generated contract
    Requests,        \* the reads considered: [tool, rows]
    Scopes,          \* the permission scopes considered: [kind, siteAdmin]
    CustomKeys,      \* what is known of private custom fields: [known, private]
    RequiredFields,  \* <<endpoint, field>> that a registered metric needs
    None

VARIABLES request, scope, keys, pc, reply
vars == <<request, scope, keys, pc, reply>>

Init ==
    /\ request \in Requests /\ scope \in Scopes /\ keys \in CustomKeys
    /\ pc = "project" /\ reply = None

(***************************************************************************)
(* The tables.                                                             *)
(***************************************************************************)
Endpoint(tool) ==
    CASE tool \in {"search_my_candidates", "get_my_candidate"}     -> "candidates"
      [] tool \in {"search_my_applications", "get_my_application"} -> "applications"
      [] tool \in {"search_my_users", "get_my_user"}               -> "users"
      [] tool = "search_my_notes"               -> "notes"
      [] tool = "search_my_job_notes"           -> "job_notes"
      [] tool = "search_my_offers"              -> "offers"
      [] tool = "search_my_scorecards"          -> "scorecards"
      [] tool = "search_my_interviewers"        -> "interviewers"
      [] tool = "search_my_tracking_links"      -> "tracking_links"
      [] tool = "search_my_email_templates"     -> "email_templates"
      [] tool = "search_my_user_emails"         -> "user_emails"
      [] OTHER                                  -> "future_job_permissions"

DEFAULT_OMISSION_POLICIES(e) ==
    CASE e = "applications"    -> {"candidate", "jobs"}
      [] e = "candidates"      -> {"addresses", "raw_profile", "message"}
      [] e = "scorecards"      -> {"private_notes"}
      [] e = "notes"           -> {"email_from", "email_to"}
      [] e = "tracking_links"  -> {"url"}
      [] e = "email_templates" -> {"recipients"}
      [] e = "users"           -> {"primary_email", "emails", "email", "phone"}
      [] OTHER                 -> {}

PersonNames == {"first_name", "last_name", "preferred_name"}
PersonContacts == {"email", "emails", "email_addresses", "primary_email", "phone", "phone_numbers"}
GLOBAL_PII_FIELD_NAMES ==
    PersonNames \cup PersonContacts \cup
    {"candidate", "candidate_name", "resume", "attachments", "raw_profile", "message",
     "private_notes"}
CANDIDATE_IDENTITY_FIELD_NAMES == PersonNames \cup {"email_addresses", "phone_numbers"}

ROLE_GATED_ROW_TOOLS == {"search_my_future_job_permissions", "search_my_user_emails"}
NOTE_VISIBILITY_GATED_FIELDS == {"body", "subject"}
isForbiddenEvidencePayloadKey(key) == key \in {"token", "url_token", "password"}
isHygieneExempt(e, key) == <<e, key>> = <<"tracking_links", "token">>

profileForPermissionScope(s) ==
    IF s.kind = "operator" \/ s.siteAdmin THEN "operator_site_admin" ELSE "recruiter_default"

profile == profileForPermissionScope(scope)

isRestored(e, key) ==
    \/ /\ profile = "operator_site_admin"
       /\ \/ e = "users" /\ key \in {"primary_email", "emails", "email"}
          \/ e = "email_templates" /\ key = "recipients"
          \/ e = "user_emails" /\ key = "email"
    \/ e = "candidates" /\ key \in CANDIDATE_IDENTITY_FIELD_NAMES

(***************************************************************************)
(* Values.                                                                 *)
(***************************************************************************)
Rec(fields) == [kind |-> "record", fields |-> fields]
Dropped == [kind |-> "dropped"]
Only(row, fields) == [f \in DOMAIN row \cap fields |-> row[f]]
With(row, field, value) == [f \in DOMAIN row \cup {field} |-> IF f = field THEN value ELSE row[f]]

(* Records are at most two deep here.                                      *)
sanitizeProjectedValue(v) ==
    LET clean(row, Value(_)) ==
          LET fields == {f \in DOMAIN row : /\ f \notin GLOBAL_PII_FIELD_NAMES
                                            /\ ~isForbiddenEvidencePayloadKey(f)
                                            /\ Value(row[f]).kind # "dropped"}
          IN [f \in fields |-> Value(row[f])]
        leaf(x) == IF x.kind = "sensitive" THEN Dropped ELSE x
        inner(x) == IF x.kind = "record" THEN Rec(clean(x.fields, leaf)) ELSE leaf(x)
    IN CASE v.kind = "record" -> Rec(clean(v.fields, inner))
         [] v.kind = "list"   -> [v EXCEPT !.rows = [i \in 1..Len(@) |-> clean(@[i], inner)]]
         [] OTHER             -> leaf(v)

projectRowWithDenylist(row, e) ==
    LET passes(f) ==
          /\ f \in Documented[e]
          /\ f \notin DEFAULT_OMISSION_POLICIES(e) \cup GLOBAL_PII_FIELD_NAMES \/ isRestored(e, f)
          /\ ~isForbiddenEvidencePayloadKey(f) \/ isHygieneExempt(e, f)
          /\ sanitizeProjectedValue(row[f]).kind # "dropped"
    IN [f \in {g \in DOMAIN row : passes(g)} |-> sanitizeProjectedValue(row[f])]

(***************************************************************************)
(* The projectors that do more than that.                                  *)
(***************************************************************************)
(* Of a stage and of a candidate only a reference is kept.                 *)
Reference(v, fields) == Rec(Only(v.fields, fields))
IsRecord(row, f) == f \in DOMAIN row /\ row[f].kind = "record"

projectApplicationRow(row) ==
    LET base == projectRowWithDenylist(row, "applications")
        staged == IF IsRecord(row, "current_stage")
                  THEN With(base, "current_stage", Reference(row["current_stage"], {"id", "name"}))
                  ELSE Only(base, DOMAIN base \ {"current_stage"})
    IN IF IsRecord(row, "candidate") /\ "id" \in DOMAIN row["candidate"].fields
       THEN With(staged, "candidate",
                 Reference(row["candidate"], {"id", "first_name", "last_name"}))
       ELSE staged

projectCandidateRow(row) ==
    LET base == projectRowWithDenylist(row, "candidates")
    IN IF "applications" \in DOMAIN row /\ row["applications"].kind = "list"
       THEN With(base, "applications",
                 [kind |-> "list", rows |-> [i \in 1..Len(row["applications"].rows) |->
                                               projectApplicationRow(row["applications"].rows[i])]])
       ELSE Only(base, DOMAIN base \ {"applications"})

projectUserRow(row) ==
    LET base == projectRowWithDenylist(row, "users")
        names == {f \in PersonNames \cap DOMAIN row : sanitizeProjectedValue(row[f]).kind # "dropped"}
    IN [f \in DOMAIN base \cup names |-> IF f \in names THEN row[f] ELSE base[f]]

(* A note's body is shown if its visibility is one of the two known ones.  *)
projectNoteRow(row, e) ==
    LET base == projectRowWithDenylist(row, e)
    IN IF "visibility" \in DOMAIN row /\ row["visibility"].kind \in {"public", "admin_only"}
       THEN base ELSE Only(base, DOMAIN base \ NOTE_VISIBILITY_GATED_FIELDS)

projectOfferRow(row) ==
    LET base == projectRowWithDenylist(row, "offers")
    IN IF "starts_on" \in DOMAIN base THEN With(base, "start_date", base["starts_on"]) ELSE base

projectRow(row, e) ==
    CASE e = "applications"           -> projectApplicationRow(row)
      [] e = "candidates"             -> projectCandidateRow(row)
      [] e = "users"                  -> projectUserRow(row)
      [] e \in {"notes", "job_notes"} -> projectNoteRow(row, e)
      [] e = "offers"                 -> projectOfferRow(row)
      [] OTHER                        -> projectRowWithDenylist(row, e)

(***************************************************************************)
(* Private custom fields, at any depth.                                    *)
(***************************************************************************)
StripFields(row, Inner(_)) ==
    LET kept == {f \in DOMAIN row : f = "custom_fields" => keys.known}
    IN [f \in kept |-> IF f # "custom_fields" THEN Inner(row[f])
                       ELSE IF row[f].kind # "record" THEN row[f]
                       ELSE Rec(Only(row[f].fields, DOMAIN row[f].fields \ keys.private))]

stripPrivateCustomFields(row) ==
    LET leaf(v) == v
        inner(v) == IF v.kind = "record" THEN Rec(StripFields(v.fields, leaf)) ELSE v
        outer(v) == CASE v.kind = "record" -> Rec(StripFields(v.fields, inner))
                      [] v.kind = "list" ->
                           [v EXCEPT !.rows = [i \in 1..Len(@) |-> StripFields(@[i], inner)]]
                      [] OTHER -> v
    IN StripFields(row, outer)

(***************************************************************************)
(* The manifest.                                                           *)
(***************************************************************************)
collectTopLevelKeys(rows) == UNION {DOMAIN rows[i] : i \in 1..Len(rows)}

OmissionReason(e, f) ==
    IF f \in DEFAULT_OMISSION_POLICIES(e)
       \/ (e \in {"notes", "job_notes"} /\ f \in NOTE_VISIBILITY_GATED_FIELDS)
    THEN "policy" ELSE "not_projected"

buildProjectionMetadata(e, source, projected) ==
    LET omitted == collectTopLevelKeys(source) \ collectTopLevelKeys(projected)
    IN [omitted |-> {[field |-> f, reason |-> OmissionReason(e, f)] : f \in omitted},
        incomplete |-> \E f \in omitted : <<e, f>> \in RequiredFields]

roleGateDeniedResult == [rows |-> <<>>, raw |-> 0, projection |-> [omitted |-> {}, incomplete |-> FALSE]]
isRoleGatedRead(tool) == tool \in ROLE_GATED_ROW_TOOLS /\ profile # "operator_site_admin"

projectEvidenceResult ==
    /\ pc = "project"
    /\ LET e == Endpoint(request.tool)
           rows == [i \in 1..Len(request.rows) |->
                      stripPrivateCustomFields(projectRow(request.rows[i], e))]
       IN reply' = IF isRoleGatedRead(request.tool) THEN roleGateDeniedResult
                   ELSE [rows |-> rows, raw |-> Len(request.rows),
                         projection |-> buildProjectionMetadata(e, request.rows, rows)]
    /\ pc' = "done" /\ UNCHANGED <<request, scope, keys>>

Done == pc = "done" /\ UNCHANGED vars
Next == projectEvidenceResult \/ Done
Spec == Init /\ [][Next]_vars

(***************************************************************************)
(* Properties.                                                             *)
(***************************************************************************)
Answered == reply # None
Shown == {reply.rows[i] : i \in 1..Len(reply.rows)}
E == Endpoint(request.tool)
Admin == scope.kind = "operator" \/ scope.siteAdmin

(* The records nested in a row, one and two deep, with their place.        *)
NestedIn(v) == CASE v.kind = "record" -> {v.fields}
                 [] v.kind = "list"   -> {v.rows[i] : i \in 1..Len(v.rows)}
                 [] OTHER             -> {}
Inside(row) == UNION {NestedIn(row[f]) : f \in DOMAIN row}
Below(row) == Inside(row) \cup UNION {Inside(r) : r \in Inside(row)}

(* The contacts of a person appear on that person's own row: a candidate's *)
(* on /v3/candidates, a colleague's for a site admin; and never nested in  *)
(* another record, where the name may ride only in a reference.            *)
ContactsStayOnTheirRow ==
    Answered => \A row \in Shown :
        /\ \A nested \in Below(row) : DOMAIN nested \cap PersonContacts = {}
        /\ DOMAIN row \cap PersonContacts # {} =>
             E = "candidates" \/ (E \in {"users", "user_emails"} /\ Admin)
        /\ "recipients" \in DOMAIN row => Admin

(* A note whose visibility is private, unknown or missing shows no body,   *)
(* to nobody.                                                              *)
PrivateBodiesStayPrivate ==
    Answered /\ E \in {"notes", "job_notes"} => \A i \in 1..Len(reply.rows) :
        DOMAIN reply.rows[i] \cap NOTE_VISIBILITY_GATED_FIELDS # {} =>
            /\ "visibility" \in DOMAIN request.rows[i]
            /\ request.rows[i]["visibility"].kind \in {"public", "admin_only"}

(* A private custom field is shown at no depth; if it is not known which   *)
(* are private, none is.                                                   *)
PrivateCustomFieldsStayPrivate ==
    Answered => \A row \in Shown : \A r \in {row} \cup Below(row) :
        "custom_fields" \in DOMAIN r =>
            /\ keys.known
            /\ DOMAIN r["custom_fields"].fields \cap keys.private = {}

(* What a caller outside the role gets of a gated tool is the same for     *)
(* every page, an empty one included: it tells nothing of what exists.     *)
GatedRepliesAreBlind ==
    Answered /\ request.tool \in ROLE_GATED_ROW_TOOLS /\ ~Admin =>
        reply = roleGateDeniedResult

(* A field in the manifest was in the source and is in no row shown; and a *)
(* field lost from all the rows is in the manifest.                        *)
ManifestIsTrue ==
    Answered /\ ~isRoleGatedRead(request.tool) =>
        {o.field : o \in reply.projection.omitted}
            = {f \in collectTopLevelKeys(request.rows) : \A row \in Shown : f \notin DOMAIN row}
=============================================================================
