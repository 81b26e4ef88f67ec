---------------------------- MODULE QuestionPlanner ----------------------------
(***************************************************************************)
(* answer_my_recruiting_question (recruiter-mcp/src/tools/                 *)
(* question-answer.ts): a question becomes a scope, by what the caller     *)
(* passed, by "my reqs", or by probing its words against the job inventory *)
(* (JobScope), and is then answered by a planned domain read or by a panel *)
(* of recipes under one deadline.                                          *)
(*                                                                         *)
(* Every domain detectMissingDomain names has a binding, so the answer of  *)
(* an unimplemented one is not reached and left out.  A question is given  *)
(* by what the code's patterns find in it.                                 *)
(***************************************************************************)
EXTENDS Integers, Sequences, FiniteSets, SequencesExt

CONSTANTS
    Jobs, ReqOf, Closed, Confidential, OwnerOf, HiringOf, \* as in JobScope
    Me, Admins,      \* the caller; Admins = {Me} or {}
    NoRequest,       \* a JobScope request that asks nothing
    Questions,       \* records, see the MC module
    RECIPES,         \* a sequence, the panel
    Configured,      \* maxAnalysisDurationMs, in units of the model's clock
    MaxChanges,      \* bound on changes of access
    All, None

PlannerAssumption ==
    /\ Configured \in Nat \ {0} /\ MaxChanges \in Nat
    /\ Admins \subseteq {Me} /\ Closed \subseteq Jobs

VARIABLES
    access,     \* the jobs Greenhouse lets the caller see
    q, inv,     \* the question; the inventory loaded for it
    pc,
    scope,      \* the jobs of the answer, All: whatever the permissions return
    notes,      \* what the answer discloses of its scope
    left,       \* what is left of the deadline
    gone,       \* the client has hung up
    todo, analyses, \* recipes not run; what came of those that were
    statuses,   \* of a planned domain's reads
    reads,      \* history: the jobs every read ran over
    missed,     \* history: what a planned domain's reads did not get
    audits, result,
    changes

vars == <<access, q, inv, pc, scope, notes, left, gone, todo, analyses,
          statuses, reads, missed, audits, result, changes>>
world == <<access, changes, gone, q>>
answer == <<todo, analyses, statuses, missed>>

(* JobScope's resolver, over this caller's inventory.                      *)
J == INSTANCE JobScope WITH
    Subjects <- {Me}, Requests <- {}, maxCandidates <- 10, MaxArtifactJobs <- 10,
    TokenTtl <- 1, HandleTtl <- 1, SecretSet <- TRUE, MaxNow <- 0, MaxArtifacts <- 0,
    MaxRestarts <- 0, access <- [s \in {Me} |-> access], now <- 0, key <- 0,
    artifacts <- {}, reply <- None

Init ==
    /\ access = Jobs /\ changes = 0 /\ gone = FALSE
    /\ q \in Questions
    /\ inv = None /\ pc = "start"
    /\ scope = None /\ notes = {}
    /\ left = Configured
    /\ todo = <<>> /\ analyses = <<>> /\ statuses = {}
    /\ reads = {} /\ missed = {} /\ audits = <<>> /\ result = None

-----------------------------------------------------------------------------
(* Every exit is audited, and an audit that fails replaces the result.     *)
emitPlannerAudit(r) ==
    \/ audits' = Append(audits, r) /\ result' = r
    \/ UNCHANGED audits /\ result' = [ok |-> FALSE, code |-> "AUDIT_UNAVAILABLE"]

Deny(code) == [ok |-> FALSE, code |-> code]
Ok(mode, completeness) == [ok |-> TRUE, mode |-> mode, completeness |-> completeness]

Exit(r) ==
    /\ pc' = "done" /\ emitPlannerAudit(r)
    /\ UNCHANGED <<scope, notes, left, reads, answer>>

(* What may come of a read other than rows: the deadline has passed, the   *)
(* client is gone, or Greenhouse fails.                                    *)
ReadFailure ==
    IF left = 0 THEN {"TOOL_TIMEOUT"}
    ELSE IF gone THEN {"CANCELLED"} ELSE {"UPSTREAM_ERROR", "RATE_LIMITED"}

Readable == ~gone /\ left > 0

Takes(n) == n \in 0..left /\ left' = left - n

-----------------------------------------------------------------------------
(* The scope.  A question's carriers are at most one; a carrier present    *)
(* but empty has no jobs.                                                  *)
Carries(k) == q.carrier = k

emptyScopeCarrierError ==
    q.carrier \in {"scope_handle", "greenhouse_job_ids", "requisition_ids", "job_ids"} /\ q.named = {}

hasResolverIntent ==
    q.named # {} /\ q.carrier \in {"query", "aliases", "role_families", "requisition_ids", "greenhouse_job_ids"}

(* runRecruitingQuestionAnswer to resolvePlannerScope's first read.        *)
Start ==
    /\ pc = "start"
    /\ \/ \E code \in {"TOOL_DISABLED", "RATE_LIMITED"} : Exit(Deny(code)) /\ UNCHANGED inv
       \/ q.blank /\ Exit(Deny("INVALID_REQUEST")) /\ UNCHANGED inv
       \/ ~q.blank /\ emptyScopeCarrierError /\ Exit(Deny("INVALID_REQUEST")) /\ UNCHANGED inv
       \/ /\ ~q.blank /\ ~emptyScopeCarrierError
          /\ pc' = IF Carries("scope_handle") \/ Carries("job_ids") THEN "redeem" ELSE "load"
          /\ UNCHANGED <<inv, scope, notes, left, reads, answer, audits, result>>
    /\ UNCHANGED world

Scoped(jobs, said) ==
    /\ scope' = jobs /\ notes' = notes \cup said
    /\ pc' = "route"
    /\ UNCHANGED <<inv, left, reads, answer, audits, result>>

(* resolveAnalysisContext, for a handle or exact ids.                      *)
RedeemScope ==
    /\ pc = "redeem"
    /\ \/ /\ Readable
          /\ \E load \in J!Inventories(Me) :
                LET jobs == IF Carries("job_ids") THEN (IF q.named \subseteq load.jobs THEN q.named ELSE None)
                            ELSE J!Redeemed(q.named, load)
                IN IF jobs = None THEN Exit(Deny("INVALID_SCOPE")) /\ UNCHANGED inv
                   ELSE Scoped(jobs, {})
       \/ \E code \in ReadFailure : Exit(Deny(code)) /\ UNCHANGED inv
    /\ UNCHANGED world

loadJobInventory ==
    /\ pc = "load"
    /\ \/ /\ Readable
          /\ inv' \in J!Inventories(Me)
          /\ pc' = IF q.mine THEN "owner" ELSE "probe"
          /\ \E n \in 0..1 : Takes(n)
          /\ UNCHANGED <<scope, notes, reads, answer, audits, result>>
       \/ \E code \in ReadFailure : Exit(Deny(code)) /\ UNCHANGED inv
    /\ UNCHANGED world

(* resolveOwnerScope, with my_jobs_only: the recruiter's and sourcer's.    *)
resolveOwnerScope ==
    /\ pc = "owner"
    /\ \/ /\ Readable
          /\ inv' = [inv EXCEPT !.jobs = @ \cap OwnerOf[Me]]
          /\ pc' = "probe"
          /\ UNCHANGED <<scope, notes, left, reads, answer, audits, result>>
       \/ \E code \in ReadFailure \cup {"ACTOR_DENIED"} : Exit(Deny(code)) /\ UNCHANGED inv
    /\ UNCHANGED world

(* What the resolver is asked: the owner phrase alone is no text.          *)
Worded == [NoRequest EXCEPT !.text = TRUE, !.words = TRUE]
buildPlannerResolverInput ==
    LET text == IF q.mine /\ ~Carries("query") THEN NoRequest
                ELSE IF Carries("query") /\ q.named # {} THEN Worded
                ELSE q.text
        mine == [text EXCEPT !.owner = IF q.mine THEN {"owners"} ELSE {}]
    IN CASE Carries("greenhouse_job_ids") -> [mine EXCEPT !.ids = q.named]
         [] Carries("requisition_ids")    -> [mine EXCEPT !.reqs = {ReqOf[j] : j \in q.named}]
         [] q.carrier \in {"query", "aliases", "role_families"} /\ q.named # {} ->
                [mine EXCEPT !.text = TRUE, !.words = TRUE, !.high = q.named]
         [] OTHER -> mine

Probe == J!Resolution(Me, buildPlannerResolverInput, inv)
Selected == J!Select(buildPlannerResolverInput, inv)

(* The jobs of the resolver's scope: a truncated one has none.             *)
scopeJobIds == IF Probe.status \in {"incomplete", "no_match"} THEN {} ELSE Probe.jobs

isSynthesizedAllPermittedSelection == Selected.band = "none"

namedSelection ==
    /\ Probe.jobs # {} /\ Selected.band \in {"high", "medium"}
    /\ ~isSynthesizedAllPermittedSelection

\* One requisition id of two jobs is "ambiguous" to the resolver already.
classifyScopeProbe ==
    CASE Probe.status = "resolved"                  -> "use_scope"
      [] Probe.status = "ambiguous"                 -> "confirm"
      [] Probe.status \in {"no_match", "incomplete"} -> "org_wide"
      [] namedSelection /\ Cardinality(Probe.jobs) > 1 -> "confirm"
      [] namedSelection                             -> "use_scope"
      [] OTHER                                      -> "org_wide"

openIds == inv.jobs \ Closed

orgWideScopeOutcome ==
    IF ~q.open THEN Scoped(All, {"all you can see"})
    ELSE IF ~inv.complete THEN Scoped(All, {"all you can see", "closed included"})
    ELSE IF openIds = {} THEN Exit(Ok("empty_scope", "complete")) /\ UNCHANGED inv
    ELSE Scoped(openIds, {})

ResolutionRequired == Exit(Ok("resolution_required", "incomplete")) /\ UNCHANGED inv

(* Plausible bug: an explicit scope that misses is answered for the whole. *)
MissesWiden ==
    /\ pc = "probe"
    /\ IF Probe.status = "resolved" THEN Scoped(Probe.jobs, {})
       ELSE IF q.mine /\ scopeJobIds # {} THEN Scoped(scopeJobIds, {})
       ELSE IF Me \notin Admins THEN
              IF classifyScopeProbe = "use_scope" /\ Selected.band = "high" /\ scopeJobIds # {}
              THEN Scoped(scopeJobIds, {}) ELSE Scoped(All, {"all you can see"})
       ELSE IF classifyScopeProbe = "confirm" THEN ResolutionRequired
       ELSE IF classifyScopeProbe = "use_scope" /\ scopeJobIds # {} THEN Scoped(scopeJobIds, {})
       ELSE orgWideScopeOutcome
    /\ UNCHANGED world

(* resolvePlannerScope from the resolver's answer on.  What the caller     *)
(* named and the index has not got never widens.                           *)
resolvePlannerScope ==
    /\ pc = "probe"
    /\ IF Probe.status = "resolved" THEN Scoped(Probe.jobs, {})
       ELSE IF q.mine THEN
              IF scopeJobIds # {} THEN Scoped(scopeJobIds, {})
              ELSE Exit(Ok("empty_scope", "complete")) /\ UNCHANGED inv
       ELSE IF hasResolverIntent THEN ResolutionRequired
       ELSE IF Me \notin Admins THEN
              IF classifyScopeProbe = "use_scope" /\ Selected.band = "high" /\ scopeJobIds # {}
              THEN Scoped(scopeJobIds, {}) ELSE Scoped(All, {"all you can see"})
       ELSE IF classifyScopeProbe = "confirm" THEN ResolutionRequired
       ELSE IF classifyScopeProbe = "use_scope" /\ scopeJobIds # {} THEN Scoped(scopeJobIds, {})
       ELSE orgWideScopeOutcome
    /\ UNCHANGED world

-----------------------------------------------------------------------------
(* The window the answer runs over: an explicit bound, usable or not,      *)
(* keeps the question's own phrase out.                                    *)
resolveQuestionTimeWindow ==
    IF q.bounds # "absent" THEN [origin |-> "explicit", usable |-> q.bounds = "usable"]
    ELSE IF q.phrase THEN [origin |-> "question", usable |-> TRUE]
    ELSE [origin |-> "none", usable |-> TRUE]

broadDiagnosticPanel == SubSeq(RECIPES, 1, IF q.max < Len(RECIPES) THEN q.max ELSE Len(RECIPES))

selectRecipes ==
    LET wanted == SelectSeq(RECIPES, LAMBDA r : r \in q.recipes)
    IN IF wanted = <<>> /\ q.broad THEN broadDiagnosticPanel
       ELSE SubSeq(wanted, 1, IF q.max < Len(wanted) THEN q.max ELSE Len(wanted))

approximateComposite == selectRecipes = <<>>

(* detectMissingDomain comes before the recipes.                           *)
Route ==
    /\ pc = "route"
    /\ \/ q.domain # "none" /\ ~resolveQuestionTimeWindow.usable /\ Exit(Deny("INVALID_REQUEST"))
       \/ /\ q.domain # "none" /\ resolveQuestionTimeWindow.usable /\ pc' = "domain"
          /\ UNCHANGED <<scope, notes, left, reads, answer, audits, result>>
       \/ /\ q.domain = "none" /\ pc' = "recipes"
          /\ todo' = IF approximateComposite THEN broadDiagnosticPanel ELSE selectRecipes
          /\ UNCHANGED <<scope, notes, left, reads, analyses, statuses, missed, audits, result>>
    /\ UNCHANGED <<world, inv>>

Within(jobs) == IF jobs = All THEN access ELSE jobs \cap access

(* executePlannedDomain: one read of all the permissions return, narrowed  *)
(* in memory by the facts' job, or not at all and said so.                 *)
ReadDomain ==
    /\ pc = "domain" /\ statuses = {}
    /\ \/ /\ Readable
          /\ \E status \in {"complete", "incomplete_upstream"} :
                statuses' = {status} /\ missed' = {status} \ {"complete"}
          /\ reads' = reads \cup {IF q.domain = "prospects" THEN access ELSE Within(scope)}
          /\ notes' = IF q.domain = "prospects" /\ scope # All THEN notes \cup {"scope not applied"} ELSE notes
          /\ \E n \in 0..1 : Takes(n)
          /\ pc' = IF q.domain = "offers" THEN "bridge" ELSE "metric"
          /\ UNCHANGED <<scope, todo, analyses, audits, result>>
       \/ \E code \in ReadFailure : Exit(Deny(code))
    /\ UNCHANGED <<world, inv>>

(* The bridge from accepted offers to their applications: refused or       *)
(* thrown, it only makes the lead shorter; cancelled, it ends the answer;  *)
(* with no offer accepted it reads nothing.                                *)
ReadBridge ==
    /\ pc = "bridge"
    /\ \/ /\ statuses' = statuses \cup {"complete"} /\ pc' = "metric"
          /\ UNCHANGED <<missed, scope, notes, left, reads, todo, analyses, audits, result>>
       \/ /\ Readable
          /\ \E status \in {"complete", "incomplete_timeout"} :
                statuses' = statuses \cup {status} /\ missed' = missed \cup ({status} \ {"complete"})
          /\ pc' = "metric"
          /\ UNCHANGED <<scope, notes, left, reads, todo, analyses, audits, result>>
       \/ /\ "CANCELLED" \in ReadFailure /\ Exit(Deny("CANCELLED"))
       \/ /\ "CANCELLED" \notin ReadFailure /\ pc' = "metric"
          /\ statuses' = statuses \cup {"incomplete_upstream"} /\ missed' = missed \cup ReadFailure
          /\ UNCHANGED <<scope, notes, left, reads, todo, analyses, audits, result>>
    /\ UNCHANGED <<world, inv>>

Metric ==
    /\ pc = "metric"
    /\ Exit(Ok("planned_metric", IF statuses = {"complete"} THEN "complete" ELSE "incomplete"))
    /\ UNCHANGED <<world, inv>>

-----------------------------------------------------------------------------

(* At least one millisecond, which here counts as none.                    *)
runtimeWithRemainingPlannerBudget == IF left < Configured THEN left ELSE Configured

RunAnalysis(status, n) ==
    /\ analyses' = Append(analyses, [recipe |-> Head(todo), status |-> status])
    /\ left' = left - n
    /\ reads' = reads \cup {Within(scope)}

(* A recipe that runs: on its own window check, its reads, its own audit.  *)
(* Its time is the planner's.                                              *)
RunRecipe ==
    /\ pc = "recipes" /\ todo # <<>> /\ left > 0
    /\ \E n \in 0..runtimeWithRemainingPlannerBudget :
          \/ /\ ~gone /\ resolveQuestionTimeWindow.usable
             /\ \E status \in {"complete", "partial", "incomplete"} : RunAnalysis(status, n)
             /\ todo' = Tail(todo)
             /\ UNCHANGED <<pc, scope, notes, statuses, missed, audits, result>>
          \/ /\ ~gone
             /\ RunAnalysis(IF resolveQuestionTimeWindow.usable THEN "UPSTREAM_ERROR" ELSE "INVALID_REQUEST", n)
             /\ todo' = Tail(todo)
             /\ UNCHANGED <<pc, scope, notes, statuses, missed, audits, result>>
    /\ UNCHANGED <<world, inv>>

(* A recipe meets the deadline and the rest are not run; or the deadline   *)
(* has passed before it begins.                                            *)
RecipeTimesOut ==
    /\ pc = "recipes" /\ todo # <<>>
    /\ left > 0 => ~gone
    /\ analyses' = Append(analyses, [recipe |-> Head(todo), status |-> "TOOL_TIMEOUT"])
    /\ left' = left - (IF left > 0 THEN runtimeWithRemainingPlannerBudget ELSE 0)
    /\ todo' = <<>>
    /\ UNCHANGED <<world, inv, pc, scope, notes, statuses, missed, reads, audits, result>>

(* A recipe ends the answer: its own audit failed, or the client is gone.  *)
RecipeEnds ==
    /\ pc = "recipes" /\ todo # <<>> /\ left > 0
    /\ \/ /\ pc' = "done" /\ result' = Deny("AUDIT_UNAVAILABLE")
          /\ UNCHANGED <<scope, notes, left, reads, answer, audits>>
       \/ gone /\ Exit(Deny("CANCELLED"))
    /\ UNCHANGED <<world, inv>>

Denied(a) == a.status \notin {"complete", "partial", "incomplete"}

headlineCompleteness ==
    LET of(s) == \E i \in 1..Len(analyses) : analyses[i].status = s
    IN IF of("incomplete") \/ \E i \in 1..Len(analyses) : Denied(analyses[i]) THEN "incomplete"
       ELSE IF of("partial") THEN "partial" ELSE "see_analyses"

(* A question that matched recipes, all of them denied, is denied; the     *)
(* panel says so recipe by recipe.                                         *)
AnswerRecipes ==
    /\ pc = "recipes" /\ todo = <<>>
    /\ IF ~approximateComposite /\ \A i \in 1..Len(analyses) : Denied(analyses[i])
       THEN Exit(Deny(analyses[1].status))
       ELSE Exit(Ok(IF approximateComposite THEN "approximate_composite" ELSE "analysis", headlineCompleteness))
    /\ UNCHANGED <<world, inv>>

-----------------------------------------------------------------------------
HangsUp ==
    /\ pc # "done" /\ ~gone /\ gone' = TRUE
    /\ UNCHANGED <<access, changes, q, inv, pc, scope, notes, left, reads, answer, audits, result>>

SetAccess ==
    /\ pc # "done" /\ changes < MaxChanges /\ changes' = changes + 1
    /\ access' \in SUBSET Jobs \ {access}
    /\ UNCHANGED <<gone, q, inv, pc, scope, notes, left, reads, answer, audits, result>>

Done == pc = "done" /\ UNCHANGED vars

Next ==
    \/ Start \/ RedeemScope \/ loadJobInventory \/ resolveOwnerScope \/ resolvePlannerScope
    \/ Route \/ ReadDomain \/ ReadBridge \/ Metric
    \/ RunRecipe \/ RecipeTimesOut \/ RecipeEnds \/ AnswerRecipes
    \/ HangsUp \/ SetAccess \/ Done

Spec == Init /\ [][Next]_vars

-----------------------------------------------------------------------------
TypeOK ==
    /\ left <= Configured
    /\ pc \in {"start", "redeem", "load", "owner", "probe", "route", "domain", "bridge", "metric", "recipes", "done"}
    /\ pc = "done" <=> result # None
    /\ Len(audits) <= 1
    /\ result # None /\ result.ok => result.completeness \in {"complete", "incomplete", "partial", "see_analyses"}

(* The jobs the caller pinned down, by a carrier, "my reqs" or both.       *)
Named ==
    LET carried == CASE q.carrier = "none"            -> Jobs
                     [] Carries("requisition_ids")    -> {j \in Jobs : ReqOf[j] \in {ReqOf[k] : k \in q.named}}
                     [] OTHER                         -> q.named
    IN carried \cap (IF q.mine /\ ~(Carries("scope_handle") \/ Carries("job_ids")) THEN OwnerOf[Me] ELSE Jobs)

Bound == q.mine \/ q.carrier # "none"
NamedNothing == q.named = {} /\ q.carrier \in {"query", "aliases", "role_families"}

(* A scope the caller named is never answered by a wider one: not when the *)
(* index misses it or was cut short, not when access changes meanwhile,    *)
(* not when the domain cannot be narrowed, unless the answer says so.      *)
NamedScopesNeverWiden ==
    Bound /\ ~NamedNothing /\ "scope not applied" \notin notes =>
        \A r \in reads : r \subseteq Named

(* A site admin's question about open requisitions is answered over open   *)
(* ones, zero where none is open, or over all with that said.              *)
OpenMeansOpen ==
    Me \in Admins /\ q.open /\ ~Bound /\ "closed included" \notin notes /\ "scope not applied" \notin notes =>
        /\ \A r \in reads : r \cap Closed = {} \/ r \subseteq q.text.high \cup q.text.fair
        /\ result # None /\ result.ok /\ result.mode = "empty_scope" => inv.complete /\ inv.jobs \subseteq Closed

(* Words that fit several requisitions are asked about, whoever asks with  *)
(* a view of them all.                                                     *)
SeveralAreConfirmed ==
    Me \in Admins /\ ~Bound /\ ~q.open /\ scope \notin {None, All} =>
        Cardinality(scope) = 1

(* A read the client did not wait for ends the answer: none of them is     *)
(* contained, not the optional one either, and no recipe runs after it.    *)
GoneIsNotAnswered ==
    gone /\ left > 0 =>
       /\ pc \in {"redeem", "load", "owner", "domain"} /\ pc' # pc => pc' = "done" /\ ~result'.ok
       /\ pc = "bridge" => statuses' \subseteq statuses \cup {"complete"}
       /\ pc = "recipes" => analyses' = analyses

(* One deadline bounds the question: all its recipes together take what    *)
(* one tool may.                                                           *)
OneDeadline == left >= 0

(* An answer that claims to be whole is: each recipe it selected ran and   *)
(* read all, each read of a planned metric did.                            *)
WholeAnswersAreWhole ==
    result # None /\ result.ok =>
        /\ result.completeness = "see_analyses" =>
              /\ \A i \in 1..Len(analyses) : analyses[i].status = "complete"
              /\ Len(analyses) = Len(IF approximateComposite THEN broadDiagnosticPanel ELSE selectRecipes)
        /\ result.mode = "planned_metric" /\ result.completeness = "complete" => missed = {}
=============================================================================
