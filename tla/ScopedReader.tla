----------------------------- MODULE ScopedReader ----------------------------
(***************************************************************************)
(* scopedRead (scoped-core/src/index.ts): one read of a tool for one       *)
(* actor.  A page is fetched raw and each of its rows is kept or withheld: *)
(*                                                                         *)
(*   by job      the row's job must be one the actor is permitted          *)
(*               (filterWithScopePolicy or the tool's row filter); for an  *)
(*               org-wide actor whose private-candidate right is not       *)
(*               attested only confidential jobs are excluded              *)
(*   by privacy  a private candidate's row needs the attestation, or the   *)
(*               Private role on the row's job (applyCandidatePrivacyGate) *)
(*                                                                         *)
(* The tenant is constant: parents holds the records a row may refer to.   *)
(* What a row is about is found by reading them, and each endpoint may     *)
(* fail throughout a read.  A record carries a job, a candidate, the       *)
(* parents it names, the applications it embeds, and, for a candidate,     *)
(* itself.  Reads are batched and cached per scopedRead; the cached values *)
(* are those of the endpoint, so batching is not modelled.  The rows of a  *)
(* page are its records: an element of a list that is none is dropped      *)
(* before the filter and counted nowhere (index.ts:2712).                  *)
(***************************************************************************)
EXTENDS Integers, FiniteSets, Sequences, FiniteSetTheorems, WellFoundedInduction,
        TLAPS

CONSTANTS
    Jobs, Candidates,
    Ids,            \* of parent records
    PrivateOnes,    \* candidates flagged private, or that cannot be read
    parents,        \* the parent records, by carrier and id
    Pages,          \* the pages considered: [tool, single, rows]
    Requests,       \* the requests considered: [scope, actAs]
    FailureSets,    \* the sets of endpoints considered to fail
    None,           \* no value
    Bad             \* a value that cannot be resolved

Carriers == {"application", "interview", "scorecard", "answer"}
Endpoints == Carriers \cup {"candidates", "candidateApplications", "permission"}
Depth == 4   \* CANDIDATE_PARENT_HOPS.length

Records == [job : Jobs \cup {None, Bad}, candidate : Candidates \cup {None},
            carrier : [Carriers -> Ids \cup {None, Bad}],
            embedded : (SUBSET Ids) \cup {None}, self : Candidates \cup {None},
            public : BOOLEAN]
Tools == {"job", "application", "stage", "candidate", "candidateBacked", "note",
          "attachment", "offer", "applicationBacked", "interview", "interviewer",
          "answer", "reference"}

Named(r) == {c \in Carriers : r.carrier[c] \in Ids}

(* No parent that names its candidate names a parent of its own.           *)
WorldAssumption ==
    /\ PrivateOnes \subseteq Candidates
    /\ None # Bad /\ {None, Bad} \cap (Jobs \cup Candidates \cup Ids) = {}
    /\ None \notin Records /\ \A S \in SUBSET Ids : S # None
    /\ \A c \in Carriers, i \in Ids : \/ parents[c][i] = None
                                     \/ /\ parents[c][i] \in Records
                                        /\ parents[c][i].candidate # None => Named(parents[c][i]) = {}

(* What a row of a tool may name: a candidate is on no job and names its   *)
(* applications only, embedded in it or not; what hangs off a candidate or *)
(* an application says so itself; and no row names both its candidate and  *)
(* a parent that is no application.                                        *)
WellFormed(tool, r) ==
    /\ r \in Records
    /\ IF tool = "candidate"
       THEN /\ r.self # None /\ r.job = None /\ r.candidate = None /\ Named(r) = {}
            /\ r.embedded # None => \A i \in r.embedded : parents["application"][i] # None
       ELSE r.self = None /\ r.embedded = None
    /\ r.candidate # None => Named(r) \subseteq {"application"}
    /\ tool = "candidateBacked" => r.job = None /\ Named(r) = {}
    /\ tool \in {"note", "attachment"} => r.job = None /\ Named(r) \subseteq {"application"}

PageAssumption ==
    /\ \A p \in Pages : /\ p.tool \in Tools /\ p.rows \in Seq(Records)
                        /\ \A i \in 1..Len(p.rows) : WellFormed(p.tool, p.rows[i])
                        /\ p.single => Len(p.rows) <= 1
    /\ \A x \in Requests : /\ x.scope.kind \in {"operator", "all", "jobs"}
                           /\ x.scope.kind = "operator" => x.scope.excluded = {}
    /\ FailureSets \subseteq SUBSET Endpoints

(* What the API says of its records: each carrier refers to those before   *)
(* it only, an application has a candidate and a job field, a job an id.   *)
Rank == [application |-> 1, interview |-> 2, scorecard |-> 3, answer |-> 4]
ShapeAssumption ==
    /\ \A c \in Carriers, i \in Ids : parents[c][i] # None =>
          /\ \A d \in Named(parents[c][i]) : Rank[d] < Rank[c]
          /\ c = "application" => parents[c][i].candidate # None /\ parents[c][i].job # None
    /\ \A p \in Pages : p.tool = "job" => \A i \in 1..Len(p.rows) : p.rows[i].job # None

VARIABLES
    request, page, failing,   \* the read, what Greenhouse returns, what fails
    pc,
    kept,                     \* the rows kept so far, by their places on the page
    counts,                   \* of outcomes, as ScopeOutcomeCounts
    reply

vars == <<request, page, failing, pc, kept, counts, reply>>
inputs == <<request, page, failing>>

NoCounts == [notPermitted |-> 0, unresolved |-> 0, privacy |-> 0]

Init ==
    /\ request \in Requests /\ page \in Pages /\ failing \in FailureSets
    /\ pc = "start" /\ kept = <<>> /\ counts = NoCounts /\ reply = None

scope == request.scope

(* The branches that run no job filter: an operator, or an org-wide actor, *)
(* whose private-candidate right nobody attested.                          *)
PrivacyOnly == scope.kind \in {"operator", "all"} /\ ~scope.attested
EveryJobExcept(excluded) == Jobs \ excluded
Permitted == IF scope.kind = "jobs" THEN scope.jobs ELSE EveryJobExcept(scope.excluded)
PrivateCapable ==
    CASE scope.kind = "all" /\ scope.attested                -> EveryJobExcept(scope.excluded)
      [] scope.kind = "operator" /\ "permission" \in failing -> {}
      [] OTHER                                               -> scope.private

(***************************************************************************)
(* What a row is about.                                                    *)
(***************************************************************************)
CandidateTools == {"candidate"}
SubstanceTools == {"application", "stage", "candidateBacked", "note", "attachment",
                   "offer", "applicationBacked", "answer"}

(* The parent a row names, if it can be read.                              *)
Parent(r, c) == IF r.carrier[c] \in Ids /\ c \notin failing
                THEN parents[c][r.carrier[c]] ELSE None
OwnJob(r) == IF r.job \in Jobs THEN {r.job} ELSE {}

Application(i) == parents["application"][i]
ApplicationsOf(c) ==
    {Application(i) : i \in {k \in Ids : Application(k) # None /\ Application(k).candidate = c}}
EmbeddedIn(r) == {Application(i) : i \in r.embedded}
JobsOf(applications) == UNION {OwnJob(a) : a \in applications}

Found(state, c, jobs) == [state |-> state, candidate |-> c, jobs |-> jobs]
Failed == Found("failed", None, {})

(* What the walks of a row's parents come to, with the candidate the row   *)
(* names itself and the jobs on the way.  On a privacy-only branch a       *)
(* parent that cannot be read leaves the row unresolved, whatever another  *)
(* one says; elsewhere a failed read is an error, and a missing record     *)
(* counts only if nothing else names a candidate.                          *)
Joined(r, walks) ==
    LET named == {w.candidate : w \in {v \in walks : v.state = "resolved"}}
                   \cup ({r.candidate} \ {None})
        broken == \E w \in walks : w.state = "unresolved"
        jobs == OwnJob(r) \cup UNION {w.jobs : w \in walks}
    IN IF ~PrivacyOnly /\ (Named(r) \cap failing # {} \/ Failed \in walks) THEN Failed
       ELSE IF (\E c, d \in named : c # d) \/ (broken /\ (PrivacyOnly \/ named = {}))
         THEN Found("unresolved", None, jobs)
       ELSE IF named = {} THEN Found("none", None, jobs)
       ELSE Found("resolved", CHOOSE c \in named : TRUE, jobs)

End(r, state) == IF r.candidate = None THEN Found(state, None, OwnJob(r))
                 ELSE Found("resolved", r.candidate, OwnJob(r))

Met(row) == {row, None} \cup {parents[c][i] : c \in Carriers, i \in Ids}

(* walk[n] follows at most n references.                                   *)
walkRowCandidate(row) ==
    LET walk[n \in 0..Depth] == [r \in Met(row) |->
          IF r = None THEN Found("unresolved", None, {})
          ELSE IF n = 0 THEN End(r, "unresolved")
          ELSE IF Named(r) = {} \/ (r.candidate # None /\ ~PrivacyOnly) THEN End(r, "none")
          ELSE Joined(r, {walk[n - 1][Parent(r, c)] : c \in Named(r)})]
    IN walk[Depth][row]

(* Carriers that lead to different jobs leave the job unknown.             *)
resolveRowCandidate(r) ==
    LET w == walkRowCandidate(r)
    IN IF PrivacyOnly /\ (\E i, j \in w.jobs : i # j) THEN Found("unresolved", None, {}) ELSE w

(***************************************************************************)
(* Privacy.                                                                *)
(***************************************************************************)
(* The endpoint that says on which jobs a row is, if it must be read.      *)
ReadForAccess(r) ==
    IF PrivateCapable = {} \/ r.job # None THEN {}
    ELSE IF r.carrier["application"] \in Ids THEN {"application"}
    ELSE IF r.embedded # None THEN {} ELSE {"candidateApplications"}

(* Does the actor hold the Private role on the row's job?  Its job is the  *)
(* one on the way to its candidate, its own, its application's, or any of  *)
(* the candidate's c.                                                      *)
actorHoldsPrivateAccessToRow(r, c, via) ==
    LET on == IF via # {} THEN via
              ELSE IF r.job # None THEN OwnJob(r)
              ELSE IF ReadForAccess(r) \cap failing # {} THEN {}
              ELSE IF r.carrier["application"] \in Ids
                THEN JobsOf({Parent(r, "application")} \ {None})
              ELSE IF r.embedded # None THEN JobsOf(EmbeddedIn(r))
              ELSE JobsOf(ApplicationsOf(c))
    IN on \cap PrivateCapable # {}

(* The privacy of a row of candidate c, in a row filter.                   *)
privateCandidateDecision(r, c) ==
    IF c = None THEN "permitted"
    ELSE IF "candidates" \in failing THEN "failed"
    ELSE IF c \notin PrivateOnes THEN "permitted"
    ELSE IF ReadForAccess(r) \cap failing # {} THEN "failed"
    ELSE IF actorHoldsPrivateAccessToRow(r, c, {}) THEN "permitted" ELSE "privacy"

(***************************************************************************)
(* The row filters, and the policies that take their place.                *)
(***************************************************************************)
OnJobs(jobs) ==
    IF jobs = {} THEN "missing" ELSE IF jobs \cap Permitted # {} THEN "permitted" ELSE "not_permitted"

\* A candidate is on none of the jobs also where those of all its applications
\* are unknown.
OnApplications(applications) ==
    IF applications = {} THEN "missing"
    ELSE IF JobsOf(applications) \cap Permitted # {} THEN "permitted" ELSE "not_permitted"

Both(first, second) == IF first = "permitted" THEN second ELSE first

(* Through(r, c, D): D of the parent a row names.                          *)
Through(r, c, Decide(_)) ==
    IF r.carrier[c] \notin Ids THEN "missing"
    ELSE IF c \in failing THEN "failed"
    ELSE IF Parent(r, c) = None THEN "missing"
    ELSE Decide(Parent(r, c))

filterApplicationBackedRow(r) ==
    LET decide(a) == Both(OnJobs(OwnJob(a)),
                          IF a.candidate = None THEN "privacy"
                          ELSE privateCandidateDecision(a, a.candidate))
    IN IF r.public THEN Through(r, "application", decide) ELSE "not_permitted"

filterCandidateBackedRow(r) ==
    IF r.candidate = None THEN "missing"
    ELSE Both(privateCandidateDecision(r, r.candidate),
              IF "candidateApplications" \in failing THEN "failed"
              ELSE OnApplications(ApplicationsOf(r.candidate)))

filterAttachmentRow(r) ==
    LET decide(a) == Both(privateCandidateDecision(a, IF r.candidate # None THEN r.candidate
                                                      ELSE a.candidate),
                          OnJobs(OwnJob(a)))
    IN IF r.carrier["application"] # None THEN Through(r, "application", decide)
       ELSE filterCandidateBackedRow(r)

filterInterviewRow(r) ==
    IF r.carrier["application"] # None
      THEN Both(filterApplicationBackedRow(r),
                IF r.job # None THEN OnJobs(OwnJob(r)) ELSE "permitted")
      ELSE OnJobs(OwnJob(r))

filterCandidateRow(r) ==
    Both(IF r.self \notin PrivateOnes THEN "permitted"
         ELSE IF ReadForAccess(r) \cap failing # {} THEN "failed"
         ELSE IF actorHoldsPrivateAccessToRow(r, r.self, {}) THEN "permitted" ELSE "privacy",
         IF r.embedded # None THEN OnApplications(EmbeddedIn(r))
         ELSE IF "candidateApplications" \in failing THEN "failed"
         ELSE OnApplications(ApplicationsOf(r.self)))

applyScopePolicy(r) ==
    LET decide(a) == OnJobs(OwnJob(a))
    IN IF r.public THEN Through(r, "application", decide) ELSE "not_permitted"

(* What the job filter of the page's tool makes of a row.                  *)
Filter(r) ==
    CASE page.tool \in {"job", "application"} -> OnJobs(OwnJob(r))
      [] page.tool = "stage"             -> applyScopePolicy(r)
      [] page.tool = "candidate"         -> filterCandidateRow(r)
      [] page.tool = "candidateBacked"   -> filterCandidateBackedRow(r)
      [] page.tool = "attachment"        -> filterAttachmentRow(r)
      [] page.tool = "note"              -> IF r.public THEN filterAttachmentRow(r)
                                            ELSE "not_permitted"
      [] page.tool = "offer"             -> Both(OnJobs(OwnJob(r)),
                                                 IF r.candidate = None THEN "privacy"
                                                 ELSE privateCandidateDecision(r, r.candidate))
      [] page.tool = "applicationBacked" -> filterApplicationBackedRow(r)
      [] page.tool = "interview"         -> filterInterviewRow(r)
      [] page.tool = "interviewer"       -> Through(r, "interview", filterInterviewRow)
      [] page.tool = "answer"            -> Through(r, "scorecard", filterApplicationBackedRow)
      [] OTHER                           -> "permitted"

(***************************************************************************)
(* The exclusion of confidential jobs on the branch without a job filter:  *)
(* a row on no job is kept, one whose job cannot be read is not.           *)
(***************************************************************************)
resolveRowJobIds(r) ==
    LET known(jobs) == [state |-> IF jobs = {} THEN "unresolved" ELSE "resolved", jobs |-> jobs]
        unless(none, jobs) == IF none THEN [state |-> "none", jobs |-> {}] ELSE known(jobs)
        found == IF page.tool \in CandidateTools THEN Found("resolved", r.self, {})
                 ELSE resolveRowCandidate(r)
    IN IF page.tool = "job" \/ r.job # None THEN known(OwnJob(r))
       ELSE IF r.carrier["application"] \in Ids
         THEN known(JobsOf({Parent(r, "application")} \ {None}))
       ELSE IF r.embedded # None THEN unless(r.embedded = {}, JobsOf(EmbeddedIn(r)))
       ELSE IF found.state = "unresolved" THEN known({})
       ELSE IF found.jobs # {} THEN known(found.jobs)
       ELSE IF found.state = "none" THEN unless(TRUE, {})
       ELSE IF "candidateApplications" \in failing THEN known({})
       ELSE LET jobs == JobsOf(ApplicationsOf(found.candidate)) IN unless(jobs = {}, jobs)

excludeConfidentialJobRow(r) ==
    LET on == resolveRowJobIds(r)
    IN CASE on.state = "none"       -> "permitted"
         [] on.state = "unresolved" -> "failed"
         [] OTHER -> IF on.jobs \cap Permitted # {} THEN "permitted" ELSE "not_permitted"

(* Applications embedded in a kept row go if their job is not permitted.   *)
Pruned(r) ==
    IF r.embedded = None THEN r
    ELSE [r EXCEPT !.embedded = {i \in @ : OwnJob(Application(i)) \cap Permitted # {}}]

(***************************************************************************)
(* The gate, for the rows that scoping kept.                               *)
(***************************************************************************)
applyCandidatePrivacyGate(r) ==
    LET found == resolveRowCandidate(r)
    IN IF page.tool \in CandidateTools
         THEN r.self \notin PrivateOnes \/ actorHoldsPrivateAccessToRow(r, r.self, {})
       ELSE CASE found.state = "none"     -> page.tool \notin SubstanceTools
              [] found.state = "resolved" ->
                   \/ found.candidate \notin PrivateOnes /\ "candidates" \notin failing
                   \/ /\ PrivacyOnly \/ "candidates" \notin failing
                      /\ actorHoldsPrivateAccessToRow(r, found.candidate, found.jobs)
              [] OTHER -> FALSE

(***************************************************************************)
(* The read.                                                               *)
(***************************************************************************)
Deny(code) ==
    /\ reply' = [code |-> code] /\ pc' = "done"
    /\ UNCHANGED <<inputs, kept, counts>>

(* Only an operator may act as another user.                               *)
DenyActor ==
    /\ pc = "start" /\ request.impostor
    /\ Deny("ACTOR_DENIED")

PermissionLookupFails ==
    /\ pc = "start" /\ ~request.impostor
    /\ scope.kind # "operator" /\ "permission" \in failing
    /\ Deny("PERMISSION_LOOKUP_FAILED")

(* The page has been fetched.  An operator's is returned raw once his      *)
(* right is attested; a lookup that fails leaves it unattested.            *)
ExecuteAsOperator ==
    /\ pc = "start" /\ ~request.impostor /\ scope.kind = "operator"
    /\ pc' = IF scope.attested THEN "reply" ELSE "exclude"
    /\ kept' = page.rows
    /\ UNCHANGED <<inputs, counts, reply>>

(* So is that of an attested actor who has every job; an unattested one's  *)
(* goes by the branch that withholds private rows only.                    *)
ExecuteAsActor ==
    /\ pc = "start" /\ ~request.impostor /\ scope.kind # "operator"
    /\ "permission" \notin failing
    /\ pc' = IF PrivacyOnly THEN "exclude"
             ELSE IF scope.kind = "all" /\ scope.excluded = {} THEN "reply" ELSE "filter"
    /\ kept' = page.rows
    /\ UNCHANGED <<inputs, counts, reply>>

(* The rows are decided one by one, and counted by what was decided.       *)
Keep(verdict, shown) ==
    LET among(outcomes) == Cardinality({i \in DOMAIN kept : verdict[i] \in outcomes})
    IN /\ kept' = [i \in {k \in DOMAIN kept : verdict[k] = "permitted"} |-> shown[i]]
       /\ counts' = [notPermitted |-> counts.notPermitted + among({"not_permitted", "privacy"}),
                     unresolved |-> counts.unresolved + among({"missing", "failed"}),
                     privacy |-> counts.privacy + among({"privacy"})]

excludeConfidentialJobRows ==
    /\ pc = "exclude"
    /\ IF scope.excluded = {} THEN UNCHANGED <<kept, counts>>
       ELSE Keep([i \in DOMAIN kept |-> excludeConfidentialJobRow(kept[i])],
                 [i \in DOMAIN kept |-> Pruned(kept[i])])
    /\ pc' = "gate"
    /\ UNCHANGED <<inputs, reply>>

FilterPage ==
    /\ pc = "filter"
    /\ \A i \in DOMAIN kept : Filter(kept[i]) # "failed"
    /\ Keep([i \in DOMAIN kept |-> Filter(kept[i])],
            [i \in DOMAIN kept |-> IF page.tool \in CandidateTools THEN Pruned(kept[i]) ELSE kept[i]])
    /\ pc' = "gate"
    /\ UNCHANGED <<inputs, reply>>

(* A PermissionJoinError of one row denies the page.                       *)
JoinFails ==
    /\ pc = "filter"
    /\ \E i \in DOMAIN kept : Filter(kept[i]) = "failed"
    /\ Deny("PERMISSION_JOIN_FAILED")

Gate ==
    /\ pc = "gate"
    /\ Keep([i \in DOMAIN kept |->
                IF applyCandidatePrivacyGate(kept[i]) THEN "permitted" ELSE "privacy"], kept)
    /\ pc' = "reply"
    /\ UNCHANGED <<inputs, reply>>

(* A single record that privacy withheld is reported like one that does    *)
(* not exist.                                                              *)
Suppressed == page.single /\ Len(page.rows) > 0 /\ counts.privacy > 0 /\ counts.unresolved = 0

Send(scoped, withheld, numbers) ==
    /\ pc = "reply"
    /\ reply' = [code |-> "ok", rows |-> kept, returned |-> Cardinality(DOMAIN kept),
                 scoped |-> scoped,
                 permissionScope |-> [kind |-> scope.kind, withheld |-> withheld],
                 raw |-> numbers.raw, excluded |-> numbers.excluded,
                 unresolved |-> numbers.unresolved, complete |-> numbers.unresolved = 0,
                 privacyWithheld |-> numbers.privacyWithheld]
    /\ pc' = "done"
    /\ UNCHANGED <<inputs, kept, counts>>

Unscoped == scope.kind # "jobs" /\ scope.attested /\ scope.excluded = {}

(* A raw page: every row of it is returned, and counted so.                *)
unscopedRowCounts ==
    [raw |-> Cardinality(DOMAIN kept), excluded |-> 0, unresolved |-> 0, privacyWithheld |-> 0]

ReplyUnscoped == Unscoped /\ Send(FALSE, FALSE, unscopedRowCounts)

rowCounts ==
    [raw |-> IF Suppressed THEN 0 ELSE Len(page.rows),
     excluded |-> IF Suppressed THEN 0 ELSE counts.notPermitted,
     unresolved |-> counts.unresolved,
     privacyWithheld |-> IF Suppressed THEN 0 ELSE counts.privacy]

(* An operator's page stays marked as not scoped, though private rows may  *)
(* have been taken out of it; what his scope was says so.                  *)
withholdUnattestedPrivateCandidates ==
    PrivacyOnly /\ Send(scope.kind = "all", TRUE, rowCounts)

ReplyScoped == ~PrivacyOnly /\ ~Unscoped /\ Send(TRUE, FALSE, rowCounts)

Next ==
    \/ DenyActor \/ PermissionLookupFails \/ ExecuteAsOperator \/ ExecuteAsActor
    \/ excludeConfidentialJobRows \/ FilterPage \/ JoinFails
    \/ Gate \/ ReplyUnscoped \/ withholdUnattestedPrivateCandidates \/ ReplyScoped

Spec == Init /\ [][Next]_vars

(***************************************************************************)
(* What is true of a row, whatever can be read: the candidates and the     *)
(* jobs that its references lead to.                                       *)
(***************************************************************************)
Reached(row) ==
    LET reach[n \in 0..Depth] == [r \in Met(row) \ {None} |->
          {r} \cup IF n = 0 THEN {} ELSE
                   UNION {reach[n - 1][p] : p \in {parents[c][r.carrier[c]] : c \in Named(r)} \ {None}}]
    IN reach[Depth][row]

(* Does every reference on the way lead to a record, and every job to one? *)
Intact(row) ==
    /\ \A r \in Reached(row), c \in Carriers :
          r.carrier[c] \in Ids => parents[c][r.carrier[c]] # None
    /\ \A r \in Reached(row) \cup (IF row.embedded = None THEN {} ELSE EmbeddedIn(row)) :
          r.job # Bad

CandidatesOf(row) == ({r.candidate : r \in Reached(row)} \cup {row.self}) \ {None}

(* The jobs on the way, or else those of the embedded or of all            *)
(* applications of the candidates.                                         *)
JobsReached(row) ==
    LET onTheWay == JobsOf(Reached(row))
    IN IF onTheWay # {} THEN onTheWay
       ELSE IF row.embedded # None THEN JobsOf(EmbeddedIn(row))
       ELSE JobsOf(UNION {ApplicationsOf(c) : c \in CandidatesOf(row)})

Answered == reply # None /\ reply.code = "ok"

(***************************************************************************)
(* Properties.                                                             *)
(***************************************************************************)
TypeOK ==
    /\ pc \in {"start", "exclude", "filter", "gate", "reply", "done"}
    /\ page.tool \in Tools /\ failing \subseteq Endpoints
    /\ \A i \in DOMAIN kept : kept[i] \in Records
    /\ counts \in [{"notPermitted", "unresolved", "privacy"} -> 0..Len(page.rows)]
    /\ reply = None \/ reply.code \in {"ok", "ACTOR_DENIED", "PERMISSION_LOOKUP_FAILED",
                                       "PERMISSION_JOIN_FAILED"}

(* A row that leads to a private candidate, by whichever of its references *)
(* and through however many records, is returned only to an actor who is   *)
(* attested or holds the Private role on one of the jobs it leads to, for  *)
(* rows of the shapes WellFormed admits, whatever endpoint fails.          *)
PrivateRowsNeedARight ==
    Answered /\ ~scope.attested =>
        \A i \in DOMAIN reply.rows :
            LET r == reply.rows[i]
            IN PrivacyOnly \/ (\E c \in Candidates : CandidatesOf(r) = {c}) =>
               CandidatesOf(r) \cap PrivateOnes = {} \/ JobsReached(r) \cap scope.private # {}

(* No row comes back all of whose jobs are closed to the actor, by lack of *)
(* a permission or because they are confidential; and no embedded          *)
(* application does.                                                       *)
ClosedJobsStayClosed ==
    Answered /\ page.tool # "reference" =>
        \A i \in DOMAIN reply.rows :
            LET r == reply.rows[i]
            IN /\ JobsReached(r) = {} \/ JobsReached(r) \cap Permitted # {}
               /\ r.embedded # None /\ (scope.kind = "jobs" \/ scope.excluded # {})
                  => JobsOf(EmbeddedIn(r)) \subseteq Permitted

(* An actor whose right is merely not attested is never denied a page, and *)
(* a row that no confidential job and no private candidate has to do with  *)
(* reaches him if everything it refers to could be read.                   *)
UnattestedLosesOnlyPrivateRows ==
    reply # None /\ PrivacyOnly /\ ~request.impostor =>
        /\ reply.code # "PERMISSION_JOIN_FAILED"
        /\ Answered /\ failing = {} =>
             \A i \in 1..Len(page.rows) :
                LET r == page.rows[i]
                IN /\ Intact(r) /\ CandidatesOf(r) \cap PrivateOnes = {}
                   /\ \E c \in Candidates : CandidatesOf(r) = {c}
                   /\ \A j, k \in JobsOf(Reached(r)) : j = k
                   /\ JobsReached(r) \cap scope.excluded = {}
                   => \E k \in DOMAIN reply.rows : reply.rows[k] = r

(* Every row of the page is in exactly one of the counts of the reply; and *)
(* one that says neither that rows were filtered nor that private ones     *)
(* were withheld is the page, untouched.                                   *)
RowsAreAccountedFor ==
    Answered =>
        /\ ~Suppressed => reply.raw = reply.returned + reply.excluded + reply.unresolved
        /\ ~reply.scoped /\ ~reply.permissionScope.withheld => reply.rows = page.rows

(* The reply to a read of one record that only privacy withholds is the    *)
(* reply to a read of a record that does not exist.                        *)
WithheldLooksAbsent ==
    Answered /\ page.single /\ reply.rows = <<>> /\ counts.privacy > 0 =>
        reply = [code |-> "ok", rows |-> <<>>, returned |-> 0, scoped |-> reply.scoped,
                 permissionScope |-> reply.permissionScope, raw |-> 0, excluded |-> 0,
                 unresolved |-> 0, complete |-> TRUE, privacyWithheld |-> 0]

-----------------------------------------------------------------------------
(***************************************************************************)
(* The proofs.  What a walk over the parents finds is a function of the    *)
(* hops it has left, given at each number by its value at the one before;  *)
(* LeastNatural and UpTo are what is known of every number of them.        *)
(***************************************************************************)

(* A set of naturals that is not empty has a least element.                *)
LEMMA LeastNatural ==
    ASSUME NEW T \in SUBSET Nat, T # {}
    PROVE  \E m \in T : \A k \in T : m <= k
<1> DEFINE R == {ss \in Nat \X Nat : ss[1] < ss[2]}
<1>1. IsWellFoundedOn(R, Nat)
  BY NatLessThanWellFounded DEF OpToRel
<1>2. \E m \in T : \A k \in T : ~(<<k, m>> \in R)
  <2> HIDE DEF R
  <2> QED
    BY <1>1, WFMin
<1>3. PICK m \in T : \A k \in T : ~(<<k, m>> \in R)
  BY <1>2
<1>4. \A k \in T : ~(k < m)
  BY <1>3
<1> QED
  BY <1>4

(* What holds of 0 and of each number after one of which it holds is true  *)
(* of all numbers up to n.                                                 *)
LEMMA UpTo ==
    ASSUME NEW n \in Nat, NEW S, 0 \in S, \A k \in 1..n : k - 1 \in S => k \in S
    PROVE  0..n \subseteq S
<1> DEFINE T == {k \in 0..n : k \notin S}
<1> SUFFICES ASSUME T # {} PROVE FALSE
  OBVIOUS
<1>1. PICK m \in T : \A k \in T : m <= k
  <2>1. T \in SUBSET Nat
    OBVIOUS
  <2> HIDE DEF T
  <2> QED
    BY <2>1, LeastNatural
<1> QED
  BY <1>1

(* A function on 0..n that is given at 0, and at each number by its value  *)
(* at the one before.                                                      *)
Recurs(f, N, V, first, G) ==
    f \in [0..N -> V] /\ f[0] = first /\ \A n \in 1..N : f[n] = G[f[n - 1]]

LEMMA Recursion ==
    ASSUME NEW N \in Nat, NEW V, NEW first \in V, NEW G \in [V -> V]
    PROVE  \E f : Recurs(f, N, V, first, G)
<1> DEFINE Is(f, k) == f \in [0..k -> V] /\ f[0] = first /\ \A n \in 1..k : f[n] = G[f[n - 1]]
           S == {k \in 0..N : \E f : Is(f, k)}
<1>1. 0 \in S
  <2>1. Is([n \in 0..0 |-> first], 0)
    OBVIOUS
  <2>2. \E f : Is(f, 0)
    <3> HIDE DEF Is
    <3> QED
      BY <2>1
  <2> QED
    BY <2>2
<1>2. ASSUME NEW k \in 1..N, k - 1 \in S PROVE k \in S
  <2>1. PICK f : Is(f, k - 1)
    BY <1>2
  <2> DEFINE h == [n \in 0..k |-> IF n = k THEN G[f[k - 1]] ELSE f[n]]
  <2>2. \A n \in 0..k - 1 : h[n] = f[n] /\ f[n] \in V
    BY <2>1
  <2>3. h[k] = G[h[k - 1]] /\ h[k] \in V
    BY <2>1, <2>2
  <2>4. h \in [0..k -> V]
    <3> HIDE DEF h
    <3>1. \A n \in 0..k : h[n] \in V
      BY <2>2, <2>3
    <3>2. h = [n \in 0..k |-> h[n]]
      BY DEF h
    <3> QED
      BY <3>1, <3>2
  <2>5. \A n \in 1..k : h[n] = G[h[n - 1]]
    <3>1. \A n \in 1..k - 1 : h[n] = G[h[n - 1]]
      BY <2>1, <2>2
    <3> HIDE DEF h
    <3> QED
      BY <2>3, <3>1
  <2>6. h[0] = first
    BY <2>1, <2>2
  <2>7. Is(h, k)
    <3> HIDE DEF h
    <3> QED
      BY <2>4, <2>5, <2>6
  <2>8. \E i : Is(i, k)
    <3> HIDE DEF h, Is
    <3> QED
      BY <2>7
  <2>9. k \in 0..N
    OBVIOUS
  <2> HIDE DEF h, Is
  <2> QED
    BY <2>8, <2>9
<1>3. N \in S
  <2> HIDE DEF S
  <2>1. 0..N \subseteq S
    BY <1>1, <1>2, UpTo
  <2> QED
    BY <2>1
<1>4. PICK f : Is(f, N)
  BY <1>3
<1>5. Recurs(f, N, V, first, G)
  BY <1>4 DEF Recurs
<1> QED
  BY <1>5

(***************************************************************************)
(* Walks.                                                                  *)
(***************************************************************************)
Walks == [state : {"resolved", "none", "unresolved", "failed"},
          candidate : Candidates \cup {None}, jobs : SUBSET Jobs]
Nobody == Found("unresolved", None, {})
Stops(r) == Named(r) = {} \/ (r.candidate # None /\ ~PrivacyOnly)

(* What the walk has from where it takes no reference, and from where it   *)
(* takes some, by the walks w of the parents.                              *)
WhereItStops(r) == IF r = None THEN Nobody ELSE End(r, "unresolved")
Further(r, w) == IF r = None THEN Nobody
                 ELSE IF Stops(r) THEN End(r, "none")
                 ELSE Joined(r, {w[Parent(r, c)] : c \in Named(r)})

LEMMA WorldValues ==
    ASSUME WorldAssumption
    PROVE  /\ None \notin Records /\ None # Bad
           /\ None \notin Jobs \cup Candidates \cup Ids /\ Bad \notin Jobs \cup Candidates \cup Ids
           /\ Depth = 4
           /\ \A c \in Carriers, i \in Ids :
                 parents[c][i] = None \/ parents[c][i] \in Records
  BY DEF WorldAssumption, Depth

(* What is read on the way from a row.                                     *)
LEMMA MetValues ==
    ASSUME WorldAssumption, NEW row \in Records
    PROVE  /\ Met(row) \ {None} \subseteq Records
           /\ None \in Met(row) /\ row \in Met(row)
           /\ \A r \in Met(row) \ {None} : \A c \in Named(r) :
                 Parent(r, c) \in Met(row) /\ parents[c][r.carrier[c]] \in Met(row)
<1>1. Met(row) \ {None} \subseteq Records
  BY WorldValues DEF Met
<1>2. \A r, c : c \in Named(r) => r.carrier[c] \in Ids /\ c \in Carriers
  BY DEF Named
<1> QED
  BY <1>1, <1>2 DEF Met, Parent

LEMMA OwnJobValues ==
    ASSUME NEW r
    PROVE  OwnJob(r) \subseteq Jobs /\ \A i, j \in OwnJob(r) : i = j
  BY DEF OwnJob

LEMMA WalkTypes ==
    ASSUME WorldAssumption, NEW row \in Records, NEW r \in Met(row)
    PROVE  /\ WhereItStops(r) \in Walks
           /\ \A w \in [Met(row) -> Walks] : Further(r, w) \in Walks
<1>1. Nobody \in Walks
  BY DEF Nobody, Walks, Found
<1>2. ASSUME r # None, NEW s \in {"none", "unresolved"} PROVE End(r, s) \in Walks
  <2>1. r.candidate \in Candidates \cup {None}
    BY <1>2, MetValues DEF Records
  <2> QED
    BY <1>2, <2>1, OwnJobValues DEF End, Found, Walks
<1>3. ASSUME r # None, NEW w \in [Met(row) -> Walks]
      PROVE  Joined(r, {w[Parent(r, c)] : c \in Named(r)}) \in Walks
  <2> DEFINE all == {w[Parent(r, c)] : c \in Named(r)}
  <2>1. all \subseteq Walks /\ r.candidate \in Candidates \cup {None}
    BY <1>3, MetValues DEF Records
  <2> HIDE DEF all
  <2> DEFINE named == {v.candidate : v \in {u \in all : u.state = "resolved"}} \cup ({r.candidate} \ {None})
             jobs == OwnJob(r) \cup UNION {v.jobs : v \in all}
  <2>2. named \subseteq Candidates \cup {None} /\ jobs \subseteq Jobs
    BY <2>1, OwnJobValues DEF Walks
  <2>3. named # {} => (CHOOSE c \in named : TRUE) \in Candidates \cup {None}
    <3> HIDE DEF named
    <3> QED
      BY <2>2
  <2>4. Joined(r, all) \in {Failed, Found("unresolved", None, jobs), Found("none", None, jobs)}
        \/ (named # {} /\ Joined(r, all) = Found("resolved", CHOOSE c \in named : TRUE, jobs))
    BY DEF Joined
  <2> HIDE DEF named, jobs
  <2>5. Joined(r, all) \in Walks
    BY <2>2, <2>3, <2>4 DEF Failed, Found, Walks
  <2> QED
    BY <2>5 DEF all
<1> QED
  BY <1>1, <1>2, <1>3 DEF WhereItStops, Further

(* The walk is what its recursion says.                                    *)
IsWalk(w, row) ==
    /\ w \in [0..Depth -> [Met(row) -> Walks]]
    /\ \A r \in Met(row) : w[0][r] = WhereItStops(r)
    /\ \A n \in 1..Depth, r \in Met(row) : w[n][r] = Further(r, w[n - 1])

LEMMA WalkStep ==
    ASSUME WorldAssumption, NEW row \in Records
    PROVE  \E w : IsWalk(w, row) /\ walkRowCandidate(row) = w[Depth][row]
<1> DEFINE D == Met(row)
           Levels == [D -> Walks]
           here == [r \in D |-> WhereItStops(r)]
           Go == [w \in Levels |-> [r \in D |-> Further(r, w)]]
           Defined(w) == w = [n \in 0..Depth |-> [r \in D |->
              IF r = None THEN Found("unresolved", None, {})
              ELSE IF n = 0 THEN End(r, "unresolved")
              ELSE IF Named(r) = {} \/ (r.candidate # None /\ ~PrivacyOnly)
                THEN End(r, "none")
              ELSE Joined(r, {w[n - 1][Parent(r, c)] : c \in Named(r)})]]
<1>1. Depth \in Nat
  BY DEF Depth
<1>2. here \in Levels /\ Go \in [Levels -> Levels]
  BY WalkTypes
<1>3. PICK f : Recurs(f, Depth, Levels, here, Go)
  <2> HIDE DEF here, Go, Levels
  <2> QED
    BY <1>1, <1>2, Recursion
<1>4. Defined(f)
  <2> DEFINE e(n) == [r \in D |->
              IF r = None THEN Found("unresolved", None, {})
              ELSE IF n = 0 THEN End(r, "unresolved")
              ELSE IF Named(r) = {} \/ (r.candidate # None /\ ~PrivacyOnly)
                THEN End(r, "none")
              ELSE Joined(r, {f[n - 1][Parent(r, c)] : c \in Named(r)})]
  <2>1. f[0] = e(0)
    BY <1>3 DEF Recurs, WhereItStops, Stops, Nobody
  <2>2. \A n \in 1..Depth : f[n] = e(n)
    <3> SUFFICES ASSUME NEW n \in 1..Depth PROVE f[n] = e(n)
      OBVIOUS
    <3>1. f[n - 1] \in Levels /\ n # 0 /\ f[n] = Go[f[n - 1]]
      <4> HIDE DEF here, Go, Levels
      <4> QED
        BY <1>1, <1>3 DEF Recurs
    <3>2. f[n] = [r \in D |-> Further(r, f[n - 1])]
      BY <3>1
    <3> QED
      BY <3>1, <3>2 DEF Further, Stops, Nobody
  <2>3. \A n \in 0..Depth : f[n] = e(n)
    <3> HIDE DEF e
    <3> QED
      BY <1>1, <2>1, <2>2
  <2>4. f = [n \in 0..Depth |-> f[n]]
    BY <1>3 DEF Recurs
  <2> HIDE DEF D, Levels, here, Go
  <2> QED
    BY <2>3, <2>4
<1> DEFINE w == CHOOSE w : Defined(w)
<1>5. Defined(w)
  <2> HIDE DEF Defined
  <2> QED
    BY <1>4
<1>6. walkRowCandidate(row) = w[Depth][row]
  BY DEF walkRowCandidate
<1> HIDE DEF w
<1>7. ASSUME NEW n \in 1..Depth PROVE w[n] = [r \in D |-> Further(r, w[n - 1])]
  <2>1. n # 0 /\ n \in 0..Depth
    BY <1>1
  <2>2. w[n] = [r \in D |->
              IF r = None THEN Found("unresolved", None, {})
              ELSE IF n = 0 THEN End(r, "unresolved")
              ELSE IF Named(r) = {} \/ (r.candidate # None /\ ~PrivacyOnly)
                THEN End(r, "none")
              ELSE Joined(r, {w[n - 1][Parent(r, c)] : c \in Named(r)})]
    BY <1>5, <2>1
  <2> QED
    BY <2>1, <2>2 DEF Further, Stops, Nobody
<1>8. w[0] = here
  BY <1>1, <1>5 DEF WhereItStops, Stops, Nobody
<1>9. \A n \in 0..Depth : w[n] \in Levels
  <2> DEFINE S == {n \in 0..Depth : w[n] \in Levels}
  <2>1. ASSUME NEW n \in 1..Depth, n - 1 \in S PROVE n \in S
    <3>1. n \in 0..Depth /\ w[n - 1] \in [D -> Walks]
      BY <1>1, <2>1
    <3>2. \A r \in D : Further(r, w[n - 1]) \in Walks
      BY <3>1, WalkTypes
    <3>3. [r \in D |-> Further(r, w[n - 1])] \in Levels
      BY <3>2
    <3> QED
      BY <1>7, <3>1, <3>3
  <2>2. 0 \in S
    BY <1>1, <1>2, <1>8
  <2> HIDE DEF S
  <2>3. 0..Depth \subseteq S
    BY <1>1, <2>1, <2>2, UpTo
  <2> QED
    BY <2>3 DEF S
<1>10. IsWalk(w, row)
  <2>1. w = [n \in 0..Depth |-> w[n]]
    BY <1>5
  <2>2. w \in [0..Depth -> Levels]
    BY <1>9, <2>1
  <2> QED
    BY <1>7, <1>8, <2>2 DEF IsWalk
<1> QED
  BY <1>6, <1>10

(* What a row refers to, by what its parents refer to.                     *)
ParentsOf(r) == {parents[c][r.carrier[c]] : c \in Named(r)} \ {None}
Wider(r, f) == {r} \cup UNION {f[p] : p \in ParentsOf(r)}

IsReach(f, row) ==
    /\ f \in [0..Depth -> [Met(row) \ {None} -> SUBSET Records]]
    /\ \A r \in Met(row) \ {None} : f[0][r] = {r}
    /\ \A n \in 1..Depth, r \in Met(row) \ {None} : f[n][r] = Wider(r, f[n - 1])

LEMMA ReachStep ==
    ASSUME WorldAssumption, NEW row \in Records
    PROVE  \E f : IsReach(f, row) /\ Reached(row) = f[Depth][row]
<1> DEFINE D == Met(row) \ {None}
           Levels == [D -> SUBSET Records]
           here == [r \in D |-> {r}]
           Go == [f \in Levels |-> [r \in D |-> Wider(r, f)]]
           Defined(w) == w = [n \in 0..Depth |-> [r \in D |->
               {r} \cup IF n = 0 THEN {} ELSE
                   UNION {w[n - 1][p] : p \in {parents[c][r.carrier[c]] : c \in Named(r)} \ {None}}]]
<1>1. Depth \in Nat
  BY DEF Depth
<1>2. D \subseteq Records /\ \A r \in D : ParentsOf(r) \subseteq D
  BY MetValues DEF ParentsOf
<1>3. \A f \in Levels, r \in D : Wider(r, f) \in SUBSET Records
  BY <1>2 DEF Wider
<1>4. here \in Levels /\ Go \in [Levels -> Levels]
  BY <1>2, <1>3
<1>5. PICK f : Recurs(f, Depth, Levels, here, Go)
  <2> HIDE DEF here, Go, Levels
  <2> QED
    BY <1>1, <1>4, Recursion
<1>6. Defined(f)
  <2> DEFINE e(n) == [r \in D |-> {r} \cup IF n = 0 THEN {} ELSE
                   UNION {f[n - 1][p] : p \in {parents[c][r.carrier[c]] : c \in Named(r)} \ {None}}]
  <2>1. f[0] = e(0)
    BY <1>5 DEF Recurs
  <2>2. \A n \in 1..Depth : f[n] = e(n)
    <3> SUFFICES ASSUME NEW n \in 1..Depth PROVE f[n] = e(n)
      OBVIOUS
    <3>1. f[n - 1] \in Levels /\ n # 0 /\ f[n] = Go[f[n - 1]]
      <4> HIDE DEF here, Go, Levels
      <4> QED
        BY <1>1, <1>5 DEF Recurs
    <3>2. f[n] = [r \in D |-> Wider(r, f[n - 1])]
      BY <3>1
    <3> QED
      BY <3>1, <3>2 DEF Wider, ParentsOf
  <2>3. \A n \in 0..Depth : f[n] = e(n)
    <3> HIDE DEF e
    <3> QED
      BY <1>1, <2>1, <2>2
  <2>4. f = [n \in 0..Depth |-> f[n]]
    BY <1>5 DEF Recurs
  <2> HIDE DEF D, Levels, here, Go
  <2> QED
    BY <2>3, <2>4
<1> DEFINE w == CHOOSE w : Defined(w)
<1>7. Defined(w)
  <2> HIDE DEF Defined
  <2> QED
    BY <1>6
<1>8. Reached(row) = w[Depth][row]
  BY DEF Reached
<1> HIDE DEF w
<1>9. ASSUME NEW n \in 1..Depth PROVE w[n] = [r \in D |-> Wider(r, w[n - 1])]
  <2>1. n # 0 /\ n \in 0..Depth
    BY <1>1
  <2>2. w[n] = [r \in D |-> {r} \cup IF n = 0 THEN {} ELSE
                   UNION {w[n - 1][p] : p \in {parents[c][r.carrier[c]] : c \in Named(r)} \ {None}}]
    BY <1>7, <2>1
  <2> QED
    BY <2>1, <2>2 DEF Wider, ParentsOf
<1>10. w[0] = here
  BY <1>1, <1>7
<1>11. \A n \in 0..Depth : w[n] \in Levels
  <2> DEFINE S == {n \in 0..Depth : w[n] \in Levels}
  <2>1. ASSUME NEW n \in 1..Depth, n - 1 \in S PROVE n \in S
    <3>1. n \in 0..Depth /\ w[n - 1] \in Levels
      BY <1>1, <2>1
    <3>2. [r \in D |-> Wider(r, w[n - 1])] \in Levels
      BY <1>3, <3>1
    <3> QED
      BY <1>9, <3>1, <3>2
  <2>2. 0 \in S
    BY <1>1, <1>4, <1>10
  <2> HIDE DEF S
  <2>3. 0..Depth \subseteq S
    BY <1>1, <2>1, <2>2, UpTo
  <2> QED
    BY <2>3 DEF S
<1>12. IsReach(w, row)
  <2>1. w = [n \in 0..Depth |-> w[n]]
    BY <1>7
  <2>2. w \in [0..Depth -> Levels]
    BY <1>11, <2>1
  <2> QED
    BY <1>9, <1>10, <2>2 DEF IsReach
<1> QED
  BY <1>8, <1>12

(* A row's own record and its parents' are among those it leads to.        *)
LEMMA ReachedSelf ==
    ASSUME WorldAssumption, NEW row \in Records
    PROVE  /\ row \in Reached(row) /\ Reached(row) \subseteq Records
           /\ ParentsOf(row) \subseteq Reached(row)
           /\ \A p \in ParentsOf(row) : ParentsOf(p) \subseteq Reached(row)
           /\ Named(row) = {} => Reached(row) = {row}
<1> DEFINE D == Met(row) \ {None}
<1>1. PICK f : IsReach(f, row) /\ Reached(row) = f[4][row]
  BY ReachStep, WorldValues
<1>2. /\ f \in [0..4 -> [D -> SUBSET Records]]
      /\ \A n \in 1..4, r \in D : f[n][r] = Wider(r, f[n - 1])
  BY <1>1, WorldValues DEF IsReach
<1>3. row \in D /\ \A r \in D : ParentsOf(r) \subseteq D
  BY MetValues, WorldValues DEF ParentsOf
<1>4. \A r \in D : f[4][r] = Wider(r, f[3]) /\ f[3][r] = Wider(r, f[2]) /\ f[2][r] = Wider(r, f[1])
  <2>1. 4 \in 1..4 /\ 3 \in 1..4 /\ 2 \in 1..4 /\ 4 - 1 = 3 /\ 3 - 1 = 2 /\ 2 - 1 = 1
    OBVIOUS
  <2> HIDE DEF D
  <2> QED
    BY <1>2, <2>1
<1>5. f[4] \in [D -> SUBSET Records]
  BY <1>2
<1> HIDE DEF D
<1>6. Named(row) = {} => ParentsOf(row) = {}
  BY DEF ParentsOf
<1> QED
  BY <1>1, <1>3, <1>4, <1>5, <1>6 DEF Wider

(***************************************************************************)
(* What a walk w says of the records R that a row leads to.                *)
(***************************************************************************)
NamedIn(R) == {x.candidate : x \in R} \ {None}

Agrees(w, R) ==
    /\ w \in Walks
    /\ w.jobs \subseteq JobsOf(R)
    /\ w.state = "failed" => w = Failed /\ ~PrivacyOnly
    /\ w.state = "resolved" => w.candidate \in NamedIn(R)
    /\ w.state = "none" => NamedIn(R) = {} /\ w.candidate = None
    /\ w.state = "none" \/ (PrivacyOnly /\ w.state = "resolved")
       => NamedIn(R) \subseteq {w.candidate} /\ JobsOf(R) \subseteq w.jobs

(* It has all their jobs where failed reads are errors and no candidate    *)
(* that a record names kept it from going on.                              *)
Covers(w, R) == ~PrivacyOnly /\ w.state # "failed" => JobsOf(R) \subseteq w.jobs
Direct(r) == r.candidate # None => Named(r) = {}

LEMMA JobsInside ==
    ASSUME NEW R, NEW T, R \subseteq T
    PROVE  JobsOf(R) \subseteq JobsOf(T) /\ NamedIn(R) \subseteq NamedIn(T)
  BY DEF JobsOf, NamedIn

LEMMA EndsAgree ==
    ASSUME WorldAssumption, NEW r \in Records, NEW R, r \in R,
           NEW s \in {"none", "unresolved"}, s = "none" => Stops(r),
           R = {r} \/ (r.candidate # None /\ ~PrivacyOnly)
    PROVE  Agrees(End(r, s), R) /\ (R = {r} => Covers(End(r, s), R))
<1>1. r.candidate \in Candidates \cup {None} /\ None \notin Candidates
  BY WorldValues DEF Records
<1>2. OwnJob(r) \subseteq JobsOf(R)
  BY DEF JobsOf
<1>3. R = {r} => JobsOf(R) = OwnJob(r) /\ NamedIn(R) = {r.candidate} \ {None}
  BY DEF JobsOf, NamedIn
<1>4. CASE r.candidate = None
  <2>1. End(r, s) = [state |-> s, candidate |-> None, jobs |-> OwnJob(r)]
    BY <1>4 DEF End, Found
  <2> QED
    BY <1>2, <1>3, <1>4, <2>1, OwnJobValues DEF Agrees, Covers, Walks
<1>5. CASE r.candidate # None
  <2>1. End(r, s) = [state |-> "resolved", candidate |-> r.candidate, jobs |-> OwnJob(r)]
    BY <1>5 DEF End, Found
  <2>2. r.candidate \in NamedIn(R)
    BY <1>5 DEF NamedIn
  <2>3. PrivacyOnly => R = {r}
    OBVIOUS
  <2> QED
    BY <1>1, <1>2, <1>3, <1>5, <2>1, <2>2, <2>3, OwnJobValues DEF Agrees, Covers, Walks
<1> QED
  BY <1>4, <1>5

(* Walks of the parents that agree are joined to one that does.            *)
LEMMA JoinsAgree ==
    ASSUME WorldAssumption, NEW row \in Records,
           NEW r \in Met(row) \ {None}, ~Stops(r),
           NEW w \in [Met(row) -> Walks], w[None] = Nobody,
           NEW f, \A p \in ParentsOf(r) : Agrees(w[p], f[p]) /\ Covers(w[p], f[p])
    PROVE  Agrees(Further(r, w), Wider(r, f)) /\ Covers(Further(r, w), Wider(r, f))
<1> DEFINE all == {w[Parent(r, c)] : c \in Named(r)}
           named == {v.candidate : v \in {u \in all : u.state = "resolved"}} \cup ({r.candidate} \ {None})
           jobs == OwnJob(r) \cup UNION {v.jobs : v \in all}
           broken == \E v \in all : v.state = "unresolved"
           R == Wider(r, f)
           it == Further(r, w)
<1>1. it \in Walks /\ r \in Records /\ r # None
  BY WalkTypes, MetValues
<1>2. it = Joined(r, all)
  BY <1>1 DEF Further
<1>3. r \in R /\ \A p \in ParentsOf(r) : f[p] \subseteq R
  BY DEF Wider
<1>4. \A c \in Named(r) : \/ w[Parent(r, c)] = Nobody
                                 \/ /\ Parent(r, c) \in ParentsOf(r)
                                    /\ Parent(r, c) = parents[c][r.carrier[c]] /\ c \notin failing
  BY DEF Parent, ParentsOf, Named
<1>5. \A v \in all : v = Nobody \/ \E p \in ParentsOf(r) : v = w[p] /\ Agrees(v, f[p])
  BY <1>4
<1>6. jobs \subseteq JobsOf(R)
  <2>1. OwnJob(r) \subseteq JobsOf(R)
    BY <1>3 DEF JobsOf
  <2>2. ASSUME NEW v \in all PROVE v.jobs \subseteq JobsOf(R)
    <3>1. CASE v = Nobody
      BY <3>1 DEF Nobody, Found
    <3>2. ASSUME NEW p \in ParentsOf(r), Agrees(v, f[p]) PROVE v.jobs \subseteq JobsOf(R)
      BY <1>3, <3>2, JobsInside DEF Agrees
    <3> QED
      BY <1>5, <3>1, <3>2
  <2> HIDE DEF all, R
  <2> QED
    BY <2>1, <2>2
<1>7. named \subseteq NamedIn(R)
  <2>1. ASSUME NEW v \in all, v.state = "resolved" PROVE v.candidate \in NamedIn(R)
    <3>1. v # Nobody
      BY <2>1 DEF Nobody, Found
    <3>2. PICK p \in ParentsOf(r) : Agrees(v, f[p])
      BY <1>5, <3>1
    <3> QED
      BY <1>3, <2>1, <3>2, JobsInside DEF Agrees
  <2>2. {r.candidate} \ {None} \subseteq NamedIn(R)
    BY <1>3 DEF NamedIn
  <2> HIDE DEF all, R
  <2> QED
    BY <2>1, <2>2
<1> DEFINE bad == (\E c, d \in named : c # d) \/ (broken /\ (PrivacyOnly \/ named = {}))
           fails == ~PrivacyOnly /\ (Named(r) \cap failing # {} \/ Failed \in all)
<1>8. it = IF fails THEN Failed
           ELSE IF bad THEN Found("unresolved", None, jobs)
           ELSE IF named = {} THEN Found("none", None, jobs)
           ELSE Found("resolved", CHOOSE c \in named : TRUE, jobs)
  BY <1>2 DEF Joined
<1>9. ASSUME ~fails, ~bad, PrivacyOnly \/ named = {}
      PROVE  NamedIn(R) \subseteq named /\ JobsOf(R) \subseteq jobs
  <2>1. ~broken
    BY <1>9
  <2>2. \A v \in all : v.state # "unresolved" /\ v # Nobody
    <3> HIDE DEF all
    <3> QED
      BY <2>1 DEF Nobody, Found
  <2>3. Failed \notin all \/ PrivacyOnly
    BY <1>9
  <2>4. ASSUME NEW v \in all
        PROVE  /\ v.state \in {"none", "resolved"}
               /\ v.state = "resolved" => PrivacyOnly /\ v.candidate \in named
    <3>1. PICK p \in ParentsOf(r) : Agrees(v, f[p])
      BY <1>5, <2>2
    <3>2. v.state # "failed"
      BY <2>3, <3>1 DEF Agrees
    <3>3. v.state = "resolved" => v.candidate \in named
      OBVIOUS
    <3> HIDE DEF all, named
    <3> QED
      BY <1>9, <2>2, <3>1, <3>2, <3>3 DEF Agrees, Walks
  <2>5. ASSUME NEW p \in ParentsOf(r)
        PROVE  NamedIn(f[p]) \subseteq named /\ JobsOf(f[p]) \subseteq jobs
    <3>1. PICK c \in Named(r) : p = parents[c][r.carrier[c]] /\ p # None
      BY DEF ParentsOf
    <3>2. w[Parent(r, c)] \in all
      OBVIOUS
    <3>3. Parent(r, c) = p /\ w[p] \in all
      BY <1>4, <2>2, <3>1, <3>2
    <3>4. Agrees(w[p], f[p]) /\ w[p].jobs \subseteq jobs
      BY <3>3
    <3>5. NamedIn(f[p]) \subseteq (IF w[p].state = "resolved" THEN {w[p].candidate} ELSE {})
          /\ JobsOf(f[p]) \subseteq w[p].jobs
      BY <2>4, <3>3, <3>4 DEF Agrees
    <3> HIDE DEF all, named, jobs
    <3> QED
      BY <2>4, <3>3, <3>4, <3>5
  <2>6. NamedIn(R) = NamedIn({r}) \cup UNION {NamedIn(f[p]) : p \in ParentsOf(r)}
        /\ JobsOf(R) = OwnJob(r) \cup UNION {JobsOf(f[p]) : p \in ParentsOf(r)}
    BY DEF NamedIn, JobsOf, Wider
  <2>7. NamedIn({r}) \subseteq named /\ OwnJob(r) \subseteq jobs
    BY DEF NamedIn
  <2> HIDE DEF named, jobs, R
  <2> QED
    BY <2>5, <2>6, <2>7
<1>14. ASSUME ~fails, ~PrivacyOnly PROVE JobsOf(R) \subseteq jobs
  <2>1. Named(r) \cap failing = {} /\ Failed \notin all
    BY <1>14
  <2>2. ASSUME NEW p \in ParentsOf(r) PROVE JobsOf(f[p]) \subseteq jobs
    <3>1. PICK c \in Named(r) : p = parents[c][r.carrier[c]] /\ p # None
      BY DEF ParentsOf
    <3>2. Parent(r, c) = p
      BY <2>1, <3>1 DEF Parent, Named
    <3>3. w[p] \in all
      BY <3>2
    <3>4. w[p].jobs \subseteq jobs /\ Agrees(w[p], f[p]) /\ Covers(w[p], f[p])
      BY <3>3
    <3> HIDE DEF all, jobs
    <3> QED
      BY <1>14, <2>1, <3>3, <3>4 DEF Agrees, Covers
  <2>3. JobsOf(R) = OwnJob(r) \cup UNION {JobsOf(f[p]) : p \in ParentsOf(r)}
    BY DEF JobsOf, Wider
  <2>4. OwnJob(r) \subseteq jobs
    OBVIOUS
  <2> HIDE DEF jobs, R
  <2> QED
    BY <2>2, <2>3, <2>4
<1> HIDE DEF all, named, jobs, broken, R, it, bad, fails
<1>10. CASE fails
  <2>1. it = Failed /\ ~PrivacyOnly
    BY <1>8, <1>10 DEF fails
  <2> QED
    BY <1>1, <2>1 DEF Agrees, Covers, Failed, Found, R, it
<1>11. CASE ~fails /\ bad
  <2>1. it = [state |-> "unresolved", candidate |-> None, jobs |-> jobs]
    BY <1>8, <1>11 DEF Found
  <2> QED
    BY <1>1, <1>6, <1>11, <1>14, <2>1 DEF Agrees, Covers, R, it
<1>12. CASE ~fails /\ ~bad /\ named = {}
  <2>1. it = [state |-> "none", candidate |-> None, jobs |-> jobs]
    BY <1>8, <1>12 DEF Found
  <2> QED
    BY <1>1, <1>6, <1>9, <1>12, <1>14, <2>1 DEF Agrees, Covers, R, it
<1>13. CASE ~fails /\ ~bad /\ named # {}
  <2>1. PICK c : c = (CHOOSE d \in named : TRUE) /\ c \in named
    BY <1>13
  <2>2. it = [state |-> "resolved", candidate |-> c, jobs |-> jobs]
    BY <1>8, <1>13, <2>1 DEF Found
  <2>3. named = {c}
    BY <1>13, <2>1 DEF bad
  <2>4. Agrees(it, R) /\ Covers(it, R)
    BY <1>1, <1>6, <1>7, <1>9, <1>13, <1>14, <2>2, <2>3 DEF Agrees, Covers
  <2> QED
    BY <2>4 DEF R, it
<1> QED
  BY <1>10, <1>11, <1>12, <1>13

(* The walk from a row agrees with all that the row leads to.              *)
LEMMA WalkAgrees ==
    ASSUME WorldAssumption, NEW row \in Records
    PROVE  /\ Agrees(walkRowCandidate(row), Reached(row))
           /\ Direct(row) => Covers(walkRowCandidate(row), Reached(row))
<1>1. PICK w : IsWalk(w, row) /\ walkRowCandidate(row) = w[Depth][row]
  BY WalkStep
<1>2. PICK f : IsReach(f, row) /\ Reached(row) = f[Depth][row]
  BY ReachStep
<1> DEFINE D == Met(row) \ {None}
           S == {n \in 0..Depth : \A r \in D :
                    Agrees(w[n][r], f[n][r]) /\ (Direct(r) => Covers(w[n][r], f[n][r]))}
<1>3. Depth \in Nat
  BY DEF Depth
<1>4. row \in D /\ None \in Met(row) /\ D \subseteq Records
      /\ \A r \in D : ParentsOf(r) \subseteq D /\ \A p \in ParentsOf(r) : Direct(p)
  <2>1. row \in D /\ None \in Met(row) /\ D \subseteq Records
        /\ \A r \in D : ParentsOf(r) \subseteq D
    BY MetValues, WorldValues DEF ParentsOf
  <2>2. \A r, p : p \in ParentsOf(r) => Direct(p)
    BY DEF ParentsOf, Direct, Named, WorldAssumption
  <2> QED
    BY <2>1, <2>2
<1>5. 0 \in S
  <2> SUFFICES ASSUME NEW r \in D PROVE Agrees(w[0][r], f[0][r]) /\ Covers(w[0][r], f[0][r])
    BY <1>3
  <2>1. f[0][r] = {r} /\ w[0][r] = WhereItStops(r) /\ r # None /\ r \in Records
    BY <1>1, <1>2, <1>4 DEF IsWalk, IsReach
  <2> QED
    BY <2>1, EndsAgree DEF WhereItStops
<1>6. ASSUME NEW n \in 1..Depth, n - 1 \in S PROVE n \in S
  <2> SUFFICES ASSUME NEW r \in D
               PROVE  Agrees(w[n][r], f[n][r]) /\ (Direct(r) => Covers(w[n][r], f[n][r]))
    OBVIOUS
  <2>1. n - 1 \in 0..Depth /\ w[n - 1] \in [Met(row) -> Walks]
    BY <1>1, <1>3 DEF IsWalk
  <2>2. f[n][r] = Wider(r, f[n - 1]) /\ w[n][r] = Further(r, w[n - 1])
    BY <1>1, <1>2 DEF IsWalk, IsReach
  <2>3. w[n - 1][None] = Nobody
    <3>1. CASE n - 1 = 0
      BY <1>1, <1>4, <3>1 DEF IsWalk, WhereItStops
    <3>2. CASE n - 1 # 0
      <4>1. n - 1 \in 1..Depth
        BY <2>1, <3>2
      <4> QED
        BY <1>1, <1>4, <4>1 DEF IsWalk, Further
    <3> QED
      BY <3>1, <3>2
  <2>4. \A p \in ParentsOf(r) : Agrees(w[n - 1][p], f[n - 1][p]) /\ Covers(w[n - 1][p], f[n - 1][p])
    BY <1>4, <1>6
  <2>5. CASE ~Stops(r)
    BY <2>1, <2>2, <2>3, <2>4, <2>5, JoinsAgree
  <2>6. CASE Stops(r)
    <3>1. w[n][r] = End(r, "none") /\ r \in Records
      BY <1>4, <2>2, <2>6 DEF Further
    <3>2. r \in f[n][r] /\ (Named(r) = {} => f[n][r] = {r})
      BY <2>2 DEF Wider, ParentsOf
    <3> QED
      BY <2>6, <3>1, <3>2, EndsAgree DEF Stops, Direct
  <2> QED
    BY <2>5, <2>6
<1>7. Depth \in S
  <2> HIDE DEF S
  <2>1. 0..Depth \subseteq S
    BY <1>3, <1>5, <1>6, UpTo
  <2> QED
    BY <1>3, <2>1
<1> QED
  BY <1>1, <1>2, <1>4, <1>7

(***************************************************************************)
(* What a row is found to be about, and what the gate lets pass.           *)
(***************************************************************************)
(* Whom a row leads to.                                                    *)
LEMMA CandidatesReached ==
    ASSUME NEW r
    PROVE  CandidatesOf(r) = (NamedIn(Reached(r)) \cup {r.self}) \ {None}
  BY DEF CandidatesOf, NamedIn

(* A candidate's row, which leads to nobody else and to no job.            *)
LEMMA CandidateRows ==
    ASSUME WorldAssumption, NEW r, WellFormed("candidate", r)
    PROVE  /\ Reached(r) = {r} /\ OwnJob(r) = {} /\ JobsOf(Reached(r)) = {}
           /\ CandidatesOf(r) = {r.self} /\ r.self \in Candidates
           /\ JobsReached(r) = IF r.embedded # None THEN JobsOf(EmbeddedIn(r))
                                      ELSE JobsOf(ApplicationsOf(r.self))
<1>1. r \in Records /\ Named(r) = {} /\ r.job = None /\ r.candidate = None
      /\ r.self \in Candidates /\ r.self # None
  BY DEF WellFormed, Records
<1>2. Reached(r) = {r}
  BY <1>1, ReachedSelf
<1>3. OwnJob(r) = {}
  BY <1>1, WorldValues DEF OwnJob
<1>4. JobsOf(Reached(r)) = {}
  BY <1>2, <1>3 DEF JobsOf
<1>5. CandidatesOf(r) = {r.self}
  BY <1>1, <1>2 DEF CandidatesOf
<1>6. UNION {ApplicationsOf(c) : c \in {r.self}} = ApplicationsOf(r.self)
  OBVIOUS
<1> QED
  BY <1>1, <1>2, <1>3, <1>4, <1>5, <1>6 DEF JobsReached

(* Any other row.                                                          *)
LEMMA FoundAgrees ==
    ASSUME WorldAssumption, NEW tool, tool # "candidate", NEW r, WellFormed(tool, r)
    PROVE  LET found == resolveRowCandidate(r)
           IN  /\ found.state = "none" => CandidatesOf(r) = {}
               /\ found.state = "resolved" =>
                     /\ found.candidate \in CandidatesOf(r)
                     /\ PrivacyOnly => CandidatesOf(r) = {found.candidate}
               /\ found.jobs \subseteq JobsOf(Reached(r))
               /\ (found.state = "none" \/ (found.state = "resolved" /\ (PrivacyOnly \/ Direct(r))))
                     => found.jobs = JobsOf(Reached(r))
               /\ found.state \in {"none", "resolved", "unresolved", "failed"}
<1> DEFINE w == walkRowCandidate(r)
           R == Reached(r)
           found == resolveRowCandidate(r)
<1>1. r \in Records /\ r.self = None
  BY DEF WellFormed
<1>2. Agrees(w, R) /\ (Direct(r) => Covers(w, R))
  BY <1>1, WalkAgrees
<1>3. CandidatesOf(r) = NamedIn(R)
  BY <1>1, CandidatesReached DEF NamedIn
<1>4. found = w \/ found = [state |-> "unresolved", candidate |-> None, jobs |-> {}]
  BY DEF resolveRowCandidate, Found
<1> HIDE DEF w, R, found
<1>5. CASE found = w
  <2>1. w.state = "resolved" => w.candidate \in NamedIn(R)
    BY <1>2 DEF Agrees
  <2>2. w.state = "none" => NamedIn(R) = {}
    BY <1>2 DEF Agrees
  <2>3. w.jobs \subseteq JobsOf(R) /\ w.state \in {"none", "resolved", "unresolved", "failed"}
    BY <1>2 DEF Agrees, Walks
  <2>4. w.state = "resolved" /\ PrivacyOnly => NamedIn(R) \subseteq {w.candidate}
    BY <1>2 DEF Agrees
  <2>5. w.state = "none" \/ (w.state = "resolved" /\ (PrivacyOnly \/ Direct(r)))
        => JobsOf(R) \subseteq w.jobs
    BY <1>2 DEF Agrees, Covers
  <2> QED
    BY <1>3, <1>5, <2>1, <2>2, <2>3, <2>4, <2>5 DEF found, R
<1>6. CASE found = [state |-> "unresolved", candidate |-> None, jobs |-> {}]
  BY <1>6 DEF found, R
<1> QED
  BY <1>4, <1>5, <1>6

(* The row has a right to be shown.                                        *)
Rightful(r) ==
    PrivacyOnly \/ (\E c \in Candidates : CandidatesOf(r) = {c}) =>
        \/ CandidatesOf(r) \cap PrivateOnes = {}
        \/ JobsReached(r) \cap scope.private # {}

LEMMA GateKeeps ==
    ASSUME WorldAssumption, NEW r, WellFormed(page.tool, r),
           ~scope.attested, applyCandidatePrivacyGate(r)
    PROVE  Rightful(r)
<1>1. PrivateCapable \subseteq scope.private
  BY DEF PrivateCapable
<1>2. CASE page.tool = "candidate"
  <2>1. WellFormed("candidate", r)
    BY <1>2
  <2>2. r.self \notin PrivateOnes \/ actorHoldsPrivateAccessToRow(r, r.self, {})
    BY <1>2 DEF applyCandidatePrivacyGate, CandidateTools
  <2>3. CASE r.self \notin PrivateOnes
    BY <2>1, <2>3, CandidateRows DEF Rightful
  <2>4. CASE actorHoldsPrivateAccessToRow(r, r.self, {})
    <3>1. r.job = None /\ r.carrier["application"] \notin Ids
      BY <2>1 DEF WellFormed, Named, Carriers
    <3>2. JobsReached(r) \cap PrivateCapable # {}
      BY <2>1, <2>4, <3>1, CandidateRows DEF actorHoldsPrivateAccessToRow
    <3> QED
      BY <1>1, <3>2 DEF Rightful
  <2> QED
    BY <2>2, <2>3, <2>4
<1>3. CASE page.tool # "candidate"
  <2> DEFINE found == resolveRowCandidate(r)
             c == found.candidate
             on == JobsOf(Reached(r))
  <2>1. /\ r \in Records /\ r.embedded = None /\ r.self = None
        /\ r.candidate # None => Named(r) \subseteq {"application"}
    BY <1>3 DEF WellFormed
  <2>2. \/ found.state = "none"
        \/ found.state = "resolved" /\ c \notin PrivateOnes
        \/ found.state = "resolved" /\ actorHoldsPrivateAccessToRow(r, c, found.jobs)
    BY <1>3 DEF applyCandidatePrivacyGate, CandidateTools
  <2>3. CASE found.state = "none"
    BY <1>3, <2>3, FoundAgrees DEF Rightful
  <2> SUFFICES ASSUME found.state = "resolved", CandidatesOf(r) = {c}
               PROVE  Rightful(r)
    <3>1. found.state = "resolved" => c \in CandidatesOf(r)
      BY <1>3, FoundAgrees
    <3>2. found.state = "resolved" /\ PrivacyOnly => CandidatesOf(r) = {c}
      BY <1>3, FoundAgrees
    <3> HIDE DEF found
    <3> QED
      BY <2>2, <2>3, <3>1, <3>2 DEF Rightful
  <2>4. CASE c \notin PrivateOnes
    BY <2>4 DEF Rightful
  <2>5. CASE actorHoldsPrivateAccessToRow(r, c, found.jobs)
    <3>1. found.jobs \subseteq on
      BY <1>3, FoundAgrees
    <3>2. OwnJob(r) \subseteq on
      BY <2>1, ReachedSelf DEF JobsOf
    <3>3. r.carrier["application"] \in Ids => JobsOf({Parent(r, "application")} \ {None}) \subseteq on
      <4>1. r.carrier["application"] \in Ids => {Parent(r, "application")} \ {None} \subseteq ParentsOf(r)
        BY DEF Parent, ParentsOf, Named, Carriers
      <4> QED
        BY <2>1, <4>1, ReachedSelf, JobsInside
    <3>4. r.carrier["application"] \notin Ids => Direct(r)
      BY <2>1 DEF Direct, Named
    <3>5. r.carrier["application"] \notin Ids => on = found.jobs
      BY <1>3, <3>4, FoundAgrees
    <3>6. CASE on \cap PrivateCapable # {}
      <4>1. JobsReached(r) = on
        BY <3>6 DEF JobsReached
      <4> QED
        BY <1>1, <3>6, <4>1 DEF Rightful
    <3>7. CASE on \cap PrivateCapable = {}
      <4> HIDE DEF on, found
      <4>1. /\ found.jobs = {} /\ r.job = None /\ r.carrier["application"] \notin Ids
            /\ JobsOf(ApplicationsOf(c)) \cap PrivateCapable # {}
        BY <2>1, <2>5, <3>1, <3>2, <3>3, <3>7 DEF actorHoldsPrivateAccessToRow
      <4>2. on = {}
        BY <3>5, <4>1
      <4>3. UNION {ApplicationsOf(d) : d \in {c}} = ApplicationsOf(c)
        OBVIOUS
      <4>4. JobsReached(r) = JobsOf(ApplicationsOf(c))
        BY <2>1, <4>2, <4>3 DEF JobsReached, on
      <4> QED
        BY <1>1, <4>1, <4>4 DEF Rightful
    <3> QED
      BY <3>6, <3>7
  <2> QED
    BY <2>2, <2>4, <2>5
<1> QED
  BY <1>2, <1>3

(***************************************************************************)
(* Jobs.                                                                   *)
(***************************************************************************)
Open(r) == JobsReached(r) = {} \/ JobsReached(r) \cap Permitted # {}

LEMMA OpenBy ==
    ASSUME NEW r, NEW on, on \subseteq JobsOf(Reached(r)), on \cap Permitted # {}
    PROVE  Open(r)
  BY DEF Open, JobsReached

(* An embedded application that stays is on a permitted job.               *)
LEMMA PrunedRows ==
    ASSUME WorldAssumption, NEW tool, NEW r, WellFormed(tool, r)
    PROVE  /\ WellFormed(tool, Pruned(r))
           /\ r.embedded = None => Pruned(r) = r
           /\ r.embedded # None =>
                /\ Pruned(r).embedded # None
                /\ JobsOf(EmbeddedIn(Pruned(r))) =
                     JobsOf(EmbeddedIn(r)) \cap Permitted
           /\ Pruned(r).self = r.self
<1>1. CASE r.embedded = None
  BY <1>1 DEF Pruned
<1>2. CASE r.embedded # None
  <2> DEFINE stays == {i \in r.embedded : OwnJob(Application(i)) \cap Permitted # {}}
             q == Pruned(r)
  <2>1. r \in Records /\ r.embedded \in SUBSET Ids /\ tool = "candidate"
    BY <1>2 DEF WellFormed, Records
  <2>2. stays \in SUBSET Ids /\ stays # None
    BY <2>1 DEF WorldAssumption
  <2>3. q = [r EXCEPT !.embedded = stays]
    BY <1>2 DEF Pruned
  <2> HIDE DEF stays
  <2>4. /\ q \in Records /\ q.embedded = stays /\ q.self = r.self /\ q.job = r.job
        /\ q.candidate = r.candidate /\ q.carrier = r.carrier
    BY <2>1, <2>2, <2>3 DEF Records
  <2> HIDE DEF q
  <2>5. WellFormed(tool, q)
    <3>1. Named(q) = Named(r)
      BY <2>4 DEF Named
    <3>2. \A i \in stays : parents["application"][i] # None
      BY <1>2, <2>1 DEF WellFormed, stays
    <3> QED
      BY <2>1, <2>4, <3>1, <3>2 DEF WellFormed
  <2>6. JobsOf(EmbeddedIn(q)) = JobsOf(EmbeddedIn(r)) \cap Permitted
    <3>1. JobsOf(EmbeddedIn(q)) = UNION {OwnJob(Application(i)) : i \in stays}
          /\ JobsOf(EmbeddedIn(r)) = UNION {OwnJob(Application(i)) : i \in r.embedded}
      BY <2>4 DEF JobsOf, EmbeddedIn
    <3>2. \A i : \A j, k \in OwnJob(Application(i)) : j = k
      BY OwnJobValues
    <3> QED
      BY <3>1, <3>2 DEF stays
  <2> QED
    BY <1>2, <2>2, <2>4, <2>5, <2>6 DEF q
<1> QED
  BY <1>1, <1>2

LEMMA OnJobsMeans ==
    ASSUME NEW on
    PROVE  /\ OnJobs(on) = "permitted" => on \cap Permitted # {}
           /\ OnApplications(on) = "permitted" => JobsOf(on) \cap Permitted # {}
  BY DEF OnJobs, OnApplications

(* A row that its application lets pass.                                   *)
LEMMA BackedRows ==
    ASSUME NEW r, filterApplicationBackedRow(r) = "permitted"
    PROVE  \E p \in ParentsOf(r) : OwnJob(p) \cap Permitted # {}
<1>1. /\ r.carrier["application"] \in Ids /\ Parent(r, "application") # None
      /\ OnJobs(OwnJob(Parent(r, "application"))) = "permitted"
      /\ "application" \notin failing
  BY DEF filterApplicationBackedRow, Through, Both
<1>2. Parent(r, "application") \in ParentsOf(r)
  BY <1>1 DEF ParentsOf, Parent, Named, Carriers
<1> QED
  BY <1>1, <1>2, OnJobsMeans

LEMMA InterviewRows ==
    ASSUME NEW r, filterInterviewRow(r) = "permitted"
    PROVE  \/ \E p \in ParentsOf(r) : OwnJob(p) \cap Permitted # {}
           \/ OwnJob(r) \cap Permitted # {}
<1>1. filterApplicationBackedRow(r) = "permitted" \/ OnJobs(OwnJob(r)) = "permitted"
  BY DEF filterInterviewRow, Both
<1> QED
  BY <1>1, BackedRows, OnJobsMeans

(* A row that hangs off its candidate, if at all.                          *)
LEMMA CandidateBackedRows ==
    ASSUME WorldAssumption, NEW tool, tool # "candidate", NEW r, WellFormed(tool, r),
           r.job = None, Named(r) = {}, filterCandidateBackedRow(r) = "permitted"
    PROVE  Open(r)
<1>1. r.candidate # None /\ OnApplications(ApplicationsOf(r.candidate)) = "permitted"
  BY DEF filterCandidateBackedRow, Both
<1>2. Reached(r) = {r} /\ r.self = None /\ r.embedded = None
  BY ReachedSelf DEF WellFormed
<1>3. CandidatesOf(r) = {r.candidate} /\ JobsOf(Reached(r)) = {}
  BY <1>1, <1>2, WorldValues DEF CandidatesOf, JobsOf, OwnJob
<1>4. UNION {ApplicationsOf(d) : d \in {r.candidate}} = ApplicationsOf(r.candidate)
  OBVIOUS
<1>5. JobsReached(r) = JobsOf(ApplicationsOf(r.candidate))
  BY <1>2, <1>3, <1>4 DEF JobsReached
<1> QED
  BY <1>1, <1>5, OnJobsMeans DEF Open

LEMMA AttachmentRows ==
    ASSUME WorldAssumption, NEW tool \in {"note", "attachment"}, NEW r, WellFormed(tool, r),
           filterAttachmentRow(r) = "permitted"
    PROVE  Open(r)
<1>1. r \in Records /\ r.job = None /\ Named(r) \subseteq {"application"} /\ tool # "candidate"
  BY DEF WellFormed
<1>2. CASE r.carrier["application"] # None
  <2>1. /\ r.carrier["application"] \in Ids /\ Parent(r, "application") # None
        /\ OnJobs(OwnJob(Parent(r, "application"))) = "permitted"
        /\ "application" \notin failing
    BY <1>2 DEF filterAttachmentRow, Through, Both
  <2>2. Parent(r, "application") \in ParentsOf(r)
    BY <2>1 DEF ParentsOf, Parent, Named, Carriers
  <2>3. OwnJob(Parent(r, "application")) \subseteq JobsOf(Reached(r))
    BY <1>1, <2>2, ReachedSelf DEF JobsOf
  <2> QED
    BY <2>1, <2>3, OnJobsMeans, OpenBy
<1>3. CASE r.carrier["application"] = None
  <2>1. Named(r) = {}
    BY <1>1, <1>3, WorldValues DEF Named
  <2>2. filterCandidateBackedRow(r) = "permitted"
    BY <1>3 DEF filterAttachmentRow
  <2> QED
    BY <1>1, <2>1, <2>2, CandidateBackedRows
<1> QED
  BY <1>2, <1>3

(* No filter keeps a row whose jobs are all closed.                        *)
LEMMA FilterKeeps ==
    ASSUME WorldAssumption, NEW r, WellFormed(page.tool, r), page.tool \in Tools,
           page.tool # "reference", Filter(r) = "permitted"
    PROVE  Open(IF page.tool \in CandidateTools THEN Pruned(r) ELSE r)
<1> DEFINE tool == page.tool
<1>0. r \in Records /\ (tool \in CandidateTools <=> tool = "candidate")
  BY DEF WellFormed, CandidateTools
<1>1. ASSUME NEW p \in ParentsOf(r), OwnJob(p) \cap Permitted # {} PROVE Open(r)
  <2>1. OwnJob(p) \subseteq JobsOf(Reached(r))
    BY <1>0, ReachedSelf DEF JobsOf
  <2> QED
    BY <1>1, <2>1, OpenBy
<1>2. ASSUME NEW p \in ParentsOf(r), NEW q \in ParentsOf(p), OwnJob(q) \cap Permitted # {} PROVE Open(r)
  <2>1. OwnJob(q) \subseteq JobsOf(Reached(r))
    BY <1>0, ReachedSelf DEF JobsOf
  <2> QED
    BY <1>2, <2>1, OpenBy
<1>3. OwnJob(r) \cap Permitted # {} => Open(r)
  <2>1. OwnJob(r) \subseteq JobsOf(Reached(r))
    BY <1>0, ReachedSelf DEF JobsOf
  <2> QED
    BY <2>1, OpenBy
<1>4. ASSUME NEW c \in {"interview", "scorecard"}, r.carrier[c] \in Ids, c \notin failing, Parent(r, c) # None
      PROVE  Parent(r, c) \in ParentsOf(r)
  BY <1>4 DEF ParentsOf, Parent, Named, Carriers
<1>5. CASE tool = "candidate"
  <2>1. WellFormed("candidate", r) /\ WellFormed("candidate", Pruned(r))
    BY <1>5, PrunedRows
  <2>2. filterCandidateRow(r) = "permitted"
    BY <1>5 DEF Filter
  <2>3. \/ r.embedded # None /\ OnApplications(EmbeddedIn(r)) = "permitted"
        \/ r.embedded = None /\ OnApplications(ApplicationsOf(r.self)) = "permitted"
    BY <2>2 DEF filterCandidateRow, Both
  <2>4. CASE r.embedded # None /\ OnApplications(EmbeddedIn(r)) = "permitted"
    <3>1. JobsReached(Pruned(r)) = JobsOf(EmbeddedIn(r)) \cap Permitted
      BY <2>1, <2>4, PrunedRows, CandidateRows
    <3> QED
      BY <1>0, <1>5, <2>4, <3>1, OnJobsMeans DEF Open
  <2>5. CASE r.embedded = None /\ OnApplications(ApplicationsOf(r.self)) = "permitted"
    <3>1. Pruned(r) = r /\ JobsReached(r) = JobsOf(ApplicationsOf(r.self))
      BY <2>1, <2>5, PrunedRows, CandidateRows
    <3> QED
      BY <1>0, <1>5, <2>5, <3>1, OnJobsMeans DEF Open
  <2> QED
    BY <2>3, <2>4, <2>5
<1> SUFFICES ASSUME tool # "candidate" PROVE Open(r)
  BY <1>0, <1>5
<1>6. CASE tool \in {"job", "application"}
  <2>1. OnJobs(OwnJob(r)) = "permitted"
    BY <1>6 DEF Filter
  <2> QED
    BY <1>3, <2>1, OnJobsMeans
<1>7. CASE tool = "stage"
  <2>1. applyScopePolicy(r) = "permitted"
    BY <1>7 DEF Filter
  <2>2. /\ r.carrier["application"] \in Ids /\ Parent(r, "application") # None
        /\ OnJobs(OwnJob(Parent(r, "application"))) = "permitted"
        /\ "application" \notin failing
    BY <2>1 DEF applyScopePolicy, Through
  <2>3. Parent(r, "application") \in ParentsOf(r)
    BY <2>2 DEF ParentsOf, Parent, Named, Carriers
  <2> QED
    BY <1>1, <2>2, <2>3, OnJobsMeans
<1>8. CASE tool = "candidateBacked"
  <2>1. filterCandidateBackedRow(r) = "permitted" /\ r.job = None /\ Named(r) = {}
    BY <1>8 DEF Filter, WellFormed
  <2> QED
    BY <1>8, <2>1, CandidateBackedRows
<1>9. CASE tool \in {"note", "attachment"}
  <2>1. filterAttachmentRow(r) = "permitted"
    BY <1>9 DEF Filter
  <2> QED
    BY <1>9, <2>1, AttachmentRows
<1>10. CASE tool = "offer"
  <2>1. OnJobs(OwnJob(r)) = "permitted"
    BY <1>10 DEF Filter, Both
  <2> QED
    BY <1>3, <2>1, OnJobsMeans
<1>11. CASE tool = "applicationBacked"
  <2>1. filterApplicationBackedRow(r) = "permitted"
    BY <1>11 DEF Filter
  <2> QED
    BY <1>1, <2>1, BackedRows
<1>12. CASE tool = "interview"
  <2>1. filterInterviewRow(r) = "permitted"
    BY <1>12 DEF Filter
  <2> QED
    BY <1>1, <1>3, <2>1, InterviewRows
<1>13. CASE tool = "interviewer"
  <2>1. Through(r, "interview", filterInterviewRow) = "permitted"
    BY <1>13 DEF Filter
  <2>2. /\ r.carrier["interview"] \in Ids /\ "interview" \notin failing
        /\ Parent(r, "interview") # None
        /\ filterInterviewRow(Parent(r, "interview")) = "permitted"
    BY <2>1 DEF Through
  <2> QED
    BY <1>1, <1>2, <1>4, <2>2, InterviewRows
<1>14. CASE tool = "answer"
  <2>1. Through(r, "scorecard", filterApplicationBackedRow) = "permitted"
    BY <1>14 DEF Filter
  <2>2. /\ r.carrier["scorecard"] \in Ids /\ "scorecard" \notin failing
        /\ Parent(r, "scorecard") # None
        /\ filterApplicationBackedRow(Parent(r, "scorecard")) = "permitted"
    BY <2>1 DEF Through
  <2> QED
    BY <1>2, <1>4, <2>2, BackedRows
<1> QED
  BY <1>6, <1>7, <1>8, <1>9, <1>10, <1>11, <1>12, <1>13, <1>14 DEF Tools

(* Nor does the exclusion of confidential jobs.                            *)
LEMMA ExclusionKeeps ==
    ASSUME WorldAssumption, NEW r, WellFormed(page.tool, r), PrivacyOnly,
           excludeConfidentialJobRow(r) = "permitted"
    PROVE  Open(Pruned(r))
<1> DEFINE on == resolveRowJobIds(r)
           way == JobsOf(Reached(r))
<1>1. on.state = "none" \/ (on.state # "unresolved" /\ on.jobs \cap Permitted # {})
  BY DEF excludeConfidentialJobRow
<1>2. CASE page.tool = "candidate"
  <2>1. WellFormed("candidate", r) /\ WellFormed("candidate", Pruned(r))
    BY <1>2, PrunedRows
  <2>2. r.job = None /\ r.carrier["application"] \notin Ids
    BY <2>1 DEF WellFormed, Named, Carriers
  <2>3. CASE r.embedded # None
    <3>1. on.state = "none" => r.embedded = {}
      BY <1>2, <2>2, <2>3 DEF resolveRowJobIds
    <3>2. on.state # "none" => on.jobs = JobsOf(EmbeddedIn(r))
      BY <1>2, <2>2, <2>3 DEF resolveRowJobIds
    <3>3. JobsReached(Pruned(r)) = JobsOf(EmbeddedIn(r)) \cap Permitted
      BY <2>1, <2>3, PrunedRows, CandidateRows
    <3>4. r.embedded = {} => JobsOf(EmbeddedIn(r)) = {}
      BY DEF JobsOf, EmbeddedIn
    <3> QED
      BY <1>1, <3>1, <3>2, <3>3, <3>4 DEF Open
  <2>4. CASE r.embedded = None
    <3> DEFINE own == JobsOf(ApplicationsOf(r.self))
    <3>1. on.state = "none" => own = {}
      BY <1>2, <2>2, <2>4 DEF resolveRowJobIds, CandidateTools, Found
    <3>2. on.state # "none" /\ on.state # "unresolved" => on.jobs = own
      BY <1>2, <2>2, <2>4 DEF resolveRowJobIds, CandidateTools, Found
    <3>3. Pruned(r) = r /\ JobsReached(r) = own
      BY <2>1, <2>4, PrunedRows, CandidateRows
    <3> QED
      BY <1>1, <3>1, <3>2, <3>3 DEF Open
  <2> QED
    BY <2>3, <2>4
<1>3. CASE page.tool # "candidate"
  <2> DEFINE found == resolveRowCandidate(r)
  <2>1. r \in Records /\ r.embedded = None /\ r.self = None /\ Pruned(r) = r
    BY <1>3, PrunedRows DEF WellFormed
  <2>2. OwnJob(r) \subseteq way
    BY <2>1, ReachedSelf DEF JobsOf
  <2>3. r.carrier["application"] \in Ids => JobsOf({Parent(r, "application")} \ {None}) \subseteq way
    <3>1. r.carrier["application"] \in Ids => {Parent(r, "application")} \ {None} \subseteq ParentsOf(r)
      BY DEF Parent, ParentsOf, Named, Carriers
    <3> QED
      BY <2>1, <3>1, ReachedSelf, JobsInside
  <2>4. CASE page.tool = "job" \/ r.job # None \/ r.carrier["application"] \in Ids
    <3>1. on.state # "none" /\ on.jobs \subseteq way
      BY <2>2, <2>3, <2>4 DEF resolveRowJobIds
    <3> QED
      BY <1>1, <2>1, <3>1, OpenBy
  <2>5. CASE ~(page.tool = "job" \/ r.job # None \/ r.carrier["application"] \in Ids)
    <3>1. /\ found.state = "none" => CandidatesOf(r) = {} /\ found.jobs = way
          /\ found.state = "resolved" => CandidatesOf(r) = {found.candidate} /\ found.jobs = way
          /\ found.jobs \subseteq way
      BY <1>3, FoundAgrees
    <3> DEFINE own == JobsOf(ApplicationsOf(found.candidate))
    <3>2. found.state # "failed"
      <4>1. walkRowCandidate(r).state # "failed"
        BY <2>1, WalkAgrees DEF Agrees
      <4> QED
        BY <4>1 DEF resolveRowCandidate, Found
    <3>3. found.state \in {"none", "resolved", "unresolved"}
      BY <1>3, <3>2, FoundAgrees
    <3>4. /\ found.state = "unresolved" => on.state = "unresolved"
          /\ found.state # "unresolved" /\ found.jobs # {} => on.state # "none" /\ on.jobs = found.jobs
          /\ found.state = "resolved" /\ found.jobs = {} /\ on.state = "none" => own = {}
          /\ found.state = "resolved" /\ found.jobs = {} /\ on.state \notin {"none", "unresolved"} => on.jobs = own
          /\ found.state = "none" /\ found.jobs = {} => on.state = "none"
      <4> HIDE DEF found
      <4>1. r.job = None /\ r.carrier["application"] \notin Ids /\ page.tool # "job"
        BY <2>5
      <4>2. resolveRowCandidate(r) = found
        BY DEF found
      <4> QED
        BY <1>3, <2>1, <4>1, <4>2 DEF resolveRowJobIds, CandidateTools
    <3> HIDE DEF found, on
    <3>5. CASE found.jobs # {}
      BY <1>1, <2>1, <3>1, <3>4, <3>5, OpenBy
    <3>6. CASE found.jobs = {}
      <4>1. found.state \in {"none", "resolved"} => way = {}
        BY <3>1, <3>6
      <4>2. CASE found.state = "unresolved"
        BY <1>1, <3>4, <4>2
      <4>3. CASE found.state = "none"
        <5>1. JobsReached(r) = JobsOf(UNION {ApplicationsOf(c) : c \in {}})
          BY <2>1, <3>1, <4>1, <4>3 DEF JobsReached
        <5>2. JobsReached(r) = {}
          BY <5>1 DEF JobsOf
        <5> QED
          BY <2>1, <5>2 DEF Open
      <4>4. CASE found.state = "resolved"
        <5>1. UNION {ApplicationsOf(d) : d \in {found.candidate}} = ApplicationsOf(found.candidate)
          OBVIOUS
        <5>2. JobsReached(r) = own
          BY <2>1, <3>1, <4>1, <4>4, <5>1 DEF JobsReached
        <5> QED
          BY <1>1, <2>1, <3>4, <3>6, <4>4, <5>2 DEF Open
      <4> QED
        BY <3>3, <4>2, <4>3, <4>4
    <3> QED
      BY <3>5, <3>6
  <2> QED
    BY <2>4, <2>5
<1> QED
  BY <1>2, <1>3

(***************************************************************************)
(* The scoped reader's invariant: which branch it is on, what has been     *)
(* found out of the rows that are left, and that each row is counted once. *)
(***************************************************************************)
Outcomes == {"permitted", "not_permitted", "privacy", "missing", "failed"}

(* Every row gets one of the outcomes that are counted.                    *)
LEMMA FilterOutcomes ==
    ASSUME NEW r
    PROVE  Filter(r) \in Outcomes
<1>1. \A x, c : privateCandidateDecision(x, c) \in Outcomes
  BY DEF privateCandidateDecision, Outcomes
<1>2. \A on : OnJobs(on) \in Outcomes /\ OnApplications(on) \in Outcomes
  BY DEF OnJobs, OnApplications, Outcomes
<1>3. \A u \in Outcomes, v \in Outcomes : Both(u, v) \in Outcomes
  BY DEF Both
<1>4. {"permitted", "not_permitted", "privacy", "missing", "failed"} \subseteq Outcomes
  BY DEF Outcomes
<1>5. \A x : filterApplicationBackedRow(x) \in Outcomes
  <2> SUFFICES ASSUME NEW x PROVE filterApplicationBackedRow(x) \in Outcomes
    OBVIOUS
  <2> DEFINE via == Parent(x, "application")
             v == IF via.candidate = None THEN "privacy" ELSE privateCandidateDecision(via, via.candidate)
  <2>1. v \in Outcomes /\ OnJobs(OwnJob(via)) \in Outcomes
    BY <1>1, <1>2, <1>4
  <2>2. Both(OnJobs(OwnJob(via)), v) \in Outcomes
    BY <1>3, <2>1
  <2> QED
    BY <1>4, <2>2 DEF filterApplicationBackedRow, Through
<1>6. \A x : filterCandidateBackedRow(x) \in Outcomes
  BY <1>1, <1>2, <1>3, <1>4 DEF filterCandidateBackedRow
<1>7. \A x : filterAttachmentRow(x) \in Outcomes
  <2> SUFFICES ASSUME NEW x PROVE filterAttachmentRow(x) \in Outcomes
    OBVIOUS
  <2> DEFINE via == Parent(x, "application")
             u == privateCandidateDecision(via, IF x.candidate # None THEN x.candidate ELSE via.candidate)
  <2>1. Both(u, OnJobs(OwnJob(via))) \in Outcomes
    BY <1>1, <1>2, <1>3
  <2> QED
    BY <1>4, <1>6, <2>1 DEF filterAttachmentRow, Through
<1>8. \A x : filterInterviewRow(x) \in Outcomes
  BY <1>2, <1>3, <1>4, <1>5 DEF filterInterviewRow
<1>9. \A x : filterCandidateRow(x) \in Outcomes
  BY <1>2, <1>3, <1>4 DEF filterCandidateRow
<1>10. \A x : applyScopePolicy(x) \in Outcomes
  BY <1>2, <1>4 DEF applyScopePolicy, Through
<1>11. Through(r, "interview", filterInterviewRow) \in Outcomes
       /\ Through(r, "scorecard", filterApplicationBackedRow) \in Outcomes
  BY <1>4, <1>5, <1>8 DEF Through
<1>12. Both(OnJobs(OwnJob(r)),
                   IF r.candidate = None THEN "privacy"
                   ELSE privateCandidateDecision(r, r.candidate)) \in Outcomes
  BY <1>1, <1>2, <1>3, <1>4
<1> QED
  BY <1>2, <1>4, <1>5, <1>6, <1>7, <1>8, <1>9, <1>10, <1>11, <1>12 DEF Filter

KeptRows ==
    /\ DOMAIN kept \subseteq 1..Len(page.rows)
    /\ \A i \in DOMAIN kept : WellFormed(page.tool, kept[i])
Bounded ==
    /\ counts \in [notPermitted : Nat, unresolved : Nat, privacy : Nat]
    /\ counts.privacy <= counts.notPermitted
    /\ counts.notPermitted + counts.unresolved <= Len(page.rows)
Counted ==
    Cardinality(DOMAIN kept) + counts.notPermitted + counts.unresolved = Len(page.rows)
Untouched == kept = page.rows /\ counts = NoCounts

(* What the job filter or the exclusion has seen to.                       *)
Screened(r) ==
    /\ page.tool # "reference" => Open(r)
    /\ r.embedded # None /\ (scope.kind = "jobs" \/ scope.excluded # {})
       => JobsOf(EmbeddedIn(r)) \subseteq Permitted

Sent(scoped, withheld, numbers) ==
    [code |-> "ok", rows |-> kept, returned |-> Cardinality(DOMAIN kept), scoped |-> scoped,
     permissionScope |-> [kind |-> scope.kind, withheld |-> withheld],
     raw |-> numbers.raw, excluded |-> numbers.excluded,
     unresolved |-> numbers.unresolved, complete |-> numbers.unresolved = 0,
     privacyWithheld |-> numbers.privacyWithheld]

ReplyingOk == pc = "reply" \/ (pc = "done" /\ reply.code = "ok")

ReaderInv ==
    /\ request \in Requests /\ page \in Pages /\ failing \in FailureSets
    /\ pc \in {"start", "exclude", "filter", "gate", "reply", "done"}
    /\ KeptRows /\ Bounded
    /\ pc = "start" => counts = NoCounts
    /\ pc # "done" => reply = None
    /\ pc = "done" => reply.code \in {"ok", "ACTOR_DENIED", "PERMISSION_LOOKUP_FAILED", "PERMISSION_JOIN_FAILED"}
    /\ pc = "exclude" => PrivacyOnly /\ Untouched
    /\ pc = "filter" => /\ ~PrivacyOnly /\ Untouched
                        /\ scope.kind = "jobs" \/ scope.excluded # {}
    /\ pc = "gate" => ~Unscoped /\ Counted /\ \A i \in DOMAIN kept : Screened(kept[i])
    /\ ReplyingOk => /\ Counted
                     /\ Unscoped => Untouched
                     /\ ~Unscoped => \A i \in DOMAIN kept :
                           Screened(kept[i]) /\ (~scope.attested => Rightful(kept[i]))
    /\ pc = "done" /\ reply.code = "ok" =>
          reply = IF Unscoped THEN Sent(FALSE, FALSE, unscopedRowCounts)
                  ELSE Sent(~PrivacyOnly \/ scope.kind = "all", PrivacyOnly, rowCounts)

LEMMA Partition ==
    ASSUME NEW n \in Nat, NEW D \in SUBSET (1..n), NEW P, NEW N, NEW U,
           D = P \cup N \cup U, P \cap N = {}, P \cap U = {}, N \cap U = {}
    PROVE  /\ Cardinality(D) = Cardinality(P) + Cardinality(N) + Cardinality(U)
           /\ Cardinality(P) \in Nat /\ Cardinality(N) \in Nat /\ Cardinality(U) \in Nat
           /\ IsFiniteSet(N)
<1>1. IsFiniteSet(1..n)
  BY FS_Interval
<1>2. IsFiniteSet(D)
  BY <1>1, FS_Subset
<1>3. IsFiniteSet(P) /\ IsFiniteSet(N) /\ IsFiniteSet(U) /\ IsFiniteSet(P \cup N)
  <2>1. P \subseteq D /\ N \subseteq D /\ U \subseteq D /\ P \cup N \subseteq D
    OBVIOUS
  <2> QED
    BY <1>2, <2>1, FS_Subset
<1>4. Cardinality(P) \in Nat /\ Cardinality(N) \in Nat /\ Cardinality(U) \in Nat
  BY <1>3, FS_CardinalityType
<1>5. Cardinality({}) = 0
  BY FS_EmptySet
<1>6. Cardinality(P \cup N) = Cardinality(P) + Cardinality(N)
  <2>1. Cardinality(P \cup N) = Cardinality(P) + Cardinality(N) - Cardinality(P \cap N)
    BY <1>3, FS_Union
  <2>2. Cardinality(P \cap N) = 0
    BY <1>5
  <2> QED
    BY <1>4, <2>1, <2>2
<1>7. Cardinality((P \cup N) \cup U) = Cardinality(P \cup N) + Cardinality(U)
  <2>1. Cardinality((P \cup N) \cup U) = Cardinality(P \cup N) + Cardinality(U) - Cardinality((P \cup N) \cap U)
    BY <1>3, FS_Union
  <2>2. (P \cup N) \cap U = {}
    OBVIOUS
  <2>3. Cardinality((P \cup N) \cap U) = 0
    BY <1>5, <2>2
  <2> QED
    BY <1>4, <1>6, <2>1, <2>3
<1>8. (P \cup N) \cup U = D
  OBVIOUS
<1> QED
  BY <1>3, <1>4, <1>6, <1>7, <1>8

(* A decision on each row leaves every row of the page counted once.       *)
LEMMA KeepCounts ==
    ASSUME KeptRows, Bounded, Counted, Len(page.rows) \in Nat, UNCHANGED page,
           NEW verdict, NEW shown, \A i \in DOMAIN kept : verdict[i] \in Outcomes,
           \A i \in DOMAIN kept : verdict[i] = "permitted" => WellFormed(page.tool, shown[i]),
           Keep(verdict, shown)
    PROVE  /\ KeptRows' /\ Bounded' /\ Counted'
           /\ DOMAIN kept' \subseteq DOMAIN kept
           /\ \A i \in DOMAIN kept' : verdict[i] = "permitted" /\ kept'[i] = shown[i]
<1> DEFINE P == {k \in DOMAIN kept : verdict[k] = "permitted"}
           N == {i \in DOMAIN kept : verdict[i] \in {"not_permitted", "privacy"}}
           U == {i \in DOMAIN kept : verdict[i] \in {"missing", "failed"}}
           V == {i \in DOMAIN kept : verdict[i] \in {"privacy"}}
<1>1. /\ kept' = [i \in P |-> shown[i]]
      /\ counts' = [notPermitted |-> counts.notPermitted + Cardinality(N),
                    unresolved |-> counts.unresolved + Cardinality(U),
                    privacy |-> counts.privacy + Cardinality(V)]
  BY DEF Keep
<1>2. /\ Cardinality(DOMAIN kept) = Cardinality(P) + Cardinality(N) + Cardinality(U)
      /\ Cardinality(P) \in Nat /\ Cardinality(N) \in Nat /\ Cardinality(U) \in Nat
      /\ IsFiniteSet(N)
  <2>1. DOMAIN kept = P \cup N \cup U
    BY DEF Outcomes
  <2>2. P \cap N = {} /\ P \cap U = {} /\ N \cap U = {}
    OBVIOUS
  <2> HIDE DEF P, N, U
  <2> QED
    BY <2>1, <2>2, Partition DEF KeptRows
<1>3. Cardinality(V) \in Nat /\ Cardinality(V) <= Cardinality(N)
  <2>1. V \subseteq N
    OBVIOUS
  <2> HIDE DEF V, N
  <2> QED
    BY <1>2, <2>1, FS_Subset, FS_CardinalityType
<1>4. DOMAIN kept' = P /\ P \subseteq DOMAIN kept /\ \A i \in P : kept'[i] = shown[i] /\ verdict[i] = "permitted"
  BY <1>1
<1>5. KeptRows'
  BY <1>4 DEF KeptRows
<1> HIDE DEF P, N, U, V
<1>6. /\ counts.notPermitted \in Nat /\ counts.unresolved \in Nat /\ counts.privacy \in Nat
      /\ counts.privacy <= counts.notPermitted
  BY DEF Bounded
<1>7. /\ counts'.notPermitted = counts.notPermitted + Cardinality(N)
      /\ counts'.unresolved = counts.unresolved + Cardinality(U)
      /\ counts'.privacy = counts.privacy + Cardinality(V)
  BY <1>1
<1>8. Counted'
  BY <1>2, <1>4, <1>6, <1>7 DEF Counted
<1>9. Bounded'
  <2>1. counts' \in [notPermitted : Nat, unresolved : Nat, privacy : Nat]
    <3>1. \A i \in Nat, j \in Nat : i + j \in Nat
      OBVIOUS
    <3>2. counts.notPermitted + Cardinality(N) \in Nat /\ counts.unresolved + Cardinality(U) \in Nat
      BY <1>2, <1>6, <3>1
    <3>3. counts.privacy + Cardinality(V) \in Nat
      BY <1>3, <1>6, <3>1
    <3> QED
      BY <1>1, <3>2, <3>3
  <2>2. counts'.privacy <= counts'.notPermitted
    BY <1>2, <1>3, <1>6, <1>7
  <2>3. counts'.notPermitted + counts'.unresolved <= Len(page.rows)
    BY <1>2, <1>4, <1>6, <1>7, <1>8 DEF Counted
  <2> QED
    BY <2>1, <2>2, <2>3 DEF Bounded
<1> QED
  BY <1>4, <1>5, <1>8, <1>9

(* A page as it came from Greenhouse.                                      *)
LEMMA RawPages ==
    ASSUME PageAssumption, page \in Pages
    PROVE  /\ Len(page.rows) \in Nat /\ DOMAIN page.rows = 1..Len(page.rows)
           /\ page.tool \in Tools /\ page.rows \in Seq(Records)
           /\ \A i \in 1..Len(page.rows) : WellFormed(page.tool, page.rows[i])
           /\ page.single => Len(page.rows) <= 1
           /\ Cardinality(1..Len(page.rows)) = Len(page.rows)
<1>1. /\ page.tool \in Tools /\ page.rows \in Seq(Records)
      /\ \A i \in 1..Len(page.rows) : WellFormed(page.tool, page.rows[i])
      /\ page.single => Len(page.rows) <= 1
  BY DEF PageAssumption
<1>2. Len(page.rows) \in Nat /\ DOMAIN page.rows = 1..Len(page.rows)
  BY <1>1
<1>3. Cardinality(1..Len(page.rows)) = Len(page.rows)
  BY <1>2, FS_Interval
<1> QED
  BY <1>1, <1>2, <1>3

(* Where no job is closed, every row is open.                              *)
LEMMA AllJobsAreOpen ==
    ASSUME NEW r, Permitted = Jobs
    PROVE  Open(r)
<1>1. JobsReached(r) \subseteq Jobs
  BY OwnJobValues DEF JobsReached, JobsOf
<1> QED
  BY <1>1 DEF Open

LEMMA WithoutExclusions ==
    ASSUME scope.kind # "jobs", scope.excluded = {}
    PROVE  Permitted = Jobs
  BY DEF Permitted, EveryJobExcept

LEMMA ReaderInit ==
    ASSUME PageAssumption, Init
    PROVE  ReaderInv
<1>1. /\ request \in Requests /\ page \in Pages /\ failing \in FailureSets
      /\ pc = "start" /\ kept = <<>> /\ counts = NoCounts /\ reply = None
  BY DEF Init
<1>2. Len(page.rows) \in Nat
  BY <1>1, RawPages
<1>3. KeptRows
  BY <1>1, <1>2 DEF KeptRows
<1>4. Bounded
  BY <1>1, <1>2 DEF Bounded, NoCounts
<1> QED
  BY <1>1, <1>3, <1>4 DEF ReaderInv, ReplyingOk

(* An untouched page is counted, and holds what Greenhouse returned.       *)
LEMMA UntouchedPages ==
    ASSUME PageAssumption, page \in Pages, Untouched
    PROVE  KeptRows /\ Bounded /\ Counted
<1>1. /\ kept = page.rows /\ counts.notPermitted = 0 /\ counts.unresolved = 0 /\ counts.privacy = 0
      /\ counts \in [notPermitted : Nat, unresolved : Nat, privacy : Nat]
  BY DEF Untouched, NoCounts
<1>2. KeptRows
  BY <1>1, RawPages DEF KeptRows
<1>3. Bounded
  BY <1>1, RawPages DEF Bounded
<1>4. Counted
  BY <1>1, RawPages DEF Counted
<1> QED
  BY <1>2, <1>3, <1>4

LEMMA PrunedEmbeds ==
    ASSUME WorldAssumption, NEW tool, NEW r, WellFormed(tool, r)
    PROVE  Pruned(r).embedded # None
           => JobsOf(EmbeddedIn(Pruned(r))) \subseteq Permitted
<1>1. CASE r.embedded = None
  <2>1. Pruned(r) = r
    BY <1>1, PrunedRows
  <2> QED
    BY <1>1, <2>1
<1>2. CASE r.embedded # None
  <2>1. JobsOf(EmbeddedIn(Pruned(r))) = JobsOf(EmbeddedIn(r)) \cap Permitted
    BY <1>2, PrunedRows
  <2> QED
    BY <2>1
<1> QED
  BY <1>1, <1>2

LEMMA ReaderStep ==
    ASSUME WorldAssumption, PageAssumption, ReaderInv, [Next]_vars
    PROVE  ReaderInv'
<1>1. /\ request \in Requests /\ page \in Pages /\ failing \in FailureSets
      /\ pc \in {"start", "exclude", "filter", "gate", "reply", "done"} /\ KeptRows /\ Bounded
  BY DEF ReaderInv
<1>2. CASE UNCHANGED vars
  <2>1. /\ request' = request /\ page' = page /\ failing' = failing /\ pc' = pc
        /\ kept' = kept /\ counts' = counts /\ reply' = reply
    BY <1>2 DEF vars
  <2> QED
    BY <2>1 DEF ReaderInv, ReplyingOk, KeptRows, Bounded, Counted, Untouched, Screened, Rightful, Open, Sent,
          Unscoped, PrivacyOnly, scope, Permitted, unscopedRowCounts,
          rowCounts, Suppressed
<1>3. ASSUME UNCHANGED inputs, pc' # "done"
      PROVE  /\ request' \in Requests /\ page' \in Pages /\ failing' \in FailureSets
             /\ page' = page /\ scope' = scope /\ PrivacyOnly' = PrivacyOnly
             /\ Unscoped' = Unscoped /\ Permitted' = Permitted
             /\ \A r : (Screened(r)' <=> Screened(r)) /\ (Rightful(r)' <=> Rightful(r))
  BY <1>1, <1>3 DEF inputs, scope, PrivacyOnly, Unscoped, Permitted,
        Screened, Rightful, Open
<1>4. ASSUME NEW code \in {"ACTOR_DENIED", "PERMISSION_LOOKUP_FAILED", "PERMISSION_JOIN_FAILED"}, Deny(code)
      PROVE  ReaderInv'
  <2>1. /\ request' = request /\ page' = page /\ failing' = failing /\ kept' = kept /\ counts' = counts
        /\ pc' = "done" /\ reply'.code = code /\ code # "ok"
    BY <1>4 DEF Deny, inputs
  <2>2. KeptRows' /\ Bounded'
    BY <1>1, <2>1 DEF KeptRows, Bounded
  <2> QED
    BY <1>1, <1>4, <2>1, <2>2 DEF ReaderInv, ReplyingOk
<1>5. ASSUME ExecuteAsOperator \/ ExecuteAsActor PROVE ReaderInv'
  <2>1. /\ UNCHANGED inputs /\ kept' = page.rows /\ counts' = counts /\ reply' = reply /\ pc = "start"
    BY <1>5 DEF ExecuteAsOperator, ExecuteAsActor
  <2>2. request' = request /\ page' = page /\ failing' = failing /\ reply = None
    BY <2>1 DEF inputs, ReaderInv
  <2>3. Untouched'
    BY <2>1, <2>2 DEF Untouched, ReaderInv, NoCounts
  <2>4. KeptRows' /\ Bounded' /\ Counted'
    <3>1. /\ counts'.notPermitted = 0 /\ counts'.unresolved = 0 /\ counts'.privacy = 0
          /\ counts' \in [notPermitted : Nat, unresolved : Nat, privacy : Nat]
      BY <2>3 DEF Untouched, NoCounts
    <3>2. KeptRows'
      BY <1>1, <2>1, <2>2, RawPages DEF KeptRows, WellFormed, Named
    <3>3. Bounded'
      BY <1>1, <2>2, <3>1, RawPages DEF Bounded
    <3>4. Counted'
      BY <1>1, <2>1, <2>2, <3>1, RawPages DEF Counted
    <3> QED
      BY <3>2, <3>3, <3>4
  <2>5. scope' = scope /\ PrivacyOnly' = PrivacyOnly /\ Unscoped' = Unscoped
    BY <2>2 DEF scope, PrivacyOnly, Unscoped
  <2>6. scope.kind \in {"operator", "all", "jobs"} /\ (scope.kind = "operator" => scope.excluded = {})
    BY <1>1 DEF PageAssumption, scope
  <2>7. \/ pc' = "exclude" /\ PrivacyOnly
        \/ pc' = "reply" /\ Unscoped
        \/ pc' = "filter" /\ ~PrivacyOnly /\ (scope.kind = "jobs" \/ scope.excluded # {})
    <3>1. CASE ExecuteAsOperator
      BY <2>6, <3>1 DEF ExecuteAsOperator, PrivacyOnly, Unscoped
    <3>2. CASE ExecuteAsActor
      <4>1. /\ scope.kind \in {"all", "jobs"}
            /\ pc' = IF PrivacyOnly THEN "exclude"
                     ELSE IF scope.kind = "all" /\ scope.excluded = {} THEN "reply"
                     ELSE "filter"
        BY <2>6, <3>2 DEF ExecuteAsActor
      <4>2. CASE PrivacyOnly
        BY <4>1, <4>2
      <4>3. CASE ~PrivacyOnly /\ scope.kind = "all" /\ scope.excluded = {}
        BY <4>1, <4>3 DEF PrivacyOnly, Unscoped
      <4>4. CASE ~PrivacyOnly /\ ~(scope.kind = "all" /\ scope.excluded = {})
        BY <4>1, <4>4
      <4> QED
        BY <4>2, <4>3, <4>4
    <3> QED
      BY <1>5, <3>1, <3>2
  <2> QED
    BY <1>1, <2>1, <2>2, <2>3, <2>4, <2>5, <2>7 DEF ReaderInv, ReplyingOk
<1>6. ASSUME excludeConfidentialJobRows PROVE ReaderInv'
  <2> DEFINE verdict == [i \in DOMAIN kept |-> excludeConfidentialJobRow(kept[i])]
             shown == [i \in DOMAIN kept |-> Pruned(kept[i])]
  <2>1. /\ UNCHANGED inputs /\ pc = "exclude" /\ pc' = "gate" /\ reply' = reply /\ page' = page
        /\ IF scope.excluded = {} THEN UNCHANGED <<kept, counts>> ELSE Keep(verdict, shown)
    BY <1>6 DEF excludeConfidentialJobRows, inputs
  <2>2. PrivacyOnly /\ Untouched /\ reply = None /\ ~Unscoped
    BY <2>1 DEF ReaderInv, PrivacyOnly, Unscoped
  <2>3. KeptRows /\ Bounded /\ Counted
    BY <1>1, <2>2, UntouchedPages
  <2>4. KeptRows' /\ Bounded' /\ Counted' /\ \A i \in DOMAIN kept' : Screened(kept'[i])
    <3>1. CASE scope.excluded = {}
      <4>1. kept' = kept /\ counts' = counts
        BY <2>1, <3>1
      <4>2. KeptRows' /\ Bounded' /\ Counted'
        BY <2>1, <2>3, <4>1 DEF KeptRows, Bounded, Counted
      <4>3. scope.kind # "jobs"
        BY <2>2 DEF PrivacyOnly
      <4> QED
        BY <3>1, <4>2, <4>3, AllJobsAreOpen, WithoutExclusions DEF Screened
    <3>2. CASE scope.excluded # {}
      <4>1. Keep(verdict, shown)
        BY <2>1, <3>2
      <4>2. \A i \in DOMAIN kept : verdict[i] \in Outcomes
        BY DEF excludeConfidentialJobRow, Outcomes
      <4>3. \A i \in DOMAIN kept : WellFormed(page.tool, shown[i])
        BY <2>3, PrunedRows DEF KeptRows
      <4>4. ASSUME NEW i \in DOMAIN kept, verdict[i] = "permitted" PROVE Screened(shown[i])
        <5>1. WellFormed(page.tool, kept[i]) /\ excludeConfidentialJobRow(kept[i]) = "permitted"
          BY <2>3, <4>4 DEF KeptRows
        <5>2. Open(shown[i])
          BY <2>2, <5>1, ExclusionKeeps
        <5>3. shown[i].embedded # None => JobsOf(EmbeddedIn(shown[i])) \subseteq Permitted
          <6>1. shown[i] = Pruned(kept[i])
            OBVIOUS
          <6> HIDE DEF shown
          <6> QED
            BY <5>1, <6>1, PrunedEmbeds
        <5> QED
          BY <5>2, <5>3 DEF Screened
      <4>5. Len(page.rows) \in Nat
        BY <1>1, RawPages
      <4> HIDE DEF verdict, shown
      <4>6. /\ KeptRows' /\ Bounded' /\ Counted' /\ DOMAIN kept' \subseteq DOMAIN kept
            /\ \A i \in DOMAIN kept' : verdict[i] = "permitted" /\ kept'[i] = shown[i]
        BY <2>1, <2>3, <4>1, <4>2, <4>3, <4>5, KeepCounts
      <4> QED
        BY <4>4, <4>6
    <3> QED
      BY <3>1, <3>2
  <2> QED
    BY <1>3, <2>1, <2>2, <2>4 DEF ReaderInv, ReplyingOk
<1>7. ASSUME FilterPage PROVE ReaderInv'
  <2> DEFINE verdict == [i \in DOMAIN kept |-> Filter(kept[i])]
             shown == [i \in DOMAIN kept |-> IF page.tool \in CandidateTools
                                             THEN Pruned(kept[i]) ELSE kept[i]]
  <2>1. /\ UNCHANGED inputs /\ pc = "filter" /\ pc' = "gate" /\ reply' = reply /\ page' = page
        /\ Keep(verdict, shown)
    BY <1>7 DEF FilterPage, inputs
  <2>2. ~PrivacyOnly /\ Untouched /\ reply = None /\ ~Unscoped
    BY <2>1 DEF ReaderInv, Unscoped
  <2>3. KeptRows /\ Bounded /\ Counted
    BY <1>1, <2>2, UntouchedPages
  <2>4. \A i \in DOMAIN kept : verdict[i] \in Outcomes
    BY FilterOutcomes
  <2>5. \A i \in DOMAIN kept : WellFormed(page.tool, shown[i])
    BY <2>3, PrunedRows DEF KeptRows
  <2>6. ASSUME NEW i \in DOMAIN kept, verdict[i] = "permitted" PROVE Screened(shown[i])
    <3>1. WellFormed(page.tool, kept[i]) /\ Filter(kept[i]) = "permitted"
      BY <2>3, <2>6 DEF KeptRows
    <3>2. page.tool # "reference" => Open(shown[i])
      <4>1. shown[i] = IF page.tool \in CandidateTools THEN Pruned(kept[i]) ELSE kept[i]
        OBVIOUS
      <4>2. page.tool \in Tools
        BY <1>1, RawPages
      <4> HIDE DEF shown, verdict
      <4> QED
        BY <3>1, <4>1, <4>2, FilterKeeps
    <3>3. shown[i].embedded # None => JobsOf(EmbeddedIn(shown[i])) \subseteq Permitted
      <4>1. CASE page.tool \in CandidateTools
        <5>1. shown[i] = Pruned(kept[i])
          BY <4>1
        <5> HIDE DEF shown
        <5> QED
          BY <3>1, <5>1, PrunedEmbeds
      <4>2. CASE page.tool \notin CandidateTools
        BY <3>1, <4>2 DEF WellFormed, CandidateTools
      <4> QED
        BY <4>1, <4>2
    <3> QED
      BY <3>2, <3>3 DEF Screened
  <2>7. Len(page.rows) \in Nat
    BY <1>1, RawPages
  <2> HIDE DEF verdict, shown
  <2>8. /\ KeptRows' /\ Bounded' /\ Counted' /\ DOMAIN kept' \subseteq DOMAIN kept
        /\ \A i \in DOMAIN kept' : verdict[i] = "permitted" /\ kept'[i] = shown[i]
    BY <2>1, <2>3, <2>4, <2>5, <2>7, KeepCounts
  <2>9. \A i \in DOMAIN kept' : Screened(kept'[i])
    BY <2>6, <2>8
  <2> QED
    BY <1>3, <2>1, <2>2, <2>8, <2>9 DEF ReaderInv, ReplyingOk
<1>8. ASSUME Gate PROVE ReaderInv'
  <2> DEFINE verdict == [i \in DOMAIN kept |->
                 IF applyCandidatePrivacyGate(kept[i]) THEN "permitted" ELSE "privacy"]
  <2>1. /\ UNCHANGED inputs /\ pc = "gate" /\ pc' = "reply" /\ reply' = reply /\ page' = page
        /\ Keep(verdict, kept)
    BY <1>8 DEF Gate, inputs
  <2>2. reply = None /\ ~Unscoped /\ Counted /\ \A i \in DOMAIN kept : Screened(kept[i])
    BY <2>1 DEF ReaderInv
  <2>3. \A i \in DOMAIN kept : verdict[i] \in Outcomes
    BY DEF Outcomes
  <2>4. \A i \in DOMAIN kept : WellFormed(page.tool, kept[i])
    BY <1>1 DEF KeptRows
  <2>5. ASSUME NEW i \in DOMAIN kept, verdict[i] = "permitted", ~scope.attested PROVE Rightful(kept[i])
    <3>1. applyCandidatePrivacyGate(kept[i])
      BY <2>5
    <3> QED
      BY <2>4, <2>5, <3>1, GateKeeps
  <2>6. Len(page.rows) \in Nat
    BY <1>1, RawPages
  <2> HIDE DEF verdict
  <2>7. /\ KeptRows' /\ Bounded' /\ Counted' /\ DOMAIN kept' \subseteq DOMAIN kept
        /\ \A i \in DOMAIN kept' : verdict[i] = "permitted" /\ kept'[i] = kept[i]
    BY <1>1, <2>1, <2>2, <2>3, <2>4, <2>6, KeepCounts
  <2>8. \A i \in DOMAIN kept' : Screened(kept'[i]) /\ (~scope.attested => Rightful(kept'[i]))
    BY <2>2, <2>5, <2>7
  <2> QED
    BY <1>3, <2>1, <2>2, <2>7, <2>8 DEF ReaderInv, ReplyingOk
<1>9. ASSUME NEW scoped, NEW withheld, NEW numbers, Send(scoped, withheld, numbers),
             scoped = IF Unscoped THEN FALSE ELSE ~PrivacyOnly \/ scope.kind = "all",
             withheld = IF Unscoped THEN FALSE ELSE PrivacyOnly,
             numbers = IF Unscoped THEN unscopedRowCounts ELSE rowCounts
      PROVE  ReaderInv'
  <2>1. /\ request' = request /\ page' = page /\ failing' = failing /\ kept' = kept /\ counts' = counts
        /\ pc = "reply" /\ pc' = "done" /\ reply' = Sent(scoped, withheld, numbers)
    BY <1>9 DEF Send, inputs, Sent
  <2>2. reply'.code = "ok"
    BY <2>1 DEF Sent
  <2>3. /\ scope' = scope /\ PrivacyOnly' = PrivacyOnly
        /\ Unscoped' = Unscoped /\ unscopedRowCounts' = unscopedRowCounts
        /\ rowCounts' = rowCounts
        /\ \A r : (Screened(r)' <=> Screened(r)) /\ (Rightful(r)' <=> Rightful(r))
    BY <2>1 DEF scope, PrivacyOnly, Unscoped, unscopedRowCounts, rowCounts,
          Suppressed, Screened, Rightful, Open, Permitted
  <2>4. (KeptRows' <=> KeptRows) /\ (Bounded' <=> Bounded) /\ (Counted' <=> Counted) /\ (Untouched' <=> Untouched)
    BY <2>1 DEF KeptRows, Bounded, Counted, Untouched, NoCounts
  <2>5. \A x, y, z : Sent(x, y, z)' = Sent(x, y, z)
    BY <2>1, <2>3 DEF Sent
  <2>6. reply' = IF Unscoped' THEN Sent(FALSE, FALSE, unscopedRowCounts)'
                 ELSE Sent(~PrivacyOnly \/ scope.kind = "all", PrivacyOnly, rowCounts)'
    BY <1>9, <2>1, <2>3, <2>5
  <2>7. ReplyingOk
    BY <2>1 DEF ReplyingOk
  <2> QED
    BY <1>1, <2>1, <2>2, <2>3, <2>4, <2>6, <2>7 DEF ReaderInv, ReplyingOk
<1>10. CASE DenyActor
  BY <1>4, <1>10 DEF DenyActor
<1>11. CASE PermissionLookupFails
  BY <1>4, <1>11 DEF PermissionLookupFails
<1>12. CASE JoinFails
  BY <1>4, <1>12 DEF JoinFails
<1>13. CASE ReplyUnscoped
  BY <1>9, <1>13 DEF ReplyUnscoped
<1>14. CASE withholdUnattestedPrivateCandidates
  <2>1. PrivacyOnly /\ ~Unscoped /\ Send(scope.kind = "all", TRUE, rowCounts)
    BY <1>14 DEF withholdUnattestedPrivateCandidates, PrivacyOnly, Unscoped
  <2> QED
    BY <1>9, <2>1
<1>15. CASE ReplyScoped
  <2>1. ~PrivacyOnly /\ ~Unscoped /\ Send(TRUE, FALSE, rowCounts)
    BY <1>15 DEF ReplyScoped
  <2>2. PrivacyOnly = FALSE
    BY <2>1 DEF PrivacyOnly
  <2> QED
    BY <1>9, <2>1, <2>2
<1> QED
  BY <1>2, <1>5, <1>6, <1>7, <1>8, <1>10, <1>11, <1>12, <1>13, <1>14, <1>15 DEF Next

LEMMA ReaderInvariance ==
    ASSUME WorldAssumption, PageAssumption
    PROVE  Spec => []ReaderInv
<1>1. Init => ReaderInv
  BY ReaderInit
<1>2. ReaderInv /\ [Next]_vars => ReaderInv'
  BY ReaderStep
<1> QED
  BY <1>1, <1>2, PTL DEF Spec

(* A row that leads to a private candidate is returned only to an actor    *)
(* who is attested or holds the Private role on one of the jobs it leads   *)
(* to (withholdUnattestedPrivateCandidates, applyCandidatePrivacyGate):    *)
(* for any scopes and failures, and the rows that PageAssumption admits.   *)
THEOREM PrivateRowsAreEarned ==
    ASSUME WorldAssumption, PageAssumption
    PROVE  Spec => []PrivateRowsNeedARight
<1>1. ReaderInv => PrivateRowsNeedARight
  <2> SUFFICES ASSUME ReaderInv, Answered, ~scope.attested, NEW i \in DOMAIN reply.rows
               PROVE  Rightful(reply.rows[i])
    BY DEF PrivateRowsNeedARight, Rightful
  <2>1. pc = "done" /\ reply.code = "ok"
    BY DEF ReaderInv, Answered
  <2>2. ~Unscoped
    BY DEF Unscoped
  <2>3. reply.rows = kept
    BY <2>1, <2>2 DEF ReaderInv, Sent
  <2> QED
    BY <2>1, <2>2, <2>3 DEF ReaderInv, ReplyingOk
<1> QED
  BY <1>1, ReaderInvariance, PTL

(* No row comes back all of whose jobs are closed to the actor, and no     *)
(* embedded application does (the row filters of scopedRead and            *)
(* excludeConfidentialJobRows).                                            *)
THEOREM ClosedJobsAreKept ==
    ASSUME WorldAssumption, PageAssumption
    PROVE  Spec => []ClosedJobsStayClosed
<1>1. ReaderInv => ClosedJobsStayClosed
  <2> SUFFICES ASSUME ReaderInv, Answered, page.tool # "reference", NEW i \in DOMAIN reply.rows
               PROVE  Screened(reply.rows[i])
    BY DEF ClosedJobsStayClosed, Screened, Open
  <2>1. pc = "done" /\ reply.code = "ok"
    BY DEF ReaderInv, Answered
  <2>2. reply.rows = kept
    BY <2>1 DEF ReaderInv, Sent
  <2>3. CASE Unscoped
    <3>1. scope.kind # "jobs" /\ scope.excluded = {}
      BY <2>3 DEF Unscoped
    <3> QED
      BY <3>1, WithoutExclusions, AllJobsAreOpen DEF Screened
  <2>4. CASE ~Unscoped
    BY <2>1, <2>2, <2>4 DEF ReaderInv, ReplyingOk
  <2> QED
    BY <2>3, <2>4
<1> QED
  BY <1>1, ReaderInvariance, PTL

(* Every row of the page is in one of the reply's counts, and a reply that *)
(* says nothing was filtered is the page (rowCounts, unscopedRowCounts).   *)
THEOREM RowsAreCounted ==
    ASSUME WorldAssumption, PageAssumption
    PROVE  Spec => []RowsAreAccountedFor
<1>1. ReaderInv => RowsAreAccountedFor
  <2> SUFFICES ASSUME ReaderInv, Answered PROVE RowsAreAccountedFor
    BY DEF RowsAreAccountedFor
  <2>1. pc = "done" /\ reply.code = "ok"
    BY DEF ReaderInv, Answered
  <2>2. Counted /\ Bounded /\ page \in Pages /\ (Unscoped => Untouched)
    BY <2>1 DEF ReaderInv, ReplyingOk
  <2>3. Cardinality(DOMAIN kept) \in Nat /\ counts.notPermitted \in Nat /\ counts.unresolved \in Nat
    <3>1. IsFiniteSet(DOMAIN kept)
      <4>1. DOMAIN kept \subseteq 1..Len(page.rows) /\ Len(page.rows) \in Nat
        BY <2>2, RawPages DEF ReaderInv, KeptRows
      <4>2. IsFiniteSet(1..Len(page.rows))
        BY <4>1, FS_Interval
      <4> QED
        BY <4>1, <4>2, FS_Subset
    <3>2. Cardinality(DOMAIN kept) \in Nat
      BY <3>1, FS_CardinalityType
    <3> QED
      BY <2>2, <3>2 DEF Bounded
  <2>4. CASE Unscoped
    <3>1. reply = Sent(FALSE, FALSE, unscopedRowCounts)
      BY <2>1, <2>4 DEF ReaderInv
    <3>2. /\ reply.raw = Cardinality(DOMAIN kept) /\ reply.returned = Cardinality(DOMAIN kept)
          /\ reply.excluded = 0 /\ reply.unresolved = 0 /\ reply.rows = page.rows
      <4>1. unscopedRowCounts = [raw |-> Cardinality(DOMAIN kept), excluded |-> 0, unresolved |-> 0,
                                        privacyWithheld |-> 0]
        BY DEF unscopedRowCounts
      <4>2. kept = page.rows
        BY <2>2, <2>4 DEF Untouched
      <4>3. reply.rows = kept
        BY <3>1 DEF Sent
      <4> QED
        BY <3>1, <4>1, <4>2, <4>3 DEF Sent
    <3> QED
      BY <2>3, <3>2 DEF RowsAreAccountedFor
  <2>5. CASE ~Unscoped
    <3>1. reply = Sent(~PrivacyOnly \/ scope.kind = "all", PrivacyOnly, rowCounts)
      BY <2>1, <2>5 DEF ReaderInv
    <3>2. reply.scoped \/ reply.permissionScope.withheld
      <4>1. /\ reply.scoped = (~PrivacyOnly \/ scope.kind = "all")
            /\ reply.permissionScope.withheld = PrivacyOnly
        BY <3>1 DEF Sent
      <4> QED
        BY <4>1
    <3>3. ~Suppressed =>
             /\ reply.raw = Len(page.rows) /\ reply.returned = Cardinality(DOMAIN kept)
             /\ reply.excluded = counts.notPermitted /\ reply.unresolved = counts.unresolved
      BY <3>1 DEF Sent, rowCounts
    <3>4. ~Suppressed => reply.raw = reply.returned + reply.excluded + reply.unresolved
      BY <2>2, <2>3, <3>3 DEF Counted
    <3> QED
      BY <3>2, <3>4 DEF RowsAreAccountedFor
  <2> QED
    BY <2>4, <2>5
<1> QED
  BY <1>1, ReaderInvariance, PTL

(* A read of one record that only privacy withholds is answered like one   *)
(* of a record that does not exist (Suppressed): a page of one row.        *)
THEOREM WithheldIsAbsent ==
    ASSUME WorldAssumption, PageAssumption
    PROVE  Spec => []WithheldLooksAbsent
<1>1. ReaderInv => WithheldLooksAbsent
  <2> SUFFICES ASSUME ReaderInv, Answered, page.single, reply.rows = <<>>, counts.privacy > 0
               PROVE  reply = [code |-> "ok", rows |-> <<>>, returned |-> 0, scoped |-> reply.scoped,
                        permissionScope |-> reply.permissionScope, raw |-> 0, excluded |-> 0,
                        unresolved |-> 0, complete |-> TRUE, privacyWithheld |-> 0]
    BY DEF WithheldLooksAbsent
  <2>1. pc = "done" /\ reply.code = "ok"
    BY DEF ReaderInv, Answered
  <2>2. Counted /\ Bounded /\ page \in Pages /\ (Unscoped => Untouched)
    BY <2>1 DEF ReaderInv, ReplyingOk
  <2>3. Len(page.rows) \in Nat /\ Len(page.rows) <= 1
    BY <2>2, RawPages
  <2>4. ~Unscoped
    BY <2>2 DEF Untouched, NoCounts
  <2>5. reply = Sent(~PrivacyOnly \/ scope.kind = "all", PrivacyOnly, rowCounts)
    BY <2>1, <2>4 DEF ReaderInv
  <2>6. kept = <<>>
    BY <2>5 DEF Sent
  <2>7. Cardinality(DOMAIN kept) = 0
    <3>1. DOMAIN kept = {}
      BY <2>6
    <3> QED
      BY <3>1, FS_EmptySet
  <2>8. /\ counts.privacy \in Nat /\ counts.notPermitted \in Nat /\ counts.unresolved \in Nat
        /\ counts.privacy <= counts.notPermitted
        /\ counts.notPermitted + counts.unresolved <= Len(page.rows)
    BY <2>2 DEF Bounded
  <2>9. Len(page.rows) > 0 /\ counts.unresolved = 0
    BY <2>3, <2>8
  <2>10. Suppressed
    BY <2>9 DEF Suppressed
  <2>11. rowCounts = [raw |-> 0, excluded |-> 0, unresolved |-> 0, privacyWithheld |-> 0]
    BY <2>9, <2>10 DEF rowCounts
  <2> DEFINE s == ~PrivacyOnly \/ scope.kind = "all"
             p == [kind |-> scope.kind, withheld |-> PrivacyOnly]
  <2>12. reply = [code |-> "ok", rows |-> <<>>, returned |-> 0, scoped |-> s, permissionScope |-> p, raw |-> 0,
                  excluded |-> 0, unresolved |-> 0, complete |-> TRUE, privacyWithheld |-> 0]
    BY <2>5, <2>6, <2>7, <2>11 DEF Sent
  <2> HIDE DEF s, p
  <2> QED
    BY <2>12
<1> QED
  BY <1>1, ReaderInvariance, PTL

(***************************************************************************)
(* What is not lost.                                                       *)
(***************************************************************************)
Resolvable(R, c) ==
    /\ \A x \in R : \A d \in Named(x) : parents[d][x.carrier[d]] # None
    /\ NamedIn(R) \subseteq {c}

(* Where everything can be read and names one candidate, no walk stops     *)
(* short: there are as many hops as kinds of parents.                      *)
LEMMA WalksComplete ==
    ASSUME WorldAssumption, ShapeAssumption, PrivacyOnly, failing = {},
           NEW row \in Records, NEW c, Resolvable(Reached(row), c)
    PROVE  walkRowCandidate(row).state \in {"resolved", "none"}
<1>1. PICK w : IsWalk(w, row) /\ walkRowCandidate(row) = w[Depth][row]
  BY WalkStep
<1>2. PICK f : IsReach(f, row) /\ Reached(row) = f[Depth][row]
  BY ReachStep
<1> DEFINE D == Met(row) \ {None}
           Near(n, r) == (\A d \in Named(r) : Rank[d] <= n) /\ (n = 0 => r.candidate # None)
           S == {n \in 0..Depth : \A r \in D : Near(n, r) /\ Resolvable(f[n][r], c) =>
                    /\ w[n][r].state \in {"resolved", "none"}
                    /\ w[n][r].state = "resolved" => w[n][r].candidate = c}
<1>3. Depth = 4
  BY DEF Depth
<1>4. row \in D /\ D \subseteq Records /\ \A r \in D : ParentsOf(r) \subseteq D
  BY MetValues, WorldValues DEF ParentsOf
<1>5. \A d \in Carriers : Rank[d] \in 1..4 /\ (Rank[d] <= 1 => d = "application")
  BY DEF Rank, Carriers
<1>6. \A r, d : d \in Named(r) => d \in Carriers /\ r.carrier[d] \in Ids
  BY DEF Named
<1>7. 0 \in S
  <2> SUFFICES ASSUME NEW r \in D, Near(0, r), Resolvable(f[0][r], c)
               PROVE  w[0][r].state = "resolved" /\ w[0][r].candidate = c
    BY <1>3
  <2>1. f[0][r] = {r} /\ w[0][r] = End(r, "unresolved") /\ r.candidate # None
    BY <1>1, <1>2 DEF IsWalk, IsReach, WhereItStops
  <2>2. r.candidate = c
    BY <2>1 DEF Resolvable, NamedIn
  <2> QED
    BY <2>1, <2>2 DEF End, Found
<1>8. ASSUME NEW n \in 1..Depth, n - 1 \in S PROVE n \in S
  <2> SUFFICES ASSUME NEW r \in D, Near(n, r), Resolvable(f[n][r], c)
               PROVE  /\ w[n][r].state \in {"resolved", "none"}
                      /\ w[n][r].state = "resolved" => w[n][r].candidate = c
    OBVIOUS
  <2>1. f[n][r] = Wider(r, f[n - 1]) /\ w[n][r] = Further(r, w[n - 1]) /\ r # None /\ r \in Records
    BY <1>1, <1>2, <1>4 DEF IsWalk, IsReach
  <2>2. r \in f[n][r] /\ \A p \in ParentsOf(r) : f[n - 1][p] \subseteq f[n][r]
    BY <2>1 DEF Wider
  <2>3. Stops(r) <=> Named(r) = {}
    BY DEF Stops
  <2>4. r.candidate = None \/ r.candidate = c
    BY <2>2 DEF Resolvable, NamedIn
  <2>5. CASE Named(r) = {}
    <3>1. w[n][r] = End(r, "none")
      BY <2>1, <2>3, <2>5 DEF Further
    <3> QED
      BY <2>4, <3>1 DEF End, Found
  <2>6. CASE Named(r) # {}
    <3> DEFINE all == {w[n - 1][Parent(r, d)] : d \in Named(r)}
               named == {v.candidate : v \in {u \in all : u.state = "resolved"}} \cup ({r.candidate} \ {None})
               jobs == OwnJob(r) \cup UNION {v.jobs : v \in all}
    <3>1. w[n][r] = Joined(r, all)
      BY <2>1, <2>3, <2>6 DEF Further
    <3>2. ASSUME NEW d \in Named(r)
          PROVE  /\ w[n - 1][Parent(r, d)].state \in {"resolved", "none"}
                 /\ w[n - 1][Parent(r, d)].state = "resolved" => w[n - 1][Parent(r, d)].candidate = c
      <4> DEFINE p == Parent(r, d)
      <4>1. p = parents[d][r.carrier[d]] /\ p # None
        BY <1>6, <2>2 DEF Parent, Resolvable
      <4>2. p \in ParentsOf(r) /\ p \in D
        BY <1>4, <4>1 DEF ParentsOf
      <4>3. Resolvable(f[n - 1][p], c)
        <5>1. f[n - 1][p] \subseteq f[n][r]
          BY <2>2, <4>2
        <5> HIDE DEF p
        <5> QED
          BY <5>1, JobsInside DEF Resolvable
      <4>4. Near(n - 1, p)
        <5>1. \A e \in Named(p) : Rank[e] < Rank[d]
          BY <1>6, <4>1 DEF ShapeAssumption
        <5>2. Rank[d] <= n /\ d \in Carriers /\ \A e \in Named(p) : Rank[e] \in 1..4
          BY <1>5, <1>6
        <5>3. \A e \in Named(p) : Rank[e] <= n - 1
          BY <1>3, <1>5, <5>1, <5>2
        <5>4. n - 1 = 0 => p.candidate # None
          <6>1. n - 1 = 0 => d = "application"
            BY <1>5, <5>2
          <6> QED
            BY <1>6, <4>1, <6>1 DEF ShapeAssumption
        <5> QED
          BY <5>3, <5>4
      <4> HIDE DEF p, Near
      <4>5. w[n - 1][p].state \in {"resolved", "none"} /\ (w[n - 1][p].state = "resolved" => w[n - 1][p].candidate = c)
        BY <1>8, <4>2, <4>3, <4>4
      <4> QED
        BY <4>5 DEF p
    <3>3. \A v \in all : v.state \in {"resolved", "none"} /\ (v.state = "resolved" => v.candidate = c)
      BY <3>2
    <3> HIDE DEF all
    <3>4. named \subseteq {c} /\ ~\E v \in all : v.state = "unresolved"
      BY <2>4, <3>3
    <3>5. Joined(r, all) = IF named = {} THEN Found("none", None, jobs)
                                  ELSE Found("resolved", CHOOSE e \in named : TRUE, jobs)
      BY <3>4 DEF Joined
    <3>6. named # {} => (CHOOSE e \in named : TRUE) = c
      <4> HIDE DEF named
      <4> QED
        BY <3>4
    <3> HIDE DEF named, jobs
    <3> QED
      BY <3>1, <3>5, <3>6 DEF Found
  <2> QED
    BY <2>5, <2>6
<1>9. Depth \in S
  <2> HIDE DEF S
  <2>1. 0..Depth \subseteq S
    BY <1>3, <1>7, <1>8, UpTo
  <2> QED
    BY <1>3, <2>1
<1>10. Near(Depth, row)
  BY <1>3, <1>5, <1>6
<1> HIDE DEF Near
<1> QED
  BY <1>1, <1>2, <1>4, <1>9, <1>10

(* A row that no confidential job and no private candidate has to do with, *)
(* and all of whose references lead somewhere.                             *)
Harmless(r) ==
    /\ Intact(r) /\ CandidatesOf(r) \cap PrivateOnes = {}
    /\ \E c \in Candidates : CandidatesOf(r) = {c}
    /\ \A j, k \in JobsOf(Reached(r)) : j = k
    /\ JobsReached(r) \cap scope.excluded = {}

LEMMA HarmlessFound ==
    ASSUME WorldAssumption, ShapeAssumption, PrivacyOnly, failing = {},
           NEW tool, tool # "candidate", NEW r, WellFormed(tool, r), Harmless(r)
    PROVE  LET found == resolveRowCandidate(r)
           IN  /\ found.state = "resolved" /\ CandidatesOf(r) = {found.candidate}
               /\ found.jobs = JobsOf(Reached(r))
<1>1. PICK c \in Candidates : CandidatesOf(r) = {c}
  BY DEF Harmless
<1>2. r \in Records /\ r.self = None
  BY DEF WellFormed
<1>3. NamedIn(Reached(r)) = {c}
  BY <1>1, <1>2, CandidatesReached DEF NamedIn
<1>4. Resolvable(Reached(r), c)
  BY <1>3 DEF Resolvable, Harmless, Intact, Named
<1>5. walkRowCandidate(r).state \in {"resolved", "none"} /\ Agrees(walkRowCandidate(r), Reached(r))
  BY <1>2, <1>4, WalksComplete, WalkAgrees
<1>6. walkRowCandidate(r).state = "resolved"
  BY <1>3, <1>5 DEF Agrees
<1>7. \A i, j \in walkRowCandidate(r).jobs : i = j
  BY <1>5 DEF Agrees, Harmless
<1>8. resolveRowCandidate(r) = walkRowCandidate(r)
  BY <1>7 DEF resolveRowCandidate
<1> HIDE DEF Harmless
<1> QED
  BY <1>6, <1>8, FoundAgrees

LEMMA PrivacyOnlyPermits ==
    ASSUME PrivacyOnly, NEW on, on \subseteq Jobs, on # {}, on \cap scope.excluded = {}
    PROVE  on \subseteq Permitted /\ on \cap Permitted # {}
  BY DEF PrivacyOnly, Permitted, EveryJobExcept

LEMMA JobsAreJobs ==
    ASSUME NEW R
    PROVE  JobsOf(R) \subseteq Jobs
  BY OwnJobValues DEF JobsOf

(* The exclusion of confidential jobs keeps such a row, as it is.          *)
LEMMA HarmlessStays ==
    ASSUME WorldAssumption, ShapeAssumption, PrivacyOnly, failing = {},
           NEW r, WellFormed(page.tool, r), page.tool = "job" => r.job # None, Harmless(r)
    PROVE  excludeConfidentialJobRow(r) = "permitted" /\ Pruned(r) = r
<1> DEFINE on == resolveRowJobIds(r)
           way == JobsOf(Reached(r))
<1>1. r \in Records /\ None \notin Jobs /\ Bad \notin Jobs
  BY WorldValues DEF WellFormed
<1>2. JobsReached(r) \cap scope.excluded = {}
  BY DEF Harmless
<1>3. ASSUME NEW jobs, jobs \subseteq way, jobs # {} PROVE jobs \cap Permitted # {}
  <2>1. JobsReached(r) = way
    BY <1>3 DEF JobsReached
  <2>2. way \subseteq Jobs
    BY JobsAreJobs
  <2> QED
    BY <1>2, <1>3, <2>1, <2>2, PrivacyOnlyPermits
<1>4. \A x \in Reached(r) : x.job # Bad /\ \A d \in Carriers : x.carrier[d] \in Ids => parents[d][x.carrier[d]] # None
  BY DEF Harmless, Intact
<1>5. r \in Reached(r) /\ ParentsOf(r) \subseteq Reached(r) /\ Reached(r) \subseteq Records
  BY <1>1, ReachedSelf
<1>6. SUFFICES (on.state = "none" \/ (on.state = "resolved" /\ on.jobs \cap Permitted # {})) /\ Pruned(r) = r
  BY DEF excludeConfidentialJobRow
<1>7. CASE page.tool = "candidate"
  <2>1. /\ r.job = None /\ r.carrier["application"] \notin Ids /\ WellFormed("candidate", r)
        /\ r.embedded # None => \A i \in r.embedded : i \in Ids /\ Application(i) # None
    <3>1. WellFormed("candidate", r)
      BY <1>7
    <3> QED
      BY <1>1, <3>1 DEF WellFormed, Named, Carriers, Application, Records
  <2>2. JobsReached(r) = IF r.embedded # None THEN JobsOf(EmbeddedIn(r))
                                ELSE JobsOf(ApplicationsOf(r.self))
    BY <2>1, CandidateRows
  <2>3. CASE r.embedded # None
    <3> DEFINE own == JobsOf(EmbeddedIn(r))
    <3>1. ASSUME NEW i \in r.embedded PROVE OwnJob(Application(i)) # {} /\ OwnJob(Application(i)) \subseteq own
      <4>1. Application(i) \in EmbeddedIn(r) /\ Application(i) # None
        BY <2>1, <2>3 DEF EmbeddedIn
      <4>2. Application(i).job # Bad
        BY <2>3, <4>1 DEF Harmless, Intact
      <4>3. Application(i).job # None /\ Application(i) \in Records
        BY <2>1, <2>3, <4>1, WorldValues DEF Application, ShapeAssumption, Carriers
      <4>4. Application(i).job \in Jobs
        BY <4>2, <4>3 DEF Records
      <4> QED
        BY <4>1, <4>4 DEF OwnJob, JobsOf
    <3>2. own \subseteq Jobs /\ own \cap scope.excluded = {}
      BY <1>2, <2>2, <2>3, JobsAreJobs
    <3>3. \A i \in r.embedded : OwnJob(Application(i)) \cap Permitted # {}
      BY <3>1, <3>2, PrivacyOnlyPermits
    <3>4. Pruned(r) = r
      <4>1. {i \in r.embedded : OwnJob(Application(i)) \cap Permitted # {}} = r.embedded
        BY <3>3
      <4>2. [r EXCEPT !.embedded = r.embedded] = r
        BY <1>1 DEF Records
      <4> QED
        BY <2>3, <4>1, <4>2 DEF Pruned
    <3>5. on = IF r.embedded = {} THEN [state |-> "none", jobs |-> {}]
               ELSE [state |-> IF own = {} THEN "unresolved" ELSE "resolved", jobs |-> own]
      BY <1>7, <2>1, <2>3 DEF resolveRowJobIds
    <3>6. r.embedded # {} => own # {} /\ own \cap Permitted # {}
      <4> HIDE DEF own
      <4> QED
        BY <3>1, <3>2, PrivacyOnlyPermits
    <3> HIDE DEF own, on
    <3> QED
      BY <3>4, <3>5, <3>6
  <2>4. CASE r.embedded = None
    <3> DEFINE own == JobsOf(ApplicationsOf(r.self))
    <3>1. on = IF own = {} THEN [state |-> "none", jobs |-> {}]
               ELSE [state |-> IF own = {} THEN "unresolved" ELSE "resolved", jobs |-> own]
      BY <1>7, <2>1, <2>4 DEF resolveRowJobIds, CandidateTools, Found
    <3>2. own \subseteq Jobs /\ own \cap scope.excluded = {}
      BY <1>2, <2>2, <2>4, JobsAreJobs
    <3>3. own # {} => own \cap Permitted # {}
      BY <3>2, PrivacyOnlyPermits
    <3>4. Pruned(r) = r
      BY <2>4 DEF Pruned
    <3> HIDE DEF own, on
    <3> QED
      BY <3>1, <3>3, <3>4
  <2> QED
    BY <2>3, <2>4
<1>8. CASE page.tool # "candidate"
  <2>1. r.embedded = None /\ r.self = None /\ Pruned(r) = r
    BY <1>8, PrunedRows DEF WellFormed
  <2>2. ASSUME NEW x \in Reached(r), x.job # None PROVE OwnJob(x) # {} /\ OwnJob(x) \subseteq way
    <3>1. x.job \in Jobs
      BY <1>4, <1>5, <2>2 DEF Records
    <3> QED
      BY <3>1 DEF OwnJob, JobsOf
  <2>3. CASE page.tool = "job" \/ r.job # None
    <3>1. on = [state |-> IF OwnJob(r) = {} THEN "unresolved" ELSE "resolved", jobs |-> OwnJob(r)]
      BY <2>3 DEF resolveRowJobIds
    <3>2. OwnJob(r) # {} /\ OwnJob(r) \subseteq way
      BY <1>5, <2>2, <2>3
    <3> HIDE DEF on, way
    <3> QED
      BY <1>3, <2>1, <3>1, <3>2
  <2>4. CASE ~(page.tool = "job" \/ r.job # None) /\ r.carrier["application"] \in Ids
    <3> DEFINE via == Parent(r, "application")
    <3>1. on = [state |-> IF JobsOf({via} \ {None}) = {} THEN "unresolved" ELSE "resolved",
                jobs |-> JobsOf({via} \ {None})]
      BY <2>4 DEF resolveRowJobIds
    <3>2. via = parents["application"][r.carrier["application"]] /\ via # None
      BY <1>4, <1>5, <2>4 DEF Parent, Carriers
    <3>3. via \in ParentsOf(r)
      BY <2>4, <3>2 DEF ParentsOf, Named, Carriers
    <3>4. via.job # None
      BY <2>4, <3>2 DEF ShapeAssumption, Carriers
    <3>5. OwnJob(via) # {} /\ OwnJob(via) \subseteq way
      BY <1>5, <2>2, <3>3, <3>4
    <3>6. JobsOf({via} \ {None}) = OwnJob(via)
      BY <3>2 DEF JobsOf
    <3> HIDE DEF on, way, via
    <3> QED
      BY <1>3, <2>1, <3>1, <3>5, <3>6
  <2>5. CASE ~(page.tool = "job" \/ r.job # None) /\ r.carrier["application"] \notin Ids
    <3> DEFINE found == resolveRowCandidate(r)
               own == JobsOf(ApplicationsOf(found.candidate))
    <3>1. found.state = "resolved" /\ CandidatesOf(r) = {found.candidate} /\ found.jobs = way
      BY <1>8, HarmlessFound
    <3>2. on = IF way # {} THEN [state |-> IF way = {} THEN "unresolved" ELSE "resolved", jobs |-> way]
               ELSE IF own = {} THEN [state |-> "none", jobs |-> {}]
               ELSE [state |-> IF own = {} THEN "unresolved" ELSE "resolved", jobs |-> own]
      <4>1. page.tool # "job" /\ r.job = None /\ page.tool \notin CandidateTools /\ "candidateApplications" \notin failing
        BY <1>8, <2>5 DEF CandidateTools
      <4>2. found = resolveRowCandidate(r)
        OBVIOUS
      <4> HIDE DEF found, way
      <4> QED
        BY <2>1, <2>5, <3>1, <4>1, <4>2 DEF resolveRowJobIds
    <3>3. way = {} => JobsReached(r) = own
      <4>1. UNION {ApplicationsOf(d) : d \in {found.candidate}} = ApplicationsOf(found.candidate)
        OBVIOUS
      <4> HIDE DEF found
      <4> QED
        BY <2>1, <3>1, <4>1 DEF JobsReached, found
    <3>4. own \subseteq Jobs
      BY JobsAreJobs
    <3>5. way = {} /\ own # {} => own \cap Permitted # {}
      BY <1>2, <3>3, <3>4, PrivacyOnlyPermits
    <3>6. way # {} => way \cap Permitted # {}
      BY <1>3
    <3> HIDE DEF on, own, way, found
    <3> QED
      BY <2>1, <3>2, <3>5, <3>6
  <2> QED
    BY <2>3, <2>4, <2>5
<1> QED
  BY <1>7, <1>8

(* And so does the gate.                                                   *)
LEMMA HarmlessPasses ==
    ASSUME WorldAssumption, ShapeAssumption, PrivacyOnly, failing = {},
           NEW r, WellFormed(page.tool, r), Harmless(r)
    PROVE  applyCandidatePrivacyGate(r)
<1>1. CASE page.tool = "candidate"
  <2>1. WellFormed("candidate", r)
    BY <1>1
  <2>2. CandidatesOf(r) = {r.self}
    BY <2>1, CandidateRows
  <2> QED
    BY <1>1, <2>2 DEF Harmless, applyCandidatePrivacyGate, CandidateTools
<1>2. CASE page.tool # "candidate"
  <2> DEFINE found == resolveRowCandidate(r)
  <2>1. found.state = "resolved" /\ CandidatesOf(r) = {found.candidate}
    BY <1>2, HarmlessFound
  <2>2. found.candidate \notin PrivateOnes
    BY <2>1 DEF Harmless
  <2> HIDE DEF found
  <2> QED
    BY <1>2, <2>1, <2>2 DEF found, applyCandidatePrivacyGate, CandidateTools
<1> QED
  BY <1>1, <1>2

Undenied == pc = "done" /\ PrivacyOnly => reply.code # "PERMISSION_JOIN_FAILED"
Remaining ==
    PrivacyOnly /\ failing = {} /\ (pc \in {"exclude", "gate"} \/ ReplyingOk) =>
        \A i \in 1..Len(page.rows) : Harmless(page.rows[i]) => i \in DOMAIN kept /\ kept[i] = page.rows[i]

LEMMA RemainingStep ==
    ASSUME WorldAssumption, PageAssumption, ShapeAssumption, ReaderInv, ReaderInv',
           Undenied, Remaining, [Next]_vars
    PROVE  Undenied' /\ Remaining'
<1>1. page \in Pages /\ KeptRows
  BY DEF ReaderInv
<1>2. CASE UNCHANGED vars
  <2>1. /\ request' = request /\ page' = page /\ failing' = failing /\ pc' = pc
        /\ kept' = kept /\ counts' = counts /\ reply' = reply
    BY <1>2 DEF vars
  <2> QED
    BY <2>1 DEF Undenied, Remaining, ReplyingOk, Harmless, PrivacyOnly, scope
<1>3. ASSUME UNCHANGED inputs
      PROVE  /\ page' = page /\ failing' = failing /\ PrivacyOnly' = PrivacyOnly
             /\ \A r : Harmless(r)' <=> Harmless(r)
  BY <1>3 DEF inputs, PrivacyOnly, scope, Harmless
<1>4. ASSUME NEW code, code # "ok", code = "PERMISSION_JOIN_FAILED" => ~PrivacyOnly, Deny(code)
      PROVE  Undenied' /\ Remaining'
  <2>1. UNCHANGED inputs /\ pc' = "done" /\ reply'.code = code
    BY <1>4 DEF Deny
  <2> QED
    BY <1>3, <1>4, <2>1 DEF Undenied, Remaining, ReplyingOk
<1>5. ASSUME ExecuteAsOperator \/ ExecuteAsActor PROVE Undenied' /\ Remaining'
  <2>1. UNCHANGED inputs /\ kept' = page.rows /\ pc' # "done"
    BY <1>5 DEF ExecuteAsOperator, ExecuteAsActor
  <2> QED
    BY <1>1, <1>3, <2>1, RawPages DEF Undenied, Remaining
<1>6. ASSUME excludeConfidentialJobRows PROVE Undenied' /\ Remaining'
  <2> DEFINE verdict == [i \in DOMAIN kept |-> excludeConfidentialJobRow(kept[i])]
             shown == [i \in DOMAIN kept |-> Pruned(kept[i])]
  <2>1. /\ UNCHANGED inputs /\ pc = "exclude" /\ pc' = "gate"
        /\ IF scope.excluded = {} THEN UNCHANGED <<kept, counts>> ELSE Keep(verdict, shown)
    BY <1>6 DEF excludeConfidentialJobRows
  <2>2. CASE scope.excluded = {}
    <3>1. kept' = kept
      BY <2>1, <2>2
    <3> QED
      BY <1>3, <2>1, <3>1 DEF Undenied, Remaining
  <2>3. CASE scope.excluded # {}
    <3>1. kept' = [i \in {k \in DOMAIN kept : verdict[k] = "permitted"} |-> shown[i]]
      BY <2>1, <2>3 DEF Keep
    <3> SUFFICES ASSUME PrivacyOnly, failing = {}, NEW i \in 1..Len(page.rows), Harmless(page.rows[i])
                 PROVE  i \in DOMAIN kept' /\ kept'[i] = page.rows[i]
      BY <1>3, <2>1 DEF Undenied, Remaining
    <3>2. i \in DOMAIN kept /\ kept[i] = page.rows[i]
      BY <2>1 DEF Remaining
    <3>3. WellFormed(page.tool, kept[i]) /\ (page.tool = "job" => kept[i].job # None)
      BY <1>1, <3>2 DEF KeptRows, ShapeAssumption
    <3>4. excludeConfidentialJobRow(kept[i]) = "permitted" /\ Pruned(kept[i]) = kept[i]
      BY <3>2, <3>3, HarmlessStays
    <3> QED
      BY <3>1, <3>2, <3>4
  <2> QED
    BY <2>2, <2>3
<1>7. ASSUME FilterPage PROVE Undenied' /\ Remaining'
  <2>1. UNCHANGED inputs /\ pc = "filter" /\ pc' = "gate" /\ ~PrivacyOnly
    BY <1>7 DEF FilterPage, ReaderInv
  <2> QED
    BY <1>3, <2>1 DEF Undenied, Remaining
<1>8. ASSUME Gate PROVE Undenied' /\ Remaining'
  <2> DEFINE verdict == [i \in DOMAIN kept |->
                 IF applyCandidatePrivacyGate(kept[i]) THEN "permitted" ELSE "privacy"]
  <2>1. UNCHANGED inputs /\ pc = "gate" /\ pc' = "reply" /\ Keep(verdict, kept)
    BY <1>8 DEF Gate
  <2>2. kept' = [i \in {k \in DOMAIN kept : verdict[k] = "permitted"} |-> kept[i]]
    BY <2>1 DEF Keep
  <2> SUFFICES ASSUME PrivacyOnly, failing = {}, NEW i \in 1..Len(page.rows), Harmless(page.rows[i])
               PROVE  i \in DOMAIN kept' /\ kept'[i] = page.rows[i]
    BY <1>3, <2>1 DEF Undenied, Remaining
  <2>3. i \in DOMAIN kept /\ kept[i] = page.rows[i]
    BY <2>1 DEF Remaining
  <2>4. applyCandidatePrivacyGate(kept[i])
    BY <1>1, <2>3, HarmlessPasses DEF KeptRows
  <2> QED
    BY <2>2, <2>3, <2>4
<1>9. ASSUME NEW scoped, NEW withheld, NEW numbers, Send(scoped, withheld, numbers)
      PROVE  Undenied' /\ Remaining'
  <2>1. UNCHANGED inputs /\ pc = "reply" /\ pc' = "done" /\ kept' = kept /\ reply'.code = "ok"
    BY <1>9 DEF Send
  <2> QED
    BY <1>3, <2>1 DEF Undenied, Remaining, ReplyingOk
<1>10. CASE DenyActor
  BY <1>4, <1>10 DEF DenyActor
<1>11. CASE PermissionLookupFails
  BY <1>4, <1>11 DEF PermissionLookupFails
<1>12. CASE JoinFails
  BY <1>4, <1>12 DEF JoinFails, ReaderInv
<1>13. CASE ReplyUnscoped
  BY <1>9, <1>13 DEF ReplyUnscoped
<1>14. CASE withholdUnattestedPrivateCandidates
  BY <1>9, <1>14 DEF withholdUnattestedPrivateCandidates
<1>15. CASE ReplyScoped
  BY <1>9, <1>15 DEF ReplyScoped
<1> QED
  BY <1>2, <1>5, <1>6, <1>7, <1>8, <1>10, <1>11, <1>12, <1>13, <1>14, <1>15 DEF Next

(* An actor whose right is merely not attested is never denied a page, and *)
(* a row that no confidential job and no private candidate has to do with  *)
(* reaches him when everything it refers to could be read                  *)
(* (withholdUnattestedPrivateCandidates): for records of the API's shape.  *)
THEOREM OnlyPrivateRowsAreLost ==
    ASSUME WorldAssumption, PageAssumption, ShapeAssumption
    PROVE  Spec => []UnattestedLosesOnlyPrivateRows
<1>1. Init => Undenied /\ Remaining
  BY DEF Init, Undenied, Remaining, ReplyingOk
<1>2. ReaderInv /\ ReaderInv' /\ (Undenied /\ Remaining) /\ [Next]_vars => (Undenied /\ Remaining)'
  BY RemainingStep
<1>3. ReaderInv /\ Undenied /\ Remaining => UnattestedLosesOnlyPrivateRows
  <2> SUFFICES ASSUME ReaderInv, Undenied, Remaining, reply # None, PrivacyOnly
               PROVE  /\ reply.code # "PERMISSION_JOIN_FAILED"
                      /\ Answered /\ failing = {} => \A i \in 1..Len(page.rows) :
                            Harmless(page.rows[i]) => \E k \in DOMAIN reply.rows : reply.rows[k] = page.rows[i]
    BY DEF UnattestedLosesOnlyPrivateRows, Harmless
  <2>1. pc = "done"
    BY DEF ReaderInv
  <2>2. ASSUME Answered, failing = {}, NEW i \in 1..Len(page.rows), Harmless(page.rows[i])
        PROVE  \E k \in DOMAIN reply.rows : reply.rows[k] = page.rows[i]
    <3>1. reply.code = "ok"
      BY <2>2 DEF Answered
    <3>2. reply.rows = kept
      BY <2>1, <3>1 DEF ReaderInv, Sent
    <3>3. i \in DOMAIN kept /\ kept[i] = page.rows[i]
      BY <2>1, <2>2, <3>1 DEF Remaining, ReplyingOk
    <3> QED
      BY <3>2, <3>3
  <2> QED
    BY <2>1, <2>2 DEF Undenied
<1> QED
  BY <1>1, <1>2, <1>3, ReaderInvariance, PTL DEF Spec

(* The reader's type invariant: no count exceeds the page.                 *)
THEOREM ReaderTypes ==
    ASSUME WorldAssumption, PageAssumption
    PROVE  Spec => []TypeOK
<1>1. ReaderInv => TypeOK
  <2> SUFFICES ASSUME ReaderInv PROVE TypeOK
    OBVIOUS
  <2>1. /\ page \in Pages /\ failing \in FailureSets /\ KeptRows /\ Bounded
        /\ pc \in {"start", "exclude", "filter", "gate", "reply", "done"}
        /\ reply = None \/ reply.code \in {"ok", "ACTOR_DENIED", "PERMISSION_LOOKUP_FAILED", "PERMISSION_JOIN_FAILED"}
    BY DEF ReaderInv
  <2>2. page.tool \in Tools /\ failing \subseteq Endpoints /\ Len(page.rows) \in Nat
    BY <2>1, RawPages DEF PageAssumption
  <2>3. \A i \in DOMAIN kept : kept[i] \in Records
    BY <2>1 DEF KeptRows, WellFormed
  <2>4. counts \in [{"notPermitted", "unresolved", "privacy"} -> 0..Len(page.rows)]
    <3>1. /\ counts.notPermitted \in 0..Len(page.rows) /\ counts.unresolved \in 0..Len(page.rows)
          /\ counts.privacy \in 0..Len(page.rows)
      BY <2>1, <2>2 DEF Bounded
    <3>2. counts = [notPermitted |-> counts.notPermitted, unresolved |-> counts.unresolved, privacy |-> counts.privacy]
      BY <2>1 DEF Bounded
    <3>3. counts = [x \in {"notPermitted", "unresolved", "privacy"} |-> counts[x]]
      BY <3>2
    <3> QED
      BY <3>1, <3>3
  <2> QED
    BY <2>1, <2>2, <2>3, <2>4 DEF TypeOK
<1> QED
  BY <1>1, ReaderInvariance, PTL
=============================================================================
