------------------------------- MODULE JobScope -------------------------------
(***************************************************************************)
(* Job scopes of the recruiter server: a request is resolved to jobs       *)
(* (resolvers/job-scope/resolver.ts), at once or by way of a token the     *)
(* recruiter confirms, and frozen in a signed handle that an analysis      *)
(* redeems (tools/job-scope/tools.ts, resolution/analysis-context.ts).     *)
(* Handles and tokens are kept by the client alone.  What an actor may see *)
(* changes between the steps, an inventory read may be cut short, and a    *)
(* process without a configured secret signs with a key of its own.        *)
(*                                                                         *)
(* Jobs are numbers, as the preview's order wants them.  A text is given   *)
(* by what the lexical ranker finds in it: the identifiers it names, the   *)
(* jobs it hits well and fairly, whether it holds anything at all, words   *)
(* that are left over, words no job matches, a broad phrase or an analysis *)
(* intent, an alias to be confirmed, and the two meanings of a colliding   *)
(* one.  The inventory is read live, so that its index is never stale.     *)
(***************************************************************************)
EXTENDS Integers, FiniteSets, FiniteSetTheorems, TLAPS

CONSTANTS
    Jobs, ReqOf, Closed, Confidential,
    Subjects, Admins,   \* of scope kind "all" or "operator"
    OwnerOf, HiringOf,  \* [Subjects -> SUBSET Jobs], the rows of two owner sources
    Requests,           \* records as NoRequest of the MC module
    maxCandidates,      \* HARD_MAX_CANDIDATES at most
    MaxArtifactJobs,    \* jobs whose ids fill the 8192 characters of an artifact
    TokenTtl, HandleTtl, \* DEFAULT_CONFIRMATION_TOKEN_TTL_MS, DEFAULT_SCOPE_HANDLE_TTL_MS
    SecretSet,          \* SCOPE_SIGNING_SECRET_ENV is set
    MaxNow, MaxArtifacts, MaxChanges, MaxRestarts, \* bounds
    None

JobScopeAssumption ==
    /\ Jobs \subseteq Nat /\ IsFiniteSet(Jobs) /\ Closed \cup Confidential \subseteq Jobs
    /\ \A q \in Requests :
          ~q.text => /\ ~q.words /\ ~q.broad /\ ~q.intent /\ ~q.alias /\ q.meanings = {}
                     /\ q.names.ids = {} /\ q.names.reqs = {}
    /\ {maxCandidates, MaxArtifactJobs, TokenTtl, HandleTtl} \subseteq Nat \ {0}

VARIABLES
    access,    \* the jobs Greenhouse lets a subject see
    now, key,  \* the clock; the signing key of the process
    artifacts, \* the handles and tokens minted so far
    reply,     \* the last one
    changes

vars == <<access, now, key, artifacts, reply, changes>>

Init ==
    /\ access \in [Subjects -> {Jobs}]
    /\ now = 0 /\ key = 0
    /\ artifacts = {} /\ reply = None
    /\ changes = 0

-----------------------------------------------------------------------------
(* What the inventory of s may hold: legacy confidential jobs are left out *)
(* of a recruiter's.                                                       *)
Visible(s) == IF s \in Admins THEN access[s] ELSE access[s] \ Confidential

(* loadScopedReaderInventory: the whole of it, or some of it by a limit or *)
(* a row that cannot be normalized.  A read that fails denies the call.    *)
Inventories(s) ==
    {[jobs |-> Visible(s), complete |-> TRUE]} \cup
    {[jobs |-> some, complete |-> FALSE] : some \in SUBSET Visible(s)}

(* resolveOwnerScope: a source that is forbidden is left out, one that     *)
(* fails denies the call, and so does having none left.                    *)
OwnerScopes(s, q) ==
    LET source == [owners |-> OwnerOf[s], hms |-> HiringOf[s]]
    IN IF q.owner = {} THEN {Jobs}
       ELSE {UNION {source[k] : k \in open} : open \in SUBSET q.owner \ {{}}}

(* promoteExactIdentifierQuery.                                            *)
Exact(q, inv) ==
    LET reqs == {r \in q.names.reqs : \E j \in inv.jobs : ReqOf[j] = r}
        ids == q.names.ids \cap inv.jobs
    IN IF q.ids # {} \/ q.reqs # {} THEN [ids |-> q.ids, reqs |-> q.reqs]
       ELSE IF Cardinality(reqs) = 1 THEN [ids |-> {}, reqs |-> reqs]
       ELSE IF reqs = {} /\ Cardinality(ids) = 1 THEN [ids |-> ids, reqs |-> {}]
       ELSE [ids |-> {}, reqs |-> {}]

Selection(matched, incomplete) ==
    [matched |-> matched, incomplete |-> incomplete, broad |-> FALSE,
     twice |-> FALSE, noise |-> FALSE, alias |-> FALSE, band |-> "exact"]

selectByIds(ids, inv) ==
    Selection(ids \cap inv.jobs, ~inv.complete /\ ~(ids \subseteq inv.jobs))

selectByRequisitionIds(reqs, inv) ==
    LET found == {j \in inv.jobs : ReqOf[j] \in reqs}
    IN [Selection(found, ~inv.complete) EXCEPT
          !.twice = \E j, k \in found : j # k /\ ReqOf[j] = ReqOf[k]]

(* The best first, then by id, as many as the preview shows.               *)
Preview(q, S) ==
    LET before(j, k) == (j \in q.high /\ k \notin q.high) \/ ((j \in q.high <=> k \in q.high) /\ j < k)
    IN {k \in S : Cardinality({j \in S : before(j, k)}) < maxCandidates}

selectBySearch(q, inv) ==
    LET scored == inv.jobs \cap (q.high \cup q.fair)
        all == scored = {} /\ (~q.words \/ q.broad \/ q.intent)
        broad == all \/ (scored # {} /\ q.broad)
        allowed == (IF all THEN inv.jobs ELSE scored) \ (IF q.closedToo THEN {} ELSE Closed)
    IN [matched |-> IF broad THEN allowed ELSE Preview(q, allowed),
        incomplete |-> ~inv.complete,
        broad |-> broad,
        twice |-> \A meaning \in q.meanings : meaning \cap allowed # {},
        noise |-> IF scored = {} THEN q.words ELSE q.noise,
        alias |-> q.alias \/ q.meanings # {},
        band |-> IF all \/ allowed = {} THEN "none" ELSE IF allowed \cap q.high # {} THEN "high" ELSE "medium"]

Select(q, inv) ==
    LET e == Exact(q, inv)
    IN IF e.ids # {} THEN selectByIds(e.ids, inv)
       ELSE IF e.reqs # {} THEN selectByRequisitionIds(e.reqs, inv)
       ELSE [selectBySearch(q, inv) EXCEPT !.twice = q.meanings # {} /\ @]

(* An owner's own requisitions, asked for with nothing else.               *)
deterministicOwnerScope(q, e) ==
    q.owner # {} /\ ~q.text /\ e.ids = {} /\ e.reqs = {}

needsConfirmation(q, e, sel) ==
    \/ ~q.auto
    \/ sel.matched \cap (Closed \cup Confidential) # {}
    \/ /\ ~deterministicOwnerScope(q, e)
       /\ \/ Cardinality(sel.matched) > 1 \/ sel.broad \/ sel.noise \/ sel.alias
          \/ sel.band \in {"none", "medium"}

requiredAcknowledgements(s, sel) ==
    (IF sel.broad /\ s \in Admins THEN {"broad"} ELSE {}) \cup
    (IF sel.matched \cap Closed # {} THEN {"closed"} ELSE {}) \cup
    (IF sel.matched \cap Confidential # {} THEN {"confidential"} ELSE {})

NoMatch(sel) == sel.matched = {}

(* resolveJobScope: its status, and the jobs a handle or token would have. *)
Resolution(s, q, inv) ==
    LET e == Exact(q, inv)
        sel == Select(q, inv)
    IN [jobs |-> sel.matched,
        complete |-> inv.complete \/ e.ids # {},
        acks |-> requiredAcknowledgements(s, sel),
        status |-> IF sel.incomplete THEN "incomplete"
                   ELSE IF NoMatch(sel) THEN "no_match"
                   ELSE IF sel.twice THEN "ambiguous"
                   ELSE IF needsConfirmation(q, e, sel) THEN "needs_confirmation"
                   ELSE "resolved"]

-----------------------------------------------------------------------------
(* A handle or a token.  The fields from "request" on are not in the       *)
(* artifact: they keep how it came about.                                  *)
Artifact(kind, s, jobs, complete, acks, q, seen, whole, at) ==
    [kind |-> kind, sub |-> s, key |-> key, jobs |-> jobs, complete |-> complete, acks |-> acks,
     exp |-> now + (IF kind = "handle" THEN HandleTtl ELSE TokenTtl),
     request |-> q, seen |-> seen, whole |-> whole, at |-> at, given |-> {}, from |-> kind]

Room == Cardinality(artifacts) < MaxArtifacts

Say(kind, s, jobs, lost) == [kind |-> kind, sub |-> s, jobs |-> jobs, lost |-> lost, art |-> None, visible |-> Visible(s)]

runResolveJobScope(s, q) ==
    /\ Room
    /\ \E load \in Inventories(s), owned \in OwnerScopes(s, q) :
          LET inv == [load EXCEPT !.jobs = @ \cap owned]
              r == Resolution(s, q, inv)
              minted == Artifact(IF r.status = "resolved" THEN "handle" ELSE "token",
                                 s, r.jobs, r.complete, r.acks, q, inv.jobs, load.complete, now)
          IN /\ artifacts' = IF r.status \in {"resolved", "needs_confirmation", "ambiguous"}
                             THEN artifacts \cup {minted} ELSE artifacts
             /\ reply' = Say(r.status, s, r.jobs, {})
    /\ UNCHANGED <<access, now, key, changes>>

Fits(a) == Cardinality(a.jobs) <= MaxArtifactJobs

(* verifyArtifact: the length, the key, the kind, the expiry, the subject. *)
Verified(a, kind, s) == a.kind = kind /\ Fits(a) /\ a.key = key /\ a.exp > now /\ a.sub = s

(* Plausible bug: the selected ids are taken as they are.                  *)
ChosenAsGiven(a, selected) == IF selected = None THEN a.jobs ELSE selected

Chosen(a, selected) == IF selected = None THEN a.jobs ELSE selected \cap a.jobs

AcksGiven(a, acks) == a.acks \subseteq acks

(* A token may be confirmed again and again until it expires.              *)
runConfirmJobScope(s, a, selected, acks) ==
    /\ Room
    /\ Verified(a, "token", s)
    /\ LET chosen == Chosen(a, selected) IN
       \/ /\ (chosen = {} \/ ~AcksGiven(a, acks))
          /\ reply' = Say("needs_revision", s, {}, {}) /\ UNCHANGED artifacts
       \/ /\ chosen # {} /\ AcksGiven(a, acks)
          /\ \E inv \in Inventories(s) :
               LET kept == chosen \cap inv.jobs
                   handle == [Artifact("handle", s, kept, a.complete, {}, a.request, a.seen, a.whole, a.at)
                                EXCEPT !.given = acks, !.from = "token"]
               IN /\ artifacts' = IF kept = {} THEN artifacts ELSE artifacts \cup {handle}
                  /\ reply' = Say(IF kept = {} THEN "rejected" ELSE "confirmed", s, kept, chosen \ kept)
    /\ UNCHANGED <<access, now, key, changes>>

runGetJobScope(s, a) ==
    /\ a.kind = "handle"
    /\ \E inv \in Inventories(s) :
          reply' = IF Verified(a, "handle", s) THEN Say("shown", s, a.jobs, a.jobs \ inv.jobs)
                   ELSE Say("invalid", s, {}, {})
    /\ UNCHANGED <<access, now, key, artifacts, changes>>

(* The jobs of a scope that an analysis may run over; None: it is refused, *)
(* because a truncation cannot be told from a revocation.                  *)
Redeemed(jobs, inv) ==
    IF jobs \cap inv.jobs = {} \/ (~(jobs \subseteq inv.jobs) /\ ~inv.complete) THEN None ELSE jobs \cap inv.jobs

Ran(s, a, jobs) == [Say("ran", s, jobs, {}) EXCEPT !.art = a]

redeemScopeHandle(s, a) ==
    /\ a.kind = "handle"
    /\ \E inv \in Inventories(s) :
          LET jobs == Redeemed(a.jobs, inv)
          IN reply' = IF ~Verified(a, "handle", s) THEN [Say("invalid", s, {}, {}) EXCEPT !.art = a]
                      ELSE IF ~a.complete \/ jobs = None THEN Say("refused", s, {}, {})
                      ELSE Ran(s, a, jobs)
    /\ UNCHANGED <<access, now, key, artifacts, changes>>

validateExactJobIds(s, ids) ==
    /\ \E inv \in Inventories(s) :
          reply' = IF ids \subseteq inv.jobs THEN Ran(s, None, ids) ELSE Say("refused", s, {}, {})
    /\ UNCHANGED <<access, now, key, artifacts, changes>>

(* No scope at all: the scoped core bounds the reads by access alone.      *)
runUnscoped(s) ==
    /\ reply' = Ran(s, None, access[s])
    /\ UNCHANGED <<access, now, key, artifacts, changes>>

(* The environment: permissions change, time passes, the process restarts. *)
SetAccess(s, jobs) ==
    /\ changes < MaxChanges /\ changes' = changes + 1
    /\ access' = [access EXCEPT ![s] = jobs]
    /\ reply' = None
    /\ UNCHANGED <<now, key, artifacts>>

Pass ==
    /\ now < MaxNow /\ now' = now + 1
    /\ reply' = None
    /\ UNCHANGED <<access, key, artifacts, changes>>

Restart ==
    /\ key < MaxRestarts /\ ~SecretSet
    /\ key' = key + 1
    /\ reply' = None
    /\ UNCHANGED <<access, now, artifacts, changes>>

Acks == {"broad", "closed", "confidential"}

Next ==
    \/ \E s \in Subjects :
          \/ \E q \in Requests : runResolveJobScope(s, q)
          \/ \E a \in artifacts :
                \/ \E selected \in (SUBSET Jobs) \cup {None}, acks \in SUBSET Acks : runConfirmJobScope(s, a, selected, acks)
                \/ runGetJobScope(s, a) \/ redeemScopeHandle(s, a)
          \/ \E ids \in SUBSET Jobs \ {{}} : validateExactJobIds(s, ids)
          \/ runUnscoped(s)
          \/ \E jobs \in SUBSET Jobs : SetAccess(s, jobs)
    \/ Pass \/ Restart

Spec == Init /\ [][Next]_vars

-----------------------------------------------------------------------------
TypeOK ==
    /\ access \in [Subjects -> SUBSET Jobs]
    /\ now \in 0..MaxNow /\ key \in 0..MaxRestarts /\ changes \in 0..MaxChanges
    /\ \A a \in artifacts : a.kind \in {"handle", "token"} /\ a.jobs \in SUBSET Jobs \ {{}} /\ a.exp > a.at

Handles == {a \in artifacts : a.kind = "handle"}

(* A handle nobody confirmed holds no closed and no confidential job, and  *)
(* one job, unless it is the owner's own set; a handle that was confirmed  *)
(* holds such jobs only if the recruiter acknowledged them.                *)
NothingRunsUnasked ==
    \A h \in Handles :
        /\ h.from = "handle" =>
              /\ h.jobs \cap (Closed \cup Confidential) = {}
              /\ Cardinality(h.jobs) = 1 \/ h.request.owner # {}
        /\ h.jobs \cap Closed # {} => "closed" \in h.given
        /\ h.jobs \cap Confidential # {} => "confidential" \in h.given

(* A handle holds only jobs its own subject saw when the request was       *)
(* resolved, whatever was selected, confirmed again or revoked since.      *)
ScopesNeverGrow == \A h \in Handles : h.jobs \subseteq h.seen

(* A truncated inventory freezes nothing but jobs named by their ids; and  *)
(* a handle from a requisition number was the only job of that number (ids *)
(* given beside it win, and the number is not looked at: selectByIds).     *)
TruncationFreezesNothing ==
    \A h \in Handles :
        /\ ~h.whole => h.request.ids # {} \/ h.request.names.ids # {}
        /\ h.from = "handle" /\ h.request.reqs # {} /\ h.request.ids = {} =>
              \A j, k \in h.seen : {ReqOf[j], ReqOf[k]} \subseteq h.request.reqs /\ j \in h.jobs => j = k \/ ReqOf[j] # ReqOf[k]

(* An analysis of a handle runs over all of the frozen jobs its subject    *)
(* may still see: a truncated read never narrows it, and a revoked job is  *)
(* never in it.                                                            *)
AnalysesAreWhole ==
    reply # None /\ reply.kind = "ran" /\ reply.art # None => reply.jobs = reply.art.jobs \cap reply.visible

(* A handle serves its subject alone, for 75 minutes at most after the     *)
(* request was resolved, however often its token was confirmed.            *)
HandlesServeTheirSubject ==
    reply # None /\ reply.kind = "ran" /\ reply.art # None =>
        reply.art.sub = reply.sub /\ now < reply.art.at + TokenTtl + HandleTtl
-----------------------------------------------------------------------------
(* What keeps these: of every artifact, how it came about.                 *)

(* Its jobs were seen, it has not lived before its request, and a handle   *)
(* ends one handle's life after a token would have.                        *)
TimesOK(a) ==
    /\ a.kind \in {"handle", "token"} /\ a.from \in {"handle", "token"}
    /\ a.kind = "token" => a.from = "token"
    /\ a.jobs \subseteq a.seen /\ a.seen \subseteq Jobs /\ a.jobs # {}
    /\ a.at \in Nat /\ a.exp \in Nat /\ a.at <= now /\ a.at < a.exp
    /\ a.kind = "token" => a.exp = a.at + TokenTtl
    /\ a.kind = "handle" => a.exp <= a.at + TokenTtl + HandleTtl

(* A token asks for what its jobs need, and a handle was given it.         *)
AskedOK(a) ==
    /\ a.kind = "token" =>
          /\ a.jobs \cap Closed # {} => "closed" \in a.acks
          /\ a.jobs \cap Confidential # {} => "confidential" \in a.acks
    /\ a.kind = "handle" =>
          /\ a.jobs \cap Closed # {} => "closed" \in a.given
          /\ a.jobs \cap Confidential # {} => "confidential" \in a.given
    /\ a.kind = "handle" /\ a.from = "handle" =>
          /\ a.jobs \cap (Closed \cup Confidential) = {}
          /\ Cardinality(a.jobs) = 1 \/ a.request.owner # {}

(* It froze what was whole, or what was named.                             *)
WholeOK(a) ==
    /\ ~a.whole => a.request.ids # {} \/ a.request.names.ids # {}
    /\ a.kind = "handle" /\ a.from = "handle" /\ a.request.reqs # {} /\ a.request.ids = {} =>
          \A j, k \in a.seen : {ReqOf[j], ReqOf[k]} \subseteq a.request.reqs /\ j \in a.jobs => j = k \/ ReqOf[j] # ReqOf[k]

(* The reply that ran a handle: all that its subject sees of it, in time.  *)
RanOK ==
    reply # None /\ reply.kind = "ran" /\ reply.art # None =>
        /\ reply.art \in artifacts /\ reply.art.sub = reply.sub
        /\ reply.art.kind = "handle" /\ reply.art.exp > now
        /\ reply.jobs = reply.art.jobs \cap reply.visible

ScopeInv ==
    /\ access \in [Subjects -> SUBSET Jobs] /\ now \in Nat
    /\ \A a \in artifacts : TimesOK(a) /\ AskedOK(a) /\ WholeOK(a)
    /\ RanOK

-----------------------------------------------------------------------------
(* The preview is of the jobs it is given.                                 *)
LEMMA PreviewIsPart == \A q, S : Preview(q, S) \subseteq S
  BY DEF Preview

(* Whatever the request, the jobs selected are of the inventory.           *)
LEMMA SelectionIsSeen == \A q, inv : Select(q, inv).matched \subseteq inv.jobs
  <1> SUFFICES ASSUME NEW q, NEW inv PROVE Select(q, inv).matched \subseteq inv.jobs
    OBVIOUS
  <1> DEFINE e == Exact(q, inv)
  <1>1. selectByIds(e.ids, inv).matched \subseteq inv.jobs
    BY DEF selectByIds, Selection
  <1>2. selectByRequisitionIds(e.reqs, inv).matched \subseteq inv.jobs
    BY DEF selectByRequisitionIds, Selection
  <1>3. selectBySearch(q, inv).matched \subseteq inv.jobs
    BY PreviewIsPart DEF selectBySearch
  <1> HIDE DEF e
  <1>4. [selectBySearch(q, inv) EXCEPT !.twice = q.meanings # {} /\ @].matched = selectBySearch(q, inv).matched
    BY DEF selectBySearch
  <1> QED
    BY <1>1, <1>2, <1>3, <1>4 DEF Select, e

(* Only jobs named by their ids are selected from a truncated inventory.   *)
LEMMA TruncationSelectsNamed ==
    ASSUME NEW q, NEW inv, ~inv.complete, ~Select(q, inv).incomplete
    PROVE  q.ids # {} \/ q.names.ids # {}
  <1> DEFINE e == Exact(q, inv)
  <1>1. e.ids # {} => q.ids # {} \/ q.names.ids # {}
    BY DEF Exact
  <1>2. selectByRequisitionIds(e.reqs, inv).incomplete
    BY DEF selectByRequisitionIds, Selection
  <1>3. [selectBySearch(q, inv) EXCEPT !.twice = q.meanings # {} /\ @].incomplete
    BY DEF selectBySearch
  <1> HIDE DEF e
  <1> QED
    BY <1>1, <1>2, <1>3 DEF Select, e

(* A requisition number that is not ambiguous names one job at most.       *)
LEMMA RequisitionsSelectOne ==
    ASSUME NEW q, NEW inv, q.ids = {}, q.reqs # {}, ~Select(q, inv).twice,
           NEW j \in inv.jobs, NEW k \in inv.jobs, {ReqOf[j], ReqOf[k]} \subseteq q.reqs
    PROVE  j = k \/ ReqOf[j] # ReqOf[k]
  <1>1. Exact(q, inv) = [ids |-> {}, reqs |-> q.reqs]
    BY DEF Exact
  <1>2. Select(q, inv) = selectByRequisitionIds(q.reqs, inv)
    BY <1>1 DEF Select
  <1>3. selectByRequisitionIds(q.reqs, inv).twice
          <=> \E m, n \in {i \in inv.jobs : ReqOf[i] \in q.reqs} : m # n /\ ReqOf[m] = ReqOf[n]
    BY DEF selectByRequisitionIds, Selection
  <1> QED
    BY <1>2, <1>3

(* What a resolution that mints says of the jobs it mints.                 *)
LEMMA ResolutionIsAsked ==
    ASSUME NEW s, NEW q, NEW inv, inv.jobs \subseteq Jobs, JobScopeAssumption,
           NEW r, r = Resolution(s, q, inv), r.status \in {"resolved", "needs_confirmation", "ambiguous"}
    PROVE  /\ r.jobs = Select(q, inv).matched /\ r.jobs \subseteq inv.jobs /\ r.jobs # {}
           /\ ~Select(q, inv).incomplete
           /\ r.jobs \cap Closed # {} => "closed" \in r.acks
           /\ r.jobs \cap Confidential # {} => "confidential" \in r.acks
           /\ r.status = "resolved" =>
                 /\ ~Select(q, inv).twice
                 /\ r.jobs \cap (Closed \cup Confidential) = {}
                 /\ Cardinality(r.jobs) = 1 \/ q.owner # {}
  <1> DEFINE sel == Select(q, inv)
             e == Exact(q, inv)
  <1>1. /\ r.jobs = sel.matched /\ r.acks = requiredAcknowledgements(s, sel)
        /\ r.status = IF sel.incomplete THEN "incomplete" ELSE IF NoMatch(sel) THEN "no_match"
                      ELSE IF sel.twice THEN "ambiguous"
                      ELSE IF needsConfirmation(q, e, sel) THEN "needs_confirmation" ELSE "resolved"
    BY DEF Resolution
  <1>2. sel.matched \subseteq inv.jobs
    BY SelectionIsSeen
  <1> HIDE DEF sel, e
  <1>3. ~sel.incomplete /\ ~NoMatch(sel)
    BY <1>1
  <1>4. r.status = "resolved" => ~sel.twice /\ ~needsConfirmation(q, e, sel)
    BY <1>1
  <1>5. sel.matched # {}
    BY <1>3 DEF NoMatch
  <1>6. ASSUME r.status = "resolved", ~(Cardinality(sel.matched) > 1)
        PROVE  Cardinality(sel.matched) = 1
    <2>1. IsFiniteSet(sel.matched)
      BY <1>2, FS_Subset DEF JobScopeAssumption
    <2>2. Cardinality(sel.matched) \in Nat /\ Cardinality(sel.matched) # 0
      BY <1>5, <2>1, FS_CardinalityType, FS_EmptySet
    <2> QED
      BY <1>6, <2>2
  <1>7. ASSUME r.status = "resolved" PROVE Cardinality(sel.matched) = 1 \/ q.owner # {}
    BY <1>4, <1>6, <1>7 DEF needsConfirmation, deterministicOwnerScope
  <1>8. r.status = "resolved" => sel.matched \cap (Closed \cup Confidential) = {}
    BY <1>4 DEF needsConfirmation
  <1>9. /\ sel.matched \cap Closed # {} => "closed" \in requiredAcknowledgements(s, sel)
        /\ sel.matched \cap Confidential # {} => "confidential" \in requiredAcknowledgements(s, sel)
    BY DEF requiredAcknowledgements
  <1> QED
    BY <1>1, <1>2, <1>3, <1>4, <1>5, <1>7, <1>8, <1>9 DEF sel

(* Every inventory is of what its subject sees.                            *)
LEMMA InventoriesAreVisible ==
    ASSUME ScopeInv, NEW s \in Subjects, NEW inv \in Inventories(s)
    PROVE  /\ inv.jobs \subseteq Visible(s) /\ Visible(s) \subseteq Jobs
           /\ inv.complete => inv.jobs = Visible(s)
           /\ inv.complete \in BOOLEAN
  <1>1. Visible(s) \subseteq Jobs
    BY DEF ScopeInv, Visible
  <1>2. inv = [jobs |-> Visible(s), complete |-> TRUE]
        \/ \E some \in SUBSET Visible(s) : inv = [jobs |-> some, complete |-> FALSE]
    BY DEF Inventories
  <1>3. CASE inv = [jobs |-> Visible(s), complete |-> TRUE]
    <2>1. inv.jobs = Visible(s) /\ inv.complete = TRUE
      BY <1>3
    <2> QED
      BY <1>1, <2>1
  <1>4. CASE \E some \in SUBSET Visible(s) : inv = [jobs |-> some, complete |-> FALSE]
    <2>1. inv.jobs \subseteq Visible(s) /\ inv.complete = FALSE
      BY <1>4
    <2> QED
      BY <1>1, <2>1
  <1> QED
    BY <1>2, <1>3, <1>4

LEMMA ScopeInvInit == ASSUME JobScopeAssumption, Init PROVE ScopeInv
  BY DEF Init, ScopeInv, RanOK

(* An artifact stays right as time passes.                                 *)
LEMMA TimesStay ==
    ASSUME NEW a, TimesOK(a), now \in Nat, now' \in Nat, now' >= now
    PROVE  TimesOK(a)'
  BY DEF TimesOK

LEMMA ResolveKeeps ==
    ASSUME JobScopeAssumption, ScopeInv, NEW s \in Subjects, NEW q \in Requests, runResolveJobScope(s, q)
    PROVE  ScopeInv'
  <1>1. PICK load \in Inventories(s), owned \in OwnerScopes(s, q) :
          LET inv == [load EXCEPT !.jobs = @ \cap owned]
              r == Resolution(s, q, inv)
              minted == Artifact(IF r.status = "resolved" THEN "handle" ELSE "token",
                                 s, r.jobs, r.complete, r.acks, q, inv.jobs, load.complete, now)
          IN /\ artifacts' = IF r.status \in {"resolved", "needs_confirmation", "ambiguous"}
                             THEN artifacts \cup {minted} ELSE artifacts
             /\ reply' = Say(r.status, s, r.jobs, {})
    BY DEF runResolveJobScope
  <1>2. UNCHANGED <<access, now, key, changes>>
    BY DEF runResolveJobScope
  <1> DEFINE inv == [load EXCEPT !.jobs = @ \cap owned]
             r == Resolution(s, q, inv)
             minted == Artifact(IF r.status = "resolved" THEN "handle" ELSE "token",
                                s, r.jobs, r.complete, r.acks, q, inv.jobs, load.complete, now)
  <1>3. inv.jobs \subseteq Jobs /\ (inv.complete <=> load.complete)
    BY InventoriesAreVisible DEF Inventories
  <1>4. minted.kind = (IF r.status = "resolved" THEN "handle" ELSE "token") /\ minted.from = minted.kind
        /\ minted.jobs = r.jobs /\ minted.acks = r.acks /\ minted.request = q /\ minted.seen = inv.jobs
        /\ minted.whole = load.complete /\ minted.at = now
        /\ minted.exp = now + (IF minted.kind = "handle" THEN HandleTtl ELSE TokenTtl)
    BY DEF Artifact
  <1>5. reply'.kind = r.status
    BY <1>1 DEF Say
  <1>6. r.status # "ran"
    BY DEF Resolution
  <1>7. artifacts' = IF r.status \in {"resolved", "needs_confirmation", "ambiguous"}
                     THEN artifacts \cup {minted} ELSE artifacts
    BY <1>1
  <1>8. ASSUME r.status \in {"resolved", "needs_confirmation", "ambiguous"}
        PROVE  TimesOK(minted) /\ AskedOK(minted) /\ WholeOK(minted)
    <2>1. /\ r.jobs = Select(q, inv).matched /\ r.jobs \subseteq inv.jobs /\ r.jobs # {}
          /\ ~Select(q, inv).incomplete
          /\ r.jobs \cap Closed # {} => "closed" \in r.acks
          /\ r.jobs \cap Confidential # {} => "confidential" \in r.acks
          /\ r.status = "resolved" =>
                 /\ ~Select(q, inv).twice
                 /\ r.jobs \cap (Closed \cup Confidential) = {}
                 /\ Cardinality(r.jobs) = 1 \/ q.owner # {}
      BY ResolutionIsAsked, <1>3, <1>8
    <2>2. ~inv.complete => q.ids # {} \/ q.names.ids # {}
      BY <2>1, TruncationSelectsNamed
    <2>3. ASSUME r.status = "resolved", q.reqs # {}, q.ids = {}
          PROVE  \A j, k \in inv.jobs : {ReqOf[j], ReqOf[k]} \subseteq q.reqs /\ j \in r.jobs => j = k \/ ReqOf[j] # ReqOf[k]
      BY <2>1, <2>3, RequisitionsSelectOne
    <2> HIDE DEF inv, r, minted
    <2>4. TimesOK(minted)
      BY <1>3, <1>4, <2>1 DEF TimesOK, ScopeInv, JobScopeAssumption
    <2>5. AskedOK(minted)
      BY <1>4, <2>1 DEF AskedOK
    <2>6. WholeOK(minted)
      BY <1>3, <1>4, <2>2, <2>3 DEF WholeOK
    <2> QED
      BY <2>4, <2>5, <2>6
  <1> HIDE DEF inv, r, minted
  <1> QED
    BY <1>2, <1>5, <1>6, <1>7, <1>8 DEF ScopeInv, RanOK, TimesOK, AskedOK, WholeOK

LEMMA ConfirmKeeps ==
    ASSUME JobScopeAssumption, ScopeInv, NEW s \in Subjects, NEW a \in artifacts, NEW selected, NEW acks,
           runConfirmJobScope(s, a, selected, acks)
    PROVE  ScopeInv'
  <1>1. UNCHANGED <<access, now, key, changes>> /\ Verified(a, "token", s)
    BY DEF runConfirmJobScope
  <1>2. CASE UNCHANGED artifacts /\ reply' = Say("needs_revision", s, {}, {})
    <2>1. reply'.kind = "needs_revision"
      BY <1>2 DEF Say
    <2> QED
      BY <1>1, <1>2, <2>1 DEF ScopeInv, RanOK, TimesOK, AskedOK, WholeOK
  <1>3. CASE /\ Chosen(a, selected) # {} /\ AcksGiven(a, acks)
             /\ \E inv \in Inventories(s) :
                  LET kept == Chosen(a, selected) \cap inv.jobs
                      handle == [Artifact("handle", s, kept, a.complete, {}, a.request, a.seen, a.whole, a.at)
                                   EXCEPT !.given = acks, !.from = "token"]
                  IN /\ artifacts' = IF kept = {} THEN artifacts ELSE artifacts \cup {handle}
                     /\ reply' = Say(IF kept = {} THEN "rejected" ELSE "confirmed", s, kept, Chosen(a, selected) \ kept)
    <2>1. PICK inv \in Inventories(s) :
                  LET kept == Chosen(a, selected) \cap inv.jobs
                      handle == [Artifact("handle", s, kept, a.complete, {}, a.request, a.seen, a.whole, a.at)
                                   EXCEPT !.given = acks, !.from = "token"]
                  IN /\ artifacts' = IF kept = {} THEN artifacts ELSE artifacts \cup {handle}
                     /\ reply' = Say(IF kept = {} THEN "rejected" ELSE "confirmed", s, kept, Chosen(a, selected) \ kept)
      BY <1>3
    <2> DEFINE kept == Chosen(a, selected) \cap inv.jobs
               handle == [Artifact("handle", s, kept, a.complete, {}, a.request, a.seen, a.whole, a.at)
                            EXCEPT !.given = acks, !.from = "token"]
    <2>2. /\ handle.kind = "handle" /\ handle.from = "token" /\ handle.jobs = kept /\ handle.request = a.request
          /\ handle.seen = a.seen /\ handle.whole = a.whole /\ handle.at = a.at /\ handle.given = acks
          /\ handle.exp = now + HandleTtl
      BY DEF Artifact
    <2>3. reply'.kind # "ran"
      BY <2>1 DEF Say
    <2>4. artifacts' = IF kept = {} THEN artifacts ELSE artifacts \cup {handle}
      BY <2>1
    <2>5. kept \subseteq a.jobs
      BY DEF Chosen
    <2> HIDE DEF kept, handle
    <2>6. TimesOK(a) /\ AskedOK(a) /\ WholeOK(a) /\ now \in Nat
      BY DEF ScopeInv
    <2>7. a.kind = "token" /\ a.exp > now
      BY <1>1 DEF Verified
    <2>8. kept # {} => TimesOK(handle)
      BY <2>2, <2>5, <2>6, <2>7 DEF TimesOK, JobScopeAssumption
    <2>9. AskedOK(handle)
      BY <1>3, <2>2, <2>5, <2>6, <2>7 DEF AskedOK, AcksGiven
    <2>10. WholeOK(handle)
      BY <2>2, <2>6 DEF WholeOK
    <2> QED
      BY <1>1, <2>3, <2>4, <2>8, <2>9, <2>10 DEF ScopeInv, RanOK, TimesOK, AskedOK, WholeOK
  <1> QED
    BY <1>2, <1>3 DEF runConfirmJobScope

LEMMA RedeemKeeps ==
    ASSUME ScopeInv, NEW s \in Subjects, NEW a \in artifacts, redeemScopeHandle(s, a)
    PROVE  ScopeInv'
  <1>1. PICK inv \in Inventories(s) :
          LET jobs == Redeemed(a.jobs, inv)
          IN reply' = IF ~Verified(a, "handle", s) THEN [Say("invalid", s, {}, {}) EXCEPT !.art = a]
                      ELSE IF ~a.complete \/ jobs = None THEN Say("refused", s, {}, {})
                      ELSE Ran(s, a, jobs)
    BY DEF redeemScopeHandle
  <1>2. UNCHANGED <<access, now, key, artifacts, changes>>
    BY DEF redeemScopeHandle
  <1>3. CASE reply'.kind # "ran"
    BY <1>2, <1>3 DEF ScopeInv, RanOK, TimesOK, AskedOK, WholeOK
  <1>4. CASE reply'.kind = "ran"
    <2>1. Verified(a, "handle", s) /\ Redeemed(a.jobs, inv) # None /\ reply' = Ran(s, a, Redeemed(a.jobs, inv))
      BY <1>1, <1>4 DEF Say
    <2>2. reply'.art = a /\ reply'.sub = s /\ reply'.visible = Visible(s) /\ reply'.jobs = Redeemed(a.jobs, inv)
      BY <2>1 DEF Ran, Say
    <2>3. Redeemed(a.jobs, inv) = a.jobs \cap inv.jobs /\ (a.jobs \subseteq inv.jobs \/ inv.complete)
      BY <2>1 DEF Redeemed
    <2>4. a.jobs \cap inv.jobs = a.jobs \cap Visible(s)
      BY <2>3, InventoriesAreVisible
    <2>5. RanOK'
      BY <1>2, <2>1, <2>2, <2>3, <2>4 DEF RanOK, Verified
    <2> QED
      BY <1>2, <2>5 DEF ScopeInv, TimesOK, AskedOK, WholeOK
  <1> QED
    BY <1>3, <1>4

(* The other steps answer with no handle, or answer nothing.               *)
LEMMA AnswersKeep ==
    ASSUME ScopeInv, UNCHANGED <<access, now, artifacts>>,
           reply' # None => reply'.kind # "ran" \/ reply'.art = None
    PROVE  ScopeInv'
  BY DEF ScopeInv, RanOK, TimesOK, AskedOK, WholeOK

LEMMA ScopeInvStep ==
    ASSUME JobScopeAssumption, ScopeInv, [Next]_vars
    PROVE  ScopeInv'
  <1>1. ASSUME NEW s \in Subjects, NEW a \in artifacts, runGetJobScope(s, a) PROVE ScopeInv'
    <2>1. reply'.kind # "ran"
      BY <1>1 DEF runGetJobScope, Say
    <2> QED
      BY <1>1, <2>1, AnswersKeep DEF runGetJobScope
  <1>2. ASSUME NEW s \in Subjects, NEW ids, validateExactJobIds(s, ids) PROVE ScopeInv'
    <2>1. reply'.kind # "ran" \/ reply'.art = None
      BY <1>2 DEF validateExactJobIds, Ran, Say
    <2> QED
      BY <1>2, <2>1, AnswersKeep DEF validateExactJobIds
  <1>3. ASSUME NEW s \in Subjects, runUnscoped(s) PROVE ScopeInv'
    <2>1. reply'.art = None
      BY <1>3 DEF runUnscoped, Ran, Say
    <2> QED
      BY <1>3, <2>1, AnswersKeep DEF runUnscoped
  <1>4. ASSUME NEW s \in Subjects, NEW jobs \in SUBSET Jobs, SetAccess(s, jobs) PROVE ScopeInv'
    <2>1. access' \in [Subjects -> SUBSET Jobs] /\ reply' = None /\ UNCHANGED <<now, artifacts>>
      BY <1>4 DEF SetAccess, ScopeInv
    <2> QED
      BY <2>1 DEF ScopeInv, RanOK, TimesOK, AskedOK, WholeOK
  <1>5. ASSUME Pass PROVE ScopeInv'
    <2>1. now' = now + 1 /\ now \in Nat /\ reply' = None /\ UNCHANGED <<access, artifacts>>
      BY <1>5 DEF Pass, ScopeInv
    <2>2. \A a \in artifacts : TimesOK(a)' /\ AskedOK(a)' /\ WholeOK(a)'
      BY <2>1, TimesStay DEF ScopeInv, AskedOK, WholeOK
    <2> QED
      BY <2>1, <2>2 DEF ScopeInv, RanOK
  <1>6. ASSUME Restart PROVE ScopeInv'
    BY <1>6, AnswersKeep DEF Restart
  <1>7. ASSUME UNCHANGED vars PROVE ScopeInv'
    BY <1>7 DEF vars, ScopeInv, RanOK, TimesOK, AskedOK, WholeOK
  <1> QED
    BY <1>1, <1>2, <1>3, <1>4, <1>5, <1>6, <1>7, ResolveKeeps, ConfirmKeeps, RedeemKeeps DEF Next

-----------------------------------------------------------------------------
(* Every handle and token comes about as its fields say (the strengthening *)
(* the theorems below rest on).                                            *)
THEOREM JobScopeInvariance == ASSUME JobScopeAssumption PROVE Spec => []ScopeInv
  <1>1. Init => ScopeInv
    BY ScopeInvInit
  <1>2. ScopeInv /\ [Next]_vars => ScopeInv'
    BY ScopeInvStep
  <1> QED
    BY <1>1, <1>2, PTL DEF Spec

(* A handle holds only jobs its subject saw (runResolveJobScope and        *)
(* runConfirmJobScope of tools/job-scope/tools.ts), whatever is selected,  *)
(* confirmed again or revoked in between.                                  *)
THEOREM HandlesNeverGrow == ASSUME JobScopeAssumption PROVE Spec => []ScopesNeverGrow
  <1>1. ScopeInv => ScopesNeverGrow
    BY DEF ScopeInv, TimesOK, ScopesNeverGrow, Handles
  <1> QED
    BY <1>1, JobScopeInvariance, PTL

(* No handle holds a closed or confidential job, or several jobs of nobody *)
(* in particular, that its recruiter was not asked about.                  *)
THEOREM NothingIsFrozenUnasked == ASSUME JobScopeAssumption PROVE Spec => []NothingRunsUnasked
  <1>1. ScopeInv => NothingRunsUnasked
    BY DEF ScopeInv, AskedOK, TimesOK, NothingRunsUnasked, Handles
  <1> QED
    BY <1>1, JobScopeInvariance, PTL

(* A truncated inventory freezes named jobs alone, and a requisition that  *)
(* names two jobs freezes neither unasked (resolver.ts).                   *)
THEOREM OnlyNamedJobsSurviveTruncation == ASSUME JobScopeAssumption PROVE Spec => []TruncationFreezesNothing
  <1>1. ScopeInv => TruncationFreezesNothing
    BY DEF ScopeInv, WholeOK, TruncationFreezesNothing, Handles
  <1> QED
    BY <1>1, JobScopeInvariance, PTL

(* redeemScopeHandle runs over all of the handle its subject may still     *)
(* see, or refuses: a truncated read narrows no analysis.                  *)
THEOREM RedemptionsAreWhole == ASSUME JobScopeAssumption PROVE Spec => []AnalysesAreWhole
  <1>1. ScopeInv => AnalysesAreWhole
    BY DEF ScopeInv, RanOK, AnalysesAreWhole
  <1> QED
    BY <1>1, JobScopeInvariance, PTL

(* However often its token is confirmed, a request's handles end within a  *)
(* token's and a handle's life of it, and run for their subject alone.     *)
THEOREM HandlesEnd == ASSUME JobScopeAssumption PROVE Spec => []HandlesServeTheirSubject
  <1>1. ScopeInv => HandlesServeTheirSubject
    BY DEF ScopeInv, RanOK, TimesOK, HandlesServeTheirSubject, JobScopeAssumption
  <1> QED
    BY <1>1, JobScopeInvariance, PTL
=============================================================================
