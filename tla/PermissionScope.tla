--------------------------- MODULE PermissionScope ---------------------------
(***************************************************************************)
(* How the jobs one Greenhouse user may read are established: the chain    *)
(* of providers built by createProductionScopedReader (recruiter-mcp/src/  *)
(* scoped-reader.ts).                                                      *)
(*                                                                         *)
(*   base    createHarvestPermissionProvider (scoped-core/src/index.ts):   *)
(*           a sweep of the user's job permissions, cached for TTL         *)
(*   admin   createSiteAdminAwarePermissionProvider: a site admin sees     *)
(*           every job but the confidential ones nobody granted            *)
(*   stamp   createPrivateCandidateAttestationStamp: an org-wide scope     *)
(*           says whether an operator attested the user; the lookup is     *)
(*           memoised for TTL                                              *)
(*   memo    memoizePermissionScope: the whole answer, for TTL             *)
(*                                                                         *)
(* What is true of the user in Greenhouse and in the directory (facts) may *)
(* change at any step, also between two reads of one lookup, and every     *)
(* read may fail.  Time passes in ticks.  Single flight is in TtlMemo: here*)
(* there is one lookup at a time.  The role dictionary does not change.    *)
(***************************************************************************)
EXTENDS Integers, TLAPS

CONSTANTS
    Jobs,
    TTL,          \* GREENHOUSE_RECRUITER_PERMISSION_TTL_MS, in ticks
    MaxTicks,     \* bound: ticks one lookup takes
    MaxChanges,   \* bound: changes of a fact
    None

BoundsAssumption ==
    /\ TTL \in Nat /\ MaxTicks \in Nat /\ MaxChanges \in Nat
    /\ \A S \in SUBSET Jobs : S # None

(* What may be true of the user.  granted and private are rows of          *)
(* /user_job_permissions with an ordinary role and with the Private role,  *)
(* marker a row that grants all jobs; open says a job is not confidential. *)
Admin == <<"admin", None>>
Attested == <<"attested", None>>
Marker == <<"marker", None>>
Granted(j) == <<"granted", j>>
Private(j) == <<"private", j>>
Open(j) == <<"open", j>>
Facts == {Admin, Attested, Marker}
           \cup {Granted(j) : j \in Jobs} \cup {Private(j) : j \in Jobs}
           \cup {Open(j) : j \in Jobs}

(* Ticks after which a fact that ended shows in no answer.                 *)
Horizon == 2 * (TTL + MaxTicks)

Scopes == [kind : {"all", "jobs"}, jobs : SUBSET Jobs, excluded : SUBSET Jobs,
           private : (SUBSET Jobs) \cup {None}, siteAdmin : BOOLEAN,
           attested : BOOLEAN]

VARIABLES
    facts, since,   \* what is true, and for how many ticks it has been so
    changes,        \* history: changes so far
    base,           \* the base provider's cache
    attestation,    \* the memo of the attestation lookup
    memo,           \* the memo of the whole answer
    pc, age,        \* the step of the lookup, and its ticks
    scope,          \* what the lookup has established
    clean,          \* history: whether every read behind scope succeeded
    answer          \* the answer given in this step

vars == <<facts, since, changes, base, attestation, memo, pc, age, scope,
          clean, answer>>
world == <<facts, since, changes>>

Blank == [kind |-> "jobs", jobs |-> {}, excluded |-> {}, private |-> None,
          siteAdmin |-> FALSE, attested |-> FALSE]

Init ==
    /\ facts \in [Facts -> BOOLEAN] /\ since = [f \in Facts |-> Horizon + 1]
    /\ changes = 0
    /\ base = None /\ attestation = None /\ memo = None
    /\ pc = "idle" /\ age = 0 /\ scope = Blank /\ clean = TRUE
    /\ answer = None

(***************************************************************************)
(* The world.                                                              *)
(***************************************************************************)
Change(f) ==
    /\ changes < MaxChanges
    /\ changes' = changes + 1
    /\ facts' = [facts EXCEPT ![f] = ~@]
    /\ since' = [since EXCEPT ![f] = 0]
    /\ answer' = None
    /\ UNCHANGED <<base, attestation, memo, pc, age, scope, clean>>

Fresh(entry) == entry # None /\ entry.age < TTL
(* Plausible bug: an entry grows older without end.                        *)
OlderForever(entry) == IF entry = None THEN None ELSE [entry EXCEPT !.age = @ + 1]

Older(entry) == IF Fresh(entry) THEN [entry EXCEPT !.age = @ + 1] ELSE None

Tick ==
    /\ pc # "idle" => age < MaxTicks
    /\ age' = IF pc = "idle" THEN 0 ELSE age + 1
    /\ since' = [f \in Facts |-> IF since[f] > Horizon THEN since[f] ELSE since[f] + 1]
    /\ base' = Older(base) /\ attestation' = Older(attestation) /\ memo' = Older(memo)
    /\ answer' = None
    /\ UNCHANGED <<facts, changes, pc, scope, clean>>

(***************************************************************************)
(* fetchPermissionScope: job scope all if a row says so, and the jobs held *)
(* in a private-capable role; none of those if the dictionary of roles     *)
(* could not be read.                                                      *)
(***************************************************************************)
fetchPermissionScope(rolesRead) ==
    LET capable == IF rolesRead THEN {j \in Jobs : facts[Private(j)]} ELSE {}
        permitted == {j \in Jobs : facts[Granted(j)] \/ facts[Private(j)]}
    IN [Blank EXCEPT !.kind = IF facts[Marker] THEN "all" ELSE "jobs",
                     !.jobs = IF facts[Marker] THEN {} ELSE permitted,
                     !.private = IF capable = {} THEN None ELSE capable]

(* What the base provider may answer, as the entry its cache then holds.   *)
BaseAnswers ==
    IF Fresh(base) THEN {base}
    ELSE {[scope |-> fetchPermissionScope(ok), clean |-> ok, age |-> 0] : ok \in BOOLEAN}

(***************************************************************************)
(* One lookup.                                                             *)
(***************************************************************************)
Hit ==
    /\ pc = "idle" /\ Fresh(memo)
    /\ answer' = [scope |-> memo.scope, clean |-> memo.clean]
    /\ UNCHANGED <<world, base, attestation, memo, pc, age, scope, clean>>

Start ==
    /\ pc = "idle" /\ ~Fresh(memo)
    /\ pc' = "probe" /\ age' = 0 /\ scope' = Blank /\ clean' = TRUE
    /\ answer' = None
    /\ UNCHANGED <<world, base, attestation, memo>>

(* detectSiteAdmin; a probe that fails is not a site admin.                *)
Probe(ok) ==
    /\ pc = "probe"
    /\ scope' = [scope EXCEPT !.siteAdmin = ok /\ facts[Admin]]
    /\ pc' = IF ok /\ facts[Admin] THEN "confidential" ELSE "base"
    /\ clean' = ok
    /\ UNCHANGED <<world, base, attestation, memo, age, answer>>

(* fetchConfidentialJobIds; a site admin whose confidential jobs cannot be *)
(* read is left with their explicit grants.                                *)
Confidential ==
    /\ pc = "confidential"
    /\ LET restricted == {j \in Jobs : ~facts[Open(j)]}
       IN IF restricted = {}
            THEN /\ scope' = [scope EXCEPT !.kind = "all"] /\ pc' = "stamp"
            ELSE /\ scope' = [scope EXCEPT !.excluded = restricted] /\ pc' = "granted"
    /\ UNCHANGED <<world, base, attestation, memo, age, clean, answer>>

(* Plausible bug: a failed read of the confidential jobs excludes none.    *)
ConfidentialFailsOpen ==
    /\ pc = "confidential"
    /\ scope' = [scope EXCEPT !.kind = "all"] /\ pc' = "stamp" /\ clean' = FALSE
    /\ UNCHANGED <<world, base, attestation, memo, age, answer>>

ConfidentialFails ==
    /\ pc = "confidential"
    /\ pc' = "base" /\ clean' = FALSE
    /\ UNCHANGED <<world, base, attestation, memo, age, scope, answer>>

(* The confidential jobs the admin was not granted are excluded; for one   *)
(* with an all-jobs marker none are.                                       *)
ExcludeUngranted ==
    /\ pc = "granted"
    /\ \E entry \in BaseAnswers :
         LET got == entry.scope
         IN /\ scope' = [scope EXCEPT !.kind = "all",
                   !.excluded = IF got.kind = "all" THEN {} ELSE @ \ got.jobs,
                   !.private = IF got.kind = "jobs" /\ got.private = None THEN {}
                               ELSE got.private]
            /\ base' = entry /\ clean' = (clean /\ entry.clean)
    /\ pc' = "stamp"
    /\ UNCHANGED <<world, attestation, memo, age, answer>>

(* The answer of the base provider as it is; a site admin keeps the proof. *)
BaseOnly ==
    /\ pc = "base"
    /\ \E entry \in BaseAnswers :
         /\ scope' = [entry.scope EXCEPT !.siteAdmin = scope.siteAdmin]
         /\ base' = entry /\ clean' = (clean /\ entry.clean)
    /\ pc' = "stamp"
    /\ UNCHANGED <<world, attestation, memo, age, answer>>

(* A failed sweep denies the read, and nothing is remembered.              *)
BaseFails ==
    /\ pc \in {"granted", "base"} /\ ~Fresh(base)
    /\ pc' = "idle" /\ age' = 0 /\ scope' = Blank /\ clean' = TRUE
    /\ UNCHANGED <<world, base, attestation, memo, answer>>

(* The answer is given, and remembered for TTL from the start of the load. *)
Finish(s, ok) ==
    /\ answer' = [scope |-> s, clean |-> ok]
    /\ memo' = IF age < TTL THEN [scope |-> s, clean |-> ok, age |-> age] ELSE None
    /\ pc' = "idle" /\ age' = 0 /\ scope' = Blank /\ clean' = TRUE

(* A scope of jobs needs no stamp.                                         *)
NoStamp ==
    /\ pc = "stamp" /\ scope.kind = "jobs"
    /\ Finish(scope, clean)
    /\ UNCHANGED <<world, base, attestation>>

(* The lookup never throws: what it cannot establish it answers with no.   *)
Lookups ==
    IF Fresh(attestation) THEN {attestation}
    ELSE {[holds |-> ok /\ facts[Attested], clean |-> ok, age |-> 0] : ok \in BOOLEAN}

Stamp ==
    /\ pc = "stamp" /\ scope.kind = "all"
    /\ \E entry \in Lookups :
         /\ attestation' = entry
         /\ IF entry.holds \/ scope.private # None
              THEN Finish([scope EXCEPT !.attested = entry.holds], clean /\ entry.clean)
              ELSE /\ pc' = "recover" /\ clean' = (clean /\ entry.clean)
                   /\ UNCHANGED <<memo, age, scope, answer>>
    /\ UNCHANGED <<world, base>>

(* The chain did not say which jobs are private-capable: the base is asked *)
(* again, and if it cannot answer there are none.                          *)
explicitPrivateCapableJobIds ==
    /\ pc = "recover"
    /\ \E entry \in BaseAnswers :
         /\ base' = entry
         /\ Finish([scope EXCEPT !.private = entry.scope.private], clean /\ entry.clean)
    /\ UNCHANGED <<world, attestation>>

RecoverFails ==
    /\ pc = "recover" /\ ~Fresh(base)
    /\ Finish(scope, FALSE)
    /\ UNCHANGED <<world, base, attestation>>

(* The direct-operator path reads the attestation outside any lookup.      *)
OperatorLookup ==
    /\ ~Fresh(attestation)
    /\ \E entry \in Lookups : attestation' = entry
    /\ answer' = None
    /\ UNCHANGED <<world, base, memo, pc, age, scope, clean>>

Next ==
    \/ \E f \in Facts : Change(f)
    \/ Tick \/ Hit \/ Start \/ OperatorLookup
    \/ \E ok \in BOOLEAN : Probe(ok)
    \/ Confidential \/ ConfidentialFails
    \/ ExcludeUngranted \/ BaseOnly \/ BaseFails
    \/ NoStamp \/ Stamp \/ explicitPrivateCapableJobIds \/ RecoverFails

Spec == Init /\ [][Next]_vars

(***************************************************************************)
(* Properties.                                                             *)
(***************************************************************************)
TypeOK ==
    /\ facts \in [Facts -> BOOLEAN] /\ since \in [Facts -> 0..Horizon + 1]
    /\ changes \in 0..MaxChanges
    /\ \A entry \in {base, memo} \ {None} : entry.scope \in Scopes /\ entry.age \in 0..TTL
    /\ pc \in {"idle", "probe", "confidential", "granted", "base", "stamp", "recover"}
    /\ age \in 0..MaxTicks /\ scope \in Scopes /\ clean \in BOOLEAN

(* Did f hold at most n ticks ago?  Has it held for more than n?           *)
HeldWithin(f, n) == facts[f] \/ since[f] <= n
HeldFor(f, n) == facts[f] /\ since[f] > n

Sees(s, j) == IF s.kind = "all" THEN j \notin s.excluded ELSE j \in s.jobs
SeesPrivate(s, j) ==
    Sees(s, j) /\ (s.attested \/ (s.private # None /\ j \in s.private))

(* What s gives was given at most n ticks ago.                             *)
GivenWithin(s, n) ==
    /\ \A j \in Jobs : Sees(s, j) =>
         \/ HeldWithin(Granted(j), n) \/ HeldWithin(Private(j), n)
         \/ HeldWithin(Marker, n)
         \/ HeldWithin(Admin, n) /\ HeldWithin(Open(j), n)
    /\ \A j \in Jobs : SeesPrivate(s, j) =>
         HeldWithin(Attested, n) \/ HeldWithin(Private(j), n)
    /\ s.siteAdmin => HeldWithin(Admin, n)

(* What has been given for more than n ticks, s gives.                     *)
GivesAllOf(s, n) ==
    /\ \A j \in Jobs :
         \/ HeldFor(Granted(j), n) \/ HeldFor(Private(j), n)
         \/ HeldFor(Marker, n)
         \/ HeldFor(Admin, n) /\ HeldFor(Open(j), n)
         => Sees(s, j)
    /\ \A j \in Jobs : HeldFor(Private(j), n) => SeesPrivate(s, j)
    /\ HeldFor(Admin, n) => s.siteAdmin
    /\ HeldFor(Attested, n) /\ s.kind = "all" => s.attested

(* An answer never gives a job, a private-candidate right or a role that   *)
(* Greenhouse or the directory did not give within the horizon: not by a   *)
(* read that failed, nor by two reads between which the world changed, nor *)
(* by one cache in front of another.  createProductionScopedReader.        *)
AnswersWereTrue == answer # None => GivenWithin(answer.scope, Horizon)

(* What the user has had for longer than the horizon is in every answer    *)
(* whose reads all succeeded: the site-admin and the stamp layers lose     *)
(* nothing that the explicit grants give.                                  *)
NothingHeldIsLost == answer # None /\ answer.clean => GivesAllOf(answer.scope, Horizon)

-----------------------------------------------------------------------------
(* What keeps these.  Each cache is as old as the oldest read behind it    *)
(* says: an entry of the base and of the attestation as its age, the       *)
(* lookup and the memo up to TTL more, for the base they may have hit.     *)

(* What the base answered n ticks ago.                                     *)
BaseWas(s, ok, n) ==
    /\ s \in Scopes /\ ~s.attested /\ ~s.siteAdmin /\ s.excluded = {}
    /\ s.kind = "all" => HeldWithin(Marker, n)
    /\ s.kind = "jobs" => \A j \in Jobs : j \in s.jobs => HeldWithin(Granted(j), n) \/ HeldWithin(Private(j), n)
    /\ s.private # None => \A j \in Jobs : j \in s.private => HeldWithin(Private(j), n)
    /\ ok =>
         /\ HeldFor(Marker, n) => s.kind = "all"
         /\ s.kind = "jobs" => \A j \in Jobs : HeldFor(Granted(j), n) \/ HeldFor(Private(j), n) => j \in s.jobs
         /\ \A j \in Jobs : HeldFor(Private(j), n) => s.private # None /\ j \in s.private

(* What the directory said n ticks ago.                                    *)
AttestationWas(holds, ok, n) ==
    /\ holds => HeldWithin(Attested, n)
    /\ ok /\ HeldFor(Attested, n) => holds

(* A lookup at the step p that began n ticks ago.                          *)
LookupWas(p, s, ok, n) ==
    /\ s \in Scopes /\ ~s.attested
    /\ s.siteAdmin => HeldWithin(Admin, n)
    /\ p \in {"idle", "probe"} => s = Blank
    /\ p \in {"confidential", "granted"} => s.siteAdmin
    /\ p = "confidential" => s = [Blank EXCEPT !.siteAdmin = TRUE]
    /\ p = "granted" => \A j \in Jobs :
                           /\ j \notin s.excluded => HeldWithin(Open(j), n)
                           /\ HeldFor(Open(j), n) => j \notin s.excluded
    /\ p = "base" /\ ok => ~HeldFor(Admin, n)
    /\ p \in {"stamp", "recover"} =>
          /\ GivenWithin(s, n + TTL)
          /\ ok => GivesAllOf([s EXCEPT !.attested = s.kind = "all"], n + TTL)
          /\ ok /\ s.private # None => \A j \in Jobs : HeldFor(Private(j), n + TTL) => j \in s.private
    /\ p = "recover" => s.kind = "all" /\ s.private = None /\ (ok => ~HeldFor(Attested, n + TTL))

Entries == [scope : Scopes, clean : BOOLEAN, age : 0..TTL]
BaseOK == base # None => base \in Entries /\ BaseWas(base.scope, base.clean, base.age)
AttestationOK ==
    attestation # None =>
        /\ attestation \in [holds : BOOLEAN, clean : BOOLEAN, age : 0..TTL]
        /\ AttestationWas(attestation.holds, attestation.clean, attestation.age)
AnsweredOK(s, ok, n) == GivenWithin(s, n + TTL) /\ (ok => GivesAllOf(s, n + TTL))
MemoOK == memo # None => memo \in Entries /\ AnsweredOK(memo.scope, memo.clean, memo.age)

PermissionInv ==
    /\ facts \in [Facts -> BOOLEAN] /\ since \in [Facts -> Nat]
    /\ age \in 0..MaxTicks /\ clean \in BOOLEAN
    /\ BaseOK /\ AttestationOK /\ MemoOK
    /\ LookupWas(pc, scope, clean, age)
    /\ AnswersWereTrue /\ NothingHeldIsLost
-----------------------------------------------------------------------------
LEMMA Known ==
    /\ {Admin, Attested, Marker} \subseteq Facts
    /\ \A j \in Jobs : {Granted(j), Private(j), Open(j)} \subseteq Facts
  BY DEF Facts

(* What holds by one age holds by a greater one.                           *)
LEMMA Weaker ==
    ASSUME since \in [Facts -> Nat], NEW n \in Nat, NEW m \in Nat, n <= m
    PROVE  \A f \in Facts : (HeldWithin(f, n) => HeldWithin(f, m)) /\ (HeldFor(f, m) => HeldFor(f, n))
  BY DEF HeldWithin, HeldFor

LEMMA WeakerAnswers ==
    ASSUME since \in [Facts -> Nat], NEW n \in Nat, NEW m \in Nat, n <= m, NEW s
    PROVE  (GivenWithin(s, n) => GivenWithin(s, m)) /\ (GivesAllOf(s, n) => GivesAllOf(s, m))
  <1>1. \A f \in Facts : (HeldWithin(f, n) => HeldWithin(f, m)) /\ (HeldFor(f, m) => HeldFor(f, n))
    BY Weaker
  <1>2. GivenWithin(s, n) => GivenWithin(s, m)
    BY <1>1, Known DEF GivenWithin
  <1>3. GivesAllOf(s, n) => GivesAllOf(s, m)
    BY <1>1, Known DEF GivesAllOf
  <1> QED
    BY <1>2, <1>3

(* Does what was true n ticks ago count as m ticks old after the step?     *)
Ages(n, m) == \A f \in Facts : (HeldWithin(f, n) => HeldWithin(f, m)') /\ (HeldFor(f, m)' => HeldFor(f, n))

LEMMA AnswersAge ==
    ASSUME NEW n, NEW m, Ages(n, m), NEW s
    PROVE  (GivenWithin(s, n) => GivenWithin(s, m)') /\ (GivesAllOf(s, n) => GivesAllOf(s, m)')
  <1>1. GivenWithin(s, n) => GivenWithin(s, m)'
    BY Known DEF GivenWithin, Ages, Sees, SeesPrivate
  <1>2. GivesAllOf(s, n) => GivesAllOf(s, m)'
    BY Known DEF GivesAllOf, Ages, Sees, SeesPrivate
  <1> QED
    BY <1>1, <1>2

LEMMA EntriesAge ==
    ASSUME NEW n, NEW m, Ages(n, m), NEW s, NEW ok, NEW holds
    PROVE  /\ BaseWas(s, ok, n) => BaseWas(s, ok, m)'
           /\ AttestationWas(holds, ok, n) => AttestationWas(holds, ok, m)'
  <1>1. BaseWas(s, ok, n) => BaseWas(s, ok, m)'
    BY Known DEF BaseWas, Ages
  <1>2. AttestationWas(holds, ok, n) => AttestationWas(holds, ok, m)'
    BY Known DEF AttestationWas, Ages
  <1> QED
    BY <1>1, <1>2

LEMMA LookupsAge ==
    ASSUME NEW n, NEW m, Ages(n, m), Ages(n + TTL, m + TTL), NEW p, NEW s, NEW ok, LookupWas(p, s, ok, n)
    PROVE  LookupWas(p, s, ok, m)'
  <1>1. GivenWithin(s, n + TTL) => GivenWithin(s, m + TTL)'
    BY AnswersAge
  <1>2. GivesAllOf([s EXCEPT !.attested = s.kind = "all"], n + TTL)
          => GivesAllOf([s EXCEPT !.attested = s.kind = "all"], m + TTL)'
    BY AnswersAge
  <1>3. /\ HeldWithin(Admin, n) => HeldWithin(Admin, m)'
        /\ HeldFor(Admin, m)' => HeldFor(Admin, n)
        /\ HeldFor(Attested, m + TTL)' => HeldFor(Attested, n + TTL)
        /\ \A j \in Jobs : /\ HeldWithin(Open(j), n) => HeldWithin(Open(j), m)'
                           /\ HeldFor(Open(j), m)' => HeldFor(Open(j), n)
                           /\ HeldFor(Private(j), m + TTL)' => HeldFor(Private(j), n + TTL)
    BY Known DEF Ages
  <1> QED
    BY <1>1, <1>2, <1>3 DEF LookupWas

-----------------------------------------------------------------------------
LEMMA BlankIsScope ==
    Blank \in Scopes /\ ~Blank.attested /\ ~Blank.siteAdmin /\ Blank.kind = "jobs" /\ Blank.jobs = {}
      /\ Blank.excluded = {} /\ Blank.private = None
  <1>1. Blank \in Scopes
    BY DEF Blank, Scopes
  <1> QED
    BY <1>1 DEF Blank

LEMMA InvInit == ASSUME BoundsAssumption, Init PROVE PermissionInv
  <1>1. Blank \in Scopes /\ ~Blank.attested /\ ~Blank.siteAdmin
    BY BlankIsScope
  <1>2. Horizon \in Nat
    BY DEF Horizon, BoundsAssumption
  <1> QED
    BY <1>1, <1>2 DEF Init, PermissionInv, BaseOK, AttestationOK, MemoOK, LookupWas, AnswersWereTrue,
       NothingHeldIsLost, BoundsAssumption

LEMMA ChangeKeeps ==
    ASSUME BoundsAssumption, PermissionInv, NEW f \in Facts, Change(f)
    PROVE  PermissionInv'
  <1>1. /\ facts \in [Facts -> BOOLEAN] /\ since \in [Facts -> Nat]
        /\ facts' = [facts EXCEPT ![f] = ~@] /\ since' = [since EXCEPT ![f] = 0]
        /\ UNCHANGED <<base, attestation, memo, pc, age, scope, clean>> /\ answer' = None
    BY DEF Change, PermissionInv
  <1>2. ASSUME NEW n \in Nat PROVE Ages(n, n)
    BY <1>1 DEF Ages, HeldWithin, HeldFor
  <1>3. age \in Nat /\ age + TTL \in Nat
    BY DEF PermissionInv, BoundsAssumption
  <1>4. LookupWas(pc, scope, clean, age)'
    <2>1. Ages(age, age) /\ Ages(age + TTL, age + TTL)
      BY <1>2, <1>3
    <2>2. LookupWas(pc, scope, clean, age)
      BY DEF PermissionInv
    <2> QED
      BY <1>1, <2>1, <2>2, LookupsAge
  <1>5. BaseOK'
    <2>1. ASSUME base # None PROVE BaseWas(base.scope, base.clean, base.age)'
      <3>1. base.age \in 0..TTL /\ base.age \in Nat /\ BaseWas(base.scope, base.clean, base.age)
        BY <2>1 DEF PermissionInv, BaseOK, Entries, BoundsAssumption
      <3> QED
        BY <1>1, <1>2, <3>1, EntriesAge
    <2> QED
      BY <1>1, <2>1 DEF BaseOK, PermissionInv
  <1>6. AttestationOK'
    <2>1. ASSUME attestation # None
          PROVE  AttestationWas(attestation.holds, attestation.clean, attestation.age)'
      <3>1. /\ attestation.age \in 0..TTL /\ attestation.age \in Nat
            /\ AttestationWas(attestation.holds, attestation.clean, attestation.age)
        BY <2>1 DEF PermissionInv, AttestationOK, BoundsAssumption
      <3> QED
        BY <1>1, <1>2, <3>1, EntriesAge
    <2> QED
      BY <1>1, <2>1 DEF AttestationOK, PermissionInv
  <1>7. MemoOK'
    <2>1. ASSUME memo # None PROVE AnsweredOK(memo.scope, memo.clean, memo.age)'
      <3>1. memo.age \in 0..TTL /\ memo.age + TTL \in Nat /\ AnsweredOK(memo.scope, memo.clean, memo.age)
        BY <2>1 DEF PermissionInv, MemoOK, Entries, BoundsAssumption
      <3>2. Ages(memo.age + TTL, memo.age + TTL)
        BY <1>2, <3>1
      <3>3. /\ GivenWithin(memo.scope, memo.age + TTL) => GivenWithin(memo.scope, memo.age + TTL)'
            /\ GivesAllOf(memo.scope, memo.age + TTL) => GivesAllOf(memo.scope, memo.age + TTL)'
        BY <1>1, <3>2, AnswersAge
      <3> QED
        BY <1>1, <3>1, <3>3 DEF AnsweredOK
    <2> QED
      BY <1>1, <2>1 DEF MemoOK, PermissionInv
  <1>8. facts' \in [Facts -> BOOLEAN] /\ since' \in [Facts -> Nat] /\ age' \in 0..MaxTicks
    BY <1>1 DEF PermissionInv
  <1> QED
    BY <1>1, <1>4, <1>5, <1>6, <1>7, <1>8 DEF PermissionInv, AnswersWereTrue, NothingHeldIsLost
LEMMA OlderIs ==
    ASSUME NEW entry, Older(entry) # None
    PROVE  entry # None /\ entry.age < TTL /\ Older(entry) = [entry EXCEPT !.age = @ + 1]
  BY DEF Older, Fresh

LEMMA TickKeeps == ASSUME BoundsAssumption, PermissionInv, Tick PROVE PermissionInv'
  <1>1. /\ facts \in [Facts -> BOOLEAN] /\ since \in [Facts -> Nat] /\ facts' = facts
        /\ since' = [f \in Facts |-> IF since[f] > Horizon THEN since[f] ELSE since[f] + 1]
        /\ UNCHANGED <<pc, scope, clean>> /\ answer' = None
    BY DEF Tick, PermissionInv
  <1>2. Horizon \in Nat /\ age \in Nat /\ TTL \in Nat /\ MaxTicks \in Nat /\ Horizon = 2 * (TTL + MaxTicks)
    BY DEF PermissionInv, BoundsAssumption, Horizon
  <1>3. ASSUME NEW n \in Nat, n <= Horizon PROVE Ages(n, n + 1)
    BY <1>1, <1>2, <1>3 DEF Ages, HeldWithin, HeldFor
  <1>4. LookupWas(pc, scope, clean, age)' /\ age' \in 0..MaxTicks
    <2>1. LookupWas(pc, scope, clean, age)
      BY DEF PermissionInv
    <2>2. CASE pc = "idle"
      <3>1. scope = Blank /\ age' = 0
        BY <2>1, <2>2 DEF LookupWas, Tick
      <3> QED
        BY <1>1, <1>2, <2>2, <3>1, BlankIsScope DEF LookupWas
    <2>3. CASE pc # "idle"
      <3>1. PICK n : n = age
        OBVIOUS
      <3>2. n \in Nat /\ n < MaxTicks /\ age' = n + 1
        BY <1>2, <2>3, <3>1 DEF Tick
      <3>3. Ages(n, n + 1) /\ Ages(n + TTL, (n + TTL) + 1)
        BY <1>2, <1>3, <3>2
      <3>4. (n + TTL) + 1 = (n + 1) + TTL
        BY <1>2, <3>2
      <3>5. LookupWas(pc, scope, clean, n + 1)'
        BY <1>1, <2>1, <3>1, <3>3, <3>4, LookupsAge
      <3> QED
        BY <1>2, <3>2, <3>5
    <2> QED
      BY <2>2, <2>3
  <1>5. BaseOK'
    <2>1. ASSUME base' # None PROVE base' \in Entries /\ BaseWas(base.scope, base.clean, base.age)'
      <3>1. PICK s, ok, n : s = base.scope /\ ok = base.clean /\ n = base.age
        OBVIOUS
      <3>2. base # None /\ n < TTL /\ base' = [base EXCEPT !.age = n + 1]
        BY <2>1, <3>1, OlderIs DEF Tick
      <3>3. base \in Entries /\ BaseWas(s, ok, n)
        BY <3>1, <3>2 DEF PermissionInv, BaseOK
      <3>4. n \in Nat /\ n + 1 \in 0..TTL
        BY <1>2, <3>1, <3>2, <3>3 DEF Entries
      <3>5. base' \in Entries /\ base'.scope = s /\ base'.clean = ok /\ base'.age = n + 1
        BY <3>1, <3>2, <3>3, <3>4 DEF Entries
      <3>6. BaseWas(s, ok, n + 1)'
        BY <1>2, <1>3, <3>2, <3>3, <3>4, EntriesAge
      <3> QED
        BY <3>5, <3>6
    <2> QED
      BY <2>1 DEF BaseOK
  <1>6. AttestationOK'
    <2>1. ASSUME attestation' # None
          PROVE  /\ attestation' \in [holds : BOOLEAN, clean : BOOLEAN, age : 0..TTL]
                 /\ AttestationWas(attestation.holds, attestation.clean, attestation.age)'
      <3>1. PICK h, ok, n : h = attestation.holds /\ ok = attestation.clean /\ n = attestation.age
        OBVIOUS
      <3>2. attestation # None /\ n < TTL /\ attestation' = [attestation EXCEPT !.age = n + 1]
        BY <2>1, <3>1, OlderIs DEF Tick
      <3>3. attestation \in [holds : BOOLEAN, clean : BOOLEAN, age : 0..TTL] /\ AttestationWas(h, ok, n)
        BY <3>1, <3>2 DEF PermissionInv, AttestationOK
      <3>4. n \in Nat /\ n + 1 \in 0..TTL
        BY <1>2, <3>1, <3>2, <3>3
      <3>5. /\ attestation' \in [holds : BOOLEAN, clean : BOOLEAN, age : 0..TTL]
            /\ attestation'.holds = h /\ attestation'.clean = ok /\ attestation'.age = n + 1
        BY <3>1, <3>2, <3>3, <3>4
      <3>6. AttestationWas(h, ok, n + 1)'
        BY <1>2, <1>3, <3>2, <3>3, <3>4, EntriesAge
      <3> QED
        BY <3>5, <3>6
    <2> QED
      BY <2>1 DEF AttestationOK
  <1>7. MemoOK'
    <2>1. ASSUME memo' # None PROVE memo' \in Entries /\ AnsweredOK(memo.scope, memo.clean, memo.age)'
      <3>1. PICK s, ok, n : s = memo.scope /\ ok = memo.clean /\ n = memo.age
        OBVIOUS
      <3>2. memo # None /\ n < TTL /\ memo' = [memo EXCEPT !.age = n + 1]
        BY <2>1, <3>1, OlderIs DEF Tick
      <3>3. memo \in Entries /\ AnsweredOK(s, ok, n)
        BY <3>1, <3>2 DEF PermissionInv, MemoOK
      <3>4. n \in Nat /\ n + 1 \in 0..TTL
        BY <1>2, <3>1, <3>2, <3>3 DEF Entries
      <3>5. memo' \in Entries /\ memo'.scope = s /\ memo'.clean = ok /\ memo'.age = n + 1
        BY <3>1, <3>2, <3>3, <3>4 DEF Entries
      <3>6. Ages(n + TTL, (n + TTL) + 1) /\ (n + TTL) + 1 = (n + 1) + TTL
        BY <1>2, <1>3, <3>2, <3>4
      <3>7. AnsweredOK(s, ok, n + 1)'
        BY <3>3, <3>6, AnswersAge DEF AnsweredOK
      <3> QED
        BY <3>5, <3>7
    <2> QED
      BY <2>1 DEF MemoOK
  <1>8. facts' \in [Facts -> BOOLEAN] /\ since' \in [Facts -> Nat] /\ clean' \in BOOLEAN
    BY <1>1, <1>2 DEF PermissionInv
  <1> QED
    BY <1>1, <1>4, <1>5, <1>6, <1>7, <1>8 DEF PermissionInv, AnswersWereTrue, NothingHeldIsLost

-----------------------------------------------------------------------------
(* A step that changes nothing in Greenhouse or the directory.             *)
LEMMA Still ==
    ASSUME UNCHANGED <<facts, since>>, PermissionInv
    PROVE  /\ facts' \in [Facts -> BOOLEAN] /\ since' \in [Facts -> Nat]
           /\ UNCHANGED base => BaseOK'
           /\ UNCHANGED attestation => AttestationOK'
           /\ UNCHANGED memo => MemoOK'
           /\ UNCHANGED answer \/ answer' = None => AnswersWereTrue' /\ NothingHeldIsLost'
           /\ UNCHANGED <<pc, scope, clean, age>> => LookupWas(pc, scope, clean, age)'
  <1>1. \A f, n : (HeldWithin(f, n)' <=> HeldWithin(f, n)) /\ (HeldFor(f, n)' <=> HeldFor(f, n))
    BY DEF HeldWithin, HeldFor
  <1>2. ASSUME NEW n, NEW s PROVE (GivenWithin(s, n)' <=> GivenWithin(s, n)) /\ (GivesAllOf(s, n)' <=> GivesAllOf(s, n))
    BY <1>1 DEF GivenWithin, GivesAllOf, Sees, SeesPrivate
  <1>3. facts' \in [Facts -> BOOLEAN] /\ since' \in [Facts -> Nat]
    BY DEF PermissionInv
  <1>4. UNCHANGED base => BaseOK'
    BY <1>1 DEF PermissionInv, BaseOK, BaseWas
  <1>5. UNCHANGED attestation => AttestationOK'
    BY <1>1 DEF PermissionInv, AttestationOK, AttestationWas
  <1>6. UNCHANGED memo => MemoOK'
    BY <1>2 DEF PermissionInv, MemoOK, AnsweredOK
  <1>7. UNCHANGED answer \/ answer' = None => AnswersWereTrue' /\ NothingHeldIsLost'
    BY <1>2 DEF PermissionInv, AnswersWereTrue, NothingHeldIsLost
  <1>8. UNCHANGED <<pc, scope, clean, age>> => LookupWas(pc, scope, clean, age)'
    BY <1>1, <1>2 DEF PermissionInv, LookupWas
  <1> QED
    BY <1>3, <1>4, <1>5, <1>6, <1>7, <1>8

LEMMA LookupMoves ==
    ASSUME UNCHANGED <<facts, since>>, LookupWas(pc', scope', clean', age')
    PROVE  LookupWas(pc, scope, clean, age)'
  <1>1. \A f, n : (HeldWithin(f, n)' <=> HeldWithin(f, n)) /\ (HeldFor(f, n)' <=> HeldFor(f, n))
    BY DEF HeldWithin, HeldFor
  <1>2. ASSUME NEW n, NEW s PROVE (GivenWithin(s, n)' <=> GivenWithin(s, n)) /\ (GivesAllOf(s, n)' <=> GivesAllOf(s, n))
    BY <1>1 DEF GivenWithin, GivesAllOf, Sees, SeesPrivate
  <1> QED
    BY <1>1, <1>2 DEF LookupWas

(* What the base answers was true within TTL, from the cache or not.       *)
LEMMA BaseAnswersHold ==
    ASSUME BoundsAssumption, PermissionInv, NEW e \in BaseAnswers
    PROVE  e \in Entries /\ BaseWas(e.scope, e.clean, e.age) /\ BaseWas(e.scope, e.clean, age + TTL)
  <1>1. TTL \in Nat /\ age \in Nat
    BY DEF BoundsAssumption, PermissionInv
  <1>2. e \in Entries /\ BaseWas(e.scope, e.clean, e.age)
    <2>1. CASE Fresh(base)
      BY <2>1 DEF BaseAnswers, Fresh, PermissionInv, BaseOK
    <2>2. CASE ~Fresh(base)
      <3>1. PICK ok \in BOOLEAN : e = [scope |-> fetchPermissionScope(ok), clean |-> ok, age |-> 0]
        BY <2>2 DEF BaseAnswers
      <3> DEFINE s == fetchPermissionScope(ok)
                 capable == IF ok THEN {j \in Jobs : facts[Private(j)]} ELSE {}
                 permitted == {j \in Jobs : facts[Granted(j)] \/ facts[Private(j)]}
      <3>2. s = [Blank EXCEPT !.kind = IF facts[Marker] THEN "all" ELSE "jobs",
                              !.jobs = IF facts[Marker] THEN {} ELSE permitted,
                              !.private = IF capable = {} THEN None ELSE capable]
        BY DEF fetchPermissionScope
      <3>3. /\ s.kind = (IF facts[Marker] THEN "all" ELSE "jobs")
            /\ s.jobs = (IF facts[Marker] THEN {} ELSE permitted)
            /\ s.private = (IF capable = {} THEN None ELSE capable)
            /\ s.excluded = {} /\ s.siteAdmin = FALSE /\ s.attested = FALSE
        BY <3>2 DEF Blank
      <3>4. s \in Scopes
        <4>1. capable \subseteq Jobs /\ permitted \subseteq Jobs
          OBVIOUS
        <4> HIDE DEF s, capable, permitted
        <4> DEFINE k == IF facts[Marker] THEN "all" ELSE "jobs"
                   js == IF facts[Marker] THEN {} ELSE permitted
                   ps == IF capable = {} THEN None ELSE capable
        <4>2. k \in {"all", "jobs"} /\ js \in SUBSET Jobs /\ ps \in (SUBSET Jobs) \cup {None}
          BY <4>1
        <4>3. s = [Blank EXCEPT !.kind = k, !.jobs = js, !.private = ps]
          BY <3>2
        <4> HIDE DEF k, js, ps
        <4> QED
          BY <4>2, <4>3, BlankIsScope DEF Scopes
      <3>5. e.scope = s /\ e.clean = ok /\ e.age = 0 /\ e \in Entries
        BY <1>1, <3>1, <3>4 DEF Entries
      <3> HIDE DEF s
      <3>6. BaseWas(s, ok, 0)
        BY <3>3, <3>4 DEF BaseWas, HeldWithin, HeldFor, BoundsAssumption
      <3> QED
        BY <3>5, <3>6
    <2> QED
      BY <2>1, <2>2
  <1>3. e.age \in Nat /\ e.age <= age + TTL /\ age + TTL \in Nat
    BY <1>1, <1>2 DEF Entries
  <1>4. \A f \in Facts : /\ HeldWithin(f, e.age) => HeldWithin(f, age + TTL)
                         /\ HeldFor(f, age + TTL) => HeldFor(f, e.age)
    BY <1>3, Weaker DEF PermissionInv
  <1>5. BaseWas(e.scope, e.clean, age + TTL)
    BY <1>2, <1>4, Known DEF BaseWas
  <1> QED
    BY <1>2, <1>5

(* So is what the directory says.                                          *)
LEMMA LookupsHold ==
    ASSUME BoundsAssumption, PermissionInv, NEW e \in Lookups
    PROVE  /\ e \in [holds : BOOLEAN, clean : BOOLEAN, age : 0..TTL]
           /\ AttestationWas(e.holds, e.clean, e.age) /\ AttestationWas(e.holds, e.clean, age + TTL)
  <1>1. TTL \in Nat /\ age \in Nat
    BY DEF BoundsAssumption, PermissionInv
  <1>2. e \in [holds : BOOLEAN, clean : BOOLEAN, age : 0..TTL] /\ AttestationWas(e.holds, e.clean, e.age)
    <2>1. CASE Fresh(attestation)
      BY <2>1 DEF Lookups, Fresh, PermissionInv, AttestationOK
    <2>2. CASE ~Fresh(attestation)
      <3>1. PICK ok \in BOOLEAN : e = [holds |-> ok /\ facts[Attested], clean |-> ok, age |-> 0]
        BY <2>2 DEF Lookups
      <3>2. (e.holds <=> ok /\ facts[Attested]) /\ e.clean = ok /\ e.age = 0
        BY <3>1
      <3>3. e \in [holds : BOOLEAN, clean : BOOLEAN, age : 0..TTL]
        BY <1>1, <3>1
      <3> QED
        BY <3>2, <3>3 DEF AttestationWas, HeldWithin, HeldFor
    <2> QED
      BY <2>1, <2>2
  <1>3. e.age \in Nat /\ e.age <= age + TTL /\ age + TTL \in Nat
    BY <1>1, <1>2
  <1>4. /\ HeldWithin(Attested, e.age) => HeldWithin(Attested, age + TTL)
        /\ HeldFor(Attested, age + TTL) => HeldFor(Attested, e.age)
    BY <1>3, Weaker, Known DEF PermissionInv
  <1> QED
    BY <1>2, <1>4 DEF AttestationWas

(* An answer is as old as its lookup and one TTL, and so is its memo.      *)
LEMMA FinishKeeps ==
    ASSUME BoundsAssumption, PermissionInv, UNCHANGED <<facts, since>>,
           NEW s \in Scopes, NEW ok \in BOOLEAN, AnsweredOK(s, ok, age), Finish(s, ok)
    PROVE  /\ MemoOK' /\ LookupWas(pc, scope, clean, age)' /\ AnswersWereTrue' /\ NothingHeldIsLost'
           /\ age' \in 0..MaxTicks /\ clean' \in BOOLEAN
  <1>1. /\ TTL \in Nat /\ age \in Nat /\ MaxTicks \in Nat /\ age <= MaxTicks
        /\ Horizon \in Nat /\ age + TTL \in Nat /\ age + TTL <= Horizon
    BY DEF BoundsAssumption, PermissionInv, Horizon
  <1>2. \A f, n : (HeldWithin(f, n)' <=> HeldWithin(f, n)) /\ (HeldFor(f, n)' <=> HeldFor(f, n))
    BY DEF HeldWithin, HeldFor
  <1>3. ASSUME NEW n, NEW t PROVE (GivenWithin(t, n)' <=> GivenWithin(t, n)) /\ (GivesAllOf(t, n)' <=> GivesAllOf(t, n))
    BY <1>2 DEF GivenWithin, GivesAllOf, Sees, SeesPrivate
  <1>4. answer'.scope = s /\ answer'.clean = ok
    BY DEF Finish
  <1>5. GivenWithin(s, Horizon) /\ (ok => GivesAllOf(s, Horizon))
    BY <1>1, WeakerAnswers DEF AnsweredOK, PermissionInv
  <1>6. AnswersWereTrue' /\ NothingHeldIsLost'
    BY <1>3, <1>4, <1>5 DEF AnswersWereTrue, NothingHeldIsLost
  <1>7. MemoOK'
    <2>1. CASE age < TTL
      <3>1. memo' = [scope |-> s, clean |-> ok, age |-> age]
        BY <2>1 DEF Finish
      <3>2. memo' \in Entries /\ memo'.scope = s /\ memo'.clean = ok /\ memo'.age = age
        BY <1>1, <2>1, <3>1 DEF Entries
      <3>3. AnsweredOK(memo'.scope, memo'.clean, memo'.age)
        BY <3>2
      <3> QED
        BY <1>3, <3>2, <3>3 DEF MemoOK, AnsweredOK
    <2>2. CASE ~(age < TTL)
      BY <2>2 DEF Finish, MemoOK
    <2> QED
      BY <2>1, <2>2
  <1>8. pc' = "idle" /\ age' = 0 /\ scope' = Blank /\ clean' = TRUE
    BY DEF Finish
  <1>9. LookupWas(pc, scope, clean, age)'
    BY <1>8, BlankIsScope DEF LookupWas
  <1>10. age' \in 0..MaxTicks /\ clean' \in BOOLEAN
    BY <1>1, <1>8
  <1> QED
    BY <1>6, <1>7, <1>9, <1>10

-----------------------------------------------------------------------------
(* The steps of a lookup.                                                  *)
LEMMA LookupStepKeeps ==
    ASSUME BoundsAssumption, PermissionInv, UNCHANGED <<world, attestation, memo, answer>>,
           age' \in 0..MaxTicks, clean' \in BOOLEAN, BaseOK', LookupWas(pc', scope', clean', age')
    PROVE  PermissionInv'
  BY Still, LookupMoves DEF PermissionInv, world

LEMMA NewBase ==
    ASSUME UNCHANGED <<facts, since>>, base' \in Entries, BaseWas(base'.scope, base'.clean, base'.age)
    PROVE  BaseOK'
  BY DEF BaseOK, BaseWas, HeldWithin, HeldFor

LEMMA StartKeeps == ASSUME BoundsAssumption, PermissionInv, Start PROVE PermissionInv'
  <1>1. UNCHANGED <<facts, since, base, attestation, memo>> /\ answer' = None
    BY DEF Start, world
  <1>2. LookupWas(pc', scope', clean', age')
    BY BlankIsScope DEF Start, LookupWas
  <1>3. age' \in 0..MaxTicks /\ clean' \in BOOLEAN
    BY DEF Start, BoundsAssumption
  <1> QED
    BY <1>1, <1>2, <1>3, Still, LookupMoves DEF PermissionInv

LEMMA AdminIsScope ==
    LET s == [Blank EXCEPT !.siteAdmin = TRUE]
    IN s \in Scopes /\ ~s.attested /\ s.siteAdmin /\ s.private = None /\ s.excluded = {} /\ s.kind = "jobs"
  BY BlankIsScope DEF Scopes

LEMMA ProbeKeeps == ASSUME BoundsAssumption, PermissionInv, NEW ok \in BOOLEAN, Probe(ok) PROVE PermissionInv'
  <1>1. scope = Blank /\ facts[Admin] \in BOOLEAN
    BY Known DEF Probe, PermissionInv, LookupWas
  <1>2. scope' = [Blank EXCEPT !.siteAdmin = ok /\ facts[Admin]]
    BY <1>1 DEF Probe
  <1>3. LookupWas(pc', scope', clean', age')
    <2>1. CASE ok /\ facts[Admin]
      <3>1. scope' = [Blank EXCEPT !.siteAdmin = TRUE] /\ pc' = "confidential" /\ age' = age
        BY <1>1, <1>2, <2>1 DEF Probe
      <3> QED
        BY <2>1, <3>1, AdminIsScope DEF LookupWas, HeldWithin
    <2>2. CASE ~(ok /\ facts[Admin])
      <3>1. scope' = [Blank EXCEPT !.siteAdmin = FALSE] /\ pc' = "base" /\ clean' = ok /\ age' = age
        BY <1>1, <1>2, <2>2 DEF Probe
      <3>2. scope' = Blank
        BY <3>1 DEF Blank
      <3> QED
        BY <2>2, <3>1, <3>2, BlankIsScope DEF LookupWas, HeldFor
    <2> QED
      BY <2>1, <2>2
  <1>4. UNCHANGED <<world, base, attestation, memo, age, answer>> /\ clean' \in BOOLEAN
    BY DEF Probe
  <1> QED
    BY <1>3, <1>4, LookupStepKeeps, Still DEF PermissionInv, world

LEMMA ConfidentialKeeps ==
    ASSUME BoundsAssumption, PermissionInv, Confidential \/ ConfidentialFails
    PROVE  PermissionInv'
  <1>1. /\ LookupWas("confidential", scope, clean, age) /\ scope = [Blank EXCEPT !.siteAdmin = TRUE]
        /\ HeldWithin(Admin, age) /\ age \in Nat /\ TTL \in Nat /\ since \in [Facts -> Nat]
    BY DEF Confidential, ConfidentialFails, PermissionInv, LookupWas, BoundsAssumption
  <1>2. UNCHANGED <<world, base, attestation, memo, age, answer>> /\ clean' \in BOOLEAN
    BY DEF Confidential, ConfidentialFails, PermissionInv
  <1>3. CASE Confidential
    <2> DEFINE restricted == {j \in Jobs : ~facts[Open(j)]}
    <2>1. CASE restricted = {}
      <3>1. scope' = [scope EXCEPT !.kind = "all"] /\ pc' = "stamp" /\ clean' = clean
        BY <1>3, <2>1 DEF Confidential
      <3>2. scope' \in Scopes /\ scope'.kind = "all" /\ scope'.excluded = {} /\ scope'.siteAdmin /\ ~scope'.attested
            /\ scope'.private = None
        BY <1>1, <3>1, AdminIsScope DEF Scopes
      <3>3. \A j \in Jobs : HeldWithin(Open(j), age + TTL)
        BY <2>1 DEF HeldWithin
      <3>4. HeldWithin(Admin, age + TTL)
        <4>1. age + TTL \in Nat /\ age <= age + TTL
          BY <1>1
        <4> QED
          BY <1>1, <4>1, Weaker, Known
      <3>5. GivenWithin(scope', age + TTL)
        BY <3>2, <3>3, <3>4 DEF GivenWithin, Sees, SeesPrivate
      <3> DEFINE t == [scope' EXCEPT !.attested = scope'.kind = "all"]
      <3>6. t.kind = "all" /\ t.excluded = {} /\ t.siteAdmin /\ t.attested
        BY <3>2 DEF Scopes
      <3> HIDE DEF t
      <3>7. GivesAllOf(t, age + TTL)
        BY <3>6 DEF GivesAllOf, Sees, SeesPrivate
      <3>8. LookupWas(pc', scope', clean', age)
        BY <1>1, <3>1, <3>2, <3>5, <3>7 DEF LookupWas, t
      <3> QED
        BY <1>2, <3>8, LookupStepKeeps, Still DEF PermissionInv, world
    <2>2. CASE restricted # {}
      <3>1. scope' = [scope EXCEPT !.excluded = restricted] /\ pc' = "granted" /\ clean' = clean
        BY <1>3, <2>2 DEF Confidential
      <3>2. restricted \subseteq Jobs
        OBVIOUS
      <3> HIDE DEF restricted
      <3>3. scope' \in Scopes /\ scope'.excluded = restricted /\ scope'.siteAdmin /\ ~scope'.attested
        BY <1>1, <3>1, <3>2, AdminIsScope DEF Scopes
      <3>4. \A j \in Jobs : (j \notin restricted => HeldWithin(Open(j), age)) /\ (HeldFor(Open(j), age) => j \notin restricted)
        BY DEF restricted, HeldWithin, HeldFor
      <3>5. LookupWas(pc', scope', clean', age)
        BY <1>1, <3>1, <3>3, <3>4 DEF LookupWas
      <3> QED
        BY <1>2, <3>5, LookupStepKeeps, Still DEF PermissionInv, world
    <2> QED
      BY <2>1, <2>2
  <1>4. CASE ConfidentialFails
    <2>1. pc' = "base" /\ clean' = FALSE /\ scope' = scope
      BY <1>4 DEF ConfidentialFails
    <2>2. LookupWas(pc', scope', clean', age)
      BY <1>1, <2>1 DEF LookupWas
    <2> QED
      BY <1>2, <2>2, LookupStepKeeps, Still DEF PermissionInv, world
  <1> QED
    BY <1>3, <1>4

LEMMA ExcludeUngrantedKeeps == ASSUME BoundsAssumption, PermissionInv, ExcludeUngranted PROVE PermissionInv'
  <1>1. PICK e \in BaseAnswers :
          /\ scope' = [scope EXCEPT !.kind = "all",
                   !.excluded = IF e.scope.kind = "all" THEN {} ELSE @ \ e.scope.jobs,
                   !.private = IF e.scope.kind = "jobs" /\ e.scope.private = None THEN {} ELSE e.scope.private]
          /\ base' = e /\ clean' = (clean /\ e.clean)
    BY DEF ExcludeUngranted
  <1> DEFINE n == age + TTL
  <1>2. /\ LookupWas("granted", scope, clean, age) /\ age \in Nat /\ TTL \in Nat /\ n \in Nat /\ age <= n
        /\ since \in [Facts -> Nat] /\ scope \in Scopes /\ scope.siteAdmin /\ ~scope.attested
    BY DEF ExcludeUngranted, PermissionInv, LookupWas, BoundsAssumption
  <1>3. e \in Entries /\ BaseWas(e.scope, e.clean, e.age) /\ BaseWas(e.scope, e.clean, n)
    BY BaseAnswersHold
  <1>4. \A f \in Facts : (HeldWithin(f, age) => HeldWithin(f, n)) /\ (HeldFor(f, n) => HeldFor(f, age))
    BY <1>2, Weaker
  <1>5. e.scope \in Scopes /\ e.scope.kind \in {"all", "jobs"}
    BY <1>3 DEF Entries, Scopes
  <1> DEFINE excluded == IF e.scope.kind = "all" THEN {} ELSE scope.excluded \ e.scope.jobs
             private == IF e.scope.kind = "jobs" /\ e.scope.private = None THEN {} ELSE e.scope.private
  <1>6. scope' = [scope EXCEPT !.kind = "all", !.excluded = excluded, !.private = private]
    BY <1>1
  <1>7. excluded \in SUBSET Jobs /\ private \in (SUBSET Jobs) \cup {None}
    BY <1>2, <1>5 DEF Scopes
  <1>8. /\ \A j \in Jobs : j \notin excluded =>
              HeldWithin(Marker, n) \/ HeldWithin(Open(j), n) \/ HeldWithin(Granted(j), n) \/ HeldWithin(Private(j), n)
        /\ private # None => \A j \in Jobs : j \in private => HeldWithin(Private(j), n)
    <2>1. CASE e.scope.kind = "all"
      BY <1>3, <2>1 DEF BaseWas
    <2>2. CASE e.scope.kind = "jobs"
      BY <1>2, <1>3, <1>4, <2>2, Known DEF BaseWas, LookupWas
    <2> QED
      BY <1>5, <2>1, <2>2
  <1>9. ASSUME clean, e.clean
        PROVE  /\ \A j \in Jobs :
                    \/ HeldFor(Marker, n) \/ HeldFor(Open(j), n) \/ HeldFor(Granted(j), n) \/ HeldFor(Private(j), n)
                    => j \notin excluded
               /\ \A j \in Jobs : HeldFor(Private(j), n) /\ private # None => j \in private
    <2>1. CASE e.scope.kind = "all"
      BY <1>3, <1>9, <2>1 DEF BaseWas
    <2>2. CASE e.scope.kind = "jobs"
      BY <1>2, <1>3, <1>4, <1>9, <2>2, Known DEF BaseWas, LookupWas
    <2> QED
      BY <1>5, <2>1, <2>2
  <1>10. HeldWithin(Admin, n)
    BY <1>2, <1>4, Known DEF LookupWas
  <1> HIDE DEF n, excluded, private
  <1>11. /\ scope' \in Scopes /\ scope'.kind = "all" /\ scope'.excluded = excluded /\ scope'.private = private
         /\ scope'.siteAdmin /\ ~scope'.attested
    BY <1>2, <1>6, <1>7 DEF Scopes
  <1>12. GivenWithin(scope', n)
    BY <1>8, <1>10, <1>11 DEF GivenWithin, Sees, SeesPrivate
  <1> DEFINE t == [scope' EXCEPT !.attested = scope'.kind = "all"]
  <1>13. t.kind = "all" /\ t.excluded = excluded /\ t.private = private /\ t.siteAdmin /\ t.attested
    BY <1>11 DEF Scopes
  <1> HIDE DEF t
  <1>14. clean /\ e.clean => GivesAllOf(t, n)
    BY <1>9, <1>13 DEF GivesAllOf, Sees, SeesPrivate
  <1>15. pc' = "stamp" /\ UNCHANGED <<world, attestation, memo, age, answer>>
    BY DEF ExcludeUngranted
  <1>16. clean' \in BOOLEAN /\ (clean' <=> clean /\ e.clean)
    BY <1>1
  <1>17. LookupWas(pc', scope', clean', age)
    BY <1>2, <1>4, <1>9, <1>11, <1>12, <1>14, <1>15, <1>16 DEF LookupWas, n, t
  <1>18. BaseOK'
    BY <1>1, <1>3, <1>15, NewBase DEF world
  <1> QED
    BY <1>15, <1>16, <1>17, <1>18, LookupStepKeeps DEF PermissionInv

LEMMA BaseOnlyKeeps == ASSUME BoundsAssumption, PermissionInv, BaseOnly PROVE PermissionInv'
  <1>1. PICK e \in BaseAnswers :
          /\ scope' = [e.scope EXCEPT !.siteAdmin = scope.siteAdmin]
          /\ base' = e /\ clean' = (clean /\ e.clean)
    BY DEF BaseOnly
  <1> DEFINE n == age + TTL
  <1>2. /\ LookupWas("base", scope, clean, age) /\ age \in Nat /\ TTL \in Nat /\ n \in Nat /\ age <= n
        /\ since \in [Facts -> Nat] /\ scope \in Scopes
    BY DEF BaseOnly, PermissionInv, LookupWas, BoundsAssumption
  <1>3. e \in Entries /\ BaseWas(e.scope, e.clean, e.age) /\ BaseWas(e.scope, e.clean, n)
    BY BaseAnswersHold
  <1>4. \A f \in Facts : (HeldWithin(f, age) => HeldWithin(f, n)) /\ (HeldFor(f, n) => HeldFor(f, age))
    BY <1>2, Weaker
  <1> HIDE DEF n
  <1>5. e.scope \in Scopes /\ e.scope.kind \in {"all", "jobs"} /\ e.scope.excluded = {} /\ ~e.scope.attested
    BY <1>3 DEF BaseWas, Scopes
  <1>6. /\ scope' \in Scopes /\ scope'.kind = e.scope.kind /\ scope'.jobs = e.scope.jobs /\ scope'.excluded = {}
        /\ scope'.private = e.scope.private /\ scope'.siteAdmin = scope.siteAdmin /\ ~scope'.attested
    BY <1>1, <1>2, <1>5 DEF Scopes
  <1>7. GivenWithin(scope', n)
    BY <1>2, <1>3, <1>4, <1>5, <1>6, Known DEF GivenWithin, Sees, SeesPrivate, BaseWas, LookupWas
  <1> DEFINE t == [scope' EXCEPT !.attested = scope'.kind = "all"]
  <1>8. /\ t.kind = e.scope.kind /\ t.jobs = e.scope.jobs /\ t.excluded = {} /\ t.private = e.scope.private
        /\ t.siteAdmin = scope.siteAdmin /\ (t.attested <=> e.scope.kind = "all")
    BY <1>6 DEF Scopes
  <1> HIDE DEF t
  <1>9. clean => ~HeldFor(Admin, n)
    BY <1>2, <1>4, Known DEF LookupWas
  <1>10. clean /\ e.clean => GivesAllOf(t, n)
    BY <1>3, <1>5, <1>8, <1>9 DEF GivesAllOf, Sees, SeesPrivate, BaseWas
  <1>11. pc' = "stamp" /\ UNCHANGED <<world, attestation, memo, age, answer>>
    BY DEF BaseOnly
  <1>12. clean' \in BOOLEAN /\ (clean' <=> clean /\ e.clean)
    BY <1>1
  <1>13. scope'.siteAdmin => HeldWithin(Admin, age)
    BY <1>2, <1>6 DEF LookupWas
  <1>14. e.clean => \A j \in Jobs : HeldFor(Private(j), n) => j \in e.scope.private
    BY <1>3 DEF BaseWas
  <1>15. LookupWas(pc', scope', clean', age)
    BY <1>6, <1>7, <1>10, <1>11, <1>12, <1>13, <1>14 DEF LookupWas, n, t
  <1>16. BaseOK'
    BY <1>1, <1>3, <1>11, NewBase DEF world
  <1> QED
    BY <1>11, <1>12, <1>15, <1>16, LookupStepKeeps DEF PermissionInv

LEMMA BaseFailsKeeps == ASSUME BoundsAssumption, PermissionInv, BaseFails PROVE PermissionInv'
  <1>1. UNCHANGED <<facts, since, base, attestation, memo, answer>>
    BY DEF BaseFails, world
  <1>2. LookupWas(pc', scope', clean', age')
    BY BlankIsScope DEF BaseFails, LookupWas
  <1>3. age' \in 0..MaxTicks /\ clean' \in BOOLEAN
    BY DEF BaseFails, BoundsAssumption
  <1> QED
    BY <1>1, <1>2, <1>3, Still, LookupMoves DEF PermissionInv

-----------------------------------------------------------------------------
(* The steps that answer.                                                  *)
LEMMA NoStampKeeps == ASSUME BoundsAssumption, PermissionInv, NoStamp PROVE PermissionInv'
  <1>1. /\ LookupWas("stamp", scope, clean, age) /\ scope.kind = "jobs" /\ Finish(scope, clean)
        /\ UNCHANGED <<facts, since, base, attestation>>
    BY DEF NoStamp, PermissionInv, world
  <1>2. scope \in Scopes /\ clean \in BOOLEAN /\ ~scope.attested
    BY <1>1 DEF LookupWas, PermissionInv
  <1> DEFINE t == [scope EXCEPT !.attested = scope.kind = "all"]
  <1>3. /\ t.kind = scope.kind /\ t.jobs = scope.jobs /\ t.private = scope.private /\ t.siteAdmin = scope.siteAdmin
        /\ t.excluded = scope.excluded /\ ~t.attested
    BY <1>1, <1>2 DEF Scopes
  <1>4. clean => GivesAllOf(t, age + TTL)
    BY <1>1 DEF LookupWas
  <1> HIDE DEF t
  <1>5. clean => GivesAllOf(scope, age + TTL)
    BY <1>1, <1>2, <1>3, <1>4 DEF GivesAllOf, Sees, SeesPrivate
  <1>6. AnsweredOK(scope, clean, age)
    BY <1>1, <1>5 DEF LookupWas, AnsweredOK
  <1> QED
    BY <1>1, <1>2, <1>6, FinishKeeps, Still DEF PermissionInv

LEMMA StampKeeps == ASSUME BoundsAssumption, PermissionInv, Stamp PROVE PermissionInv'
  <1>1. /\ LookupWas("stamp", scope, clean, age) /\ scope.kind = "all"
        /\ scope \in Scopes /\ clean \in BOOLEAN /\ ~scope.attested
        /\ UNCHANGED <<facts, since, base>>
    BY DEF Stamp, PermissionInv, world, LookupWas
  <1>2. PICK e \in Lookups :
          /\ attestation' = e
          /\ IF e.holds \/ scope.private # None
               THEN Finish([scope EXCEPT !.attested = e.holds], clean /\ e.clean)
               ELSE /\ pc' = "recover" /\ clean' = (clean /\ e.clean)
                    /\ UNCHANGED <<memo, age, scope, answer>>
    BY DEF Stamp
  <1> DEFINE n == age + TTL
             t == [scope EXCEPT !.attested = scope.kind = "all"]
             s == [scope EXCEPT !.attested = e.holds]
  <1>3. /\ e \in [holds : BOOLEAN, clean : BOOLEAN, age : 0..TTL]
        /\ AttestationWas(e.holds, e.clean, e.age) /\ AttestationWas(e.holds, e.clean, n)
    BY LookupsHold
  <1>4. AttestationOK'
    BY <1>1, <1>2, <1>3 DEF AttestationOK, AttestationWas, HeldWithin, HeldFor
  <1>5. e.holds \in BOOLEAN /\ e.clean \in BOOLEAN
    BY <1>3
  <1>6. /\ t.kind = "all" /\ t.excluded = scope.excluded /\ t.siteAdmin = scope.siteAdmin /\ t.attested
        /\ t.private = scope.private
    BY <1>1 DEF Scopes
  <1>7. /\ s \in Scopes /\ s.kind = "all" /\ s.excluded = scope.excluded /\ s.siteAdmin = scope.siteAdmin
        /\ s.private = scope.private /\ (s.attested <=> e.holds)
    BY <1>1, <1>5 DEF Scopes
  <1>8. /\ GivenWithin(scope, n)
        /\ clean => GivesAllOf(t, n)
        /\ clean /\ scope.private # None => \A j \in Jobs : HeldFor(Private(j), n) => j \in scope.private
    BY <1>1 DEF LookupWas
  <1>9. CASE e.holds \/ scope.private # None
    <2> HIDE DEF n, s, t
    <2>1. GivenWithin(s, n)
      BY <1>1, <1>3, <1>7, <1>8 DEF GivenWithin, Sees, SeesPrivate, AttestationWas
    <2>2. clean /\ e.clean => GivesAllOf(s, n)
      BY <1>3, <1>6, <1>7, <1>8, <1>9 DEF GivesAllOf, Sees, SeesPrivate, AttestationWas
    <2> DEFINE ok == clean /\ e.clean
    <2>3. ok \in BOOLEAN /\ Finish(s, ok)
      BY <1>1, <1>2, <1>5, <1>9 DEF s
    <2>4. AnsweredOK(s, ok, age)
      BY <2>1, <2>2 DEF AnsweredOK, n
    <2> HIDE DEF ok
    <2> QED
      BY <1>1, <1>4, <1>7, <2>3, <2>4, FinishKeeps, Still DEF PermissionInv
  <1>10. CASE ~(e.holds \/ scope.private # None)
    <2>1. pc' = "recover" /\ clean' = (clean /\ e.clean) /\ UNCHANGED <<memo, age, scope, answer>>
      BY <1>2, <1>10
    <2>2. clean' \in BOOLEAN /\ (clean' <=> clean /\ e.clean)
      BY <2>1
    <2>3. e.clean => ~HeldFor(Attested, n)
      BY <1>3, <1>10 DEF AttestationWas
    <2>4. LookupWas(pc', scope', clean', age')
      BY <1>1, <1>10, <2>1, <2>2, <2>3 DEF LookupWas
    <2> QED
      BY <1>1, <1>4, <2>1, <2>2, <2>4, Still, LookupMoves DEF PermissionInv
  <1> QED
    BY <1>9, <1>10

LEMMA RecoverKeeps ==
    ASSUME BoundsAssumption, PermissionInv, explicitPrivateCapableJobIds \/ RecoverFails
    PROVE  PermissionInv'
  <1> DEFINE n == age + TTL
             t == [scope EXCEPT !.attested = scope.kind = "all"]
  <1>1. /\ LookupWas("recover", scope, clean, age) /\ scope.kind = "all" /\ scope.private = None
        /\ scope \in Scopes /\ clean \in BOOLEAN /\ ~scope.attested
        /\ clean => ~HeldFor(Attested, n)
        /\ GivenWithin(scope, n) /\ (clean => GivesAllOf(t, n))
        /\ UNCHANGED <<facts, since, attestation>>
    BY DEF explicitPrivateCapableJobIds, RecoverFails, PermissionInv, world, LookupWas
  <1>2. CASE RecoverFails
    <2>1. Finish(scope, FALSE) /\ UNCHANGED base
      BY <1>2 DEF RecoverFails
    <2>2. AnsweredOK(scope, FALSE, age)
      BY <1>1 DEF AnsweredOK
    <2> QED
      BY <1>1, <2>1, <2>2, FinishKeeps, Still DEF PermissionInv
  <1>3. CASE explicitPrivateCapableJobIds
    <2>1. PICK e \in BaseAnswers :
            base' = e /\ Finish([scope EXCEPT !.private = e.scope.private], clean /\ e.clean)
      BY <1>3 DEF explicitPrivateCapableJobIds
    <2>2. e \in Entries /\ BaseWas(e.scope, e.clean, e.age) /\ BaseWas(e.scope, e.clean, n)
      BY BaseAnswersHold
    <2>3. e.scope \in Scopes /\ e.clean \in BOOLEAN
      BY <2>2 DEF Entries
    <2> DEFINE s == [scope EXCEPT !.private = e.scope.private]
               ok == clean /\ e.clean
    <2>4. /\ s \in Scopes /\ s.kind = "all" /\ s.excluded = scope.excluded /\ s.siteAdmin = scope.siteAdmin
          /\ s.private = e.scope.private /\ ~s.attested
      BY <1>1, <2>3 DEF Scopes
    <2>5. t.kind = "all" /\ t.excluded = scope.excluded /\ t.siteAdmin = scope.siteAdmin
      BY <1>1 DEF Scopes
    <2>6. Finish(s, ok) /\ ok \in BOOLEAN
      BY <1>1, <2>1, <2>3
    <2> HIDE DEF n, s, t
    <2>7. GivenWithin(s, n)
      BY <1>1, <2>2, <2>4 DEF GivenWithin, Sees, SeesPrivate, BaseWas
    <2>8. ok => GivesAllOf(s, n)
      BY <1>1, <2>2, <2>4, <2>5 DEF GivesAllOf, Sees, SeesPrivate, BaseWas
    <2> HIDE DEF ok
    <2>9. AnsweredOK(s, ok, age)
      BY <2>7, <2>8 DEF AnsweredOK, n
    <2>10. BaseOK'
      BY <1>1, <2>1, <2>2, NewBase
    <2> QED
      BY <1>1, <2>4, <2>6, <2>9, <2>10, FinishKeeps, Still DEF PermissionInv
  <1> QED
    BY <1>2, <1>3

LEMMA OthersKeep ==
    ASSUME BoundsAssumption, PermissionInv, Hit \/ OperatorLookup \/ UNCHANGED vars
    PROVE  PermissionInv'
  <1>1. UNCHANGED <<facts, since, base, memo, pc, age, scope, clean>>
    BY DEF Hit, OperatorLookup, vars, world
  <1>2. AttestationOK'
    <2>1. CASE OperatorLookup
      <3>1. PICK e \in Lookups : attestation' = e
        BY <2>1 DEF OperatorLookup
      <3>2. /\ e \in [holds : BOOLEAN, clean : BOOLEAN, age : 0..TTL]
            /\ AttestationWas(e.holds, e.clean, e.age)
        BY LookupsHold
      <3> QED
        BY <1>1, <3>1, <3>2 DEF AttestationOK, AttestationWas, HeldWithin, HeldFor
    <2>2. CASE UNCHANGED attestation
      BY <1>1, <2>2, Still
    <2> QED
      BY <2>1, <2>2 DEF Hit, vars
  <1>3. AnswersWereTrue' /\ NothingHeldIsLost'
    <2>1. CASE UNCHANGED answer \/ answer' = None
      BY <1>1, <2>1, Still
    <2>2. CASE Hit
      <3>1. memo # None /\ memo.age < TTL /\ answer' = [scope |-> memo.scope, clean |-> memo.clean]
        BY <2>2 DEF Hit, Fresh
      <3>2. memo \in Entries /\ AnsweredOK(memo.scope, memo.clean, memo.age)
        BY <3>1 DEF PermissionInv, MemoOK
      <3>3. /\ memo.age + TTL \in Nat /\ Horizon \in Nat /\ memo.age + TTL <= Horizon
            /\ since \in [Facts -> Nat]
        BY <3>1, <3>2 DEF Entries, BoundsAssumption, Horizon, PermissionInv
      <3>4. GivenWithin(memo.scope, Horizon) /\ (memo.clean => GivesAllOf(memo.scope, Horizon))
        BY <3>2, <3>3, WeakerAnswers DEF AnsweredOK
      <3>5. answer'.scope = memo.scope /\ answer'.clean = memo.clean
        BY <3>1
      <3> QED
        BY <1>1, <3>4, <3>5 DEF AnswersWereTrue, NothingHeldIsLost, GivenWithin, GivesAllOf, Sees, SeesPrivate,
           HeldWithin, HeldFor
    <2> QED
      BY <2>1, <2>2 DEF OperatorLookup, vars
  <1> QED
    BY <1>1, <1>2, <1>3, Still DEF PermissionInv

LEMMA InvStep == ASSUME BoundsAssumption, PermissionInv, [Next]_vars PROVE PermissionInv'
  BY ChangeKeeps, TickKeeps, StartKeeps, ProbeKeeps, ConfidentialKeeps, ExcludeUngrantedKeeps, BaseOnlyKeeps,
     BaseFailsKeeps, NoStampKeeps, StampKeeps, RecoverKeeps, OthersKeep DEF Next

-----------------------------------------------------------------------------
(* Every cache, and every lookup under way, is as true as it is old.       *)
THEOREM PermissionInvariance == ASSUME BoundsAssumption PROVE Spec => []PermissionInv
  <1>1. Init => PermissionInv
    BY InvInit
  <1>2. PermissionInv /\ [Next]_vars => PermissionInv'
    BY InvStep
  <1> QED
    BY <1>1, <1>2, PTL DEF Spec

(* What ended two times to live and two lookups ago gives nobody a job, a  *)
(* private-candidate right or a role any more, however the caches of       *)
(* createProductionScopedReader are filled, refilled and asked.            *)
THEOREM RevocationsReachEveryAnswer == ASSUME BoundsAssumption PROVE Spec => []AnswersWereTrue
  <1>1. PermissionInv => AnswersWereTrue
    BY DEF PermissionInv
  <1> QED
    BY <1>1, PermissionInvariance, PTL

(* What has been given for that long is in every answer none of whose      *)
(* reads failed.                                                           *)
THEOREM GrantsReachEveryAnswer == ASSUME BoundsAssumption PROVE Spec => []NothingHeldIsLost
  <1>1. PermissionInv => NothingHeldIsLost
    BY DEF PermissionInv
  <1> QED
    BY <1>1, PermissionInvariance, PTL
=============================================================================
