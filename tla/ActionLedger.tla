----------------------------- MODULE ActionLedger -----------------------------
(***************************************************************************)
(* The durable ledger of Greenhouse writes: the table greenhouse_action and*)
(* the security-definer functions of action-state.sql, the only code that  *)
(* changes it.  Every function runs as one transaction on one row, under   *)
(* the row lock or the unique index, so each is one action here.           *)
(*                                                                         *)
(* `now` is the database clock.  updated_at only orders the recovery queue *)
(* and is left out, and with it defer_greenhouse_action_unknown, which     *)
(* writes nothing else; error codes and upstream ids are left out as well. *)
(***************************************************************************)
EXTENDS Integers

CONSTANTS
    Actions,          \* action ids
    Owners,           \* owner tokens: one randomUUID per claiming call
    NoOwner,          \* owner of a row that does not exist
    Locks,            \* lock keys
    LockOf,           \* the lock key of an action, fixed by its signed intent
    GraceOf,          \* reconciliation grace of an action, fixed likewise
    PreflightLease,   \* 90 seconds in the code
    MutationLease,    \* 120 seconds
    ConfirmGap,       \* 30 seconds between two original-state observations
    MaxIntentWindow,  \* 6 minutes
    MaxTime           \* bound on the clock

ASSUME OwnerAssumption == NoOwner \notin Owners
ASSUME LockAssumption == LockOf \in [Actions -> Locks]
ASSUME GraceAssumption == GraceOf \in [Actions -> Nat]
ASSUME LeaseAssumption ==
    /\ PreflightLease \in Nat \ {0}
    /\ MutationLease \in Nat \ {0}
    /\ ConfirmGap \in Nat
    /\ MaxIntentWindow \in Nat \ {0}
    /\ MaxTime \in Nat

VARIABLES ledger, now

ledgerVars == <<ledger, now>>

(***************************************************************************)
(* Rows.  completed_at is kept as whether it is set; source is             *)
(* resolution_source, and "operator" stands for a row that also carries    *)
(* resolved_by_fingerprint.                                                *)
(***************************************************************************)
NoTime == -1

Unresolved == {"executing", "unknown"}
Terminal == {"succeeded", "failed", "reconciled"}
Observations == {"none", "desired_observed", "not_observed", "conflict"}

Row == [status: {"absent"} \cup Unresolved \cup Terminal,
        phase: {"preflight", "mutation_sent"},
        owner: Owners \cup {NoOwner},
        lease: Nat,
        notAppliedBefore: Nat,
        intentExpires: Nat,
        observation: Observations,
        firstOriginal: Nat \cup {NoTime},
        source: {"none", "automatic", "operator"},
        completed: BOOLEAN]

AbsentRow == [status |-> "absent", phase |-> "preflight", owner |-> NoOwner,
              lease |-> 0, notAppliedBefore |-> 0, intentExpires |-> 0,
              observation |-> "none", firstOriginal |-> NoTime,
              source |-> "none", completed |-> FALSE]

LedgerInit ==
    /\ now = 0
    /\ ledger = [a \in Actions |-> AbsentRow]

IsUnresolved(a) == ledger[a].status \in Unresolved

\* Plausible bug: an index predicate that forgets unknown rows.
LockFreeExecutingOnly(k) ==
    \A b \in Actions : LockOf[b] = k => ledger[b].status # "executing"

\* The unique index greenhouse_action_one_unresolved_per_lock admits a row.
LockFree(k) == \A b \in Actions : LockOf[b] = k => ~IsUnresolved(b)

-----------------------------------------------------------------------------
(***************************************************************************)
(* claim_greenhouse_action.  Only the "owned" disposition writes; "replay" *)
(* and "target_busy" read the row in the way (the callers' modules model   *)
(* what a caller does with each).                                          *)
(***************************************************************************)
ClaimWindowOpen(expiry) == now < expiry /\ expiry <= now + MaxIntentWindow

ClaimOwned(a, o, expiry) ==
    /\ ledger[a].status = "absent"
    /\ ClaimWindowOpen(expiry)
    /\ LockFree(LockOf[a])
    /\ ledger' = [ledger EXCEPT ![a] =
          [status |-> "executing", phase |-> "preflight", owner |-> o,
           lease |-> now + PreflightLease,
           notAppliedBefore |-> now + PreflightLease + GraceOf[a],
           intentExpires |-> expiry, observation |-> "none",
           firstOriginal |-> NoTime, source |-> "none", completed |-> FALSE]]

(***************************************************************************)
(* begin_greenhouse_action_mutation: TRUE exactly when MayBegin, FALSE and *)
(* no write otherwise.                                                     *)
(***************************************************************************)
MayBegin(a, o) ==
    /\ ledger[a].status = "executing"
    /\ ledger[a].phase = "preflight"
    /\ ledger[a].owner = o
    /\ now < ledger[a].lease
    /\ now < ledger[a].intentExpires

\* Plausible bug: the boundary is not moved with the lease.
BeginKeepsBoundary(a, o) ==
    /\ MayBegin(a, o)
    /\ ledger' = [ledger EXCEPT ![a] =
          [@ EXCEPT !.phase = "mutation_sent", !.lease = now + MutationLease]]

BeginMutation(a, o) ==
    /\ MayBegin(a, o)
    /\ LET row == ledger[a]
           grace == row.notAppliedBefore - row.lease
       IN ledger' = [ledger EXCEPT ![a] =
             [row EXCEPT !.phase = "mutation_sent",
                         !.notAppliedBefore = now + MutationLease + grace,
                         !.lease = now + MutationLease]]

(***************************************************************************)
(* finish_greenhouse_action: null, and no write, unless MayFinish.  An     *)
(* outcome is a status with an observation; Outcomes are the combinations  *)
(* the service passes.                                                     *)
(***************************************************************************)
Outcomes ==
    {<<"failed", "none">>, <<"succeeded", "desired_observed">>,
     <<"reconciled", "desired_observed">>}
    \cup ({"unknown"} \X {"none", "not_observed", "conflict"})

\* Plausible bugs: finishing a claim that never passed the fence; finishing
\* a row that is no longer executing.
MayFinishAnyPhase(a, o, status) ==
    /\ ledger[a].status = "executing"
    /\ ledger[a].owner = o
    /\ now < ledger[a].lease

MayFinishTwice(a, o, status) ==
    /\ ledger[a].status # "absent"
    /\ ledger[a].owner = o
    /\ now < ledger[a].lease
    /\ ledger[a].phase = "mutation_sent" \/ status = "failed"

MayFinish(a, o, status) ==
    /\ ledger[a].status = "executing"
    /\ ledger[a].owner = o
    /\ now < ledger[a].lease
    /\ ledger[a].phase = "mutation_sent" \/ status = "failed"

Finish(a, o, status, observation) ==
    /\ MayFinish(a, o, status)
    /\ ledger' = [ledger EXCEPT ![a] =
          [@ EXCEPT !.status = status,
                    !.observation = observation,
                    !.source = IF status = "reconciled" THEN "automatic" ELSE "none",
                    !.completed = status \in Terminal]]

(***************************************************************************)
(* prepare_greenhouse_action_reconciliation, where it writes: a claim      *)
(* whose lease has run out is taken from its owner.                        *)
(***************************************************************************)
LeaseExpired(a) == ledger[a].status = "executing" /\ ledger[a].lease <= now

\* Plausible bug: every stale claim is failed, sent or not.
TakeOverAlwaysFails(a) ==
    /\ LeaseExpired(a)
    /\ ledger' = [ledger EXCEPT ![a] = [@ EXCEPT !.status = "failed", !.completed = TRUE]]

TakeOver(a) ==
    /\ LeaseExpired(a)
    /\ ledger' = [ledger EXCEPT ![a] =
          IF ledger[a].phase = "preflight"
          THEN [@ EXCEPT !.status = "failed", !.completed = TRUE]
          ELSE [@ EXCEPT !.status = "unknown", !.completed = FALSE]]

(***************************************************************************)
(* reconcile_greenhouse_action_original_observation: the upstream still    *)
(* shows the original state.  Only the second of two observations, both    *)
(* after the boundary and ConfirmGap apart, settles the action.            *)
(***************************************************************************)
\* Plausible bug: a quarantined row is reconciled like any other.
IsAnyUnknown(a) == ledger[a].status = "unknown"

IsOpenUnknown(a) == ledger[a].status = "unknown" /\ ledger[a].observation # "conflict"

\* Plausible bug: the second observation counts however soon it comes.
ConfirmedAtOnce(a) ==
    /\ ledger[a].firstOriginal # NoTime
    /\ ledger[a].firstOriginal >= ledger[a].notAppliedBefore

ConfirmedOriginal(a) ==
    LET first == ledger[a].firstOriginal IN
    /\ first # NoTime
    /\ first >= ledger[a].notAppliedBefore
    /\ now >= first + ConfirmGap

KeepFirstOriginal(a) ==
    /\ ledger[a].firstOriginal # NoTime
    /\ ledger[a].firstOriginal >= ledger[a].notAppliedBefore

ReconcileOriginal(a) ==
    /\ IsOpenUnknown(a)
    /\ ledger' = [ledger EXCEPT ![a] =
          IF now < ledger[a].notAppliedBefore
          THEN [@ EXCEPT !.observation = "not_observed", !.firstOriginal = NoTime]
          ELSE IF ConfirmedOriginal(a)
          THEN [@ EXCEPT !.status = "reconciled", !.observation = "not_observed",
                         !.source = "automatic", !.completed = TRUE]
          ELSE [@ EXCEPT !.observation = "not_observed",
                         !.firstOriginal =
                             IF KeepFirstOriginal(a) THEN ledger[a].firstOriginal ELSE now]]

(***************************************************************************)
(* resolve_greenhouse_action_unknown, with the two automatic transitions   *)
(* it accepts and the two an operator may ask for.                         *)
(***************************************************************************)
ResolveDesired(a) ==
    /\ IsOpenUnknown(a)
    /\ ledger' = [ledger EXCEPT ![a] =
          [@ EXCEPT !.status = "reconciled", !.observation = "desired_observed",
                    !.source = "automatic", !.completed = TRUE]]

ResolveConflict(a) ==
    /\ IsOpenUnknown(a)
    /\ ledger' = [ledger EXCEPT ![a] =
          [@ EXCEPT !.observation = "conflict", !.source = "none", !.completed = FALSE]]

OperatorResolve(a, observation) ==
    /\ ledger[a].status = "unknown"
    /\ ledger' = [ledger EXCEPT ![a] =
          [@ EXCEPT !.status = "reconciled", !.observation = observation,
                    !.source = "operator", !.completed = TRUE]]

Tick == now < MaxTime /\ now' = now + 1 /\ UNCHANGED ledger

-----------------------------------------------------------------------------
(***************************************************************************)
(* Callers of every kind, in any order: an owner token is never checked    *)
(* against the process that uses it, so any token may come with any call.  *)
(***************************************************************************)
LedgerWrite(a) ==
    \/ \E o \in Owners, d \in 1..MaxIntentWindow : ClaimOwned(a, o, now + d)
    \/ \E o \in Owners : BeginMutation(a, o)
    \/ \E o \in Owners, out \in Outcomes : Finish(a, o, out[1], out[2])
    \/ TakeOver(a)
    \/ ReconcileOriginal(a)
    \/ ResolveDesired(a)
    \/ ResolveConflict(a)
    \/ \E ob \in {"desired_observed", "not_observed"} : OperatorResolve(a, ob)

LedgerNext ==
    \/ \E a \in Actions : LedgerWrite(a) /\ UNCHANGED now
    \/ Tick

LedgerSpec == LedgerInit /\ [][LedgerNext]_ledgerVars

-----------------------------------------------------------------------------
LedgerTypeOK == ledger \in [Actions -> Row] /\ now \in Nat

(***************************************************************************)
(* The CHECK constraints of the table hold in every row the functions      *)
(* write: no caller of the service can make a function fail on one of      *)
(* them, which would leave the outcome of a sent write unrecorded.         *)
(***************************************************************************)
RowConsistent(r) ==
    /\ r.status = "unknown" => r.phase = "mutation_sent"
    /\ r.status \in Terminal <=> r.completed
    /\ r.status = "succeeded" => r.observation = "desired_observed"
    /\ r.status = "reconciled" <=> r.source # "none"

ChecksHold == \A a \in Actions : RowConsistent(ledger[a])

(***************************************************************************)
(* Two actions on one Greenhouse resource are never open together: no path *)
(* of the functions leads a settled row back to executing or unknown.      *)
(***************************************************************************)
OneUnresolvedPerLock ==
    \A a, b \in Actions :
        a # b /\ LockOf[a] = LockOf[b] => ~(IsUnresolved(a) /\ IsUnresolved(b))

(***************************************************************************)
(* An outcome once recorded stays: whatever late owner, replay, reconciler *)
(* or operator calls next, a terminal row is never written again.          *)
(***************************************************************************)
OutcomesAreFinal ==
    [][\A a \in Actions : ledger[a].status \in Terminal => ledger'[a] = ledger[a]]_ledgerVars

(***************************************************************************)
(* A conflicting observation quarantines the action: from then on only an  *)
(* operator changes its row, whatever observations arrive late.            *)
(***************************************************************************)
ConflictsAreQuarantined ==
    [][\A a \in Actions :
         ledger[a].status = "unknown" /\ ledger[a].observation = "conflict"
         /\ ledger'[a] # ledger[a]
            => ledger'[a].source = "operator"]_ledgerVars

(***************************************************************************)
(* An action is declared not applied without an operator only after it was *)
(* sent, its boundary passed and two observations ConfirmGap apart had     *)
(* both come after the boundary.                                           *)
(***************************************************************************)
NotAppliedIsConfirmed ==
    \A a \in Actions :
        /\ ledger[a].status = "reconciled"
        /\ ledger[a].observation = "not_observed"
        /\ ledger[a].source = "automatic"
        => /\ ledger[a].phase = "mutation_sent"
           /\ ledger[a].firstOriginal >= ledger[a].notAppliedBefore
           /\ now >= ledger[a].firstOriginal + ConfirmGap

(***************************************************************************)
(* While a row is open its boundary is the grace of its intent after its   *)
(* lease: renewing the lease at the send moves the boundary with it, so a  *)
(* row never becomes decidable inside the grace its action was given.      *)
(***************************************************************************)
GraceIsKept ==
    \A a \in Actions :
        ledger[a].status # "absent"
        => ledger[a].notAppliedBefore = ledger[a].lease + GraceOf[a]
=============================================================================
