-------------------------- MODULE ActionServiceProofs --------------------------
(***************************************************************************)
(* What the ledger promises for any number of actions, owners and lock     *)
(* keys and any leases, graces and gaps, whoever calls its functions; and  *)
(* what apply, replay and reconciliation promise on top of it for any      *)
(* number of calls and operators, and any windows that respect             *)
(* TimingAssumption.                                                       *)
(***************************************************************************)
EXTENDS ActionService, TLAPS

-----------------------------------------------------------------------------
(***************************************************************************)
(* The ledger.  Every function writes one row.  RowOK says what a written  *)
(* row owes; RowWrite turns that into the inductive invariant LedgerInv,   *)
(* so each action only has to show that the row it writes is OK.           *)
(***************************************************************************)
USE OwnerAssumption, LockAssumption, GraceAssumption, LeaseAssumption

GraceHolds(a, r) == r.status # "absent" => r.notAppliedBefore = r.lease + GraceOf[a]

ConfirmationHolds(r, t) ==
    r.status = "reconciled" /\ r.observation = "not_observed" /\ r.source = "automatic"
    => /\ r.phase = "mutation_sent"
       /\ r.firstOriginal >= r.notAppliedBefore
       /\ t >= r.firstOriginal + ConfirmGap

RowOK(a, r) ==
    /\ r \in Row
    /\ RowConsistent(r)
    /\ GraceHolds(a, r)
    /\ ConfirmationHolds(r, now)

\* The boundary of an open row is only a number, and so typed, because it
\* lies a grace after the lease; and a row only comes to be "unknown" after
\* its send because of the CHECK constraints.  So the parts go together.
LedgerInv ==
    /\ LedgerTypeOK
    /\ ChecksHold
    /\ GraceIsKept
    /\ NotAppliedIsConfirmed
    /\ OneUnresolvedPerLock

-----------------------------------------------------------------------------
LEMMA RowsOK ==
  ASSUME LedgerInv, NEW a \in Actions
  PROVE  RowOK(a, ledger[a])
BY DEF LedgerInv, LedgerTypeOK, ChecksHold, GraceIsKept, NotAppliedIsConfirmed,
       RowOK, GraceHolds, ConfirmationHolds

\* Writing an OK row keeps the invariant, if the row was already open, or
\* is not open afterwards, or no row of its lock is open.
LEMMA RowWrite ==
  ASSUME LedgerInv, UNCHANGED now,
         NEW a \in Actions, NEW r, RowOK(a, r),
         ledger' = [ledger EXCEPT ![a] = r],
         r.status \in Unresolved => IsUnresolved(a) \/ LockFree(LockOf[a])
  PROVE  LedgerInv'
<1>1. LedgerTypeOK'
  BY DEF LedgerInv, LedgerTypeOK, RowOK
<1>2. \A b \in Actions : ledger'[b] = IF b = a THEN r ELSE ledger[b]
  BY DEF LedgerInv, LedgerTypeOK
<1>3. ChecksHold'
  BY <1>2 DEF LedgerInv, ChecksHold, RowOK
<1>4. GraceIsKept'
  BY <1>2 DEF LedgerInv, GraceIsKept, RowOK, GraceHolds
<1>5. NotAppliedIsConfirmed'
  BY <1>2 DEF LedgerInv, NotAppliedIsConfirmed, RowOK, ConfirmationHolds
<1>6. OneUnresolvedPerLock'
  BY <1>2 DEF LedgerInv, OneUnresolvedPerLock, IsUnresolved, LockFree
<1> QED
  BY <1>1, <1>3, <1>4, <1>5, <1>6 DEF LedgerInv

-----------------------------------------------------------------------------
(***************************************************************************)
(* One lemma per function.                                                 *)
(***************************************************************************)
LEMMA ClaimKeepsInv ==
  ASSUME LedgerInv, UNCHANGED now, NEW a \in Actions, NEW o \in Owners,
         NEW expiry \in Nat, ClaimOwned(a, o, expiry)
  PROVE  LedgerInv'
<1> DEFINE r == [status |-> "executing", phase |-> "preflight", owner |-> o,
                 lease |-> now + PreflightLease,
                 notAppliedBefore |-> now + PreflightLease + GraceOf[a],
                 intentExpires |-> expiry, observation |-> "none",
                 firstOriginal |-> NoTime, source |-> "none", completed |-> FALSE]
<1>1. /\ now \in Nat
      /\ GraceOf[a] \in Nat
      /\ PreflightLease \in Nat
  BY DEF LedgerInv, LedgerTypeOK
<1>2. ledger' = [ledger EXCEPT ![a] = r]
  BY DEF ClaimOwned
<1>3. r \in Row
  BY <1>1 DEF Row, Unresolved, Terminal, Observations, NoTime
<1>4. RowConsistent(r) /\ GraceHolds(a, r) /\ ConfirmationHolds(r, now)
  BY <1>1 DEF RowConsistent, GraceHolds, ConfirmationHolds, Terminal, Unresolved
<1>5. LockFree(LockOf[a])
  BY DEF ClaimOwned
<1> HIDE DEF r
<1> QED
  BY <1>2, <1>3, <1>4, <1>5, RowWrite DEF RowOK

LEMMA BeginKeepsInv ==
  ASSUME LedgerInv, UNCHANGED now, NEW a \in Actions, NEW o \in Owners,
         BeginMutation(a, o)
  PROVE  LedgerInv'
<1> DEFINE q == ledger[a]
           grace == q.notAppliedBefore - q.lease
           r == [q EXCEPT !.phase = "mutation_sent",
                          !.notAppliedBefore = now + MutationLease + grace,
                          !.lease = now + MutationLease]
<1>1. RowOK(a, q) /\ q.status = "executing"
  BY RowsOK DEF BeginMutation, MayBegin
<1>2. ledger' = [ledger EXCEPT ![a] = r]
  BY DEF BeginMutation
<1>3. now \in Nat /\ GraceOf[a] \in Nat /\ MutationLease \in Nat
  BY DEF LedgerInv, LedgerTypeOK
<1> HIDE DEF q
<1>4. grace = GraceOf[a]
  BY <1>1, <1>3 DEF RowOK, GraceHolds, Row
<1>5. r = [q EXCEPT !.phase = "mutation_sent",
                    !.notAppliedBefore = now + MutationLease + GraceOf[a],
                    !.lease = now + MutationLease]
  BY <1>4
<1> HIDE DEF r
<1>6. r \in Row
  <2> DEFINE lease == now + MutationLease
             boundary == now + MutationLease + GraceOf[a]
  <2>1. lease \in Nat /\ boundary \in Nat
    BY <1>3
  <2>2. r = [q EXCEPT !.phase = "mutation_sent", !.notAppliedBefore = boundary,
                      !.lease = lease]
    BY <1>5
  <2> HIDE DEF lease, boundary
  <2> QED
    BY <1>1, <2>1, <2>2 DEF RowOK, Row
<1>7. RowConsistent(r) /\ GraceHolds(a, r) /\ ConfirmationHolds(r, now)
  BY <1>1, <1>3, <1>5
     DEF RowOK, Row, RowConsistent, GraceHolds, ConfirmationHolds, Terminal
<1>8. IsUnresolved(a)
  BY <1>1 DEF q, IsUnresolved, Unresolved
<1> QED
  BY <1>2, <1>6, <1>7, <1>8, RowWrite DEF RowOK

LEMMA FinishKeepsInv ==
  ASSUME LedgerInv, UNCHANGED now, NEW a \in Actions, NEW o \in Owners,
         NEW out \in Outcomes, Finish(a, o, out[1], out[2])
  PROVE  LedgerInv'
<1> DEFINE q == ledger[a]
           source == IF out[1] = "reconciled" THEN "automatic" ELSE "none"
           completed == out[1] \in Terminal
           r == [q EXCEPT !.status = out[1], !.observation = out[2],
                          !.source = source, !.completed = completed]
<1>1. RowOK(a, q)
  BY RowsOK
<1>2. /\ q.status = "executing"
      /\ q.phase = "mutation_sent" \/ out[1] = "failed"
  BY DEF Finish, MayFinish
<1>3. \/ out[1] = "failed" /\ out[2] = "none"
      \/ out[1] = "succeeded" /\ out[2] = "desired_observed"
      \/ out[1] = "reconciled" /\ out[2] = "desired_observed"
      \/ out[1] = "unknown" /\ out[2] \in {"none", "not_observed", "conflict"}
  BY DEF Outcomes
<1>4. ledger' = [ledger EXCEPT ![a] = r]
  BY DEF Finish
<1> HIDE DEF q
<1>5. r \in Row
  <2>1. /\ out[1] \in Unresolved \cup Terminal
        /\ out[2] \in Observations
        /\ source \in {"none", "automatic"}
        /\ completed \in BOOLEAN
    BY <1>3 DEF Unresolved, Terminal, Observations
  <2> HIDE DEF source, completed
  <2> QED
    BY <1>1, <2>1 DEF RowOK, Row
<1>6. RowConsistent(r) /\ GraceHolds(a, r) /\ ConfirmationHolds(r, now)
  BY <1>1, <1>2, <1>3
     DEF RowOK, Row, RowConsistent, GraceHolds, ConfirmationHolds, Terminal
<1>7. IsUnresolved(a)
  BY <1>2 DEF q, IsUnresolved, Unresolved
<1> HIDE DEF r
<1> QED
  BY <1>4, <1>5, <1>6, <1>7, RowWrite DEF RowOK

LEMMA TakeOverKeepsInv ==
  ASSUME LedgerInv, UNCHANGED now, NEW a \in Actions, TakeOver(a)
  PROVE  LedgerInv'
<1> DEFINE q == ledger[a]
           r == IF q.phase = "preflight"
                THEN [q EXCEPT !.status = "failed", !.completed = TRUE]
                ELSE [q EXCEPT !.status = "unknown", !.completed = FALSE]
<1>1. RowOK(a, q) /\ q.status = "executing"
  BY RowsOK DEF TakeOver, LeaseExpired
<1>2. ledger' = [ledger EXCEPT ![a] = r]
  BY DEF TakeOver
<1> HIDE DEF q
<1>3. r \in Row
  BY <1>1 DEF RowOK, Row, Unresolved, Terminal
<1>4. RowConsistent(r) /\ GraceHolds(a, r) /\ ConfirmationHolds(r, now)
  BY <1>1 DEF RowOK, Row, RowConsistent, GraceHolds, ConfirmationHolds, Terminal
<1>5. IsUnresolved(a)
  BY <1>1 DEF q, IsUnresolved, Unresolved
<1> HIDE DEF r
<1> QED
  BY <1>2, <1>3, <1>4, <1>5, RowWrite DEF RowOK

LEMMA ReconcileOriginalKeepsInv ==
  ASSUME LedgerInv, UNCHANGED now, NEW a \in Actions, ReconcileOriginal(a)
  PROVE  LedgerInv'
<1> DEFINE q == ledger[a]
           reset == [q EXCEPT !.observation = "not_observed", !.firstOriginal = NoTime]
           settle == [q EXCEPT !.status = "reconciled", !.observation = "not_observed",
                               !.source = "automatic", !.completed = TRUE]
           first == IF KeepFirstOriginal(a) THEN q.firstOriginal ELSE now
           note == [q EXCEPT !.observation = "not_observed", !.firstOriginal = first]
<1>1. RowOK(a, q) /\ q.status = "unknown"
  BY RowsOK DEF ReconcileOriginal, IsOpenUnknown
<1>2. now \in Nat /\ first \in Nat
  BY <1>1 DEF LedgerInv, LedgerTypeOK, KeepFirstOriginal, RowOK, Row, NoTime
<1>3. \/ ledger' = [ledger EXCEPT ![a] = reset]
      \/ ledger' = [ledger EXCEPT ![a] = settle] /\ ConfirmedOriginal(a)
      \/ ledger' = [ledger EXCEPT ![a] = note]
  BY DEF ReconcileOriginal
<1>4. ConfirmedOriginal(a) =>
        /\ q.firstOriginal >= q.notAppliedBefore
        /\ now >= q.firstOriginal + ConfirmGap
  BY DEF ConfirmedOriginal
<1>5. IsUnresolved(a)
  BY <1>1 DEF IsUnresolved, Unresolved
<1> HIDE DEF q, first
<1>6. RowOK(a, reset)
  <2>1. reset \in Row
    BY <1>1 DEF RowOK, Row, Observations
  <2> QED
    BY <1>1, <2>1 DEF RowOK, Row, RowConsistent, GraceHolds, ConfirmationHolds
<1>7. ConfirmedOriginal(a) => RowOK(a, settle)
  <2>1. settle \in Row
    BY <1>1 DEF RowOK, Row, Observations, Terminal
  <2> QED
    BY <1>1, <1>4, <2>1
       DEF RowOK, Row, RowConsistent, GraceHolds, ConfirmationHolds, Terminal
<1>8. RowOK(a, note)
  <2>1. note \in Row
    BY <1>1, <1>2 DEF RowOK, Row, Observations
  <2> QED
    BY <1>1, <2>1 DEF RowOK, Row, RowConsistent, GraceHolds, ConfirmationHolds
<1> HIDE DEF reset, settle, note
<1> QED
  BY <1>3, <1>5, <1>6, <1>7, <1>8, RowWrite

LEMMA ResolveKeepsInv ==
  ASSUME LedgerInv, UNCHANGED now, NEW a \in Actions,
         \/ ResolveDesired(a)
         \/ ResolveConflict(a)
         \/ \E ob \in {"desired_observed", "not_observed"} : OperatorResolve(a, ob)
  PROVE  LedgerInv'
<1> DEFINE q == ledger[a]
           desired == [q EXCEPT !.status = "reconciled", !.observation = "desired_observed",
                                !.source = "automatic", !.completed = TRUE]
           conflict == [q EXCEPT !.observation = "conflict", !.source = "none",
                                 !.completed = FALSE]
           judged(ob) == [q EXCEPT !.status = "reconciled", !.observation = ob,
                                   !.source = "operator", !.completed = TRUE]
<1>1. RowOK(a, q) /\ q.status = "unknown"
  BY RowsOK DEF ResolveDesired, ResolveConflict, OperatorResolve, IsOpenUnknown
<1>2. \/ ledger' = [ledger EXCEPT ![a] = desired]
      \/ ledger' = [ledger EXCEPT ![a] = conflict]
      \/ \E ob \in {"desired_observed", "not_observed"} :
             ledger' = [ledger EXCEPT ![a] = judged(ob)]
  BY DEF ResolveDesired, ResolveConflict, OperatorResolve
<1>3. IsUnresolved(a)
  BY <1>1 DEF IsUnresolved, Unresolved
<1> HIDE DEF q
<1>4. RowOK(a, desired)
  <2>1. desired \in Row
    BY <1>1 DEF RowOK, Row, Observations, Terminal
  <2> QED
    BY <1>1, <2>1 DEF RowOK, Row, RowConsistent, GraceHolds, ConfirmationHolds, Terminal
<1>5. RowOK(a, conflict)
  <2>1. conflict \in Row
    BY <1>1 DEF RowOK, Row, Observations
  <2> QED
    BY <1>1, <2>1 DEF RowOK, Row, RowConsistent, GraceHolds, ConfirmationHolds, Terminal
<1>6. ASSUME NEW ob \in {"desired_observed", "not_observed"}
      PROVE  RowOK(a, judged(ob))
  <2>1. judged(ob) \in Row
    BY <1>1 DEF RowOK, Row, Observations, Terminal
  <2> QED
    BY <1>1, <2>1 DEF RowOK, Row, RowConsistent, GraceHolds, ConfirmationHolds, Terminal
<1> HIDE DEF desired, conflict, judged
<1> QED
  BY <1>2, <1>3, <1>4, <1>5, <1>6, RowWrite

LEMMA WriteKeepsInv ==
  ASSUME LedgerInv, UNCHANGED now, NEW a \in Actions, LedgerWrite(a)
  PROVE  LedgerInv'
<1>1. ASSUME NEW d \in 1..MaxIntentWindow
      PROVE  now + d \in Nat
  BY DEF LedgerInv, LedgerTypeOK
<1> QED
  BY <1>1, ClaimKeepsInv, BeginKeepsInv, FinishKeepsInv, TakeOverKeepsInv,
     ReconcileOriginalKeepsInv, ResolveKeepsInv DEF LedgerWrite

\* Time only makes a confirmation older.
LEMMA TickKeepsInv ==
  ASSUME LedgerInv, Tick
  PROVE  LedgerInv'
<1>1. \A a \in Actions : RowOK(a, ledger[a])
  BY RowsOK
<1>2. now \in Nat /\ now' = now + 1 /\ ledger' = ledger
  BY DEF Tick, LedgerInv, LedgerTypeOK
<1>3. NotAppliedIsConfirmed'
  BY <1>1, <1>2 DEF NotAppliedIsConfirmed, RowOK, Row, ConfirmationHolds, NoTime
<1> QED
  BY <1>2, <1>3 DEF LedgerInv, LedgerTypeOK, ChecksHold, GraceIsKept,
                    OneUnresolvedPerLock, IsUnresolved

LEMMA InitialLedger == LedgerInit => LedgerInv
<1> SUFFICES ASSUME LedgerInit PROVE LedgerInv
  OBVIOUS
<1>1. \A a \in Actions : ledger[a] = AbsentRow
  BY DEF LedgerInit
<1>2. AbsentRow \in Row
  BY DEF AbsentRow, Row, Observations, NoTime
<1>3. LedgerTypeOK
  BY <1>2 DEF LedgerInit, LedgerTypeOK
<1>4. RowConsistent(AbsentRow)
  BY DEF AbsentRow, RowConsistent, Terminal
<1>5. AbsentRow.status = "absent"
  BY DEF AbsentRow
<1> QED
  BY <1>1, <1>3, <1>4, <1>5 DEF LedgerInv, ChecksHold, GraceIsKept,
     NotAppliedIsConfirmed, OneUnresolvedPerLock, IsUnresolved, Unresolved

LEMMA LedgerStays ==
  ASSUME LedgerInv, UNCHANGED ledgerVars
  PROVE  LedgerInv'
BY DEF ledgerVars, LedgerInv, LedgerTypeOK, ChecksHold, GraceIsKept,
       NotAppliedIsConfirmed, OneUnresolvedPerLock, IsUnresolved

-----------------------------------------------------------------------------
(***************************************************************************)
(* The invariant: in every reachable state every row is typed, meets the   *)
(* table's CHECK constraints, keeps its grace, is declared not applied     *)
(* only when confirmed, and no lock has two open rows.                     *)
(***************************************************************************)
THEOREM LedgerInvariance == LedgerSpec => []LedgerInv
<1>1. LedgerInit => LedgerInv
  BY InitialLedger
<1>2. LedgerInv /\ [LedgerNext]_ledgerVars => LedgerInv'
  <2> SUFFICES ASSUME LedgerInv, [LedgerNext]_ledgerVars PROVE LedgerInv'
    OBVIOUS
  <2>1. CASE \E a \in Actions : LedgerWrite(a) /\ UNCHANGED now
    BY <2>1, WriteKeepsInv
  <2>2. CASE Tick
    BY <2>2, TickKeepsInv
  <2>3. CASE UNCHANGED ledgerVars
    BY <2>3, LedgerStays
  <2> QED
    BY <2>1, <2>2, <2>3 DEF LedgerNext
<1> QED
  BY <1>1, <1>2, PTL DEF LedgerSpec

\* Type correctness: no function writes a row outside the table's columns,
\* whatever the leases and graces.
THEOREM TypeCorrectness == LedgerSpec => []LedgerTypeOK
<1>1. LedgerInv => LedgerTypeOK
  BY DEF LedgerInv
<1> QED
  BY <1>1, LedgerInvariance, PTL

\* No call of a ledger function can fail on a CHECK constraint.
THEOREM ChecksAlwaysHold == LedgerSpec => []ChecksHold
<1>1. LedgerInv => ChecksHold
  BY DEF LedgerInv
<1> QED
  BY <1>1, LedgerInvariance, PTL

\* Two actions on one Greenhouse resource are never open together.
THEOREM LocksExclude == LedgerSpec => []OneUnresolvedPerLock
<1>1. LedgerInv => OneUnresolvedPerLock
  BY DEF LedgerInv
<1> QED
  BY <1>1, LedgerInvariance, PTL

\* Without an operator an action is declared not applied only after two
\* observations, ConfirmGap apart, both past its boundary.
THEOREM NotAppliedNeedsConfirmation == LedgerSpec => []NotAppliedIsConfirmed
<1>1. LedgerInv => NotAppliedIsConfirmed
  BY DEF LedgerInv
<1> QED
  BY <1>1, LedgerInvariance, PTL

\* The boundary of an open row always lies its grace after its lease.
THEOREM GraceAlwaysKept == LedgerSpec => []GraceIsKept
<1>1. LedgerInv => GraceIsKept
  BY DEF LedgerInv
<1> QED
  BY <1>1, LedgerInvariance, PTL

-----------------------------------------------------------------------------
(***************************************************************************)
(* What a step may never do.                                               *)
(***************************************************************************)
\* A recorded outcome is never written again, by whatever function.
THEOREM OutcomesStay == LedgerSpec => OutcomesAreFinal
<1>1. ASSUME LedgerInv, [LedgerNext]_ledgerVars
      PROVE  [\A a \in Actions :
                ledger[a].status \in Terminal => ledger'[a] = ledger[a]]_ledgerVars
  <2> SUFFICES ASSUME NEW a \in Actions, ledger[a].status \in Terminal
               PROVE  ledger'[a] = ledger[a]
    BY DEF ledgerVars
  <2>1. ASSUME NEW b \in Actions, LedgerWrite(b)
        PROVE  ledger'[a] = ledger[a]
    <3>1. b # a
      BY <2>1 DEF LedgerWrite, ClaimOwned, BeginMutation, MayBegin, Finish, MayFinish,
         TakeOver, LeaseExpired, ReconcileOriginal, ResolveDesired, ResolveConflict,
         IsOpenUnknown, OperatorResolve, Terminal
    <3>2. \E r : ledger' = [ledger EXCEPT ![b] = r]
      BY <2>1 DEF LedgerWrite, ClaimOwned, BeginMutation, Finish,
         TakeOver, ReconcileOriginal, ResolveDesired, ResolveConflict, OperatorResolve
    <3> QED
      BY <3>1, <3>2 DEF LedgerInv, LedgerTypeOK
  <2> QED
    BY <1>1, <2>1 DEF LedgerNext, Tick, ledgerVars
<1> QED
  BY <1>1, LedgerInvariance, PTL DEF LedgerSpec, OutcomesAreFinal

\* After a conflicting observation only an operator changes the row.
THEOREM ConflictsStay == LedgerSpec => ConflictsAreQuarantined
<1>1. ASSUME LedgerInv, [LedgerNext]_ledgerVars
      PROVE  [\A a \in Actions :
                ledger[a].status = "unknown" /\ ledger[a].observation = "conflict"
                /\ ledger'[a] # ledger[a]
                => ledger'[a].source = "operator"]_ledgerVars
  <2> SUFFICES ASSUME NEW a \in Actions, ledger[a].status = "unknown",
                      ledger[a].observation = "conflict", ledger'[a] # ledger[a]
               PROVE  ledger'[a].source = "operator"
    BY DEF ledgerVars
  <2>1. PICK b \in Actions : LedgerWrite(b)
    BY <1>1 DEF LedgerNext, Tick, ledgerVars
  <2>2. \E r : ledger' = [ledger EXCEPT ![b] = r]
    BY <2>1 DEF LedgerWrite, ClaimOwned, BeginMutation, Finish,
       TakeOver, ReconcileOriginal, ResolveDesired, ResolveConflict, OperatorResolve
  <2>3. b = a
    BY <2>2 DEF LedgerInv, LedgerTypeOK
  <2>4. PICK ob \in {"desired_observed", "not_observed"} : OperatorResolve(a, ob)
    BY <2>1, <2>3 DEF LedgerWrite, ClaimOwned, BeginMutation, MayBegin, Finish, MayFinish,
       TakeOver, LeaseExpired, ReconcileOriginal, ResolveDesired, ResolveConflict,
       IsOpenUnknown
  <2>5. ledger'[a] = [ledger[a] EXCEPT !.status = "reconciled", !.observation = ob,
                                       !.source = "operator", !.completed = TRUE]
    BY <1>1, <2>4 DEF OperatorResolve, LedgerInv, LedgerTypeOK
  <2>6. ledger[a] \in Row
    BY <1>1 DEF LedgerInv, LedgerTypeOK
  <2> QED
    BY <2>5, <2>6 DEF Row
<1> QED
  BY <1>1, LedgerInvariance, PTL DEF LedgerSpec, ConflictsAreQuarantined

-----------------------------------------------------------------------------
(***************************************************************************)
(* The service.  The inductive invariant says what every action owes       *)
(* (ActionOK) and what every call may believe of the row it works on, of   *)
(* the request upstream, of the clock and of what it read (CallOK).  A     *)
(* step moves one call or writes one row, so each comes down to that call  *)
(* and that row, and to the calls that stand by while it happens.          *)
(***************************************************************************)
USE ServiceAssumption

Owning == {"preflight", "begin", "send", "response", "readback", "finish"}
Untried == {"authorize", "claim", "preflight", "begin", "send"}

\* Verdicts that exclude a later effect.
NotApplied(r) ==
    r.status = "reconciled" /\ r.observation = "not_observed" /\ r.source = "automatic"
Excluded(r) == r.status = "failed" \/ NotApplied(r)

Quiet(a) == IsUnresolved(a) /\ ~Disturbed(LockOf[a])

-----------------------------------------------------------------------------
(***************************************************************************)
(* What every action owes.                                                 *)
(***************************************************************************)
IntentOK(a) ==
    /\ ledger[a].status = "absent" => ledger[a] = AbsentRow
    /\ ledger[a].status # "absent" => intents[a].issued
    /\ intents[a].issued => intents[a].original # DesiredOf[a]

\* Nothing leaves before the fence, and one request at most after it.
FlightOK(a) ==
    /\ ledger[a].phase = "preflight" =>
          flight[a] = "none" /\ ledger[a].status \in {"absent", "executing", "failed"}
    /\ sends[a] = IF flight[a] = "none" THEN 0 ELSE 1

\* Leases are measured from the clock, the windows from the fence.
TimeOK(a) ==
    /\ ledger[a].status # "absent" =>
          ledger[a].lease <= now + IF ledger[a].phase = "preflight"
                                   THEN PreflightLease ELSE MutationLease
    /\ flight[a] # "none" => sentAt[a] + MutationLease <= ledger[a].lease + SendWindow
    /\ flight[a] = "sent" => now <= sentAt[a] + LandWindow
    /\ ledger[a].phase = "mutation_sent" /\ revokedAt # NoTime
          => FenceTime(a) < revokedAt + PreflightLease

VerdictOK(a) ==
    /\ ledger[a].status = "failed" => flight[a] \in {"none", "lost"}
    /\ NotApplied(ledger[a]) =>
          flight[a] # "sent" /\ (flight[a] = "landed" => Disturbed(LockOf[a]))
    /\ FoundApplied(a) => flight[a] = "landed" \/ Disturbed(LockOf[a])
    /\ ledger[a].status = "reconciled" =>
          ledger[a].observation \in {"desired_observed", "not_observed"}

\* The resource of an action past the fence, if nobody disturbed it.
ResourceOK(a) ==
    Quiet(a) /\ ledger[a].phase = "mutation_sent"
    => world[LockOf[a]] =
          IF flight[a] = "landed" THEN DesiredOf[a] ELSE intents[a].original

ActionOK(a) == IntentOK(a) /\ FlightOK(a) /\ TimeOK(a) /\ VerdictOK(a) /\ ResourceOK(a)

-----------------------------------------------------------------------------
(***************************************************************************)
(* What a call p in the state c may believe.                               *)
(***************************************************************************)
\* Whatever the rows are.
ShapeOK(c) ==
    /\ c.pc = "idle" => c = IdleCall
    /\ c.pc # "idle" => c.action \in Actions
    /\ c.pc # "done" => c.reply = "none"
    /\ c.pc \in Untried => ~c.mayHaveWritten
    /\ c.pc \in {"response", "readback"} => c.mayHaveWritten
    /\ c.pc \in Untried \cup {"response"} => c.status = "failed" /\ c.seen = "none"
    /\ c.pc = "readback" => c.status \in {"succeeded", "reconciled"}
    /\ c.pc = "finish" => <<c.status, c.seen>> \in Outcomes

\* A row belongs to the call that claimed it, for good.
OwnOK(p, c) ==
    /\ c.pc # "idle" => intents[c.action].issued
    /\ c.pc \in Owning => ledger[c.action].owner = p
    /\ \A a \in Actions :
         ledger[a].owner = p => c.action = a /\ c.pc \in Owning \cup {"done"}
    /\ c.pc \in {"prepare", "observe", "settle"} => ledger[c.action].status # "absent"
    /\ c.pc \in {"observe", "settle"} =>
          ledger[c.action].status # "executing" /\ ledger[c.action].phase = "mutation_sent"

RequestOK(c) ==
    /\ c.pc \in {"preflight", "begin"} => ledger[c.action].phase = "preflight"
    /\ c.pc = "send" =>
          /\ ledger[c.action].phase = "mutation_sent"
          /\ flight[c.action] = "none"
          /\ ~Excluded(ledger[c.action])
    /\ c.pc \in {"response", "readback"} => flight[c.action] # "none"
    /\ c.pc = "finish" =>
          /\ flight[c.action] # "none" => c.mayHaveWritten
          /\ c.status = "failed" => flight[c.action] \in {"none", "lost"}

WindowOK(c) ==
    /\ c.pc = "send" =>
          ledger[c.action].lease = c.since + MutationLease /\ now <= c.since + SendWindow
    /\ c.pc = "settle" => c.since <= now /\ now <= c.since + ObserveWindow
    /\ c.pc = "begin" /\ revokedAt # NoTime
          => ledger[c.action].lease <= revokedAt + PreflightLease

\* Late enough for the request to have left and landed.
Late(c) == c.since + MutationLease > ledger[c.action].lease + SendWindow + LandWindow

SeenOK(c) ==
    /\ c.pc = "begin" /\ Quiet(c.action)
          => world[LockOf[c.action]] = intents[c.action].original
    /\ c.pc \in {"finish", "settle"} /\ Quiet(c.action) /\ c.seen = "desired_observed"
          => flight[c.action] = "landed"
    /\ c.pc = "settle" /\ Quiet(c.action) /\ c.seen = "not_observed" /\ Late(c)
          => flight[c.action] # "landed"

\* "no write was sent" is told only to the owner of the row, who alone could
\* send it; and an owner who may have sent it is told nothing to retry on.
ReplyOK(p, c) ==
    /\ c.reply \in Terminal => ledger[c.action].status = c.reply
    /\ c.reply = "no_write_sent" =>
          flight[c.action] = "none" /\ ledger[c.action].owner = p
    /\ c.reply # "none" /\ ledger[c.action].owner = p /\ flight[c.action] # "none"
          => c.reply \in {"unknown"} \cup Terminal

CallOK(p, c) ==
    ShapeOK(c) /\ OwnOK(p, c) /\ RequestOK(c) /\ WindowOK(c) /\ SeenOK(c) /\ ReplyOK(p, c)

ServiceInv ==
    /\ ServiceTypeOK
    /\ LedgerInv
    /\ \A a \in Actions : ActionOK(a)
    /\ \A p \in Owners : CallOK(p, calls[p])

Rest == <<intents, upstreamVars, revokedAt>>

-----------------------------------------------------------------------------
LEMMA ServiceTyped ==
  ASSUME ServiceInv
  PROVE  /\ now \in Nat
         /\ ledger \in [Actions -> Row]
         /\ calls \in [Owners -> Call]
         /\ intents \in [Actions -> Intent]
         /\ sentAt \in [Actions -> Nat]
         /\ revokedAt \in Nat \cup {NoTime}
BY DEF ServiceInv, ServiceTypeOK, LedgerTypeOK

LEMMA Initially == ServiceInit => ServiceInv
<1> SUFFICES ASSUME ServiceInit PROVE ServiceInv
  OBVIOUS
<1>1. LedgerInv
  BY InitialLedger DEF ServiceInit
<1>2. ServiceTypeOK
  <2>1. IdleCall \in Call
    BY DEF IdleCall, Call, Replies, Unresolved, Terminal, Observations
  <2>2. Actions # {} => NoIntent \in Intent
    BY DEF NoIntent, Intent
  <2>3. intents \in [Actions -> Intent]
    BY <2>2 DEF ServiceInit
  <2> QED
    BY <1>1, <2>1, <2>3 DEF ServiceInit, ServiceTypeOK, LedgerInv, NoTime
<1>3. ASSUME NEW a \in Actions
      PROVE  ActionOK(a)
  <2>1. /\ ledger[a] = AbsentRow
        /\ intents[a] = NoIntent
        /\ flight[a] = "none"
        /\ sends[a] = 0
    BY DEF ServiceInit, LedgerInit
  <2>2. ~intents[a].issued
    BY <2>1 DEF NoIntent
  <2> QED
    BY <2>1, <2>2 DEF ActionOK, IntentOK, FlightOK, TimeOK, VerdictOK, ResourceOK, AbsentRow,
       NotApplied, FoundApplied, Quiet, IsUnresolved, Unresolved
<1>4. ASSUME NEW p \in Owners
      PROVE  CallOK(p, calls[p])
  <2>1. calls[p] = IdleCall
    BY DEF ServiceInit
  <2>2. \A a \in Actions : ledger[a].owner # p
    BY DEF ServiceInit, LedgerInit, AbsentRow
  <2> QED
    BY <2>1, <2>2 DEF CallOK, ShapeOK, OwnOK, RequestOK, WindowOK, SeenOK, ReplyOK,
       IdleCall, Owning, Untried, Terminal
<1> QED
  BY <1>1, <1>2, <1>3, <1>4 DEF ServiceInv

-----------------------------------------------------------------------------
(***************************************************************************)
(* Steps of one call that leave everything else alone.                     *)
(***************************************************************************)
LEMMA ActionStays ==
  ASSUME NEW a \in Actions, ActionOK(a), UNCHANGED <<Rest, ledgerVars>>
  PROVE  ActionOK(a)'
BY DEF ActionOK, IntentOK, FlightOK, TimeOK, VerdictOK, ResourceOK, FenceTime, FoundApplied,
   Quiet, IsUnresolved, Disturbed, Rest, upstreamVars, ledgerVars

LEMMA CallStays ==
  ASSUME NEW p \in Owners, NEW c, CallOK(p, c), UNCHANGED <<Rest, ledgerVars>>
  PROVE  CallOK(p, c)'
BY DEF CallOK, ShapeOK, OwnOK, RequestOK, WindowOK, SeenOK, ReplyOK, Late,
   Quiet, IsUnresolved, Disturbed, Rest, upstreamVars, ledgerVars

LEMMA CallMoves ==
  ASSUME ServiceInv, NEW p \in Owners, NEW c \in Call, CallOK(p, c),
         calls' = [calls EXCEPT ![p] = c], UNCHANGED <<Rest, ledgerVars>>
  PROVE  ServiceInv'
<1>1. ServiceTypeOK'
  BY DEF ServiceInv, ServiceTypeOK, LedgerTypeOK, Rest, upstreamVars, ledgerVars
<1>2. LedgerInv'
  BY LedgerStays DEF ServiceInv
<1>3. \A a \in Actions : ActionOK(a)'
  BY ActionStays DEF ServiceInv
<1>4. ASSUME NEW q \in Owners
      PROVE  CallOK(q, calls[q])'
  <2> PICK d : d = calls'[q]
    OBVIOUS
  <2>1. CallOK(q, d)
    BY ServiceTyped DEF ServiceInv
  <2>2. CallOK(q, d)'
    BY <2>1, CallStays
  <2> QED
    BY <2>2
<1> QED
  BY <1>1, <1>2, <1>3, <1>4 DEF ServiceInv

Ended(a, reply) == [IdleCall EXCEPT !.pc = "done", !.action = a, !.reply = reply]

LEMMA EndedFields ==
  ASSUME NEW a \in Actions, NEW reply \in Replies
  PROVE  /\ Ended(a, reply) \in Call
         /\ Ended(a, reply).pc = "done"
         /\ Ended(a, reply).action = a
         /\ Ended(a, reply).reply = reply
BY DEF Ended, IdleCall, Call, Unresolved, Terminal, Observations

\* A call may end with any reply that is true of its row.
LEMMA EndedFits ==
  ASSUME NEW p \in Owners, NEW a \in Actions, NEW reply \in Replies,
         intents[a].issued,
         \A b \in Actions : ledger[b].owner = p => b = a,
         ReplyOK(p, Ended(a, reply))
  PROVE  CallOK(p, Ended(a, reply))
<1> DEFINE c == Ended(a, reply)
<1>1. c.pc = "done" /\ c.action = a
  BY EndedFields
<1> HIDE DEF c
<1> QED
  BY <1>1 DEF c, CallOK, ShapeOK, OwnOK, RequestOK, WindowOK, SeenOK, Owning, Untried

LEMMA EndsWith ==
  ASSUME ServiceInv, NEW p \in Owners, NEW a \in Actions, NEW reply \in Replies,
         intents[a].issued,
         \A b \in Actions : ledger[b].owner = p => b = a,
         calls' = [calls EXCEPT ![p] = Ended(a, reply)],
         ReplyOK(p, Ended(a, reply)),
         UNCHANGED <<Rest, ledgerVars>>
  PROVE  ServiceInv'
<1>1. PICK c : c = Ended(a, reply)
  OBVIOUS
<1>2. c \in Call
  BY <1>1, EndedFields
<1>3. CallOK(p, c)
  BY <1>1, EndedFits
<1>4. calls' = [calls EXCEPT ![p] = c]
  BY <1>1
<1> QED
  BY <1>2, <1>3, <1>4, CallMoves

LEMMA Ends ==
  ASSUME ServiceInv, NEW p \in Owners, calls[p].pc # "idle", NEW reply \in Replies,
         calls' = [calls EXCEPT ![p] = Ended(ActionOf(p), reply)],
         ReplyOK(p, Ended(ActionOf(p), reply)),
         UNCHANGED <<Rest, ledgerVars>>
  PROVE  ServiceInv'
<1>1. CallOK(p, calls[p])
  BY DEF ServiceInv
<1>2. /\ ActionOf(p) \in Actions
      /\ intents[ActionOf(p)].issued
      /\ \A b \in Actions : ledger[b].owner = p => b = ActionOf(p)
  BY <1>1 DEF CallOK, ShapeOK, OwnOK, ActionOf
<1> QED
  BY <1>2, EndsWith

\* A reply that claims nothing.
LEMMA SilentEnd ==
  ASSUME NEW p \in Owners, NEW a \in Actions,
         NEW reply \in Replies \ (Terminal \cup {"no_write_sent"}),
         ledger[a].owner = p => flight[a] = "none" \/ reply = "unknown"
  PROVE  ReplyOK(p, Ended(a, reply))
BY EndedFields DEF ReplyOK

LEMMA NotOwner ==
  ASSUME ServiceInv, NEW p \in Owners, NEW a \in Actions,
         calls[p].pc \notin Owning \cup {"done"}
  PROVE  ledger[a].owner # p
BY DEF ServiceInv, CallOK, OwnOK

LEMMA ReplayKeepsInv ==
  ASSUME ServiceInv, NEW p \in Owners, NEW a \in Actions,
         calls[p].pc \in {"idle", "claim"}, calls[p].pc = "claim" => ActionOf(p) = a,
         intents[a].issued, ledger[a].status # "absent",
         Replay(p, a), UNCHANGED <<Rest, ledgerVars>>
  PROVE  ServiceInv'
<1>1. CallOK(p, calls[p]) /\ calls[p] \in Call /\ ledger[a] \in Row
  BY ServiceTyped DEF ServiceInv
<1>2. \A b \in Actions : ledger[b].owner # p
  BY NotOwner DEF Owning
<1>3. CASE ledger[a].status \in Terminal
  <2>1. calls' = [calls EXCEPT ![p] = Ended(a, ledger[a].status)]
    BY <1>3 DEF Replay, Ended, IdleCall
  <2>2. ledger[a].status \in Replies
    BY <1>3 DEF Replies
  <2>3. ReplyOK(p, Ended(a, ledger[a].status))
    BY <1>2, <1>3, <2>2, EndedFields DEF ReplyOK, Terminal
  <2> QED
    BY <1>2, <2>1, <2>2, <2>3, EndsWith
<1>4. CASE ledger[a].status \notin Terminal
  <2> DEFINE c == [calls[p] EXCEPT !.pc = "prepare", !.action = a]
  <2>1. calls' = [calls EXCEPT ![p] = c]
    BY <1>4 DEF Replay
  <2>2. c \in Call /\ c.pc = "prepare" /\ c.action = a /\ c.reply = calls[p].reply
    BY <1>1 DEF Call
  <2> HIDE DEF c
  <2>3. c.reply = "none"
    BY <1>1, <2>2 DEF CallOK, ShapeOK
  <2>4. CallOK(p, c)
    BY <1>2, <2>2, <2>3 DEF CallOK, ShapeOK, OwnOK, RequestOK, WindowOK, SeenOK, ReplyOK,
       Owning, Untried, Terminal
  <2> QED
    BY <2>1, <2>2, <2>4, CallMoves
<1> QED
  BY <1>3, <1>4

LEMMA StartApplyKeepsInv ==
  ASSUME ServiceInv, NEW p \in Owners, NEW a \in Actions, StartApply(p, a)
  PROVE  ServiceInv'
<1>1. CallOK(p, calls[p]) /\ calls[p] = IdleCall /\ ledger[a] \in Row
  BY ServiceTyped DEF ServiceInv, CallOK, ShapeOK, StartApply, At
<1>2. \A b \in Actions : ledger[b].owner # p
  BY NotOwner DEF Owning, StartApply, At
<1>3. UNCHANGED <<Rest, ledgerVars>> /\ intents[a].issued /\ calls[p].pc = "idle"
  BY DEF StartApply, Rest, At
<1>4. CASE ledger[a].status # "absent"
  BY <1>3, <1>4, ReplayKeepsInv DEF StartApply
<1>5. CASE ledger[a].status = "absent"
  <2> DEFINE c == [IdleCall EXCEPT !.pc = "authorize", !.action = a]
  <2>1. calls' = [calls EXCEPT ![p] = c]
    BY <1>1, <1>5 DEF StartApply
  <2>2. /\ c.pc = "authorize" /\ c.action = a /\ c.reply = "none"
        /\ ~c.mayHaveWritten /\ c.status = "failed" /\ c.seen = "none"
    BY DEF IdleCall
  <2>3. c \in Call
    BY DEF IdleCall, Call, Replies, Unresolved, Terminal, Observations
  <2> HIDE DEF c
  <2>4. CallOK(p, c)
    BY <1>2, <1>3, <2>2 DEF CallOK, ShapeOK, OwnOK, RequestOK, WindowOK, SeenOK, ReplyOK,
       Owning, Untried, Terminal
  <2> QED
    BY <1>3, <2>1, <2>3, <2>4, CallMoves
<1> QED
  BY <1>4, <1>5

LEMMA RefuseApplyKeepsInv ==
  ASSUME ServiceInv, NEW p \in Owners, NEW a \in Actions, RefuseApply(p, a)
  PROVE  ServiceInv'
<1>1. calls[p] = IdleCall
  BY DEF ServiceInv, CallOK, ShapeOK, RefuseApply, At
<1>2. \A b \in Actions : ledger[b].owner # p
  BY NotOwner DEF Owning, RefuseApply, At
<1>3. UNCHANGED <<Rest, ledgerVars>> /\ intents[a].issued
  BY DEF RefuseApply, Rest
<1>4. calls' = [calls EXCEPT ![p] = Ended(a, "denied")]
  BY <1>1 DEF RefuseApply, Ended
<1>5. "denied" \in Replies \ (Terminal \cup {"no_write_sent"})
  BY DEF Replies, Terminal
<1>6. ReplyOK(p, Ended(a, "denied"))
  BY <1>2, <1>5, SilentEnd
<1> QED
  BY <1>2, <1>3, <1>4, <1>5, <1>6, EndsWith

LEMMA StartReconcileKeepsInv ==
  ASSUME ServiceInv, NEW p \in Owners, NEW a \in Actions, StartReconcile(p, a)
  PROVE  ServiceInv'
<1>1. calls[p] = IdleCall
  BY DEF ServiceInv, CallOK, ShapeOK, StartReconcile, At
<1>2. \A b \in Actions : ledger[b].owner # p
  BY NotOwner DEF Owning, StartReconcile, At
<1>3. UNCHANGED <<Rest, ledgerVars>>
  BY DEF StartReconcile, Rest
<1>4. ledger[a].status # "absent" /\ intents[a].issued
  BY DEF StartReconcile, Recoverable, IsUnresolved, Unresolved, ServiceInv, ActionOK, IntentOK
<1> DEFINE c == [IdleCall EXCEPT !.pc = "prepare", !.action = a]
<1>5. calls' = [calls EXCEPT ![p] = c]
  BY <1>1 DEF StartReconcile
<1>6. c.pc = "prepare" /\ c.action = a /\ c.reply = "none"
  BY DEF IdleCall
<1>7. c \in Call
  BY DEF IdleCall, Call, Replies, Unresolved, Terminal, Observations
<1> HIDE DEF c
<1>8. CallOK(p, c)
  BY <1>2, <1>4, <1>6 DEF CallOK, ShapeOK, OwnOK, RequestOK, WindowOK, SeenOK, ReplyOK,
     Owning, Untried, Terminal
<1> QED
  BY <1>3, <1>5, <1>7, <1>8, CallMoves

LEMMA DoneEnds ==
  ASSUME NEW p \in Owners, NEW reply, Done(p, reply)
  PROVE  calls' = [calls EXCEPT ![p] = Ended(ActionOf(p), reply)]
BY DEF Done, Ended

\* Replies that invite nothing wrong from a call that did not send.
LEMMA EndsSilently ==
  ASSUME ServiceInv, NEW p \in Owners, calls[p].pc \notin {"idle", "done"},
         NEW reply \in {"denied", "error", "in_progress"}, Done(p, reply),
         ledger[ActionOf(p)].owner = p => flight[ActionOf(p)] = "none",
         UNCHANGED <<Rest, ledgerVars>>
  PROVE  ServiceInv'
<1>1. reply \in Replies \ (Terminal \cup {"no_write_sent"})
  BY DEF Replies, Terminal, Unresolved
<1>2. ActionOf(p) \in Actions
  BY DEF ServiceInv, CallOK, ShapeOK, ActionOf
<1>3. ReplyOK(p, Ended(ActionOf(p), reply))
  BY <1>1, <1>2, SilentEnd
<1> QED
  BY <1>1, <1>3, DoneEnds, Ends

LEMMA AuthorizeKeepsInv ==
  ASSUME ServiceInv, NEW p \in Owners, Authorize(p)
  PROVE  ServiceInv'
<1>1. calls[p].pc = "authorize" /\ CallOK(p, calls[p]) /\ calls[p] \in Call
  BY ServiceTyped DEF ServiceInv, Authorize, At
<1>2. \A b \in Actions : ledger[b].owner # p
  BY <1>1, NotOwner DEF Owning
<1>3. UNCHANGED <<Rest, ledgerVars>>
  BY DEF Authorize, Rest
<1>4. CASE Done(p, "denied")
  <2>1. ActionOf(p) \in Actions
    BY <1>1 DEF CallOK, ShapeOK, ActionOf
  <2> QED
    BY <1>1, <1>2, <1>3, <1>4, <2>1, EndsSilently
<1>5. CASE Goto(p, "claim")
  <2> DEFINE c == [calls[p] EXCEPT !.pc = "claim"]
  <2>1. calls' = [calls EXCEPT ![p] = c]
    BY <1>5 DEF Goto
  <2>2. c \in Call /\ c.pc = "claim"
    BY <1>1 DEF Call
  <2>3. /\ c.action = calls[p].action /\ c.reply = calls[p].reply /\ c.seen = calls[p].seen
        /\ c.status = calls[p].status /\ c.mayHaveWritten = calls[p].mayHaveWritten
    BY <1>1 DEF Call
  <2> HIDE DEF c
  <2>4. CallOK(p, c)
    BY <1>1, <1>2, <2>2, <2>3 DEF CallOK, ShapeOK, OwnOK, RequestOK, WindowOK, SeenOK, ReplyOK,
       Owning, Untried, Terminal
  <2> QED
    BY <1>3, <2>1, <2>2, <2>4, CallMoves
<1> QED
  BY <1>4, <1>5 DEF Authorize

LEMMA ClaimLosesKeepsInv ==
  ASSUME ServiceInv, NEW p \in Owners, ClaimLoses(p)
  PROVE  ServiceInv'
<1>1. calls[p].pc = "claim" /\ CallOK(p, calls[p])
  BY DEF ServiceInv, ClaimLoses, At
<1>2. ActionOf(p) \in Actions /\ intents[ActionOf(p)].issued
  BY <1>1 DEF CallOK, ShapeOK, OwnOK, ActionOf
<1>3. \A b \in Actions : ledger[b].owner # p
  BY <1>1, NotOwner DEF Owning
<1>4. UNCHANGED <<Rest, ledgerVars>>
  BY DEF ClaimLoses, Rest
<1>5. CASE RowOf(p).status # "absent" /\ Replay(p, ActionOf(p))
  BY <1>1, <1>2, <1>4, <1>5, ReplayKeepsInv DEF RowOf
<1>6. CASE Done(p, "error") \/ Done(p, "denied")
  BY <1>1, <1>2, <1>3, <1>4, <1>6, EndsSilently
<1> QED
  BY <1>5, <1>6 DEF ClaimLoses

LEMMA StoreFailsKeepsInv ==
  ASSUME ServiceInv, NEW p \in Owners, StoreFails(p)
  PROVE  ServiceInv'
<1>1. /\ calls[p].pc \in {"authorize", "claim", "begin", "prepare", "settle"}
      /\ CallOK(p, calls[p])
      /\ UNCHANGED <<Rest, ledgerVars>>
      /\ Done(p, "error")
  BY DEF ServiceInv, StoreFails, Rest
<1>2. ActionOf(p) \in Actions /\ ActionOK(ActionOf(p))
  BY <1>1 DEF CallOK, ShapeOK, ActionOf, ServiceInv
<1>3. ledger[ActionOf(p)].owner = p => flight[ActionOf(p)] = "none"
  BY <1>1, <1>2 DEF CallOK, OwnOK, RequestOK, ActionOK, FlightOK, Owning, ActionOf
<1> QED
  BY <1>1, <1>3, EndsSilently

LEMMA PreflightKeepsInv ==
  ASSUME ServiceInv, NEW p \in Owners, Preflight(p)
  PROVE  ServiceInv'
<1>1. calls[p].pc = "preflight" /\ CallOK(p, calls[p]) /\ calls[p] \in Call
  BY ServiceTyped DEF ServiceInv, Preflight, At
<1>2. ActionOf(p) \in Actions /\ ActionOK(ActionOf(p)) /\ ActionOf(p) = calls[p].action
  BY <1>1 DEF CallOK, ShapeOK, ActionOf, ServiceInv
<1>3. UNCHANGED <<Rest, ledgerVars>>
  BY DEF Preflight, Rest
<1>4. flight[ActionOf(p)] = "none"
  BY <1>1, <1>2 DEF CallOK, RequestOK, ActionOK, FlightOK
<1>5. ASSUME /\ world[LockOf[ActionOf(p)]] = intents[ActionOf(p)].original
             /\ Admitted(ActionOf(p))
             /\ Goto(p, "begin")
      PROVE  ServiceInv'
  <2> DEFINE c == [calls[p] EXCEPT !.pc = "begin"]
  <2>1. calls' = [calls EXCEPT ![p] = c]
    BY <1>5 DEF Goto
  <2>2. c \in Call /\ c.pc = "begin"
    BY <1>1 DEF Call
  <2>3. /\ c.action = calls[p].action /\ c.reply = calls[p].reply /\ c.seen = calls[p].seen
        /\ c.status = calls[p].status /\ c.mayHaveWritten = calls[p].mayHaveWritten
    BY <1>1 DEF Call
  <2>4. revokedAt = NoTime
    BY <1>5 DEF Admitted, Authorized
  <2> HIDE DEF c
  <2>5. CallOK(p, c)
    BY <1>1, <1>2, <1>4, <1>5, <2>2, <2>3, <2>4 DEF CallOK, ShapeOK, OwnOK, RequestOK,
       WindowOK, SeenOK, ReplyOK, Owning, Untried, Terminal
  <2> QED
    BY <1>3, <2>1, <2>2, <2>5, CallMoves
<1>6. ASSUME ToFinish(p, "failed", "none")
      PROVE  ServiceInv'
  <2> DEFINE c == [calls[p] EXCEPT !.pc = "finish", !.status = "failed", !.seen = "none"]
  <2>1. calls' = [calls EXCEPT ![p] = c]
    BY <1>6 DEF ToFinish
  <2>2. c \in Call /\ c.pc = "finish" /\ c.status = "failed" /\ c.seen = "none"
    BY <1>1 DEF Call, Terminal, Observations
  <2>3. /\ c.action = calls[p].action /\ c.reply = calls[p].reply
        /\ c.mayHaveWritten = calls[p].mayHaveWritten
    BY <1>1 DEF Call
  <2> HIDE DEF c
  <2>4. CallOK(p, c)
    BY <1>1, <1>2, <1>4, <2>2, <2>3 DEF CallOK, ShapeOK, OwnOK, RequestOK,
       WindowOK, SeenOK, ReplyOK, Owning, Untried, Terminal, Outcomes
  <2> QED
    BY <1>3, <2>1, <2>2, <2>4, CallMoves
<1> QED
  BY <1>5, <1>6 DEF Preflight

LEMMA BeginRefusedKeepsInv ==
  ASSUME ServiceInv, NEW p \in Owners, BeginRefused(p)
  PROVE  ServiceInv'
<1>1. /\ calls[p].pc = "begin"
      /\ CallOK(p, calls[p])
      /\ UNCHANGED <<Rest, ledgerVars>>
      /\ Done(p, "no_write_sent")
  BY DEF ServiceInv, BeginRefused, Rest, At
<1>2. ActionOf(p) \in Actions /\ ActionOK(ActionOf(p))
  BY <1>1 DEF CallOK, ShapeOK, ActionOf, ServiceInv
<1>3. flight[ActionOf(p)] = "none" /\ ledger[ActionOf(p)].owner = p
  BY <1>1, <1>2 DEF CallOK, OwnOK, RequestOK, ActionOK, FlightOK, Owning, ActionOf
<1>4. "no_write_sent" \in Replies
  BY DEF Replies
<1>5. ReplyOK(p, Ended(ActionOf(p), "no_write_sent"))
  BY <1>2, <1>3, <1>4, EndedFields DEF ReplyOK, Terminal
<1> QED
  BY <1>1, <1>4, <1>5, DoneEnds, Ends

LEMMA ResponseKeepsInv ==
  ASSUME ServiceInv, NEW p \in Owners, Response(p)
  PROVE  ServiceInv'
<1>1. calls[p].pc = "response" /\ CallOK(p, calls[p]) /\ calls[p] \in Call
  BY ServiceTyped DEF ServiceInv, Response, At
<1>2. ActionOf(p) \in Actions /\ ActionOf(p) = calls[p].action
  BY <1>1 DEF CallOK, ShapeOK, ActionOf
<1>3. UNCHANGED <<Rest, ledgerVars>>
  BY DEF Response, Rest
<1>4. ASSUME flight[ActionOf(p)] = "lost", ToFinish(p, "failed", "none")
      PROVE  ServiceInv'
  <2> DEFINE c == [calls[p] EXCEPT !.pc = "finish", !.status = "failed", !.seen = "none"]
  <2>1. calls' = [calls EXCEPT ![p] = c]
    BY <1>4 DEF ToFinish
  <2>2. c \in Call /\ c.pc = "finish" /\ c.status = "failed" /\ c.seen = "none"
    BY <1>1 DEF Call, Terminal, Observations
  <2>3. /\ c.action = calls[p].action /\ c.reply = calls[p].reply
        /\ c.mayHaveWritten = calls[p].mayHaveWritten
    BY <1>1 DEF Call
  <2> HIDE DEF c
  <2>4. CallOK(p, c)
    BY <1>1, <1>2, <1>4, <2>2, <2>3 DEF CallOK, ShapeOK, OwnOK, RequestOK,
       WindowOK, SeenOK, ReplyOK, Owning, Untried, Terminal, Outcomes
  <2> QED
    BY <1>3, <2>1, <2>2, <2>4, CallMoves
<1>5. ASSUME NEW status \in {"succeeded", "reconciled"},
             calls' = [calls EXCEPT ![p] = [@ EXCEPT !.pc = "readback", !.status = status]]
      PROVE  ServiceInv'
  <2> DEFINE c == [calls[p] EXCEPT !.pc = "readback", !.status = status]
  <2>1. calls' = [calls EXCEPT ![p] = c]
    BY <1>5
  <2>2. c \in Call /\ c.pc = "readback" /\ c.status = status
    BY <1>1 DEF Call, Terminal
  <2>3. /\ c.action = calls[p].action /\ c.reply = calls[p].reply
        /\ c.mayHaveWritten = calls[p].mayHaveWritten
    BY <1>1 DEF Call
  <2> HIDE DEF c
  <2>4. CallOK(p, c)
    BY <1>1, <1>2, <2>2, <2>3 DEF CallOK, ShapeOK, OwnOK, RequestOK,
       WindowOK, SeenOK, ReplyOK, Owning, Untried, Terminal
  <2> QED
    BY <1>3, <2>1, <2>2, <2>4, CallMoves
<1> QED
  BY <1>4, <1>5 DEF Response

\* On a resource nobody disturbed, what a read shows tells whether the
\* request of an action past the fence took effect.
LEMMA ReadsAreTrue ==
  ASSUME ServiceInv, NEW a \in Actions, Quiet(a), ledger[a].phase = "mutation_sent"
  PROVE  /\ Classify(a) = "desired_observed" => flight[a] = "landed"
         /\ Classify(a) = "not_observed" => flight[a] # "landed"
<1>1. intents[a].original # DesiredOf[a] /\ ResourceOK(a)
  BY DEF ServiceInv, ActionOK, IntentOK, Quiet, IsUnresolved, Unresolved
<1> QED
  BY <1>1 DEF ResourceOK, Classify

LEMMA ReadbackKeepsInv ==
  ASSUME ServiceInv, NEW p \in Owners, Readback(p)
  PROVE  ServiceInv'
<1>1. calls[p].pc = "readback" /\ CallOK(p, calls[p]) /\ calls[p] \in Call
  BY ServiceTyped DEF ServiceInv, Readback, At
<1> DEFINE a == ActionOf(p)
<1>2. a \in Actions /\ a = calls[p].action /\ ActionOK(a)
  BY <1>1 DEF CallOK, ShapeOK, ActionOf, ServiceInv
<1>3. UNCHANGED <<Rest, ledgerVars>>
  BY DEF Readback, Rest
<1>4. flight[a] # "none" /\ ledger[a] \in Row /\ ledger[a].phase = "mutation_sent"
  BY <1>1, <1>2, ServiceTyped DEF CallOK, RequestOK, ActionOK, FlightOK, Row
<1>5. PICK status, seen :
        /\ ToFinish(p, status, seen)
        /\ \/ status = calls[p].status /\ seen = "desired_observed" /\ Classify(a) = seen
           \/ status = "unknown" /\ seen \in {"none", "not_observed", "conflict"}
  BY DEF Readback, Classify
<1> DEFINE c == [calls[p] EXCEPT !.pc = "finish", !.status = status, !.seen = seen]
<1>6. calls' = [calls EXCEPT ![p] = c]
  BY <1>5 DEF ToFinish
<1>7. /\ calls[p].status \in {"succeeded", "reconciled"}
      /\ calls[p].mayHaveWritten /\ calls[p].reply = "none"
  BY <1>1 DEF CallOK, ShapeOK
<1>8. <<status, seen>> \in Outcomes /\ status # "failed"
  BY <1>5, <1>7 DEF Outcomes
<1>9. c \in Call
  BY <1>1, <1>5, <1>7 DEF Call, Terminal, Unresolved, Observations
<1>10. /\ c.pc = "finish" /\ c.status = status /\ c.seen = seen
       /\ c.action = a /\ c.reply = "none" /\ c.mayHaveWritten
  BY <1>1, <1>2, <1>7 DEF Call
<1>11. Quiet(a) /\ seen = "desired_observed" => flight[a] = "landed"
  BY <1>2, <1>4, <1>5, ReadsAreTrue
<1> HIDE DEF c, a
<1>12. CallOK(p, c)
  BY <1>1, <1>2, <1>8, <1>10, <1>11 DEF CallOK, ShapeOK, OwnOK, RequestOK,
     WindowOK, SeenOK, ReplyOK, Owning, Untried, Terminal
<1> QED
  BY <1>3, <1>6, <1>9, <1>12, CallMoves

LEMMA FinishFailsKeepsInv ==
  ASSUME ServiceInv, NEW p \in Owners, FinishFails(p)
  PROVE  ServiceInv'
<1>1. /\ calls[p].pc = "finish"
      /\ CallOK(p, calls[p])
      /\ UNCHANGED <<Rest, ledgerVars>>
      /\ Done(p, Unrecorded(p))
  BY DEF ServiceInv, FinishFails, Rest, At
<1>2. ActionOf(p) \in Actions /\ ActionOf(p) = calls[p].action
  BY <1>1 DEF CallOK, ShapeOK, ActionOf
<1>3. /\ flight[ActionOf(p)] # "none" => calls[p].mayHaveWritten
  BY <1>1, <1>2 DEF CallOK, RequestOK
<1>4. /\ Unrecorded(p) \in Replies \ (Terminal \cup {"no_write_sent"})
      /\ flight[ActionOf(p)] = "none" \/ Unrecorded(p) = "unknown"
  BY <1>3 DEF Unrecorded, Replies, Terminal, Unresolved
<1>5. ReplyOK(p, Ended(ActionOf(p), Unrecorded(p)))
  BY <1>2, <1>4, SilentEnd
<1> QED
  BY <1>1, <1>4, <1>5, DoneEnds, Ends

LEMMA PrepareReadsKeepsInv ==
  ASSUME ServiceInv, NEW p \in Owners, PrepareReads(p)
  PROVE  ServiceInv'
<1>1. calls[p].pc = "prepare" /\ CallOK(p, calls[p]) /\ calls[p] \in Call
  BY ServiceTyped DEF ServiceInv, PrepareReads, At
<1>2. /\ ActionOf(p) \in Actions /\ ActionOf(p) = calls[p].action
      /\ ledger[ActionOf(p)].status # "absent"
  BY <1>1 DEF CallOK, ShapeOK, OwnOK, ActionOf
<1>3. UNCHANGED <<Rest, ledgerVars>>
  BY DEF PrepareReads, Rest
<1>4. \A b \in Actions : ledger[b].owner # p
  BY <1>1, NotOwner DEF Owning
<1>5. CASE Done(p, "in_progress")
  BY <1>1, <1>2, <1>3, <1>4, <1>5, EndsSilently
<1>6. CASE IsOpenUnknown(ActionOf(p)) /\ Goto(p, "observe")
  <2> DEFINE c == [calls[p] EXCEPT !.pc = "observe"]
  <2>1. calls' = [calls EXCEPT ![p] = c]
    BY <1>6 DEF Goto
  <2>2. c \in Call /\ c.pc = "observe" /\ c.action = calls[p].action /\ c.reply = calls[p].reply
    BY <1>1 DEF Call
  <2> HIDE DEF c
  <2>3. ledger[ActionOf(p)].status = "unknown" /\ ledger[ActionOf(p)].phase = "mutation_sent"
    BY <1>2, <1>6, RowsOK DEF IsOpenUnknown, RowOK, RowConsistent, ServiceInv
  <2>4. CallOK(p, c)
    BY <1>1, <1>2, <1>4, <2>2, <2>3 DEF CallOK, ShapeOK, OwnOK, RequestOK,
       WindowOK, SeenOK, ReplyOK, Owning, Untried, Terminal
  <2> QED
    BY <1>3, <2>1, <2>2, <2>4, CallMoves
<1>7. CASE Done(p, RowOf(p).status)
  <2>1. RowOf(p).status = ledger[ActionOf(p)].status
    BY DEF RowOf
  <2>2. RowOf(p).status \in Replies \ {"no_write_sent"}
    BY <1>2, <2>1, ServiceTyped DEF Row, Replies, Terminal, Unresolved
  <2>3. ReplyOK(p, Ended(ActionOf(p), RowOf(p).status))
    BY <1>2, <1>4, <2>1, <2>2, EndedFields DEF ReplyOK
  <2> QED
    BY <1>1, <1>3, <1>7, <2>2, <2>3, DoneEnds, Ends
<1> QED
  BY <1>5, <1>6, <1>7 DEF PrepareReads

LEMMA ObserveKeepsInv ==
  ASSUME ServiceInv, NEW p \in Owners, Observe(p)
  PROVE  ServiceInv'
<1>1. calls[p].pc = "observe" /\ CallOK(p, calls[p]) /\ calls[p] \in Call
  BY ServiceTyped DEF ServiceInv, Observe, At
<1> DEFINE a == ActionOf(p)
<1>2. /\ a \in Actions /\ a = calls[p].action
      /\ ledger[a].status \notin {"absent", "executing"}
      /\ ledger[a].phase = "mutation_sent"
  BY <1>1 DEF CallOK, ShapeOK, OwnOK, ActionOf
<1>3. UNCHANGED <<Rest, ledgerVars>>
  BY DEF Observe, Rest
<1>4. PICK seen \in {Classify(a), "unavailable"} :
        calls' = [calls EXCEPT ![p] = [@ EXCEPT !.pc = "settle", !.seen = seen, !.since = now]]
  BY DEF Observe
<1>5. Classify(a) \in Observations
  BY DEF Classify, Observations
<1> DEFINE c == [calls[p] EXCEPT !.pc = "settle", !.seen = seen, !.since = now]
<1>6. calls' = [calls EXCEPT ![p] = c]
  BY <1>4
<1>7. now \in Nat /\ c \in Call
  BY <1>1, <1>5, ServiceTyped DEF Call
<1>8. /\ c.pc = "settle" /\ c.seen = seen /\ c.since = now
      /\ c.action = a /\ c.reply = calls[p].reply
  BY <1>1, <1>2 DEF Call
<1>9. Quiet(a) => /\ seen = "desired_observed" => flight[a] = "landed"
                  /\ seen = "not_observed" => flight[a] # "landed"
  BY <1>2, ReadsAreTrue
<1> HIDE DEF c, a
<1>10. CallOK(p, c)
  <2>1. ShapeOK(c) /\ OwnOK(p, c) /\ RequestOK(c) /\ ReplyOK(p, c)
    BY <1>1, <1>2, <1>8 DEF CallOK, ShapeOK, OwnOK, RequestOK, ReplyOK, Owning, Untried, Terminal
  <2>2. WindowOK(c)
    BY <1>7, <1>8 DEF WindowOK
  <2>3. SeenOK(c)
    BY <1>8, <1>9 DEF SeenOK
  <2> QED
    BY <2>1, <2>2, <2>3 DEF CallOK
<1> QED
  BY <1>3, <1>6, <1>7, <1>10, CallMoves

LEMMA SettleIdleKeepsInv ==
  ASSUME ServiceInv, NEW p \in Owners, SettleIdle(p)
  PROVE  ServiceInv'
<1>1. /\ calls[p].pc = "settle"
      /\ CallOK(p, calls[p])
      /\ UNCHANGED <<Rest, ledgerVars>>
  BY DEF ServiceInv, SettleIdle, Rest, At
<1>2. ActionOf(p) \in Actions /\ ledger[ActionOf(p)].status # "absent"
  BY <1>1 DEF CallOK, ShapeOK, OwnOK, ActionOf
<1>3. \A b \in Actions : ledger[b].owner # p
  BY <1>1, NotOwner DEF Owning
<1>4. PICK reply \in {"unknown", RowOf(p).status} : Done(p, reply)
  BY DEF SettleIdle
<1>5. RowOf(p).status = ledger[ActionOf(p)].status
  BY DEF RowOf
<1>6. reply \in Replies \ {"no_write_sent"} /\ (reply \in Terminal => RowOf(p).status = reply)
  BY <1>2, <1>5, ServiceTyped DEF Row, Replies, Terminal, Unresolved
<1>7. ReplyOK(p, Ended(ActionOf(p), reply))
  BY <1>2, <1>3, <1>5, <1>6, EndedFields DEF ReplyOK
<1> QED
  BY <1>1, <1>4, <1>6, <1>7, DoneEnds, Ends

-----------------------------------------------------------------------------
(***************************************************************************)
(* The request upstream.                                                   *)
(***************************************************************************)
LEMMA SendKeepsInv ==
  ASSUME ServiceInv, NEW p \in Owners, Send(p)
  PROVE  ServiceInv'
<1>1. calls[p].pc = "send" /\ CallOK(p, calls[p]) /\ calls[p] \in Call
  BY ServiceTyped DEF ServiceInv, Send, At
<1>2. PICK a : a = ActionOf(p)
  OBVIOUS
<1>3. /\ a \in Actions /\ a = calls[p].action /\ ActionOK(a)
      /\ ledger[a] \in Row /\ calls[p].since \in Nat /\ now \in Nat
  BY <1>1, <1>2, ServiceTyped DEF CallOK, ShapeOK, ActionOf, ServiceInv, Call
<1>4. /\ flight[a] = "none" /\ ledger[a].owner = p /\ ledger[a].phase = "mutation_sent"
      /\ ~Excluded(ledger[a])
      /\ ledger[a].lease = calls[p].since + MutationLease
      /\ now <= calls[p].since + SendWindow
  BY <1>1, <1>3 DEF CallOK, OwnOK, RequestOK, WindowOK, Owning
<1>5. ASSUME NEW tried \in BOOLEAN, UNCHANGED <<Rest, ledgerVars>>,
             calls' = [calls EXCEPT ![p] = [@ EXCEPT !.pc = "finish", !.mayHaveWritten = tried]]
      PROVE  ServiceInv'
  <2> DEFINE c == [calls[p] EXCEPT !.pc = "finish", !.mayHaveWritten = tried]
  <2>1. calls' = [calls EXCEPT ![p] = c]
    BY <1>5
  <2>2. /\ c \in Call /\ c.pc = "finish" /\ c.action = a
        /\ c.status = calls[p].status /\ c.seen = calls[p].seen /\ c.reply = calls[p].reply
    BY <1>1, <1>3 DEF Call
  <2> HIDE DEF c
  <2>3. CallOK(p, c)
    BY <1>1, <1>3, <1>4, <2>2 DEF CallOK, ShapeOK, OwnOK, RequestOK,
       WindowOK, SeenOK, ReplyOK, Owning, Untried, Terminal, Outcomes
  <2> QED
    BY <1>5, <2>1, <2>2, <2>3, CallMoves
<1>6. ASSUME /\ calls' = [calls EXCEPT ![p] = [@ EXCEPT !.pc = "response",
                                                        !.mayHaveWritten = TRUE]]
             /\ flight' = [flight EXCEPT ![a] = "sent"]
             /\ sentAt' = [sentAt EXCEPT ![a] = now]
             /\ sends' = [sends EXCEPT ![a] = @ + 1]
             /\ UNCHANGED <<world, edits, intents, revokedAt, ledgerVars>>
      PROVE  ServiceInv'
  <2>1. PICK c : c = [calls[p] EXCEPT !.pc = "response", !.mayHaveWritten = TRUE]
    OBVIOUS
  <2>2. calls' = [calls EXCEPT ![p] = c]
    BY <1>6, <2>1
  <2>3. /\ c \in Call /\ c.pc = "response" /\ c.mayHaveWritten /\ c.action = a
        /\ c.status = calls[p].status /\ c.seen = calls[p].seen /\ c.reply = calls[p].reply
    BY <1>1, <1>3, <2>1 DEF Call
  <2>4. /\ \A b \in Actions : flight'[b] = IF b = a THEN "sent" ELSE flight[b]
        /\ \A b \in Actions : sentAt'[b] = IF b = a THEN now ELSE sentAt[b]
        /\ \A b \in Actions : sends'[b] = IF b = a THEN sends[a] + 1 ELSE sends[b]
        /\ sends[a] = 0
    BY <1>3, <1>4, <1>6 DEF ServiceInv, ServiceTypeOK, ActionOK, FlightOK
  <2>5. ServiceTypeOK'
    BY <1>3, <1>6, <2>2, <2>3, <2>4 DEF ServiceInv, ServiceTypeOK, LedgerTypeOK, ledgerVars
  <2>6. LedgerInv'
    BY <1>6, LedgerStays DEF ServiceInv
  <2>7. \A b \in Actions : Disturbed(LockOf[b])' <=> Disturbed(LockOf[b])
    BY <1>6 DEF Disturbed, ledgerVars
  <2>8. ASSUME NEW b \in Actions
        PROVE  ActionOK(b)'
    <3>1. ActionOK(b)
      BY DEF ServiceInv
    <3>2. CASE b # a
      BY <1>6, <2>4, <2>7, <3>1, <3>2 DEF ActionOK, IntentOK, FlightOK, TimeOK, VerdictOK,
         ResourceOK, FenceTime, FoundApplied, Quiet, IsUnresolved, ledgerVars
    <3>3. CASE b = a
      <4>1. now + MutationLease <= ledger[a].lease + SendWindow /\ now <= now + LandWindow
        BY <1>3, <1>4
      <4>2. TimeOK(b)'
        BY <1>6, <2>4, <3>1, <3>3, <4>1 DEF ActionOK, TimeOK, FenceTime, ledgerVars
      <4> QED
        BY <1>4, <1>6, <2>4, <2>7, <3>1, <3>3, <4>2 DEF ActionOK, IntentOK, FlightOK,
           VerdictOK, ResourceOK, FoundApplied, Quiet, IsUnresolved, Excluded, ledgerVars
    <3> QED
      BY <3>2, <3>3
  <2>9. CallOK(p, c)'
    BY <1>1, <1>3, <1>4, <1>6, <2>3, <2>4 DEF CallOK, ShapeOK, OwnOK, RequestOK,
       WindowOK, SeenOK, ReplyOK, Owning, Untried, Terminal, ledgerVars
  <2>10. ASSUME NEW q \in Owners, q # p, NEW d, d = calls[q]
         PROVE  CallOK(q, d)'
    <3>1. CallOK(q, d)
      BY <2>10 DEF ServiceInv
    <3>2. d.pc \in Owning => d.action # a
      BY <1>3, <1>4, <2>10, <3>1 DEF CallOK, OwnOK
    <3>3. d.pc # "idle" => d.action \in Actions
      BY <3>1 DEF CallOK, ShapeOK
    <3>4. d.reply # "none" => d.pc # "idle"
      BY <3>1 DEF CallOK, ShapeOK, IdleCall
    <3>5. ShapeOK(d)' /\ OwnOK(q, d)' /\ WindowOK(d)'
      BY <1>6, <3>1 DEF CallOK, ShapeOK, OwnOK, WindowOK, ledgerVars
    <3>6. RequestOK(d)'
      BY <1>6, <2>4, <3>1, <3>2, <3>3 DEF CallOK, RequestOK, Owning, ledgerVars
    <3>7. SeenOK(d)'
      BY <1>4, <1>6, <2>4, <2>7, <3>1, <3>3
         DEF CallOK, SeenOK, Late, Quiet, IsUnresolved, ledgerVars
    <3>8. ReplyOK(q, d)'
      BY <1>4, <1>6, <2>4, <2>10, <3>1, <3>3, <3>4 DEF CallOK, ReplyOK, Terminal, ledgerVars
    <3> QED
      BY <3>5, <3>6, <3>7, <3>8 DEF CallOK
  <2>11. ASSUME NEW q \in Owners
         PROVE  CallOK(q, calls[q])'
    <3>1. PICK d : d = calls'[q]
      OBVIOUS
    <3>2. d = IF q = p THEN c ELSE calls[q]
      BY <2>2, <3>1, ServiceTyped
    <3>3. CallOK(q, d)'
      BY <2>9, <2>10, <3>2
    <3> QED
      BY <3>1, <3>3
  <2> QED
    BY <2>5, <2>6, <2>8, <2>11 DEF ServiceInv
<1> QED
  BY <1>2, <1>5, <1>6 DEF Send, Rest, upstreamVars

\* A request under way on a resource nobody disturbed belongs to an open action.
LEMMA SentIsOpen ==
  ASSUME ServiceInv, NEW a \in Actions, flight[a] = "sent", ~Disturbed(LockOf[a])
  PROVE  IsUnresolved(a)
<1>1. ActionOK(a) /\ RowOK(a, ledger[a])
  BY RowsOK DEF ServiceInv
<1>2. ledger[a].source # "operator"
  BY DEF Disturbed
<1>3. ledger[a].status # "absent"
  BY <1>1 DEF ActionOK, IntentOK, FlightOK, AbsentRow
<1> QED
  BY <1>1, <1>2, <1>3 DEF ActionOK, VerdictOK, NotApplied, FoundApplied, RowOK, Row,
     RowConsistent, IsUnresolved, Unresolved, Terminal

LEMMA ArrivalKeepsInv ==
  ASSUME ServiceInv, NEW a \in Actions, Land(a) \/ Lose(a)
  PROVE  ServiceInv'
<1>1. PICK e \in {"landed", "lost"} :
        /\ flight[a] = "sent"
        /\ flight' = [flight EXCEPT ![a] = e]
        /\ world' = IF e = "landed" THEN [world EXCEPT ![LockOf[a]] = DesiredOf[a]] ELSE world
        /\ UNCHANGED <<calls, intents, sentAt, sends, edits, revokedAt, ledgerVars>>
  BY DEF Land, Lose
<1>2. \A b \in Actions : flight'[b] = IF b = a THEN e ELSE flight[b]
  BY <1>1 DEF ServiceInv, ServiceTypeOK
<1>3. \A k \in Locks : world'[k] = IF e = "landed" /\ k = LockOf[a] THEN DesiredOf[a] ELSE world[k]
  BY <1>1 DEF ServiceInv, ServiceTypeOK
<1>4. \A b \in Actions : LockOf[b] \in Locks /\ DesiredOf[b] \in Values
  OBVIOUS
<1>5. ServiceTypeOK'
  BY <1>1, <1>4 DEF ServiceInv, ServiceTypeOK, LedgerTypeOK, ledgerVars
<1>6. LedgerInv'
  BY <1>1, LedgerStays DEF ServiceInv
<1>7. \A b \in Actions : Disturbed(LockOf[b])' <=> Disturbed(LockOf[b])
  BY <1>1 DEF Disturbed, ledgerVars
\* Nobody else is open on an undisturbed resource where a request arrives.
<1>8. ASSUME NEW b \in Actions, b # a, Quiet(b)
      PROVE  LockOf[b] # LockOf[a]
  BY <1>1, <1>8, SentIsOpen DEF Quiet, ServiceInv, LedgerInv, OneUnresolvedPerLock
<1>9. ASSUME NEW b \in Actions
      PROVE  ActionOK(b)'
  <2>1. ActionOK(b)
    BY DEF ServiceInv
  <2>2. IntentOK(b)' /\ FlightOK(b)' /\ TimeOK(b)'
    BY <1>1, <1>2, <2>1 DEF ActionOK, IntentOK, FlightOK, TimeOK, FenceTime, ledgerVars
  <2>3. VerdictOK(b)'
    BY <1>1, <1>2, <1>7, <2>1 DEF ActionOK, VerdictOK, FoundApplied, ledgerVars
  <2>4. ResourceOK(b)'
    BY <1>1, <1>2, <1>3, <1>4, <1>7, <1>8, <2>1
       DEF ActionOK, ResourceOK, Quiet, IsUnresolved, ledgerVars
  <2> QED
    BY <2>2, <2>3, <2>4 DEF ActionOK
<1>10. ASSUME NEW q \in Owners, NEW d \in Call, d = calls[q]
       PROVE  CallOK(q, d)'
  <2>1. CallOK(q, d)
    BY <1>10 DEF ServiceInv
  <2>2. /\ d.pc # "idle" => d.action \in Actions
        /\ d.reply # "none" => d.pc # "idle"
    BY <2>1 DEF CallOK, ShapeOK, IdleCall
  <2>3. ShapeOK(d)' /\ OwnOK(q, d)' /\ WindowOK(d)'
    BY <1>1, <2>1 DEF CallOK, ShapeOK, OwnOK, WindowOK, ledgerVars
  <2>4. RequestOK(d)'
    BY <1>1, <1>2, <2>1, <2>2 DEF CallOK, RequestOK, ledgerVars
  <2>5. ReplyOK(q, d)'
    BY <1>1, <1>2, <2>1, <2>2 DEF CallOK, ReplyOK, Terminal, ledgerVars
  <2>6. d.pc = "settle" /\ d.action = a => ~Late(d)
    <3>1. ASSUME d.pc = "settle", d.action = a
          PROVE  ~Late(d)
      <4>1. /\ d.since <= now
            /\ sentAt[a] + MutationLease <= ledger[a].lease + SendWindow
            /\ now <= sentAt[a] + LandWindow
        BY <1>1, <2>1, <3>1 DEF CallOK, WindowOK, ServiceInv, ActionOK, TimeOK
      <4>2. /\ d.since \in Nat /\ now \in Nat /\ sentAt[a] \in Nat /\ ledger[a].lease \in Nat
            /\ SendWindow \in Nat /\ LandWindow \in Nat /\ MutationLease \in Nat
        BY ServiceTyped DEF Call, Row
      <4>3. d.since + MutationLease <= ledger[a].lease + SendWindow + LandWindow
        BY <4>1, <4>2
      <4> QED
        BY <3>1, <4>2, <4>3 DEF Late
    <3> QED
      BY <3>1
  <2>7. d.pc = "begin" => d.action # a
    <3>1. ActionOK(a)
      BY DEF ServiceInv
    <3> QED
      BY <1>1, <2>1, <3>1 DEF CallOK, RequestOK, ActionOK, FlightOK
  <2>8. SeenOK(d)'
    <3>1. Late(d)' <=> Late(d)
      BY <1>1 DEF Late, ledgerVars
    <3>2. d.pc # "idle" => (Quiet(d.action)' <=> Quiet(d.action))
      BY <1>1, <1>7, <2>2 DEF Quiet, IsUnresolved, ledgerVars
    <3>3. d.pc = "begin" /\ Quiet(d.action) => world'[LockOf[d.action]] = world[LockOf[d.action]]
      BY <1>3, <1>4, <1>8, <2>2, <2>7
    <3> QED
      BY <1>1, <1>2, <2>1, <2>2, <2>6, <3>1, <3>2, <3>3 DEF CallOK, SeenOK
  <2> QED
    BY <2>3, <2>4, <2>5, <2>8 DEF CallOK
<1>11. ASSUME NEW q \in Owners
       PROVE  CallOK(q, calls[q])'
  <2>1. calls'[q] = calls[q] /\ calls[q] \in Call
    BY <1>1, ServiceTyped
  <2> QED
    BY <1>10, <2>1
<1> QED
  BY <1>5, <1>6, <1>9, <1>11 DEF ServiceInv

-----------------------------------------------------------------------------
(***************************************************************************)
(* The rest of the environment.                                            *)
(***************************************************************************)
\* An edit disturbs its resource, and with it frees every claim about it.
LEMMA EditKeepsInv ==
  ASSUME ServiceInv, NEW k \in Locks, NEW v \in Values, Edit(k, v)
  PROVE  ServiceInv'
<1>1. /\ edits' = [edits EXCEPT ![k] = @ + 1]
      /\ edits[k] < MaxEdits
      /\ world' = [world EXCEPT ![k] = v]
      /\ UNCHANGED <<calls, intents, flight, sentAt, sends, revokedAt, ledgerVars>>
  BY DEF Edit
<1>2. edits \in [Locks -> 0..MaxEdits] /\ world \in [Locks -> Values] /\ MaxEdits \in Nat
  BY DEF ServiceInv, ServiceTypeOK
<1>3. edits[k] + 1 \in 0..MaxEdits /\ edits[k] + 1 > 0
  BY <1>1, <1>2
<1>4. ServiceTypeOK'
  BY <1>1, <1>2, <1>3 DEF ServiceInv, ServiceTypeOK, LedgerTypeOK, ledgerVars
<1>5. LedgerInv'
  BY <1>1, LedgerStays DEF ServiceInv
<1>6. \A j \in Locks : world'[j] = IF j = k THEN v ELSE world[j]
  BY <1>1, <1>2
<1>7. \A j \in Locks : Disturbed(j)' <=> j = k \/ Disturbed(j)
  BY <1>1, <1>2, <1>3 DEF Disturbed, ledgerVars
<1>8. \A b \in Actions : LockOf[b] \in Locks
  OBVIOUS
<1>9. ASSUME NEW b \in Actions
      PROVE  ActionOK(b)'
  <2>1. ActionOK(b)
    BY DEF ServiceInv
  <2>2. IntentOK(b)' /\ FlightOK(b)' /\ TimeOK(b)'
    BY <1>1, <2>1 DEF ActionOK, IntentOK, FlightOK, TimeOK, FenceTime, ledgerVars
  <2>3. VerdictOK(b)' /\ ResourceOK(b)'
    BY <1>1, <1>6, <1>7, <1>8, <2>1 DEF ActionOK, VerdictOK, FoundApplied, ResourceOK,
       Quiet, IsUnresolved, ledgerVars
  <2> QED
    BY <2>2, <2>3 DEF ActionOK
<1>10. ASSUME NEW q \in Owners, NEW d, d = calls[q]
       PROVE  CallOK(q, d)'
  <2>1. CallOK(q, d)
    BY <1>10 DEF ServiceInv
  <2>2. d.pc # "idle" => d.action \in Actions
    BY <2>1 DEF CallOK, ShapeOK
  <2>3. ShapeOK(d)' /\ OwnOK(q, d)' /\ RequestOK(d)' /\ WindowOK(d)' /\ ReplyOK(q, d)'
    BY <1>1, <2>1 DEF CallOK, ShapeOK, OwnOK, RequestOK, WindowOK, ReplyOK, ledgerVars
  <2>4. SeenOK(d)'
    BY <1>1, <1>6, <1>7, <1>8, <2>1, <2>2
       DEF CallOK, SeenOK, Late, Quiet, IsUnresolved, ledgerVars
  <2> QED
    BY <2>3, <2>4 DEF CallOK
<1>11. ASSUME NEW q \in Owners
       PROVE  CallOK(q, calls[q])'
  BY <1>1, <1>10
<1> QED
  BY <1>4, <1>5, <1>9, <1>11 DEF ServiceInv

LEMMA RevokeKeepsInv ==
  ASSUME ServiceInv, Revoke
  PROVE  ServiceInv'
<1>1. revokedAt' = now /\ UNCHANGED <<calls, intents, upstreamVars, ledgerVars>>
  BY DEF Revoke
<1>2. now \in Nat /\ PreflightLease \in Nat \ {0} /\ MutationLease \in Nat
  BY ServiceTyped
<1>3. ServiceTypeOK'
  BY <1>1, <1>2 DEF ServiceInv, ServiceTypeOK, LedgerTypeOK, upstreamVars, ledgerVars
<1>4. LedgerInv'
  BY <1>1, LedgerStays DEF ServiceInv
<1>5. ASSUME NEW b \in Actions
      PROVE  ActionOK(b)'
  <2>1. ActionOK(b) /\ ledger[b].lease \in Nat
    BY ServiceTyped DEF ServiceInv, Row
  <2>2. ledger[b].phase = "mutation_sent" => ledger[b].lease <= now + MutationLease
    BY <2>1 DEF ActionOK, IntentOK, AbsentRow, TimeOK
  <2>3. ledger[b].phase = "mutation_sent" => FenceTime(b) < now + PreflightLease
    BY <1>2, <2>1, <2>2 DEF FenceTime
  <2>4. TimeOK(b)'
    BY <1>1, <2>1, <2>3 DEF ActionOK, TimeOK, FenceTime, upstreamVars, ledgerVars
  <2> QED
    BY <1>1, <2>1, <2>4 DEF ActionOK, IntentOK, FlightOK, VerdictOK, FoundApplied, ResourceOK,
       Quiet, IsUnresolved, Disturbed, upstreamVars, ledgerVars
<1>6. ASSUME NEW q \in Owners, NEW d, d = calls[q]
      PROVE  CallOK(q, d)'
  <2>1. CallOK(q, d)
    BY <1>6 DEF ServiceInv
  <2>2. d.pc = "begin" => ledger[d.action].lease <= now + PreflightLease
    <3>1. ASSUME d.pc = "begin"
          PROVE  ledger[d.action].lease <= now + PreflightLease
      <4>1. /\ d.action \in Actions /\ ledger[d.action].owner = q
            /\ ledger[d.action].phase = "preflight"
        BY <2>1, <3>1 DEF CallOK, ShapeOK, OwnOK, RequestOK, Owning
      <4>2. ActionOK(d.action)
        BY <4>1 DEF ServiceInv
      <4>3. ledger[d.action].status # "absent"
        BY <4>1, <4>2 DEF ActionOK, IntentOK, AbsentRow
      <4> QED
        BY <4>1, <4>2, <4>3 DEF ActionOK, TimeOK
    <3> QED
      BY <3>1
  <2>3. WindowOK(d)'
    BY <1>1, <2>1, <2>2 DEF CallOK, WindowOK, upstreamVars, ledgerVars
  <2> QED
    BY <1>1, <2>1, <2>3 DEF CallOK, ShapeOK, OwnOK, RequestOK, SeenOK, ReplyOK, Late, Quiet,
       IsUnresolved, Disturbed, upstreamVars, ledgerVars
<1>7. ASSUME NEW q \in Owners
      PROVE  CallOK(q, calls[q])'
  BY <1>1, <1>6
<1> QED
  BY <1>3, <1>4, <1>5, <1>7 DEF ServiceInv

LEMMA PassKeepsInv ==
  ASSUME ServiceInv, Pass
  PROVE  ServiceInv'
<1>1. /\ now' = now + 1 /\ ledger' = ledger /\ Tick
      /\ UNCHANGED <<calls, intents, upstreamVars, revokedAt>>
  BY DEF Pass, Tick
<1>2. now \in Nat /\ PreflightLease \in Nat /\ MutationLease \in Nat
  BY ServiceTyped
<1>3. ServiceTypeOK'
  BY <1>1, <1>2 DEF ServiceInv, ServiceTypeOK, LedgerTypeOK, upstreamVars
<1>4. LedgerInv'
  BY <1>1, TickKeepsInv DEF ServiceInv
<1>5. ASSUME NEW b \in Actions
      PROVE  ActionOK(b)'
  <2>1. /\ ActionOK(b) /\ ledger[b].lease \in Nat /\ sentAt[b] \in Nat
        /\ LandWindow \in Nat
    BY ServiceTyped DEF ServiceInv, Row
  <2>2. flight[b] = "sent" => now < sentAt[b] + LandWindow
    BY DEF Pass, WindowsOpen
  <2>3. TimeOK(b)'
    BY <1>1, <1>2, <2>1, <2>2 DEF ActionOK, TimeOK, FenceTime, upstreamVars
  <2> QED
    BY <1>1, <2>1, <2>3 DEF ActionOK, IntentOK, FlightOK, VerdictOK, FoundApplied, ResourceOK,
       Quiet, IsUnresolved, Disturbed, upstreamVars
<1>6. ASSUME NEW q \in Owners, NEW d \in Call, d = calls[q]
      PROVE  CallOK(q, d)'
  <2>1. CallOK(q, d) /\ d.since \in Nat /\ SendWindow \in Nat /\ ObserveWindow \in Nat
    BY <1>6 DEF ServiceInv, Call
  <2>2. /\ d.pc = "send" => now < d.since + SendWindow
        /\ d.pc = "settle" => now < d.since + ObserveWindow
    BY <1>6 DEF Pass, WindowsOpen
  <2>3. WindowOK(d)'
    BY <1>1, <1>2, <2>1, <2>2 DEF CallOK, WindowOK, upstreamVars
  <2> QED
    BY <1>1, <2>1, <2>3 DEF CallOK, ShapeOK, OwnOK, RequestOK, SeenOK, ReplyOK, Late, Quiet,
       IsUnresolved, Disturbed, upstreamVars
<1>7. ASSUME NEW q \in Owners
      PROVE  CallOK(q, calls[q])'
  <2>1. calls'[q] = calls[q] /\ calls[q] \in Call
    BY <1>1, ServiceTyped
  <2> QED
    BY <1>6, <2>1
<1> QED
  BY <1>3, <1>4, <1>5, <1>7 DEF ServiceInv

\* An intent is issued before anything else happens to its action.
LEMMA PreviewKeepsInv ==
  ASSUME ServiceInv, NEW a \in Actions, Preview(a)
  PROVE  ServiceInv'
<1>1. PICK i : /\ i = [issued |-> TRUE, original |-> world[LockOf[a]],
                       expires |-> now + IntentTtl]
               /\ intents' = [intents EXCEPT ![a] = i]
  BY DEF Preview
<1>2. /\ ~intents[a].issued /\ world[LockOf[a]] # DesiredOf[a]
      /\ UNCHANGED <<calls, upstreamVars, revokedAt, ledgerVars>>
  BY DEF Preview
<1>3. i \in Intent /\ i.issued /\ i.original # DesiredOf[a]
  <2>1. now + IntentTtl \in Nat /\ world[LockOf[a]] \in Values
    BY DEF ServiceInv, ServiceTypeOK, LedgerTypeOK
  <2> QED
    BY <1>1, <1>2, <2>1 DEF Intent
<1>4. ServiceTypeOK'
  BY <1>1, <1>2, <1>3 DEF ServiceInv, ServiceTypeOK, LedgerTypeOK, upstreamVars, ledgerVars
<1>5. LedgerInv'
  BY <1>2, LedgerStays DEF ServiceInv
<1>6. \A b \in Actions : intents'[b] = IF b = a THEN i ELSE intents[b]
  BY <1>1, ServiceTyped
<1>7. ASSUME NEW b \in Actions
      PROVE  ActionOK(b)'
  <2>1. ActionOK(b) /\ (b = a => ledger[b].status = "absent")
    BY <1>2 DEF ServiceInv, ActionOK, IntentOK
  <2>2. IntentOK(b)'
    BY <1>2, <1>3, <1>6, <2>1 DEF ActionOK, IntentOK, ledgerVars
  <2>3. ResourceOK(b)'
    BY <1>2, <1>6, <2>1 DEF ActionOK, ResourceOK, Quiet, IsUnresolved, Unresolved, Disturbed,
       upstreamVars, ledgerVars
  <2> QED
    BY <1>2, <2>1, <2>2, <2>3 DEF ActionOK, FlightOK, TimeOK, VerdictOK, FenceTime,
       FoundApplied, Disturbed, upstreamVars, ledgerVars
<1>8. ASSUME NEW q \in Owners, NEW d, d = calls[q]
      PROVE  CallOK(q, d)'
  <2>1. CallOK(q, d)
    BY <1>8 DEF ServiceInv
  <2>2. d.pc # "idle" => d.action \in Actions /\ d.action # a
    BY <1>2, <2>1 DEF CallOK, ShapeOK, OwnOK
  <2>3. OwnOK(q, d)' /\ SeenOK(d)'
    BY <1>2, <1>6, <2>1, <2>2 DEF CallOK, OwnOK, SeenOK, Late, Quiet, IsUnresolved, Disturbed,
       upstreamVars, ledgerVars
  <2> QED
    BY <1>2, <2>1, <2>3 DEF CallOK, ShapeOK, RequestOK, WindowOK, ReplyOK,
       upstreamVars, ledgerVars
<1>9. ASSUME NEW q \in Owners
      PROVE  CallOK(q, calls[q])'
  BY <1>2, <1>8
<1> QED
  BY <1>4, <1>5, <1>7, <1>9 DEF ServiceInv

-----------------------------------------------------------------------------
(***************************************************************************)
(* Steps that write a row.                                                 *)
(***************************************************************************)
LEMMA OpenHasNoSource ==
  ASSUME ServiceInv, NEW a \in Actions, ledger[a].status \notin Terminal
  PROVE  ledger[a].source = "none"
BY RowsOK DEF ServiceInv, RowOK, RowConsistent, Terminal

LEMMA RowMoves ==
  ASSUME ServiceInv, LedgerInv', NEW a \in Actions, NEW r \in Row,
         ledger[a].status \notin Terminal,
         ledger' = [ledger EXCEPT ![a] = r], UNCHANGED <<Rest, now>>,
         calls' \in [Owners -> Call],
         ActionOK(a)', \A q \in Owners : CallOK(q, calls[q])'
  PROVE  ServiceInv'
<1>1. ServiceTypeOK'
  BY DEF ServiceInv, ServiceTypeOK, LedgerInv, Rest, upstreamVars
<1>2. \A b \in Actions : ledger'[b] = IF b = a THEN r ELSE ledger[b]
  BY ServiceTyped
<1>3. \A k \in Locks : Disturbed(k) => Disturbed(k)'
  BY <1>2, OpenHasNoSource DEF Disturbed, Rest, upstreamVars
<1>4. ASSUME NEW b \in Actions
      PROVE  ActionOK(b)'
  <2>1. ActionOK(b) /\ LockOf[b] \in Locks
    BY DEF ServiceInv
  <2>2. CASE b # a
    BY <1>2, <1>3, <2>1, <2>2 DEF ActionOK, IntentOK, FlightOK, TimeOK, VerdictOK, ResourceOK,
       FenceTime, FoundApplied, Quiet, IsUnresolved, Rest, upstreamVars
  <2> QED
    BY <2>2
<1> QED
  BY <1>1, <1>4 DEF ServiceInv

LEMMA EndedFitsNext ==
  ASSUME NEW p \in Owners, NEW d, CallOK(p, d)', d.pc # "idle", NEW reply \in Replies,
         ReplyOK(p, Ended(d.action, reply))'
  PROVE  CallOK(p, Ended(d.action, reply))'
<1>1. d.action \in Actions
  BY DEF CallOK, ShapeOK
<1>2. PICK c : c = Ended(d.action, reply)
  OBVIOUS
<1>3. c.pc = "done" /\ c.action = d.action
  BY <1>1, <1>2, EndedFields
<1>4. ReplyOK(p, c)'
  BY <1>2
<1>5. CallOK(p, c)'
  BY <1>1, <1>3, <1>4 DEF CallOK, ShapeOK, OwnOK, RequestOK, WindowOK, SeenOK, Owning, Untried
<1> QED
  BY <1>2, <1>5

\* The other functions settle an open row, or leave it open.
Settles(a, r) ==
    /\ IsUnresolved(a)
    /\ r.owner = ledger[a].owner /\ r.phase = ledger[a].phase /\ r.lease = ledger[a].lease
    /\ r.status \in {"unknown"} \cup Terminal
    /\ r.phase = "preflight" => r.status = "failed"

AppliedRow(r) ==
    \/ r.status = "succeeded"
    \/ r.status = "reconciled" /\ r.observation = "desired_observed" /\ r.source = "automatic"

\* The row may be written: what it says of the request is true.
VerdictFits(a, r) ==
    /\ r.status = "failed" => flight[a] \in {"none", "lost"}
    /\ NotApplied(r) => flight[a] # "sent" /\ (flight[a] = "landed" => Disturbed(LockOf[a]))
    /\ AppliedRow(r) => flight[a] = "landed" \/ Disturbed(LockOf[a])
    /\ r.status = "reconciled" => r.observation \in {"desired_observed", "not_observed"}
    /\ Excluded(r) => \A q \in Owners : ~MaySend(q, a)

LEMMA SettlingStandsBy ==
  ASSUME ServiceInv, NEW a \in Actions, NEW r, Settles(a, r), VerdictFits(a, r),
         ledger' = [ledger EXCEPT ![a] = r], UNCHANGED <<Rest, now>>,
         NEW q \in Owners, NEW d, d = calls[q]
  PROVE  CallOK(q, d)'
<1>1. CallOK(q, d)
  BY DEF ServiceInv
<1>2. \A b \in Actions : ledger'[b] = IF b = a THEN r ELSE ledger[b]
  BY ServiceTyped
<1>3. \A k \in Locks : Disturbed(k) => Disturbed(k)'
  BY <1>2, OpenHasNoSource DEF Disturbed, Rest, upstreamVars, Settles, IsUnresolved,
     Unresolved, Terminal
<1>4. \A b \in Actions : Quiet(b)' => Quiet(b)
  BY <1>2, <1>3 DEF Quiet, IsUnresolved, Settles
<1>5. /\ d.pc # "idle" => d.action \in Actions
      /\ d.reply # "none" => d.pc # "idle"
  BY <1>1 DEF CallOK, ShapeOK, IdleCall
<1>6. ShapeOK(d)'
  BY <1>1 DEF CallOK, ShapeOK
<1>7. OwnOK(q, d)'
  BY <1>1, <1>2, <1>5 DEF CallOK, OwnOK, Settles, Rest, Terminal, Owning
<1>8. RequestOK(d)'
  <2>1. d.pc = "send" /\ d.action = a => ~Excluded(r)
    BY DEF VerdictFits, MaySend, ActionOf
  <2> QED
    BY <1>1, <1>2, <1>5, <2>1 DEF CallOK, RequestOK, Settles, Rest, upstreamVars, Excluded
<1>9. WindowOK(d)'
  BY <1>1, <1>2, <1>5 DEF CallOK, WindowOK, Settles, Rest, upstreamVars
<1>10. SeenOK(d)'
  BY <1>1, <1>2, <1>4, <1>5 DEF CallOK, SeenOK, Late, Settles, Rest, upstreamVars
<1>11. ReplyOK(q, d)'
  BY <1>1, <1>2, <1>5 DEF CallOK, ReplyOK, Settles, IsUnresolved, Unresolved, Terminal,
     Rest, upstreamVars
<1> QED
  BY <1>6, <1>7, <1>8, <1>9, <1>10, <1>11 DEF CallOK

LEMMA SettlingKeepsAction ==
  ASSUME ServiceInv, NEW a \in Actions, NEW r, Settles(a, r), VerdictFits(a, r),
         ledger' = [ledger EXCEPT ![a] = r], UNCHANGED <<Rest, now>>
  PROVE  ActionOK(a)'
<1>1. ActionOK(a) /\ ledger'[a] = r
  BY ServiceTyped DEF ServiceInv
<1>2. \A b \in Actions : ledger'[b] = IF b = a THEN r ELSE ledger[b]
  BY ServiceTyped
<1>3. Disturbed(LockOf[a]) => Disturbed(LockOf[a])'
  BY <1>2, OpenHasNoSource DEF Disturbed, Rest, upstreamVars, Settles, IsUnresolved,
     Unresolved, Terminal
<1>4. IntentOK(a)' /\ FlightOK(a)' /\ TimeOK(a)'
  BY <1>1 DEF ActionOK, IntentOK, FlightOK, TimeOK, FenceTime, Settles, IsUnresolved, Unresolved,
     Terminal, Rest, upstreamVars
<1>5. VerdictOK(a)'
  BY <1>1, <1>3 DEF VerdictOK, VerdictFits, FoundApplied, AppliedRow, Rest, upstreamVars
<1>6. ResourceOK(a)'
  BY <1>1, <1>3 DEF ActionOK, ResourceOK, Quiet, IsUnresolved, Settles, Rest, upstreamVars
<1> QED
  BY <1>4, <1>5, <1>6 DEF ActionOK

\* A call that settles a row is told how it stands, or fails.
LEMMA SettlingEnds ==
  ASSUME ServiceInv, LedgerInv', NEW p \in Owners, calls[p].pc \notin {"idle", "done"},
         NEW r \in Row, Settles(ActionOf(p), r), VerdictFits(ActionOf(p), r),
         ledger' = [ledger EXCEPT ![ActionOf(p)] = r], UNCHANGED <<Rest, now>>,
         NEW reply \in Replies, Done(p, reply),
         reply \in Terminal => r.status = reply, reply # "no_write_sent",
         ledger[ActionOf(p)].owner = p /\ flight[ActionOf(p)] # "none"
            => reply \in {"unknown"} \cup Terminal
  PROVE  ServiceInv'
<1>1. PICK d : d = calls[p]
  OBVIOUS
<1>2. PICK a : a = ActionOf(p)
  OBVIOUS
<1>3. a \in Actions /\ a = d.action
  BY <1>1, <1>2 DEF ServiceInv, CallOK, ShapeOK, ActionOf
<1>4. ledger[a].status \notin Terminal
  BY <1>2 DEF Settles, IsUnresolved, Unresolved, Terminal
<1>5. ActionOK(a)'
  BY <1>2, <1>3, SettlingKeepsAction
<1>6. ledger'[a] = r /\ r.owner = ledger[a].owner
  BY <1>2, <1>3, ServiceTyped DEF Settles
<1>7. PICK c : c = Ended(a, reply)
  OBVIOUS
<1>8. calls' = [calls EXCEPT ![p] = c] /\ c \in Call
  <2>1. calls' = [calls EXCEPT ![p] = Ended(ActionOf(p), reply)]
    BY DoneEnds
  <2>2. c \in Call
    BY <1>3, <1>7, EndedFields
  <2> QED
    BY <1>2, <1>7, <2>1, <2>2
<1>9. ReplyOK(p, c)'
  BY <1>2, <1>3, <1>6, <1>7, EndedFields DEF ReplyOK, Rest, upstreamVars
<1>10. CallOK(p, d)'
  BY <1>1, <1>2, <1>3, SettlingStandsBy
<1>11. CallOK(p, c)'
  BY <1>1, <1>3, <1>7, <1>9, <1>10, EndedFitsNext
<1>12. ASSUME NEW q \in Owners
       PROVE  CallOK(q, calls[q])'
  <2>1. PICK e : e = calls'[q]
    OBVIOUS
  <2>2. e = IF q = p THEN c ELSE calls[q]
    BY <1>8, <2>1, ServiceTyped
  <2>3. CallOK(q, e)'
    BY <1>2, <1>3, <1>11, <2>2, SettlingStandsBy
  <2> QED
    BY <2>1, <2>3
<1>13. calls' \in [Owners -> Call]
  BY <1>8, ServiceTyped
<1> QED
  BY <1>2, <1>3, <1>4, <1>5, <1>12, <1>13, RowMoves

LEMMA FinishCallKeepsInv ==
  ASSUME ServiceInv, NEW p \in Owners, FinishCall(p)
  PROVE  ServiceInv'
<1>1. calls[p].pc = "finish" /\ CallOK(p, calls[p]) /\ calls[p] \in Call
  BY ServiceTyped DEF ServiceInv, FinishCall, At
<1> DEFINE a == ActionOf(p)
           status == calls[p].status
           seen == calls[p].seen
           source == IF status = "reconciled" THEN "automatic" ELSE "none"
           r == [ledger[a] EXCEPT !.status = status, !.observation = seen,
                                  !.source = source, !.completed = status \in Terminal]
<1>2. /\ a \in Actions /\ a = calls[p].action /\ ActionOK(a)
      /\ ledger[a].owner = p /\ <<status, seen>> \in Outcomes
  BY <1>1 DEF CallOK, ShapeOK, OwnOK, ActionOf, ServiceInv, Owning
<1>3. /\ Finish(a, p, status, seen)
      /\ Done(p, status) \/ Done(p, Unrecorded(p))
      /\ UNCHANGED <<Rest, now>>
  BY DEF FinishCall, Rest
<1>4. LedgerInv'
  <2>1. /\ <<status, seen>>[1] = status /\ <<status, seen>>[2] = seen
        /\ UNCHANGED now
    BY <1>3
  <2> HIDE DEF a, status, seen
  <2> QED
    BY <1>2, <1>3, <2>1, FinishKeepsInv DEF ServiceInv
<1>5. /\ ledger' = [ledger EXCEPT ![a] = r]
      /\ ledger[a].status = "executing"
      /\ ledger[a].phase = "mutation_sent" \/ status = "failed"
  BY <1>3 DEF Finish, MayFinish
<1>6. /\ \/ status = "failed" /\ seen = "none"
         \/ status \in {"succeeded", "reconciled"} /\ seen = "desired_observed"
         \/ status = "unknown" /\ seen \in {"none", "not_observed", "conflict"}
  BY <1>2 DEF Outcomes
<1>7. ledger[a] \in Row
  BY <1>2, ServiceTyped
<1>8. r \in Row
  <2>1. ledger'[a] = r /\ ledger'[a] \in Row
    BY <1>2, <1>4, <1>5, ServiceTyped DEF LedgerInv, LedgerTypeOK
  <2> QED
    BY <2>1
<1>9. /\ r.status = status /\ r.observation = seen /\ r.source = source
      /\ r.owner = p /\ r.phase = ledger[a].phase /\ r.lease = ledger[a].lease
      /\ r.owner = ledger[a].owner
  BY <1>2, <1>7 DEF Row
<1>10. /\ flight[a] # "none" => calls[p].mayHaveWritten
       /\ status = "failed" => flight[a] \in {"none", "lost"}
       /\ Quiet(a) /\ seen = "desired_observed" => flight[a] = "landed"
  BY <1>1, <1>2 DEF CallOK, RequestOK, SeenOK
<1>11. IsUnresolved(a)
  BY <1>5 DEF IsUnresolved, Unresolved
<1>12. \A q \in Owners : ~MaySend(q, a)
  BY <1>1, <1>2 DEF MaySend, ActionOf, ServiceInv, CallOK, OwnOK, Owning
<1> HIDE DEF r, source
<1>13. Settles(a, r)
  BY <1>5, <1>6, <1>9, <1>7, <1>11 DEF Settles, Terminal, Row
<1>14. VerdictFits(a, r)
  BY <1>6, <1>9, <1>10, <1>11, <1>12 DEF VerdictFits, NotApplied, AppliedRow, Quiet
<1>15. PICK reply : Done(p, reply) /\ reply \in {status, Unrecorded(p)}
  BY <1>3
<1>16. /\ reply \in Replies /\ reply # "no_write_sent"
       /\ reply \in Terminal => r.status = reply
       /\ flight[a] # "none" => reply \in {"unknown"} \cup Terminal
  BY <1>6, <1>9, <1>10, <1>15 DEF Unrecorded, Replies, Terminal, Unresolved
<1> HIDE DEF a, status, seen
<1> QED
  BY <1>1, <1>2, <1>3, <1>4, <1>5, <1>8, <1>13, <1>14, <1>15, <1>16, SettlingEnds DEF a

\* A claim that another takes over has either sent nothing or is unknown.
LEMMA PrepareTakesOverKeepsInv ==
  ASSUME ServiceInv, NEW p \in Owners, PrepareTakesOver(p)
  PROVE  ServiceInv'
<1>1. calls[p].pc = "prepare" /\ CallOK(p, calls[p]) /\ calls[p] \in Call
  BY ServiceTyped DEF ServiceInv, PrepareTakesOver, At
<1>0. PICK a : a = ActionOf(p)
  OBVIOUS
<1>2. a \in Actions /\ a = calls[p].action /\ ActionOK(a) /\ ledger[a] \in Row
  BY <1>0, <1>1, ServiceTyped DEF CallOK, ShapeOK, ActionOf, ServiceInv
<1>3. \A b \in Actions : ledger[b].owner # p
  BY <1>1, NotOwner DEF Owning
<1>4. TakeOver(a) /\ UNCHANGED <<Rest, now>>
  BY <1>0 DEF PrepareTakesOver, Rest
<1>5. LedgerInv'
  BY <1>2, <1>4, TakeOverKeepsInv DEF ServiceInv
<1>6. PICK r : /\ ledger' = [ledger EXCEPT ![a] = r]
               /\ r = IF ledger[a].phase = "preflight"
                      THEN [ledger[a] EXCEPT !.status = "failed", !.completed = TRUE]
                      ELSE [ledger[a] EXCEPT !.status = "unknown", !.completed = FALSE]
  BY <1>4 DEF TakeOver
<1>7. ledger'[a] = r /\ r \in Row
  BY <1>2, <1>5, <1>6, ServiceTyped DEF LedgerInv, LedgerTypeOK
<1>8. /\ r.status = IF ledger[a].phase = "preflight" THEN "failed" ELSE "unknown"
      /\ r.owner = ledger[a].owner /\ r.phase = ledger[a].phase /\ r.lease = ledger[a].lease
  BY <1>2, <1>6 DEF Row
<1>9. IsUnresolved(a) /\ ledger[a].status = "executing"
  BY <1>4 DEF TakeOver, LeaseExpired, IsUnresolved, Unresolved
<1>10. Settles(a, r)
  BY <1>2, <1>8, <1>9 DEF Settles, Terminal, Row
<1>11. ledger[a].phase = "preflight" => \A q \in Owners : ~MaySend(q, a)
  BY <1>2 DEF MaySend, ActionOf, ServiceInv, CallOK, RequestOK
<1>12. VerdictFits(a, r)
  BY <1>2, <1>8, <1>11 DEF VerdictFits, NotApplied, AppliedRow, Excluded, ActionOK, FlightOK
<1>13. CASE r.status = "unknown" /\ Goto(p, "observe")
  <2>1. PICK d : d = calls[p]
    OBVIOUS
  <2>2. PICK c : c = [d EXCEPT !.pc = "observe"]
    OBVIOUS
  <2>3. calls' = [calls EXCEPT ![p] = c]
    BY <1>13, <2>1, <2>2 DEF Goto
  <2>4. c \in Call /\ c.pc = "observe" /\ c.action = d.action /\ c.reply = d.reply
    BY <1>1, <2>1, <2>2 DEF Call
  <2>5. CallOK(p, d)'
    BY <1>2, <1>4, <1>6, <1>10, <1>12, <2>1, SettlingStandsBy
  <2>6. \A b \in Actions : ledger'[b].owner # p
    BY <1>2, <1>3, <1>6, <1>8, ServiceTyped
  <2>7. d.pc = "prepare" /\ d.action = a
    BY <1>1, <1>2, <2>1
  <2>8. ledger'[a].status = "unknown" /\ ledger'[a].phase = "mutation_sent"
    BY <1>2, <1>7, <1>8, <1>13 DEF Row
  <2>9. CallOK(p, c)'
    BY <2>4, <2>5, <2>6, <2>7, <2>8 DEF CallOK, ShapeOK, OwnOK, RequestOK, WindowOK, SeenOK,
       ReplyOK, Owning, Untried, Terminal
  <2>10. ASSUME NEW q \in Owners
         PROVE  CallOK(q, calls[q])'
    <3>1. PICK e : e = calls'[q]
      OBVIOUS
    <3>2. e = IF q = p THEN c ELSE calls[q]
      BY <2>3, <3>1, ServiceTyped
    <3>3. CallOK(q, e)'
      BY <1>2, <1>4, <1>6, <1>10, <1>12, <2>9, <3>2, SettlingStandsBy
    <3> QED
      BY <3>1, <3>3
  <2>11. calls' \in [Owners -> Call]
    BY <2>3, <2>4, ServiceTyped
  <2>12. ActionOK(a)'
    BY <1>2, <1>4, <1>6, <1>10, <1>12, SettlingKeepsAction
  <2>13. ledger[a].status \notin Terminal
    BY <1>9 DEF Terminal
  <2> QED
    BY <1>2, <1>4, <1>5, <1>6, <1>7, <2>10, <2>11, <2>12, <2>13, RowMoves
<1>14. CASE Done(p, r.status) \/ Done(p, "error")
  <2>1. PICK reply \in {r.status, "error"} : Done(p, reply)
    BY <1>14
  <2>2. /\ reply \in Replies /\ reply # "no_write_sent"
        /\ reply \in Terminal => r.status = reply
    BY <1>8, <2>1 DEF Replies, Unresolved, Terminal
  <2>3. calls[p].pc \notin {"idle", "done"}
    BY <1>1
  <2>4. ledger[ActionOf(p)].owner # p
    BY <1>0, <1>2, <1>3
  <2> QED
    BY <1>0, <1>4, <1>5, <1>6, <1>7, <1>10, <1>12, <2>1, <2>2, <2>3, <2>4, SettlingEnds
<1> QED
  BY <1>0, <1>7, <1>13, <1>14 DEF PrepareTakesOver

\* When the second observation confirms, the request has had its windows:
\* nothing can leave or land any more, and the call that confirms looked late.
LEMMA ConfirmationIsLate ==
  ASSUME ServiceInv, NEW p \in Owners, calls[p].pc = "settle",
         ConfirmedOriginal(ActionOf(p)), IsUnresolved(ActionOf(p))
  PROVE  /\ flight[ActionOf(p)] # "sent"
         /\ \A q \in Owners : ~MaySend(q, ActionOf(p))
         /\ Late(calls[p])
<1>1. PICK a : a = ActionOf(p)
  OBVIOUS
<1>2. CallOK(p, calls[p]) /\ a = calls[p].action /\ a \in Actions
  BY <1>1 DEF ServiceInv, CallOK, ShapeOK, ActionOf
<1>3. ActionOK(a) /\ RowOK(a, ledger[a])
  BY <1>2, RowsOK DEF ServiceInv
<1>4. /\ now \in Nat /\ ledger[a].lease \in Nat /\ ledger[a].notAppliedBefore \in Nat
      /\ sentAt[a] \in Nat /\ \A q \in Owners : calls[q].since \in Nat
      /\ SendWindow \in Nat /\ LandWindow \in Nat /\ ObserveWindow \in Nat
      /\ MutationLease \in Nat /\ GraceOf[a] \in Nat /\ ConfirmGap \in Nat
  BY <1>2, ServiceTyped DEF Row, Call
<1>5. ledger[a].notAppliedBefore = ledger[a].lease + GraceOf[a]
  BY <1>1, <1>3 DEF RowOK, GraceHolds, IsUnresolved, Unresolved
<1>6. PICK first : /\ first = ledger[a].firstOriginal
                   /\ first # NoTime
                   /\ first >= ledger[a].notAppliedBefore
                   /\ now >= first + ConfirmGap
  BY <1>1 DEF ConfirmedOriginal
<1>7. first \in Nat
  BY <1>3, <1>6 DEF RowOK, Row
<1>8. SendWindow + LandWindow + ObserveWindow < MutationLease + GraceOf[a] + ConfirmGap
  BY <1>2, TimingAssumption
<1>9. now + MutationLease > ledger[a].lease + SendWindow + LandWindow + ObserveWindow
  BY <1>4, <1>5, <1>6, <1>7, <1>8
<1>10. flight[a] # "sent"
  <2>1. flight[a] = "sent" => /\ sentAt[a] + MutationLease <= ledger[a].lease + SendWindow
                              /\ now <= sentAt[a] + LandWindow
    BY <1>3 DEF ActionOK, TimeOK
  <2> QED
    BY <1>4, <1>9, <2>1
<1>11. ASSUME NEW q \in Owners, MaySend(q, a)
       PROVE  FALSE
  <2>1. ledger[a].lease = calls[q].since + MutationLease /\ now <= calls[q].since + SendWindow
    BY <1>11 DEF MaySend, ActionOf, ServiceInv, CallOK, WindowOK
  <2> QED
    BY <1>4, <1>9, <2>1
<1>12. Late(calls[p])
  <2>1. now <= calls[p].since + ObserveWindow
    BY <1>2 DEF CallOK, WindowOK
  <2> QED
    BY <1>2, <1>4, <1>9, <2>1 DEF Late
<1> QED
  BY <1>1, <1>10, <1>11, <1>12

LEMMA SettleKeepsInv ==
  ASSUME ServiceInv, NEW p \in Owners, Settle(p)
  PROVE  ServiceInv'
<1>0. PICK a : a = ActionOf(p)
  OBVIOUS
<1>1. calls[p].pc = "settle" /\ CallOK(p, calls[p])
  BY DEF ServiceInv, Settle, At
<1>2. a \in Actions /\ a = calls[p].action /\ ActionOK(a) /\ ledger[a] \in Row
  BY <1>0, <1>1, ServiceTyped DEF CallOK, ShapeOK, ActionOf, ServiceInv
<1>3. ledger[a].owner # p
  BY <1>1, <1>2, NotOwner DEF Owning
<1>4. /\ SettleWrite(p)
      /\ Done(p, ledger'[a].status) \/ Done(p, "error")
      /\ UNCHANGED <<Rest, now>>
  BY <1>0 DEF Settle, Rest
<1>5. IsOpenUnknown(a) /\ IsUnresolved(a) /\ ledger[a].status = "unknown"
  BY <1>0, <1>4 DEF SettleWrite, ResolveDesired, ResolveConflict, ReconcileOriginal,
     IsOpenUnknown, IsUnresolved, Unresolved
<1>6. LedgerInv'
  BY <1>0, <1>2, <1>4, ResolveKeepsInv, ReconcileOriginalKeepsInv DEF SettleWrite, ServiceInv
<1>7. ledger[a].phase = "mutation_sent" /\ ledger[a].source = "none"
  BY <1>1, <1>2, <1>5, OpenHasNoSource DEF CallOK, OwnOK, Terminal
<1>8. PICK r : /\ ledger' = [ledger EXCEPT ![a] = r]
               /\ r.owner = ledger[a].owner /\ r.phase = ledger[a].phase
               /\ r.lease = ledger[a].lease
               /\ \/ r.status = "unknown"
                  \/ /\ r.status = "reconciled" /\ r.observation = "desired_observed"
                     /\ calls[p].seen = "desired_observed"
                  \/ /\ r.status = "reconciled" /\ r.observation = "not_observed"
                     /\ calls[p].seen = "not_observed" /\ ConfirmedOriginal(a)
  <2>1. CASE calls[p].seen = "desired_observed" /\ ResolveDesired(a)
    <3> DEFINE r == [ledger[a] EXCEPT !.status = "reconciled", !.observation = "desired_observed",
                                      !.source = "automatic", !.completed = TRUE]
    <3>1. ledger' = [ledger EXCEPT ![a] = r]
      BY <2>1 DEF ResolveDesired
    <3>2. /\ r.owner = ledger[a].owner /\ r.phase = ledger[a].phase /\ r.lease = ledger[a].lease
          /\ r.status = "reconciled" /\ r.observation = "desired_observed"
      BY <1>2 DEF Row
    <3> HIDE DEF r
    <3> QED
      BY <2>1, <3>1, <3>2
  <2>2. CASE ResolveConflict(a)
    <3> DEFINE r == [ledger[a] EXCEPT !.observation = "conflict", !.source = "none",
                                      !.completed = FALSE]
    <3>1. ledger' = [ledger EXCEPT ![a] = r]
      BY <2>2 DEF ResolveConflict
    <3>2. /\ r.owner = ledger[a].owner /\ r.phase = ledger[a].phase /\ r.lease = ledger[a].lease
          /\ r.status = "unknown"
      BY <1>2, <1>5 DEF Row
    <3> HIDE DEF r
    <3> QED
      BY <3>1, <3>2
  <2>3. CASE calls[p].seen = "not_observed" /\ ReconcileOriginal(a)
    <3> DEFINE reset == [ledger[a] EXCEPT !.observation = "not_observed", !.firstOriginal = NoTime]
               settle == [ledger[a] EXCEPT !.status = "reconciled",
                                           !.observation = "not_observed",
                                           !.source = "automatic", !.completed = TRUE]
               note(first) == [ledger[a] EXCEPT !.observation = "not_observed",
                                                !.firstOriginal = first]
    <3>1. \/ ledger' = [ledger EXCEPT ![a] = reset]
          \/ ledger' = [ledger EXCEPT ![a] = settle] /\ ConfirmedOriginal(a)
          \/ \E first : ledger' = [ledger EXCEPT ![a] = note(first)]
      BY <2>3 DEF ReconcileOriginal
    <3>2. /\ reset.owner = ledger[a].owner /\ reset.phase = ledger[a].phase
          /\ reset.lease = ledger[a].lease /\ reset.status = "unknown"
      BY <1>2, <1>5 DEF Row
    <3>3. /\ settle.owner = ledger[a].owner /\ settle.phase = ledger[a].phase
          /\ settle.lease = ledger[a].lease /\ settle.status = "reconciled"
          /\ settle.observation = "not_observed"
      BY <1>2 DEF Row
    <3>4. \A first : /\ note(first).owner = ledger[a].owner /\ note(first).phase = ledger[a].phase
                     /\ note(first).lease = ledger[a].lease /\ note(first).status = "unknown"
      BY <1>2, <1>5 DEF Row
    <3> HIDE DEF reset, settle, note
    <3> QED
      BY <2>3, <3>1, <3>2, <3>3, <3>4
  <2> QED
    BY <1>0, <1>4, <2>1, <2>2, <2>3 DEF SettleWrite
<1>9. ledger'[a] = r /\ r \in Row
  BY <1>2, <1>6, <1>8, ServiceTyped DEF LedgerInv, LedgerTypeOK
<1>10. Settles(a, r)
  BY <1>5, <1>7, <1>8 DEF Settles, Terminal
<1>11. Quiet(a) <=> ~Disturbed(LockOf[a])
  BY <1>5 DEF Quiet
<1>12. VerdictFits(a, r)
  <2>1. CASE r.status = "unknown"
    BY <2>1 DEF VerdictFits, NotApplied, AppliedRow, Excluded
  <2>2. CASE r.status = "reconciled" /\ r.observation = "desired_observed"
             /\ calls[p].seen = "desired_observed"
    <3>1. flight[a] = "landed" \/ Disturbed(LockOf[a])
      BY <1>1, <1>2, <1>11, <2>2 DEF CallOK, SeenOK
    <3> QED
      BY <2>2, <3>1 DEF VerdictFits, NotApplied, AppliedRow, Excluded
  <2>3. CASE r.status = "reconciled" /\ r.observation = "not_observed"
             /\ calls[p].seen = "not_observed" /\ ConfirmedOriginal(a)
    <3>1. flight[a] # "sent" /\ (\A q \in Owners : ~MaySend(q, a)) /\ Late(calls[p])
      BY <1>0, <1>1, <1>5, <2>3, ConfirmationIsLate
    <3>2. flight[a] = "landed" => Disturbed(LockOf[a])
      BY <1>1, <1>2, <1>11, <2>3, <3>1 DEF CallOK, SeenOK
    <3> QED
      BY <2>3, <3>1, <3>2 DEF VerdictFits, NotApplied, AppliedRow, Excluded
  <2> QED
    BY <1>8, <2>1, <2>2, <2>3
<1>13. PICK reply \in {r.status, "error"} : Done(p, reply)
  BY <1>4, <1>9
<1>14. /\ reply \in Replies /\ reply # "no_write_sent"
       /\ reply \in Terminal => r.status = reply
  BY <1>8, <1>13 DEF Replies, Unresolved, Terminal
<1>15. calls[p].pc \notin {"idle", "done"}
  BY <1>1
<1> QED
  BY <1>0, <1>3, <1>4, <1>6, <1>8, <1>9, <1>10, <1>12, <1>13, <1>14, <1>15, SettlingEnds

\* An operator's word disturbs the resource; nothing is claimed of it then.
LEMMA ResolveByOperatorKeepsInv ==
  ASSUME ServiceInv, NEW a \in Actions, NEW ob \in {"desired_observed", "not_observed"},
         Resolve(a, ob)
  PROVE  ServiceInv'
<1>1. OperatorResolve(a, ob) /\ UNCHANGED <<Rest, now>> /\ UNCHANGED calls
  BY DEF Resolve, Rest
<1>2. ledger[a] \in Row /\ ledger[a].status = "unknown" /\ RowOK(a, ledger[a])
  BY <1>1, RowsOK, ServiceTyped DEF OperatorResolve, ServiceInv
<1>3. LedgerInv'
  BY <1>1, ResolveKeepsInv DEF ServiceInv
<1>4. PICK r : /\ ledger' = [ledger EXCEPT ![a] = r]
               /\ r = [ledger[a] EXCEPT !.status = "reconciled", !.observation = ob,
                                        !.source = "operator", !.completed = TRUE]
  BY <1>1 DEF OperatorResolve
<1>5. ledger'[a] = r /\ r \in Row
  BY <1>3, <1>4, ServiceTyped DEF LedgerInv, LedgerTypeOK
<1>6. /\ r.status = "reconciled" /\ r.observation = ob /\ r.source = "operator"
      /\ r.owner = ledger[a].owner /\ r.phase = ledger[a].phase /\ r.lease = ledger[a].lease
  BY <1>2, <1>4 DEF Row
<1>7. Settles(a, r)
  BY <1>2, <1>6 DEF Settles, IsUnresolved, Unresolved, Terminal, RowOK, RowConsistent
<1>8. VerdictFits(a, r)
  BY <1>6 DEF VerdictFits, NotApplied, AppliedRow, Excluded
<1>9. ASSUME NEW q \in Owners
      PROVE  CallOK(q, calls[q])'
  <2>1. PICK e : e = calls[q]
    OBVIOUS
  <2>2. CallOK(q, e)'
    BY <1>1, <1>4, <1>7, <1>8, <2>1, SettlingStandsBy
  <2> QED
    BY <1>1, <2>1, <2>2
<1>10. ActionOK(a)'
  BY <1>1, <1>4, <1>7, <1>8, SettlingKeepsAction
<1>11. calls' \in [Owners -> Call] /\ ledger[a].status \notin Terminal
  BY <1>1, <1>2, ServiceTyped DEF Terminal
<1> QED
  BY <1>1, <1>3, <1>4, <1>5, <1>9, <1>10, <1>11, RowMoves

\* A call that is the first to write to a row, or passes its fence, moves the
\* lease; nobody but the owner of the row relies on it.
LEMMA ClaimWinsKeepsInv ==
  ASSUME ServiceInv, NEW p \in Owners, ClaimWins(p)
  PROVE  ServiceInv'
<1>0. PICK a : a = ActionOf(p)
  OBVIOUS
<1>1. calls[p].pc = "claim" /\ CallOK(p, calls[p]) /\ calls[p] \in Call
  BY ServiceTyped DEF ServiceInv, ClaimWins, At
<1>2. /\ a \in Actions /\ a = calls[p].action /\ ActionOK(a) /\ ledger[a] \in Row
      /\ intents[a].issued /\ intents[a].expires \in Nat
  BY <1>0, <1>1, ServiceTyped DEF CallOK, ShapeOK, OwnOK, ActionOf, ServiceInv, Intent
<1>3. \A b \in Actions : ledger[b].owner # p
  BY <1>1, NotOwner DEF Owning
<1>4. /\ ClaimOwned(a, p, intents[a].expires)
      /\ Goto(p, "preflight") \/ Done(p, "error")
      /\ UNCHANGED <<Rest, now>>
  BY <1>0 DEF ClaimWins, Rest
<1>5. LedgerInv'
  BY <1>2, <1>4, ClaimKeepsInv DEF ServiceInv
<1>6. PICK r : /\ ledger' = [ledger EXCEPT ![a] = r]
               /\ r.status = "executing" /\ r.phase = "preflight" /\ r.owner = p
               /\ r.lease = now + PreflightLease /\ r.source = "none"
  <2> DEFINE r == [status |-> "executing", phase |-> "preflight", owner |-> p,
                   lease |-> now + PreflightLease,
                   notAppliedBefore |-> now + PreflightLease + GraceOf[a],
                   intentExpires |-> intents[a].expires, observation |-> "none",
                   firstOriginal |-> NoTime, source |-> "none", completed |-> FALSE]
  <2>1. ledger' = [ledger EXCEPT ![a] = r]
    BY <1>4 DEF ClaimOwned
  <2>2. /\ r.status = "executing" /\ r.phase = "preflight" /\ r.owner = p
        /\ r.lease = now + PreflightLease /\ r.source = "none"
    OBVIOUS
  <2> HIDE DEF r
  <2> QED
    BY <2>1, <2>2
<1>7. ledger'[a] = r /\ r \in Row /\ \A b \in Actions : ledger'[b] = IF b = a THEN r ELSE ledger[b]
  BY <1>2, <1>5, <1>6, ServiceTyped DEF LedgerInv, LedgerTypeOK
<1>8. ledger[a] = AbsentRow /\ ledger[a].status = "absent" /\ ledger[a].owner = NoOwner
      /\ flight[a] = "none"
  BY <1>2, <1>4 DEF ClaimOwned, ActionOK, IntentOK, FlightOK, AbsentRow
<1>9. ActionOK(a)'
  <2>1. now \in Nat /\ PreflightLease \in Nat
    BY ServiceTyped
  <2> QED
    BY <1>2, <1>4, <1>6, <1>7, <1>8, <2>1 DEF ActionOK, IntentOK, FlightOK, TimeOK, VerdictOK,
       ResourceOK, NotApplied, FoundApplied, Rest, upstreamVars
<1>10. \A k \in Locks : Disturbed(k) <=> Disturbed(k)'
  BY <1>4, <1>6, <1>7, <1>8 DEF Disturbed, AbsentRow, Rest, upstreamVars
<1>11. ASSUME NEW q \in Owners, q # p, NEW d, d = calls[q]
       PROVE  CallOK(q, d)'
  <2>1. CallOK(q, d)
    BY <1>11 DEF ServiceInv
  <2>2. /\ d.pc # "idle" => d.action \in Actions
        /\ d.reply # "none" => d.pc # "idle"
    BY <2>1 DEF CallOK, ShapeOK, IdleCall
  <2>3. d.pc \in Owning \cup {"prepare", "observe", "settle"} => d.action # a
    BY <1>8, <2>1 DEF CallOK, OwnOK
  <2>4. OwnOK(q, d)'
    BY <1>4, <1>6, <1>7, <1>11, <2>1, <2>2, <2>3 DEF CallOK, OwnOK, Rest, Owning
  <2>5. ShapeOK(d)' /\ RequestOK(d)' /\ WindowOK(d)'
    BY <1>4, <1>7, <2>1, <2>2, <2>3
       DEF CallOK, ShapeOK, RequestOK, WindowOK, Rest, upstreamVars, Owning
  <2>6. SeenOK(d)'
    <3>1. d.pc \in Owning \cup {"settle"} => (Quiet(d.action)' <=> Quiet(d.action))
      BY <1>7, <1>10, <2>2, <2>3 DEF Quiet, IsUnresolved, Owning
    <3> QED
      BY <1>4, <1>7, <2>1, <2>2, <2>3, <3>1
         DEF CallOK, SeenOK, Late, Rest, upstreamVars, Owning
  <2>7. ReplyOK(q, d)'
    BY <1>4, <1>6, <1>7, <1>8, <1>11, <2>1, <2>2
       DEF CallOK, ReplyOK, Terminal, Rest, upstreamVars
  <2> QED
    BY <2>4, <2>5, <2>6, <2>7 DEF CallOK
<1>12. PICK c \in Call : calls' = [calls EXCEPT ![p] = c] /\ CallOK(p, c)'
  <2>1. CASE Goto(p, "preflight")
    <3> DEFINE c == [calls[p] EXCEPT !.pc = "preflight"]
    <3>1. calls' = [calls EXCEPT ![p] = c]
      BY <2>1 DEF Goto
    <3>2. PICK e : e = c
      OBVIOUS
    <3>3. /\ e \in Call /\ e.pc = "preflight" /\ e.action = a /\ e.reply = calls[p].reply
          /\ e.status = calls[p].status /\ e.seen = calls[p].seen
          /\ e.mayHaveWritten = calls[p].mayHaveWritten
      BY <1>1, <1>2, <3>2 DEF Call
    <3> HIDE DEF c
    <3>4. CallOK(p, e)'
      BY <1>1, <1>2, <1>3, <1>4, <1>6, <1>7, <3>3 DEF CallOK, ShapeOK, OwnOK, RequestOK,
         WindowOK, SeenOK, ReplyOK, Owning, Untried, Terminal, Rest, upstreamVars
    <3> QED
      BY <3>1, <3>2, <3>3, <3>4
  <2>2. CASE Done(p, "error")
    <3>1. PICK e : e = Ended(a, "error")
      OBVIOUS
    <3>2. calls' = [calls EXCEPT ![p] = e]
      BY <1>0, <2>2, <3>1, DoneEnds
    <3>3. e \in Call /\ e.pc = "done" /\ e.action = a /\ e.reply = "error"
      BY <1>2, <3>1, EndedFields DEF Replies
    <3>4. CallOK(p, e)'
      BY <1>2, <1>3, <1>4, <1>6, <1>7, <1>8, <3>3 DEF CallOK, ShapeOK, OwnOK, RequestOK,
         WindowOK, SeenOK, ReplyOK, Owning, Untried, Terminal, Rest, upstreamVars
    <3> QED
      BY <3>2, <3>3, <3>4
  <2> QED
    BY <1>4, <2>1, <2>2
<1>13. ASSUME NEW q \in Owners
       PROVE  CallOK(q, calls[q])'
  <2>1. PICK e : e = calls'[q]
    OBVIOUS
  <2>2. e = IF q = p THEN c ELSE calls[q]
    BY <1>12, <2>1, ServiceTyped
  <2>3. CallOK(q, e)'
    BY <1>11, <1>12, <2>2
  <2> QED
    BY <2>1, <2>3
<1>14. calls' \in [Owners -> Call] /\ ledger[a].status \notin Terminal
  BY <1>8, <1>12, ServiceTyped DEF Terminal
<1> QED
  BY <1>2, <1>4, <1>5, <1>6, <1>7, <1>9, <1>13, <1>14, RowMoves

LEMMA BeginKeepsServiceInv ==
  ASSUME ServiceInv, NEW p \in Owners, Begin(p)
  PROVE  ServiceInv'
<1>0. PICK a : a = ActionOf(p)
  OBVIOUS
<1>1. calls[p].pc = "begin" /\ CallOK(p, calls[p]) /\ calls[p] \in Call
  BY ServiceTyped DEF ServiceInv, Begin, At
<1>2. /\ a \in Actions /\ a = calls[p].action /\ ActionOK(a) /\ ledger[a] \in Row
      /\ ledger[a].owner = p /\ now \in Nat
  BY <1>0, <1>1, ServiceTyped DEF CallOK, ShapeOK, OwnOK, ActionOf, ServiceInv, Owning
<1>3. /\ BeginMutation(a, p)
      /\ \/ calls' = [calls EXCEPT ![p] = [@ EXCEPT !.pc = "send", !.since = now]]
         \/ Done(p, "error")
      /\ UNCHANGED <<Rest, now>>
  BY <1>0 DEF Begin, Rest
<1>4. /\ ledger[a].status = "executing" /\ ledger[a].phase = "preflight"
      /\ now < ledger[a].lease /\ flight[a] = "none" /\ IsUnresolved(a)
  BY <1>2, <1>3 DEF BeginMutation, MayBegin, ActionOK, FlightOK, IsUnresolved, Unresolved
<1>5. LedgerInv'
  BY <1>2, <1>3, BeginKeepsInv DEF ServiceInv
<1>6. PICK r : /\ ledger' = [ledger EXCEPT ![a] = r]
               /\ r.status = "executing" /\ r.phase = "mutation_sent" /\ r.owner = p
               /\ r.lease = now + MutationLease /\ r.source = ledger[a].source
  <2>1. PICK boundary :
          ledger' = [ledger EXCEPT ![a] = [ledger[a] EXCEPT !.phase = "mutation_sent",
                                             !.notAppliedBefore = boundary,
                                             !.lease = now + MutationLease]]
    BY <1>3 DEF BeginMutation
  <2> DEFINE r == [ledger[a] EXCEPT !.phase = "mutation_sent", !.notAppliedBefore = boundary,
                                    !.lease = now + MutationLease]
  <2>2. /\ r.status = "executing" /\ r.phase = "mutation_sent" /\ r.owner = p
        /\ r.lease = now + MutationLease /\ r.source = ledger[a].source
    BY <1>2, <1>4 DEF Row
  <2> HIDE DEF r
  <2> QED
    BY <2>1, <2>2 DEF r
<1>7. ledger'[a] = r /\ r \in Row /\ \A b \in Actions : ledger'[b] = IF b = a THEN r ELSE ledger[b]
  BY <1>2, <1>5, <1>6, ServiceTyped DEF LedgerInv, LedgerTypeOK
<1>8. \A k \in Locks : Disturbed(k) <=> Disturbed(k)'
  BY <1>3, <1>6, <1>7 DEF Disturbed, Rest, upstreamVars
<1>9. LockOf[a] \in Locks /\ MutationLease \in Nat /\ PreflightLease \in Nat
      /\ SendWindow \in Nat /\ revokedAt \in Nat \cup {NoTime} /\ ledger[a].lease \in Nat
  BY <1>2, ServiceTyped DEF Row
<1>10. ActionOK(a)'
  <2>1. Quiet(a)' => world'[LockOf[a]] = intents'[a].original
    BY <1>1, <1>2, <1>3, <1>4, <1>8, <1>9
       DEF CallOK, SeenOK, Quiet, Rest, upstreamVars
  <2>2. revokedAt # NoTime => now < revokedAt + PreflightLease
    BY <1>1, <1>2, <1>4, <1>9 DEF CallOK, WindowOK
  <2>3. TimeOK(a)'
    BY <1>2, <1>3, <1>4, <1>6, <1>7, <1>9, <2>2 DEF TimeOK, FenceTime, Rest, upstreamVars
  <2> QED
    BY <1>2, <1>3, <1>4, <1>6, <1>7, <2>1, <2>3 DEF ActionOK, IntentOK, FlightOK, VerdictOK,
       ResourceOK, NotApplied, FoundApplied, Rest, upstreamVars
<1>11. ASSUME NEW q \in Owners, q # p, NEW d, d = calls[q]
       PROVE  CallOK(q, d)'
  <2>1. CallOK(q, d)
    BY <1>11 DEF ServiceInv
  <2>2. /\ d.pc # "idle" => d.action \in Actions
        /\ d.reply # "none" => d.pc # "idle"
    BY <2>1 DEF CallOK, ShapeOK, IdleCall
  <2>3. d.pc \in Owning \cup {"observe", "settle"} => d.action # a
    BY <1>2, <1>4, <1>11, <2>1 DEF CallOK, OwnOK
  <2>4. OwnOK(q, d)'
    BY <1>2, <1>3, <1>4, <1>6, <1>7, <1>11, <2>1, <2>2, <2>3 DEF CallOK, OwnOK, Rest, Owning
  <2>5. ShapeOK(d)' /\ RequestOK(d)' /\ WindowOK(d)'
    BY <1>3, <1>7, <2>1, <2>2, <2>3
       DEF CallOK, ShapeOK, RequestOK, WindowOK, Rest, upstreamVars, Owning
  <2>6. SeenOK(d)'
    <3>1. d.pc \in Owning \cup {"settle"} => (Quiet(d.action)' <=> Quiet(d.action))
      BY <1>7, <1>8, <2>2, <2>3 DEF Quiet, IsUnresolved, Owning
    <3> QED
      BY <1>3, <1>7, <2>1, <2>2, <2>3, <3>1
         DEF CallOK, SeenOK, Late, Rest, upstreamVars, Owning
  <2>7. ReplyOK(q, d)'
    BY <1>2, <1>3, <1>4, <1>6, <1>7, <1>11, <2>1, <2>2
       DEF CallOK, ReplyOK, Terminal, Rest, upstreamVars
  <2> QED
    BY <2>4, <2>5, <2>6, <2>7 DEF CallOK
<1>12. PICK c \in Call : calls' = [calls EXCEPT ![p] = c] /\ CallOK(p, c)'
  <2>1. CASE calls' = [calls EXCEPT ![p] = [@ EXCEPT !.pc = "send", !.since = now]]
    <3>1. PICK e : e = [calls[p] EXCEPT !.pc = "send", !.since = now]
      OBVIOUS
    <3>2. calls' = [calls EXCEPT ![p] = e]
      BY <2>1, <3>1
    <3>3. /\ e \in Call /\ e.pc = "send" /\ e.action = a /\ e.reply = calls[p].reply
          /\ e.status = calls[p].status /\ e.seen = calls[p].seen /\ e.since = now
          /\ e.mayHaveWritten = calls[p].mayHaveWritten
      BY <1>1, <1>2, <3>1 DEF Call
    <3>4. ShapeOK(e)' /\ OwnOK(p, e)' /\ SeenOK(e)' /\ ReplyOK(p, e)'
      BY <1>1, <1>2, <1>3, <1>6, <1>7, <3>3 DEF CallOK, ShapeOK, OwnOK,
         SeenOK, ReplyOK, Owning, Untried, Terminal, Rest, upstreamVars
    <3>5. RequestOK(e)'
      BY <1>3, <1>4, <1>6, <1>7, <3>3
         DEF RequestOK, Excluded, NotApplied, Rest, upstreamVars
    <3>6. WindowOK(e)'
      BY <1>2, <1>3, <1>6, <1>7, <1>9, <3>3 DEF WindowOK
    <3> QED
      BY <3>2, <3>3, <3>4, <3>5, <3>6 DEF CallOK
  <2>2. CASE Done(p, "error")
    <3>1. PICK e : e = Ended(a, "error")
      OBVIOUS
    <3>2. calls' = [calls EXCEPT ![p] = e]
      BY <1>0, <2>2, <3>1, DoneEnds
    <3>3. e \in Call /\ e.pc = "done" /\ e.action = a /\ e.reply = "error"
      BY <1>2, <3>1, EndedFields DEF Replies
    <3>4. CallOK(p, e)'
      BY <1>1, <1>2, <1>3, <1>4, <1>6, <1>7, <3>3 DEF CallOK, ShapeOK, OwnOK, RequestOK,
         WindowOK, SeenOK, ReplyOK, Owning, Untried, Terminal, Rest, upstreamVars
    <3> QED
      BY <3>2, <3>3, <3>4
  <2> QED
    BY <1>3, <2>1, <2>2
<1>13. ASSUME NEW q \in Owners
       PROVE  CallOK(q, calls[q])'
  <2>1. PICK e : e = calls'[q]
    OBVIOUS
  <2>2. e = IF q = p THEN c ELSE calls[q]
    BY <1>12, <2>1, ServiceTyped
  <2>3. CallOK(q, e)'
    BY <1>11, <1>12, <2>2
  <2> QED
    BY <2>1, <2>3
<1>14. calls' \in [Owners -> Call] /\ ledger[a].status \notin Terminal
  BY <1>4, <1>12, ServiceTyped DEF Terminal
<1> QED
  BY <1>2, <1>3, <1>5, <1>6, <1>7, <1>10, <1>13, <1>14, RowMoves

-----------------------------------------------------------------------------
(***************************************************************************)
(* The invariant, and what follows from it.                                *)
(***************************************************************************)
LEMMA ServiceStepsKeepInv ==
  ASSUME ServiceInv, [ServiceNext]_serviceVars
  PROVE  ServiceInv'
<1>1. ASSUME NEW p \in Owners, CallNext(p)
      PROVE  ServiceInv'
  <2>1. CASE \E a \in Actions : StartApply(p, a) \/ RefuseApply(p, a) \/ StartReconcile(p, a)
    BY <2>1, StartApplyKeepsInv, RefuseApplyKeepsInv, StartReconcileKeepsInv
  <2>2. CASE Authorize(p)
    BY <2>2, AuthorizeKeepsInv
  <2>3. CASE ClaimWins(p)
    BY <2>3, ClaimWinsKeepsInv
  <2>4. CASE ClaimLoses(p)
    BY <2>4, ClaimLosesKeepsInv
  <2>5. CASE StoreFails(p)
    BY <2>5, StoreFailsKeepsInv
  <2>6. CASE Preflight(p)
    BY <2>6, PreflightKeepsInv
  <2>7. CASE Begin(p)
    BY <2>7, BeginKeepsServiceInv
  <2>8. CASE BeginRefused(p)
    BY <2>8, BeginRefusedKeepsInv
  <2>9. CASE Send(p)
    BY <2>9, SendKeepsInv
  <2>10. CASE Response(p)
    BY <2>10, ResponseKeepsInv
  <2>11. CASE Readback(p)
    BY <2>11, ReadbackKeepsInv
  <2>12. CASE FinishCall(p)
    BY <2>12, FinishCallKeepsInv
  <2>13. CASE FinishFails(p)
    BY <2>13, FinishFailsKeepsInv
  <2>14. CASE PrepareTakesOver(p)
    BY <2>14, PrepareTakesOverKeepsInv
  <2>15. CASE PrepareReads(p)
    BY <2>15, PrepareReadsKeepsInv
  <2>16. CASE Observe(p)
    BY <2>16, ObserveKeepsInv
  <2>17. CASE Settle(p)
    BY <2>17, SettleKeepsInv
  <2>18. CASE SettleIdle(p)
    BY <2>18, SettleIdleKeepsInv
  <2> QED
    BY <1>1, <2>1, <2>2, <2>3, <2>4, <2>5, <2>6, <2>7, <2>8, <2>9, <2>10, <2>11, <2>12,
       <2>13, <2>14, <2>15, <2>16, <2>17, <2>18 DEF CallNext
<1>2. CASE EnvironmentNext
  BY <1>2, PreviewKeepsInv, ArrivalKeepsInv, ResolveByOperatorKeepsInv, EditKeepsInv,
     RevokeKeepsInv, PassKeepsInv DEF EnvironmentNext
<1>3. CASE UNCHANGED serviceVars
  <2>1. UNCHANGED <<Rest, ledgerVars>> /\ UNCHANGED calls
    BY <1>3 DEF serviceVars, Rest, upstreamVars, ledgerVars
  <2>2. ServiceTypeOK'
    BY <2>1 DEF ServiceInv, ServiceTypeOK, LedgerTypeOK, Rest, upstreamVars, ledgerVars
  <2>3. LedgerInv'
    BY <2>1, LedgerStays DEF ServiceInv
  <2>4. ASSUME NEW q \in Owners
        PROVE  CallOK(q, calls[q])'
    <3>1. PICK e : e = calls[q]
      OBVIOUS
    <3>2. CallOK(q, e)'
      BY <2>1, <3>1, CallStays DEF ServiceInv
    <3> QED
      BY <2>1, <3>1, <3>2
  <2> QED
    BY <2>1, <2>2, <2>3, <2>4, ActionStays DEF ServiceInv
<1> QED
  BY <1>1, <1>2, <1>3 DEF ServiceNext

\* The inductive invariant holds in every reachable state.
THEOREM ServiceInvariance == ServiceSpec => []ServiceInv
BY Initially, ServiceStepsKeepInv, PTL DEF ServiceSpec

\* Every variable keeps to its type.
THEOREM ServiceTypes == ServiceSpec => []ServiceTypeOK
<1>1. ServiceInv => ServiceTypeOK
  BY DEF ServiceInv
<1> QED
  BY <1>1, ServiceInvariance, PTL

\* However often apply is called for an action, and whatever happens to the
\* calls, one mutation is sent for it at most.
THEOREM OneSend == ServiceSpec => []AtMostOneSend
<1>1. ServiceInv => AtMostOneSend
  <2> SUFFICES ASSUME ServiceInv, NEW a \in Actions PROVE sends[a] <= 1
    BY DEF AtMostOneSend
  <2>1. sends[a] = 0 \/ sends[a] = 1
    BY DEF ServiceInv, ActionOK, FlightOK
  <2> QED
    BY <2>1
<1> QED
  BY <1>1, ServiceInvariance, PTL

\* A recorded failure, "not applied" or success is true of Greenhouse.
THEOREM StatusesHold == ServiceSpec => []StatusesAreTrue
<1>1. ServiceInv => StatusesAreTrue
  <2> SUFFICES ASSUME ServiceInv PROVE StatusesAreTrue
    OBVIOUS
  <2>1. ASSUME NEW a \in Actions, Excluded(ledger[a])
        PROVE  ~CanStillLand(a)
    <3>1. ActionOK(a)
      BY DEF ServiceInv
    <3>2. \A p \in Owners : ~MaySend(p, a)
      BY <2>1 DEF ServiceInv, CallOK, RequestOK, MaySend, ActionOf
    <3> QED
      BY <2>1, <3>1, <3>2 DEF CanStillLand, ActionOK, VerdictOK, Excluded
  <2> QED
    BY <2>1 DEF ServiceInv, ActionOK, VerdictOK, Excluded, NotApplied, StatusesAreTrue,
       FailedNeverLands, NotAppliedIsFinal, SuccessHasLanded
<1> QED
  BY <1>1, ServiceInvariance, PTL

\* What apply answers stays true.
THEOREM RepliesHold == ServiceSpec => []RepliesAreHonest
<1>1. ServiceInv => RepliesAreHonest
  BY DEF ServiceInv, CallOK, ReplyOK, RepliesAreHonest, RowOf, ActionOf
<1> QED
  BY <1>1, ServiceInvariance, PTL

\* After a revocation no mutation passes its fence but within one lease.
THEOREM RevocationBounds == ServiceSpec => []RevocationBoundsSends
<1>1. ServiceInv => RevocationBoundsSends
  BY DEF ServiceInv, ActionOK, TimeOK, RevocationBoundsSends
<1> QED
  BY <1>1, ServiceInvariance, PTL

\* Two mutations on one resource nobody disturbed are never both under way.
THEOREM WritesSerialize == ServiceSpec => []WritesAreSerialized
<1>1. ServiceInv => WritesAreSerialized
  <2> SUFFICES ASSUME ServiceInv PROVE WritesAreSerialized
    OBVIOUS
  <2>1. ASSUME NEW a \in Actions, CanStillLand(a), ~Disturbed(LockOf[a])
        PROVE  IsUnresolved(a)
    <3>1. CASE flight[a] = "sent"
      BY <2>1, <3>1, SentIsOpen
    <3>2. ASSUME NEW p \in Owners, MaySend(p, a)
          PROVE  IsUnresolved(a)
      <4>1. CallOK(p, calls[p]) /\ calls[p].pc = "send" /\ calls[p].action = a
        BY <3>2 DEF ServiceInv, MaySend, ActionOf
      <4>2. /\ ledger[a].owner = p /\ flight[a] = "none"
            /\ ~Excluded(ledger[a])
        BY <4>1 DEF CallOK, OwnOK, RequestOK, Owning
      <4>3. ActionOK(a) /\ RowOK(a, ledger[a])
        BY RowsOK DEF ServiceInv
      <4>4. ledger[a].source # "operator"
        BY <2>1 DEF Disturbed
      <4>5. ledger[a].status # "absent"
        BY <4>2, <4>3 DEF ActionOK, IntentOK, AbsentRow
      <4> QED
        BY <2>1, <4>2, <4>3, <4>4, <4>5 DEF ActionOK, VerdictOK, NotApplied, FoundApplied,
           Excluded, RowOK, Row, RowConsistent, IsUnresolved, Unresolved, Terminal
    <3> QED
      BY <2>1, <3>1, <3>2 DEF CanStillLand
  <2> QED
    BY <2>1 DEF WritesAreSerialized, ServiceInv, LedgerInv, OneUnresolvedPerLock
<1> QED
  BY <1>1, ServiceInvariance, PTL

-----------------------------------------------------------------------------
(***************************************************************************)
(* What the service implements: the ledger, whose functions it calls with  *)
(* arguments the ledger was proved for, and the promise.                   *)
(***************************************************************************)
StepKind ==
    \/ UNCHANGED <<ledgerVars, flight>>
    \/ Tick /\ UNCHANGED flight
    \/ UNCHANGED <<flight, now>> /\ \E a \in Actions : LedgerWrite(a)
    \/ UNCHANGED ledgerVars /\ \E p \in Owners : Send(p)
    \/ UNCHANGED ledgerVars /\ \E a \in Actions : Land(a) \/ Lose(a)

LEMMA StepKinds ==
  ASSUME ServiceInv, [ServiceNext]_serviceVars
  PROVE  StepKind
<1>1. ASSUME NEW p \in Owners, CallNext(p)
      PROVE  StepKind
  <2>1. CallOK(p, calls[p])
    BY DEF ServiceInv
  <2>2. calls[p].pc # "idle" => ActionOf(p) \in Actions
    BY <2>1 DEF CallOK, ShapeOK, ActionOf
  <2>3. CASE ClaimWins(p)
    <3>1. PICK a, expiry : /\ a = ActionOf(p) /\ expiry = intents[a].expires
                           /\ ClaimOwned(a, p, expiry)
      BY <2>3 DEF ClaimWins
    <3>2. a \in Actions
      BY <2>2, <2>3, <3>1 DEF ClaimWins, At
    <3>3. expiry \in Nat /\ now \in Nat /\ MaxIntentWindow \in Nat
      BY <3>1, <3>2, ServiceTyped DEF Intent
    <3>4. expiry - now \in 1..MaxIntentWindow /\ now + (expiry - now) = expiry
      BY <3>1, <3>3 DEF ClaimOwned, ClaimWindowOpen
    <3>5. \E d \in 1..MaxIntentWindow : ClaimOwned(a, p, now + d)
      BY <3>1, <3>4
    <3> QED
      BY <2>3, <3>2, <3>5 DEF ClaimWins, LedgerWrite, upstreamVars, StepKind
  <2>4. CASE Begin(p)
    BY <2>2, <2>4 DEF Begin, At, LedgerWrite, upstreamVars, StepKind
  <2>5. CASE FinishCall(p)
    <3>1. PICK a, out : /\ a = ActionOf(p) /\ out = <<calls[p].status, calls[p].seen>>
      OBVIOUS
    <3>2. out \in Outcomes /\ a \in Actions
      BY <2>1, <2>2, <2>5, <3>1 DEF FinishCall, At, CallOK, ShapeOK
    <3>3. Finish(a, p, out[1], out[2])
      BY <2>5, <3>1 DEF FinishCall
    <3> QED
      BY <2>5, <3>2, <3>3 DEF FinishCall, LedgerWrite, upstreamVars, StepKind
  <2>6. CASE PrepareTakesOver(p)
    BY <2>2, <2>6 DEF PrepareTakesOver, At, LedgerWrite, upstreamVars, StepKind
  <2>7. CASE Settle(p)
    BY <2>2, <2>7 DEF Settle, SettleWrite, At, LedgerWrite, upstreamVars, StepKind
  <2>8. CASE Send(p)
    BY <2>8 DEF Send, StepKind
  <2>9. CASE \/ \E a \in Actions : StartApply(p, a) \/ RefuseApply(p, a) \/ StartReconcile(p, a)
             \/ Authorize(p) \/ ClaimLoses(p) \/ StoreFails(p) \/ Preflight(p)
    BY <2>9 DEF StartApply, RefuseApply, StartReconcile, Authorize, ClaimLoses, StoreFails,
       Preflight, upstreamVars, StepKind
  <2>10. CASE \/ BeginRefused(p) \/ Response(p) \/ Readback(p) \/ FinishFails(p)
              \/ PrepareReads(p) \/ Observe(p) \/ SettleIdle(p)
    BY <2>10 DEF BeginRefused, Response, Readback, FinishFails, PrepareReads, Observe,
       SettleIdle, upstreamVars, StepKind
  <2> QED
    BY <1>1, <2>3, <2>4, <2>5, <2>6, <2>7, <2>8, <2>9, <2>10 DEF CallNext
<1>2. CASE EnvironmentNext
  <2>1. CASE \E a \in Actions : Land(a) \/ Lose(a)
    BY <2>1 DEF Land, Lose, StepKind
  <2>2. CASE \E a \in Actions, ob \in {"desired_observed", "not_observed"} : Resolve(a, ob)
    BY <2>2 DEF Resolve, LedgerWrite, upstreamVars, StepKind
  <2>3. CASE Pass
    BY <2>3 DEF Pass, upstreamVars, StepKind
  <2>4. CASE \/ \E a \in Actions : Preview(a)
             \/ \E k \in Locks, v \in Values : Edit(k, v)
             \/ Revoke
    BY <2>4 DEF Preview, Edit, Revoke, upstreamVars, StepKind
  <2> QED
    BY <1>2, <2>1, <2>2, <2>3, <2>4 DEF EnvironmentNext
<1>3. CASE UNCHANGED serviceVars
  BY <1>3 DEF serviceVars, ledgerVars, StepKind
<1> QED
  BY <1>1, <1>2, <1>3 DEF ServiceNext

\* Every call of the service is a call the ledger allows, so whatever holds of
\* the ledger alone, outcomes that stay and conflicts that are quarantined
\* among it, holds of the ledger the service uses.
THEOREM ServiceUsesLedger == ServiceSpec => LedgerSpec
<1>1. ServiceInit => LedgerInit
  BY DEF ServiceInit
<1>2. ServiceInv /\ [ServiceNext]_serviceVars => [LedgerNext]_ledgerVars
  BY StepKinds DEF StepKind, LedgerNext, ledgerVars
<1> QED
  BY <1>1, <1>2, ServiceInvariance, PTL DEF ServiceSpec, LedgerSpec

\* A row is opened when its resource has no open row, and once it was given a
\* verdict it keeps it.
LEMMA RowHistory ==
  ASSUME LedgerInv, NEW a \in Actions, LedgerWrite(a)
  PROVE  \E r : /\ ledger' = [ledger EXCEPT ![a] = r]
                /\ ledger[a].status = "absent" =>
                      r.status = "executing" /\ LockFree(LockOf[a])
                /\ ledger[a].status \notin Terminal
                /\ r.status # "absent"
<1>1. ledger[a] \in Row
  BY DEF LedgerInv, LedgerTypeOK
<1>2. \E r : ledger' = [ledger EXCEPT ![a] = r]
  BY DEF LedgerWrite, ClaimOwned, BeginMutation, Finish,
     TakeOver, ReconcileOriginal, ResolveDesired, ResolveConflict, OperatorResolve
<1>3. ledger[a].status \notin Terminal
  BY DEF LedgerWrite, ClaimOwned, BeginMutation, MayBegin, Finish, MayFinish,
     TakeOver, LeaseExpired, ReconcileOriginal, ResolveDesired, ResolveConflict,
     IsOpenUnknown, OperatorResolve, Terminal
<1>4. CASE ledger[a].status = "absent"
  <2>1. \E o \in Owners, d \in 1..MaxIntentWindow : ClaimOwned(a, o, now + d)
    BY <1>4 DEF LedgerWrite, BeginMutation, MayBegin, Finish, MayFinish,
       TakeOver, LeaseExpired, ReconcileOriginal, ResolveDesired, ResolveConflict,
       IsOpenUnknown, OperatorResolve
  <2>2. ledger'[a].status = "executing" /\ LockFree(LockOf[a])
    BY <2>1 DEF ClaimOwned, LedgerInv, LedgerTypeOK
  <2>3. PICK r : ledger' = [ledger EXCEPT ![a] = r]
    BY <1>2
  <2>4. ledger'[a] = r
    BY <2>3 DEF LedgerInv, LedgerTypeOK
  <2> QED
    BY <1>3, <2>2, <2>3, <2>4
<1>5. CASE ledger[a].status # "absent"
  <2>1. ledger'[a].status # "absent"
    <3>1. ASSUME NEW out \in Outcomes
          PROVE  out[1] # "absent"
      BY DEF Outcomes
    <3>2. /\ \A r : ledger' = [ledger EXCEPT ![a] = r] => ledger'[a] = r
          /\ \A o \in Owners : \A e : ~ClaimOwned(a, o, e)
      BY <1>5 DEF ClaimOwned, LedgerInv, LedgerTypeOK
    <3>3. CASE \E o \in Owners : BeginMutation(a, o)
      BY <1>1, <3>2, <3>3 DEF BeginMutation, MayBegin, Row
    <3>4. ASSUME NEW o \in Owners, NEW out \in Outcomes, Finish(a, o, out[1], out[2])
          PROVE  ledger'[a].status # "absent"
      <4>1. PICK source, completed :
              ledger' = [ledger EXCEPT ![a] =
                 [ledger[a] EXCEPT !.status = out[1], !.observation = out[2],
                                   !.source = source, !.completed = completed]]
        BY <3>4 DEF Finish
      <4>2. ledger'[a].status = out[1]
        <5> DEFINE q == [ledger[a] EXCEPT !.status = out[1], !.observation = out[2],
                                          !.source = source, !.completed = completed]
        <5>1. q.status = out[1]
          BY <1>1 DEF Row
        <5> HIDE DEF q
        <5> QED
          BY <3>2, <4>1, <5>1 DEF q
      <4> QED
        BY <3>1, <4>2
    <3>5. CASE TakeOver(a)
      <4>1. \/ ledger' = [ledger EXCEPT ![a] = [ledger[a] EXCEPT !.status = "failed",
                                                                !.completed = TRUE]]
            \/ ledger' = [ledger EXCEPT ![a] = [ledger[a] EXCEPT !.status = "unknown",
                                                                !.completed = FALSE]]
        BY <3>5 DEF TakeOver
      <4> QED
        BY <1>1, <3>2, <4>1 DEF Row
    <3>6. CASE ReconcileOriginal(a)
      BY <1>1, <1>5, <3>2, <3>6 DEF ReconcileOriginal, Row
    <3>7. CASE ResolveDesired(a) \/ ResolveConflict(a)
      BY <1>1, <1>5, <3>2, <3>7 DEF ResolveDesired, ResolveConflict, Row
    <3>8. CASE \E ob \in {"desired_observed", "not_observed"} : OperatorResolve(a, ob)
      BY <1>1, <3>2, <3>8 DEF OperatorResolve, Row
    <3> QED
      BY <3>2, <3>3, <3>4, <3>5, <3>6, <3>7, <3>8 DEF LedgerWrite
  <2>2. PICK r : ledger' = [ledger EXCEPT ![a] = r]
    BY <1>2
  <2>3. ledger'[a] = r
    BY <2>2 DEF LedgerInv, LedgerTypeOK
  <2> QED
    BY <1>3, <1>5, <2>1, <2>2, <2>3
<1> QED
  BY <1>4, <1>5

\* The service keeps the promise: each step of each call, of Greenhouse and of
\* an operator opens an action, requests or lands its effect, judges it, or
\* changes neither.
THEOREM PromiseKept == ServiceSpec => KeepsPromise
<1> DEFINE verdicts == [a \in Actions |-> VerdictOf(ledger[a])]
<1>1. ServiceInit => Promise!PromiseInit
  <2> SUFFICES ASSUME ServiceInit PROVE Promise!PromiseInit
    OBVIOUS
  <2>1. \A a \in Actions : VerdictOf(ledger[a]) = "new"
    <3>1. \A a \in Actions : ledger[a].status = "absent"
      BY DEF ServiceInit, LedgerInit, AbsentRow
    <3> QED
      BY <3>1 DEF VerdictOf, Unresolved
  <2>2. flight = [a \in Actions |-> "none"]
    BY DEF ServiceInit
  <2> QED
    BY <2>1, <2>2 DEF Promise!PromiseInit
<1>2. ASSUME ServiceInv, ServiceInv', [ServiceNext]_serviceVars
      PROVE  [Promise!PromiseNext]_(Promise!promiseVars)
  <2>1. CASE UNCHANGED <<ledger, flight>>
    BY <2>1 DEF Promise!promiseVars
  <2>2. ASSUME NEW a \in Actions, LedgerWrite(a), UNCHANGED flight
        PROVE  [Promise!PromiseNext]_(Promise!promiseVars)
    <3>1. PICK r : /\ ledger' = [ledger EXCEPT ![a] = r]
                   /\ ledger[a].status = "absent" =>
                         r.status = "executing" /\ LockFree(LockOf[a])
                   /\ ledger[a].status \notin Terminal
                   /\ r.status # "absent"
      BY <1>2, <2>2, RowHistory DEF ServiceInv
    <3>2. \A b \in Actions : ledger'[b] = IF b = a THEN r ELSE ledger[b]
      BY <1>2, <3>1, ServiceTyped
    <3>3. r \in Row /\ ledger[a] \in Row
      BY <1>2, <3>2, ServiceTyped DEF ServiceInv, ServiceTypeOK, LedgerTypeOK
    <3>4. verdicts' = [verdicts EXCEPT ![a] = VerdictOf(r)]
      BY <3>2
    <3>5. CASE ledger[a].status = "absent"
      <4>1. verdicts[a] = "new" /\ VerdictOf(r) = "open"
        BY <3>1, <3>5 DEF VerdictOf, Unresolved
      <4>2. \A b \in Actions : LockOf[b] = LockOf[a] => verdicts[b] # "open"
        BY <3>1, <3>5 DEF LockFree, IsUnresolved, VerdictOf
      <4>3. Promise!Open(a)
        BY <2>2, <3>4, <4>1, <4>2 DEF Promise!Open
      <4> QED
        BY <4>3 DEF Promise!PromiseNext
    <3>6. CASE ledger[a].status # "absent"
      <4>1. verdicts[a] = "open"
        BY <3>1, <3>3, <3>6 DEF Row, Unresolved, VerdictOf
      <4>2. CASE r.status \in Unresolved
        <5>1. VerdictOf(r) = "open"
          BY <4>2 DEF VerdictOf, Unresolved
        <5>2. verdicts' = verdicts
          BY <3>4, <4>1, <5>1
        <5> QED
          BY <2>2, <5>2 DEF Promise!promiseVars
      <4>3. CASE r.status \notin Unresolved
        <5>1. r.status \in Terminal
          BY <3>1, <3>3, <4>3 DEF Row
        <5>2. VerdictOK(a)' /\ RowOK(a, r)'
          <6>1. RowOK(a, ledger[a])'
            BY <1>2 DEF ServiceInv, LedgerInv, LedgerTypeOK, ChecksHold, GraceIsKept,
               NotAppliedIsConfirmed, RowOK, GraceHolds, ConfirmationHolds
          <6> QED
            BY <1>2, <3>2, <6>1 DEF ServiceInv, ActionOK
        <5>3. /\ VerdictOf(r) \in Promise!Verdicts
              /\ VerdictOf(r) = "failed" => r.status = "failed"
              /\ VerdictOf(r) = "not_applied" => NotApplied(r)
          BY <3>3, <5>1, <5>2 DEF VerdictOf, NotApplied, RowOK, RowConsistent, Row, Terminal,
             Unresolved, Promise!Verdicts, Promise!Excluding
        <5>4. /\ r.status = "failed" => flight[a] \in {"none", "lost"}
              /\ NotApplied(r) => flight[a] # "sent"
          BY <2>2, <3>2, <5>2 DEF VerdictOK
        <5>5. Promise!Judge(a, VerdictOf(r))
          BY <2>2, <3>4, <4>1, <5>3, <5>4 DEF Promise!Judge
        <5> QED
          BY <5>3, <5>5 DEF Promise!PromiseNext
      <4> QED
        BY <4>2, <4>3
    <3> QED
      BY <3>5, <3>6
  <2>3. ASSUME UNCHANGED ledger, NEW a \in Actions, ~Excluded(ledger[a]),
               ledger[a].status # "absent",
               \/ flight[a] = "none" /\ flight' = [flight EXCEPT ![a] = "sent"]
               \/ /\ flight[a] = "sent"
                  /\ \E e \in {"landed", "lost"} : flight' = [flight EXCEPT ![a] = e]
        PROVE  Promise!PromiseNext
    <3>1. verdicts' = verdicts
      BY <2>3
    <3>2. ledger[a] \in Row /\ RowOK(a, ledger[a])
      BY <1>2, RowsOK, ServiceTyped DEF ServiceInv
    <3>3. verdicts[a] \notin {"new"} \cup Promise!Excluding
      BY <2>3, <3>2 DEF VerdictOf, Excluded, NotApplied, RowOK, RowConsistent, Row, Unresolved,
         Terminal, Promise!Excluding
    <3> QED
      BY <2>3, <3>1, <3>3 DEF Promise!PromiseNext, Promise!Request, Promise!TakeEffect
  <2>4. ASSUME UNCHANGED ledgerVars, NEW p \in Owners, Send(p)
        PROVE  [Promise!PromiseNext]_(Promise!promiseVars)
    <3>1. CallOK(p, calls[p]) /\ calls[p].pc = "send" /\ ActionOf(p) = calls[p].action
      BY <1>2, <2>4 DEF ServiceInv, Send, At, ActionOf
    <3>2. /\ ActionOf(p) \in Actions /\ ledger[ActionOf(p)].owner = p
          /\ flight[ActionOf(p)] = "none" /\ ~Excluded(ledger[ActionOf(p)])
      BY <3>1 DEF CallOK, ShapeOK, OwnOK, RequestOK, Owning
    <3>3. ledger[ActionOf(p)].status # "absent"
      BY <1>2, <3>2 DEF ServiceInv, ActionOK, IntentOK, AbsentRow
    <3>4. UNCHANGED flight \/ flight' = [flight EXCEPT ![ActionOf(p)] = "sent"]
      BY <2>4 DEF Send, upstreamVars
    <3> QED
      BY <2>1, <2>3, <2>4, <3>2, <3>3, <3>4 DEF ledgerVars
  <2>5. ASSUME UNCHANGED ledgerVars, NEW a \in Actions, Land(a) \/ Lose(a)
        PROVE  [Promise!PromiseNext]_(Promise!promiseVars)
    <3>1. flight[a] = "sent" /\ \E e \in {"landed", "lost"} : flight' = [flight EXCEPT ![a] = e]
      BY <2>5 DEF Land, Lose
    <3>2. ActionOK(a)
      BY <1>2 DEF ServiceInv
    <3>3. ~Excluded(ledger[a]) /\ ledger[a].status # "absent"
      BY <3>1, <3>2 DEF ActionOK, VerdictOK, IntentOK, FlightOK, AbsentRow, Excluded
    <3> QED
      BY <2>3, <2>5, <3>1, <3>3 DEF ledgerVars
  <2> QED
    BY <1>2, <2>1, <2>2, <2>4, <2>5, StepKinds DEF StepKind, ledgerVars, Tick
<1> QED
  BY <1>1, <1>2, ServiceInvariance, PTL DEF ServiceSpec, KeepsPromise, Promise!PromiseSpec

=============================================================================
