---------------------------- MODULE MCActionService ----------------------------
(***************************************************************************)
(* Instances of ActionLedger, alone, and of ActionService.  Every deadline *)
(* is scaled down, in the order the code has them; SendWindow, LandWindow  *)
(* and ObserveWindow are as long together as TimingAssumption admits, and  *)
(* the lease of MCService may run out between the fence and the request.   *)
(***************************************************************************)
EXTENDS ActionService, TLC

CONSTANTS a1, a2, p1, p2, k1, plain, other, d1

OneLock == {k1}
MCLockOf == [a \in Actions |-> k1]
TwoCalls == {p1, p2}
CallSymmetry == Permutations(Owners)
MCDesiredOf == [a \in Actions |-> d1]

-----------------------------------------------------------------------------
(* The ledger alone: its functions may be called in any order, by anyone.  *)
(* Two actions on one resource (rows on different resources do not touch), *)
(* with different graces; an intent can outlive or undercut the lease, and *)
(* the clock runs past the second confirming observation.                  *)
TwoActions == {a1, a2}
TwoGraces == (a1 :> 1) @@ (a2 :> 3)
OneState == {plain, d1}

LedgerAlone ==
    /\ ServiceInit
    /\ [][LedgerNext /\ UNCHANGED <<calls, intents, upstreamVars, revokedAt>>]_serviceVars

-----------------------------------------------------------------------------
(* The service: one action, and a resource that others may edit.           *)
OneAction == {a1}
ShortGraceOf == [a \in Actions |-> 2]
Edited == {plain, other, d1}
=============================================================================
