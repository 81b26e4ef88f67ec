---------------------------- MODULE RecoveryQueue ----------------------------
(***************************************************************************)
(* Does every open action get settled?  Passes of the reconciler, run one  *)
(* after another (reconcileRecoverableActions of service.ts), over rows    *)
(* whose owners finish, stall or die.                                      *)
(*                                                                         *)
(* A pass lists at most Limit rows, executing ones first and the longest   *)
(* untouched first, and ends at the first store call that fails.  A row it *)
(* cannot decide must make room for the rows behind it: every write of the *)
(* ledger sets updated_at, which is here the place of the row in `order`.  *)
(*                                                                         *)
(* Time is relative, so that behaviours are infinite without a bound: a    *)
(* row holds the time left to its lease and to its boundary, and the time  *)
(* since its first original observation, up to ConfirmGap.  Actions are on *)
(* resources of their own; intents do not expire while their claim lasts.  *)
(* ActionService models the races on one row, among them a repeated        *)
(* confirmation, which does to its row what a pass does and is left out    *)
(* here; ActionLedger models the functions.                                *)
(***************************************************************************)
EXTENDS Integers, Sequences, FiniteSets
LOCAL INSTANCE SequencesExt

CONSTANTS
    Actions,         \* action ids, each on a resource of its own
    Limit,           \* rows a pass lists: 100 in the code
    PreflightLease, MutationLease, Grace, ConfirmGap

QueueAssumption ==
    /\ IsFiniteSet(Actions)
    /\ Limit \in Nat \ {0}
    /\ PreflightLease \in Nat \ {0}
    /\ MutationLease \in Nat \ {0}
    /\ Grace \in Nat
    /\ ConfirmGap \in Nat

VARIABLES
    row,     \* the ledger
    order,   \* the open actions, longest untouched first
    todo,    \* what the pass has left of its list, the row at hand first
    step,    \* of the pass: "idle", "prepare", "observe" or "settle"
    seen,    \* what it observed for the row at hand
    deaf     \* actions Greenhouse never answers for (the resource is gone)

vars == <<row, order, todo, step, seen, deaf>>
pass == <<todo, step, seen>>

Never == -1
Terminal == {"succeeded", "failed", "reconciled"}

Row == [status : {"absent", "executing", "unknown"} \cup Terminal,
        sent : BOOLEAN,             \* phase = mutation_sent
        conflict : BOOLEAN,         \* observation = conflict
        lease : Nat,                \* time left
        boundary : Nat,             \* time left to not_applied_before
        first : Nat \cup {Never}]   \* time since first_original_observation_at

AbsentRow == [status |-> "absent", sent |-> FALSE, conflict |-> FALSE,
              lease |-> 0, boundary |-> 0, first |-> Never]

Init ==
    /\ row = [a \in Actions |-> AbsentRow]
    /\ order = <<>>
    /\ todo = <<>> /\ step = "idle" /\ seen = "none"
    /\ deaf \in SUBSET Actions

IsLive(a) == row[a].status = "executing" /\ row[a].lease > 0
IsStale(a) == row[a].status = "executing" /\ row[a].lease = 0
IsOpenUnknown(a) == row[a].status = "unknown" /\ ~row[a].conflict

(* A function of the ledger writes the row of a: updated_at is now.  The   *)
(* order of settled rows matters to nobody.                                *)
Write(a, r) ==
    /\ row' = [row EXCEPT ![a] = r]
    /\ order' = Remove(order, a) \o (IF r.status \in Terminal THEN <<>> ELSE <<a>>)

-----------------------------------------------------------------------------
(* The owner: claims, passes the fence, finishes, or dies in between.      *)

Claim(a) ==
    /\ row[a].status = "absent"
    /\ Write(a, [AbsentRow EXCEPT !.status = "executing", !.lease = PreflightLease,
                                  !.boundary = PreflightLease + Grace])
    /\ UNCHANGED <<pass, deaf>>

Begin(a) ==
    /\ IsLive(a) /\ ~row[a].sent
    /\ Write(a, [row[a] EXCEPT !.sent = TRUE, !.lease = MutationLease,
                               !.boundary = MutationLease + @ - row[a].lease])
    /\ UNCHANGED <<pass, deaf>>

Finish(a) ==
    /\ IsLive(a)
    /\ \/ Write(a, [row[a] EXCEPT !.status = "failed"])
       \/ row[a].sent /\ \E s \in {"succeeded", "reconciled"} :
                           Write(a, [row[a] EXCEPT !.status = s])
       \/ row[a].sent /\ \E conflict \in BOOLEAN :
                           Write(a, [row[a] EXCEPT !.status = "unknown", !.conflict = conflict])
    /\ UNCHANGED <<pass, deaf>>

(* An operator settles an unknown action, quarantined or not. *)
OperatorResolve(a) ==
    /\ row[a].status = "unknown"
    /\ Write(a, [row[a] EXCEPT !.status = "reconciled"])
    /\ UNCHANGED <<pass, deaf>>

-----------------------------------------------------------------------------
(* listRecoverableActions: status.asc puts executing before unknown.       *)

IsExecuting(a) == row[a].status = "executing"

FirstRows(rows) == SubSeq(rows, 1, IF Len(rows) < Limit THEN Len(rows) ELSE Limit)

(* Plausible bug: status.desc. *)
UnknownFirst == FirstRows(SelectSeq(order, IsOpenUnknown) \o SelectSeq(order, IsExecuting))

Recoverable == FirstRows(SelectSeq(order, IsExecuting) \o SelectSeq(order, IsOpenUnknown))

StartPass ==
    /\ step = "idle"
    /\ Recoverable # <<>>
    /\ todo' = Recoverable
    /\ step' = "prepare"
    /\ seen' = "none"
    /\ UNCHANGED <<row, order, deaf>>

Rest == todo' = Tail(todo) /\ step' = IF Tail(todo) = <<>> THEN "idle" ELSE "prepare"
StopPass == todo' = <<>> /\ step' = "idle"
AtHand(a, s) == step = s /\ Head(todo) = a

(* A store call fails: the error leaves the loop, the pass is over. *)
PassFails ==
    /\ step # "idle"
    /\ StopPass
    /\ seen' = "none"
    /\ UNCHANGED <<row, order, deaf>>

(* prepare_greenhouse_action_reconciliation, on a claim that ran out.  The *)
(* call may commit and fail for the caller.                                *)
PrepareTakesOver(a) ==
    /\ AtHand(a, "prepare")
    /\ IsStale(a)
    /\ Write(a, [row[a] EXCEPT !.status = IF row[a].sent THEN "unknown" ELSE "failed"])
    /\ \/ row[a].sent /\ step' = "observe" /\ UNCHANGED todo
       \/ ~row[a].sent /\ Rest
       \/ StopPass
    /\ UNCHANGED <<seen, deaf>>

(* ... and on any other row, which may have changed since it was listed.   *)
PrepareReads(a) ==
    /\ AtHand(a, "prepare")
    /\ ~IsStale(a)
    /\ IF IsOpenUnknown(a) THEN step' = "observe" /\ UNCHANGED todo ELSE Rest
    /\ UNCHANGED <<row, order, seen, deaf>>

Observations == {"desired_observed", "not_observed", "conflict"}

(* observeWithDelays: Greenhouse answers, whatever the resource shows now, *)
(* or it does not.                                                         *)
Answers(a) == IF a \in deaf THEN {"unavailable"} ELSE Observations

Observe(a) ==
    /\ AtHand(a, "observe")
    /\ seen' \in Answers(a) \cup {"unavailable"}
    /\ step' = "settle"
    /\ UNCHANGED <<row, order, todo, deaf>>

(* reconcile_greenhouse_action_original_observation *)
AfterOriginal(r) ==
    IF r.boundary > 0 THEN [r EXCEPT !.first = Never]
    ELSE IF r.first = ConfirmGap THEN [r EXCEPT !.status = "reconciled"]
    ELSE IF r.first = Never THEN [r EXCEPT !.first = 0]
    ELSE r

(* defer_greenhouse_action_unknown writes nothing but updated_at. *)
Defer(a) == Write(a, row[a])

SettleWrite(a) ==
    CASE seen = "desired_observed" -> Write(a, [row[a] EXCEPT !.status = "reconciled"])
      [] seen = "conflict" -> Write(a, [row[a] EXCEPT !.conflict = TRUE])
      [] seen = "not_observed" -> Write(a, AfterOriginal(row[a]))
      [] OTHER -> Defer(a)

(* The row may have been settled since it was observed: then nothing is    *)
(* written.  The call may commit and fail for the caller.                  *)
Settle(a) ==
    /\ AtHand(a, "settle")
    /\ IF IsOpenUnknown(a) THEN SettleWrite(a) ELSE UNCHANGED <<row, order>>
    /\ Rest \/ StopPass
    /\ seen' = "none"
    /\ UNCHANGED deaf

-----------------------------------------------------------------------------
Less(n) == IF n > 0 THEN n - 1 ELSE n

Tick ==
    /\ row' = [a \in Actions |->
                 [row[a] EXCEPT !.lease = Less(@), !.boundary = Less(@),
                                !.first = IF @ \in 0..(ConfirmGap - 1) THEN @ + 1 ELSE @]]
    /\ UNCHANGED <<order, pass, deaf>>

PassStep ==
    \/ StartPass \/ PassFails
    \/ \E a \in Actions :
         PrepareTakesOver(a) \/ PrepareReads(a) \/ Observe(a) \/ Settle(a)

Next ==
    \/ \E a \in Actions : Claim(a) \/ Begin(a) \/ Finish(a) \/ OperatorResolve(a)
    \/ PassStep
    \/ Tick

(* The steps a store or Greenhouse that is asked for ever takes some time. *)
ObserveAnswered(a) == Observe(a) /\ seen' \in Answers(a)
SettleAnswered(a) == Settle(a) /\ seen \in Answers(a)

Spec == Init /\ [][Next]_vars

-----------------------------------------------------------------------------
(* Types; only a claim that passed the fence is unknown; the queue is the  *)
(* set of open actions, each in one place (the functions of the ledger).   *)
TypeOK ==
    /\ row \in [Actions -> Row]
    /\ \A a \in Actions : row[a].status = "unknown" => row[a].sent
    /\ IsInjective(order)
    /\ ToSet(order) = {a \in Actions : row[a].status \in {"executing", "unknown"}}
    /\ ToSet(todo) \subseteq Actions /\ Len(todo) <= Limit
    /\ step \in {"idle", "prepare", "observe", "settle"}
    /\ step = "idle" <=> todo = <<>>
    /\ seen \in Observations \cup {"none", "unavailable"}
    /\ deaf \subseteq Actions

(* Every action that Greenhouse can answer for is settled or quarantined   *)
(* in the end, however many rows that cannot be decided were in front of   *)
(* it, whichever owners died, and wherever passes broke off.               *)
Decided(a) == row[a].status \in Terminal \/ row[a].conflict

MustBeDecided(a) == row[a].status # "absent" /\ a \notin deaf
=============================================================================
