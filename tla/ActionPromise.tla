----------------------------- MODULE ActionPromise -----------------------------
(***************************************************************************)
(* What applying an approved action promises, without leases, replays,     *)
(* reconcilers or lost responses.  An action is opened once its resource   *)
(* has no other open action, its effect is requested at most once, and its *)
(* verdict is given once.  The verdicts "failed" and "not_applied" exclude *)
(* any later effect; "applied" and "ruled" (an operator's word) rest on    *)
(* what was seen in Greenhouse and do not.                                 *)
(***************************************************************************)
CONSTANTS Actions, Locks, LockOf

VARIABLES
    verdict,   \* "new", "open", or the verdict on each action
    effect     \* "none", "sent", "landed" or "lost": its request upstream

promiseVars == <<verdict, effect>>

Excluding == {"failed", "not_applied"}
Verdicts == Excluding \cup {"applied", "ruled"}

PromiseInit ==
    /\ verdict = [a \in Actions |-> "new"]
    /\ effect = [a \in Actions |-> "none"]

Open(a) ==
    /\ verdict[a] = "new"
    /\ \A b \in Actions : LockOf[b] = LockOf[a] => verdict[b] # "open"
    /\ verdict' = [verdict EXCEPT ![a] = "open"]
    /\ UNCHANGED effect

Request(a) ==
    /\ verdict[a] \notin {"new"} \cup Excluding
    /\ effect[a] = "none"
    /\ effect' = [effect EXCEPT ![a] = "sent"]
    /\ UNCHANGED verdict

TakeEffect(a) ==
    /\ verdict[a] \notin Excluding
    /\ effect[a] = "sent"
    /\ \E e \in {"landed", "lost"} : effect' = [effect EXCEPT ![a] = e]
    /\ UNCHANGED verdict

Judge(a, v) ==
    /\ verdict[a] = "open"
    /\ v = "failed" => effect[a] \in {"none", "lost"}
    /\ v = "not_applied" => effect[a] # "sent"
    /\ verdict' = [verdict EXCEPT ![a] = v]
    /\ UNCHANGED effect

PromiseNext ==
    \E a \in Actions :
        \/ Open(a) \/ Request(a) \/ TakeEffect(a)
        \/ \E v \in Verdicts : Judge(a, v)

PromiseSpec == PromiseInit /\ [][PromiseNext]_promiseVars
=============================================================================
