----------------------------- MODULE AuditTrail -----------------------------
(***************************************************************************)
(* The retained audit trail (recruiter-mcp/src/audit.ts, audit-gcs.ts) and *)
(* its two readers: the health digest of a timer (audit-summary.ts) and    *)
(* the review of the store (audit-review.ts).                              *)
(*                                                                         *)
(* A row carries two times: `at', which the tool runtime stamps when the   *)
(* call starts or ends, and the time in its object's name, which the sink  *)
(* reads later, when it saves the row.  Saving can fail, and can fail      *)
(* after the row was kept: the SDK's retry of a create-only save answers   *)
(* 412.  A digest selects by both times on the object store, by `at' alone *)
(* in the JSONL files.                                                     *)
(***************************************************************************)
EXTENDS Integers, FiniteSets

CONSTANTS Calls,
          Interval,   \* intervalMs of the digest timer
          MonthLength,\* of the month directories
          Horizon     \* bound: the last instant

AuditTrailAssumption ==
    Interval \in Nat \ {0} /\ MonthLength \in Nat \ {0} /\ Horizon \in Nat

Times == 0..Horizon

VARIABLES
    backend,  \* "gcs" or "jsonl", from the environment
    kind,     \* a call of a read tool or of an action tool
    now,
    pc,       \* where each call is
    at,       \* the stamp of the row the call is about to retain
    name,     \* the time in the name of the object it is saving
    rows,     \* the trail
    due,      \* when the timer fires next
    ticks,    \* the digests that are being read, by their nowMs
    digests   \* the digests that were posted

vars == <<backend, kind, now, pc, at, name, rows, due, ticks, digests>>
calls == <<pc, at, name, rows>>
timer == <<due, ticks, digests>>
config == <<backend, kind>>

Rows == [call : Calls, stage : {"start", "terminal"}, at : Times, name : Times]
Phases == {"idle", "starting", "saving start", "running", "ending",
           "saving terminal", "answered", "denied", "withheld", "dead"}

Init ==
    /\ backend \in {"gcs", "jsonl"}
    /\ kind \in [Calls -> {"read", "action"}]
    /\ now = 0
    /\ pc = [c \in Calls |-> "idle"]
    /\ at = [c \in Calls |-> 0] /\ name = [c \in Calls |-> 0]
    /\ rows = {}
    /\ due = Interval
    /\ ticks = {} /\ digests = {}

Go(c, phase) == pc' = [pc EXCEPT ![c] = phase]

-----------------------------------------------------------------------------
(* A read tool announces itself; an action tool does not.                  *)
Start(c) ==
    /\ pc[c] = "idle"
    /\ Go(c, IF kind[c] = "read" THEN "starting" ELSE "running")
    /\ at' = [at EXCEPT ![c] = now]
    /\ UNCHANGED <<config, now, name, rows, timer>>

End(c) ==
    /\ pc[c] = "running"
    /\ Go(c, "ending")
    /\ at' = [at EXCEPT ![c] = now]
    /\ UNCHANGED <<config, now, name, rows, timer>>

(* The sink reads its own clock for the name.                              *)
Emit(c) ==
    /\ \/ pc[c] = "starting" /\ Go(c, "saving start")
       \/ pc[c] = "ending" /\ Go(c, "saving terminal")
    /\ name' = [name EXCEPT ![c] = now]
    /\ UNCHANGED <<config, now, at, rows, timer>>

Row(c) == [call |-> c, at |-> at[c], name |-> name[c],
           stage |-> IF pc[c] = "saving start" THEN "start" ELSE "terminal"]

Closed(c) == IF pc[c] = "saving start" THEN "denied" ELSE "withheld"

Saved(c) ==
    /\ pc[c] \in {"saving start", "saving terminal"}
    /\ rows' = rows \cup {Row(c)}
    /\ Go(c, IF pc[c] = "saving start" THEN "running" ELSE "answered")
    /\ UNCHANGED <<config, now, at, name, timer>>

(* The save fails, with or without the row kept.                           *)
SaveFails(c) ==
    /\ pc[c] \in {"saving start", "saving terminal"}
    /\ rows' \in {rows, rows \cup {Row(c)}}
    /\ Go(c, Closed(c))
    /\ UNCHANGED <<config, now, at, name, timer>>

(* A process ends with the calls in it.                                    *)
Crash ==
    /\ \E c \in Calls : pc[c] \in {"starting", "saving start", "running",
                                   "ending", "saving terminal"}
    /\ pc' = [c \in Calls |-> IF pc[c] \in {"idle", "answered", "denied", "withheld"}
                              THEN pc[c] ELSE "dead"]
    /\ ticks' = {} /\ due' = now + Interval
    /\ UNCHANGED <<config, now, at, name, rows, digests>>

-----------------------------------------------------------------------------

(* The timer counts from when it fired last, late as it may have been.     *)
TimerFires ==
    /\ due <= now
    /\ ticks' = ticks \cup {now}
    /\ due' = now + Interval
    /\ UNCHANGED <<config, now, calls, digests>>

Month(t) == t \div MonthLength

(* utcMonthDirsInRange: the window ends before `to'.                       *)
MonthsOf(from, to) == {m \in 0..Month(Horizon) : Month(from) <= m /\ m <= Month(to - 1)}

Within(t, from, to) == from <= t /\ t < to

(* What a read with a window fetches.                                      *)
Fetched(trail, from, to) ==
    IF backend = "jsonl" THEN trail
    ELSE {r \in trail : Month(r.name) \in MonthsOf(from, to) /\ Within(r.name, from, to)}

(* buildAuditSummary.                                                      *)
Summary(fetched, from, to) ==
    {r \in fetched : r.stage = "terminal" /\ Within(r.at, from, to)}

Post(t) ==
    /\ t \in ticks
    /\ ticks' = ticks \ {t}
    /\ LET from == t - Interval IN
       digests' = digests \cup {[from |-> from, to |-> t, retained |-> rows,
                                 counted |-> Summary(Fetched(rows, from, t), from, t)]}
    /\ UNCHANGED <<config, now, calls, due>>

(* A failing tick is logged and forgotten.                                 *)
TickFails(t) ==
    /\ t \in ticks
    /\ ticks' = ticks \ {t}
    /\ UNCHANGED <<config, now, calls, due, digests>>

Pass == now < Horizon /\ now' = now + 1 /\ UNCHANGED <<config, calls, timer>>

Next ==
    \/ \E c \in Calls : Start(c) \/ End(c) \/ Emit(c) \/ Saved(c) \/ SaveFails(c)
    \/ Crash
    \/ TimerFires
    \/ \E t \in ticks : Post(t) \/ TickFails(t)
    \/ Pass

Spec == Init /\ [][Next]_vars

-----------------------------------------------------------------------------
(* The review.  It pairs rows by their call.                               *)
StartsOf(trail) == {r.call : r \in {q \in trail : q.stage = "start"}}
TerminalsOf(trail) == {r.call : r \in {q \in trail : q.stage = "terminal"}}
orphanTerminals(trail) == TerminalsOf(trail) \ StartsOf(trail)
unmatchedV2Starts(trail) == StartsOf(trail) \ TerminalsOf(trail)

-----------------------------------------------------------------------------
(* Types, and that no digest lies in the future.                           *)
TypeOK ==
    /\ now \in Times
    /\ pc \in [Calls -> Phases]
    /\ at \in [Calls -> Times] /\ name \in [Calls -> Times]
    /\ rows \subseteq Rows
    /\ due \in Nat /\ ticks \subseteq Times
    /\ \A d \in digests : d.counted \subseteq d.retained /\ d.to <= now

(* Whatever fails, a call of a read tool that ended in the trail began in  *)
(* it: the start row is retained, or the call is denied before it reads.   *)
ReadsArePaired == \A c \in orphanTerminals(rows) : kind[c] = "action"

(* A start row without its end tells of a call that gave no data: one that *)
(* runs still, was denied or withheld, or died with its process.           *)
UnmatchedStartsGaveNothing ==
    \A c \in unmatchedV2Starts(rows) : pc[c] # "answered"

(* No call is counted by two digests, late timers and overlapping ticks    *)
(* included.                                                               *)
NeverCountedTwice ==
    \A d, e \in digests : d # e => d.counted \cap e.counted = {}

(* A digest misses no row that was retained when it read, and was stamped  *)
(* and named inside its window, across months too.                         *)
NothingInsideIsMissed ==
    \A d \in digests : \A r \in d.retained :
        (r.stage = "terminal" /\ d.from <= r.at /\ r.at < d.to
                              /\ d.from <= r.name /\ r.name < d.to) => r \in d.counted
=============================================================================
