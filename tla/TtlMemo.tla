------------------------------- MODULE TtlMemo -------------------------------
(***************************************************************************)
(* createTtlMemo of packages/recruiter-mcp/src/ttl-memo.ts: the cache in   *)
(* front of the permission lookup, the attestation lookup and the action   *)
(* entitlement lookup.  Concurrent calls for a key share one load, the     *)
(* load is aborted when its last subscriber leaves, a failed load is       *)
(* forgotten, a value lives Ttl at most and its own expiry if shorter.     *)
(*                                                                         *)
(* One key: entries of different keys share nothing but the Map.  Every    *)
(* call is made once; an entry is named after the call that created it.    *)
(* The load is anything its caller passes: it settles in the end (each has *)
(* a timeout), and it may ignore that it was aborted.  JavaScript runs to  *)
(* completion, so a step is one synchronous stretch: a call, the handler   *)
(* of the load, the callback of one subscriber, one abort event.           *)
(***************************************************************************)
EXTENDS Integers, FiniteSets

CONSTANTS
    Calls,    \* calls of the memoized function, each made once
    NoEntry,  \* the cache holds nothing for the key
    Ttl,      \* ttlMs; at 0 the memo is the load itself and there is no state
    OwnExpiries, \* times deriveExpiryMs may return, past or future
    MaxTime   \* bound of the clock

MemoAssumption ==
    /\ IsFiniteSet(Calls)
    /\ NoEntry \notin Calls
    /\ Ttl \in Nat \ {0}
    /\ OwnExpiries \subseteq Nat
    /\ MaxTime \in Nat

VARIABLES
    clock,    \* config.now()
    cached,   \* cache.get(key): the entry a call finds, or NoEntry
    entry,    \* entry[c]: the MemoEntry call c created, and the load behind it
    call      \* call[c]: where call c is, and the entry it subscribed to

vars == <<clock, cached, entry, call>>

Entry ==
    [load : {"none", "running", "resolved", "rejected"},
     aborted : BOOLEAN,
     subscribers : 0..Cardinality(Calls),
     startedAt : 0..MaxTime,
     expiresAt : 0..(MaxTime + Ttl),
     ownExpiry : Nat]

Call ==
    [state : {"idle", "waiting", "answered", "failed", "cancelled"},
     on : Calls \union {NoEntry},
     at : 0..MaxTime,
     hit : BOOLEAN]

NoLoad ==
    [load |-> "none", aborted |-> FALSE, subscribers |-> 0,
     startedAt |-> 0, expiresAt |-> 0, ownExpiry |-> 0]

Init ==
    /\ clock = 0
    /\ cached = NoEntry
    /\ entry = [c \in Calls |-> NoLoad]
    /\ call = [c \in Calls |->
                 [state |-> "idle", on |-> NoEntry, at |-> 0, hit |-> FALSE]]

Settled(e) == entry[e].load \in {"resolved", "rejected"}
Waiting(c) == call[c].state = "waiting"
WaitsOn(c, e) == Waiting(c) /\ call[c].on = e

-----------------------------------------------------------------------------
(* A call.  `if (!entry || entry.expiresAt <= now())` *)

Live == cached # NoEntry /\ clock < entry[cached].expiresAt

Subscribed(c, e) ==
    [call EXCEPT ![c] = [state |-> "waiting", on |-> e, at |-> clock,
                         hit |-> (e # c /\ Settled(e))]]

NewEntry ==
    [load |-> "running", aborted |-> FALSE, subscribers |-> 1,
     startedAt |-> clock, expiresAt |-> clock + Ttl, ownExpiry |-> clock + Ttl]

(* signal?.throwIfAborted(): the caller had gone before it asked. *)
CallRefused(c) ==
    /\ call[c].state = "idle"
    /\ call' = [call EXCEPT ![c].state = "cancelled"]
    /\ UNCHANGED <<clock, cached, entry>>

CallJoins(c) ==
    /\ call[c].state = "idle"
    /\ Live
    /\ entry' = [entry EXCEPT ![cached].subscribers = @ + 1]
    /\ call' = Subscribed(c, cached)
    /\ UNCHANGED <<clock, cached>>

CallLoads(c) ==
    /\ call[c].state = "idle"
    /\ ~Live
    /\ entry' = [entry EXCEPT ![c] = NewEntry]
    /\ cached' = c
    /\ call' = Subscribed(c, c)
    /\ UNCHANGED clock

-----------------------------------------------------------------------------
(* The load settles. *)

Earlier(s, t) == IF s < t THEN s ELSE t

(* The hook can only shorten the life of the entry; without a hook, or     *)
(* without an expiry in the value, the entry keeps the one it has.         *)
LoadResolves(e) ==
    /\ entry[e].load = "running"
    /\ \E own \in OwnExpiries \union {entry[e].expiresAt} :
         entry' = [entry EXCEPT ![e].load = "resolved",
                                ![e].ownExpiry = own,
                                ![e].expiresAt = Earlier(@, own)]
    /\ UNCHANGED <<clock, cached, call>>

RejectEvictsAny(e) ==
    /\ entry[e].load = "running"
    /\ entry' = [entry EXCEPT ![e].load = "rejected"]
    /\ cached' = NoEntry
    /\ UNCHANGED <<clock, call>>

(* The entry is evicted, unless a later call has replaced it already. *)
LoadRejects(e) ==
    /\ entry[e].load = "running"
    /\ entry' = [entry EXCEPT ![e].load = "rejected"]
    /\ cached' = IF cached = e THEN NoEntry ELSE cached
    /\ UNCHANGED <<clock, call>>

-----------------------------------------------------------------------------
(* A subscriber leaves: release(), which runs once per subscriber. *)

LastOne(e) == entry[e].subscribers = 1 /\ ~Settled(e)

Released(e) ==
    [entry EXCEPT ![e].subscribers = @ - 1,
                  ![e].aborted = @ \/ LastOne(e)]

(* Plausible bug: the second callback of entry.value.then is missing. *)
DeliverValuesOnly(c) ==
    /\ Waiting(c)
    /\ entry[call[c].on].load = "resolved"
    /\ entry' = Released(call[c].on)
    /\ call' = [call EXCEPT ![c].state = "answered"]
    /\ UNCHANGED <<clock, cached>>

(* entry.value.then(...): the subscriber receives the value or the error. *)
Deliver(c) ==
    /\ Waiting(c)
    /\ Settled(call[c].on)
    /\ entry' = Released(call[c].on)
    /\ call' = [call EXCEPT ![c].state =
                  IF entry[call[c].on].load = "resolved" THEN "answered" ELSE "failed"]
    /\ UNCHANGED <<clock, cached>>

(* onAbort: the signal of the caller fires while it waits. *)
Abort(c) ==
    /\ Waiting(c)
    /\ entry' = Released(call[c].on)
    /\ call' = [call EXCEPT ![c].state = "cancelled"]
    /\ UNCHANGED <<clock, cached>>

Tick ==
    /\ clock < MaxTime
    /\ clock' = clock + 1
    /\ UNCHANGED <<cached, entry, call>>

Next ==
    \/ \E c \in Calls : CallRefused(c) \/ CallJoins(c) \/ CallLoads(c)
    \/ \E e \in Calls : LoadResolves(e) \/ LoadRejects(e)
    \/ \E c \in Calls : Deliver(c) \/ Abort(c)
    \/ Tick

Spec == Init /\ [][Next]_vars

-----------------------------------------------------------------------------
(* Every variable has its type; a reference count stays between nobody and *)
(* everybody (release() of subscribeToMemoEntry).                          *)
TypeOK ==
    /\ clock \in 0..MaxTime
    /\ cached \in Calls \union {NoEntry}
    /\ entry \in [Calls -> Entry]
    /\ call \in [Calls -> Call]

(* The reference count of an entry is the number of calls that wait on it, *)
(* whatever the order of aborts and answers (subscribeToMemoEntry).        *)
SubscribersAreCounted ==
    \A e \in Calls : entry[e].subscribers = Cardinality({c \in Calls : WaitsOn(c, e)})

(* A load is aborted only by a step that leaves nobody waiting on it: one  *)
(* caller that goes does not cancel the load of those who stay.            *)
OnlyTheLastCancels ==
    \A e \in Calls :
      ~entry[e].aborted /\ entry'[e].aborted => \A c \in Calls : ~WaitsOn(c, e)'

(* A load nobody waits for has been told to stop.                          *)
AbandonedLoadsAreCancelled ==
    \A e \in Calls :
      entry[e].load = "running" /\ (\A c \in Calls : ~WaitsOn(c, e)) => entry[e].aborted

(* Single flight: two loads of the key run at the same time only when the  *)
(* older has run for longer than its Ttl; a rejected load must not evict   *)
(* the entry that replaced it.                                             *)
SingleFlight ==
    \A e, f \in Calls :
      /\ entry[e].load = "running" /\ clock < entry[e].expiresAt
      /\ entry[f].load = "running" /\ clock < entry[f].expiresAt
      => e = f

(* Evict on failure: a call fails with a load that was still running when  *)
(* the call was made, never with the error of an earlier one.              *)
FailuresAreNotRemembered ==
    \A c \in Calls : call[c].state = "failed" => ~call[c].hit

(* An answer comes from a load younger than Ttl when the call was made,    *)
(* and a value found in the cache had not outlived its own expiry.         *)
AnswersAreFresh ==
    \A c \in Calls : call[c].state = "answered" =>
      LET e == entry[call[c].on] IN
      /\ call[c].at < e.startedAt + Ttl
      /\ call[c].hit => call[c].at < e.ownExpiry

(* The comment at the top of ttl-memo.ts: one caller abandoning the shared *)
(* load must not cancel another's.  A call that never aborted does not     *)
(* fail with a load that was aborted.                                      *)
NobodyElseCancels ==
    \A c \in Calls : call[c].state = "failed" => ~entry[call[c].on].aborted
=============================================================================
