--------------------------- MODULE ComponentProofs ---------------------------
(***************************************************************************)
(* Theorems about the small machines of the system: the memo, the read     *)
(* cache, the Harvest client, the rate limiter, the tool runtime, the      *)
(* audit trail, paged reads, the base read server, the control plane, the  *)
(* resume parser, the HTTP lifecycle, the provisioning command and the     *)
(* action gateway.  Each is an instance of its module, its constants and   *)
(* variables being those of the same names here (where two modules use one *)
(* name for different things, a renaming), and every theorem is about one  *)
(* of them, under the assumption its module makes of its constants:        *)
(* nothing is said of two machines together, and a variable two of them    *)
(* have in name means in each theorem that machine's.                      *)
(*                                                                         *)
(* An instance has its own copy of the operators its module extends        *)
(* (Cache!Cardinality): the lemmas ...Counts say that they are the ones    *)
(* the library's theorems speak of.                                        *)
(***************************************************************************)
EXTENDS Integers, Sequences, FiniteSets, FiniteSetTheorems, SequenceTheorems,
        WellFoundedInduction, TLAPS

CONSTANTS
    Reads, Tokens, None, MaxRetries, MaxRevocations, Readers, Keys,
    Attachments, TTL, MaxEntries, Horizon, Calls, Interval, MonthLength, Mcp,
    Oauth, Grace, Settle, KillAt, Terms, Interrupts, Runs, Disables, Roster,
    MaxParsers, MaxRedirects, Budget, Origins, Paths, ScopedCalls,
    AnalysisCalls, ActionCalls, Jobs, ToolMs, AnalysisMs, MaxReads, Unknown,
    All, Cursors, First, MaxPages, Environments, ParseInt, ToolCalls, Offers,
    StatusOf, UpdatedAt, CreatedAt, SignIns, WindowMs, MaxCalls,
    MaxAnalysisCalls, MaxRotations, Mutations, ListPages, MaxLosses, NoEntry,
    Ttl, OwnExpiries, MaxTime

VARIABLES
    cachedToken, inFlightToken, mint, active, revoked, pc, attempt,
    authRefreshes, timeoutRetries, token, refused, gets, now, order, entry,
    inflight, key, answer, backend, kind, at, name, rows, due, ticks,
    digests, phase, conn, aborted, shutdown, since, clock, sent, pending,
    listeners, proc, dropped, late, manifest, staged, bearers, run, off,
    landed, strays, allowed, url, refreshed, visited, spent, timer, deaf,
    swollen, out, elapsed, left, known, orphans, pages, scope, context, next,
    start, expired, cursor, seen, read, unresolved, status, env, asked,
    actor, failed, live, parts, offers, lines, reply, tokenId, bucket,
    refusedNow, cache, inFlight, losses, retried, executed, cached, call

-----------------------------------------------------------------------------
(***************************************************************************)
(* The memo.  Safety rests on one invariant, MemoInv: what an entry that   *)
(* the cache or a call still points to must look like.                     *)
(***************************************************************************)
Memo == INSTANCE TtlMemo

Waiters(e) == {c \in Calls : Memo!WaitsOn(c, e)}

(* An entry: the cache never holds a failed one, and a load that runs      *)
(* within its Ttl is the one it holds; times are what NewEntry made them.  *)
EntryOK ==
    /\ cached # NoEntry => entry[cached].load \in {"running", "resolved"}
    /\ \A e \in Calls :
         /\ entry[e].load = "running" /\ clock < entry[e].expiresAt => cached = e
         /\ entry[e].load # "none" =>
              /\ entry[e].startedAt <= clock
              /\ entry[e].expiresAt <= entry[e].startedAt + Ttl
         /\ entry[e].load = "running" =>
              entry[e].expiresAt = entry[e].startedAt + Ttl
         /\ entry[e].load = "resolved" => entry[e].expiresAt <= entry[e].ownExpiry

(* A call: it subscribed, to a load that there is, in time; what it found  *)
(* settled is a value that had not expired; how it ended is how the load   *)
(* did.  Only a call that was made has an entry of its name.               *)
CallOK ==
    \A c \in Calls :
      LET e == call[c].on IN
      /\ call[c].state = "idle" => e = NoEntry /\ ~call[c].hit
                                   /\ entry[c].load = "none"
      /\ call[c].state \in {"waiting", "answered", "failed"} =>
           /\ e \in Calls
           /\ entry[e].load # "none"
           /\ call[c].at < entry[e].startedAt + Ttl
      /\ call[c].hit => /\ e \in Calls
                        /\ entry[e].load = "resolved"
                        /\ call[c].at < entry[e].ownExpiry
      /\ call[c].state = "answered" => entry[e].load = "resolved"
      /\ call[c].state = "failed" => entry[e].load = "rejected"

MemoInv ==
    /\ Memo!TypeOK
    /\ Memo!SubscribersAreCounted
    /\ Memo!AbandonedLoadsAreCancelled
    /\ EntryOK
    /\ CallOK

(* The instance counts the way this module does.                           *)
LEMMA MemoCounts ==
    ASSUME NEW S
    PROVE  Memo!Cardinality(S) = Cardinality(S) /\ (Memo!IsFiniteSet(S) <=> IsFiniteSet(S))
  BY DEF Cardinality, Memo!Cardinality, IsFiniteSet, Memo!IsFiniteSet

(* A set of calls is finite, and there are no more of them than calls.     *)
LEMMA CallsAreFinite ==
    ASSUME Memo!MemoAssumption, NEW S \in SUBSET Calls
    PROVE  /\ Memo!IsFiniteSet(S)
           /\ Memo!Cardinality(S) \in 0..Memo!Cardinality(Calls)
<1>1. Memo!IsFiniteSet(S) /\ Memo!Cardinality(S) <= Memo!Cardinality(Calls)
  BY MemoCounts, FS_Subset DEF Memo!MemoAssumption
<1>2. Memo!Cardinality(S) \in Nat /\ Memo!Cardinality(Calls) \in Nat
  BY <1>1, MemoCounts, FS_CardinalityType DEF Memo!MemoAssumption
<1> QED
  BY <1>1, <1>2

(* The count as a cardinality of Waiters, which SubscribersAreCounted says.*)
LEMMA CountOfWaiters ==
    ASSUME Memo!SubscribersAreCounted, NEW e \in Calls
    PROVE  entry[e].subscribers = Memo!Cardinality(Waiters(e))
BY DEF Memo!SubscribersAreCounted, Waiters

(* The initial state.                                                      *)
LEMMA MemoStarts ==
    ASSUME Memo!MemoAssumption
    PROVE  Memo!Init => MemoInv
<1> SUFFICES ASSUME Memo!Init PROVE MemoInv
  OBVIOUS
<1> USE DEF Memo!MemoAssumption
<1>1. \A e \in Calls : Waiters(e) = {} /\ entry[e] = Memo!NoLoad
  BY DEF Memo!Init, Waiters, Memo!WaitsOn, Memo!Waiting
<1>2. Memo!Cardinality({}) = 0 /\ Memo!Cardinality(Calls) \in Nat
  BY MemoCounts, FS_EmptySet, FS_CardinalityType
<1>3. Memo!TypeOK
  BY <1>2 DEF Memo!Init, Memo!TypeOK, Memo!Entry, Memo!Call, Memo!NoLoad
<1>4. Memo!SubscribersAreCounted
  BY <1>1, <1>2 DEF Memo!SubscribersAreCounted, Waiters, Memo!NoLoad
<1>5. Memo!AbandonedLoadsAreCancelled /\ EntryOK /\ CallOK
  BY <1>1 DEF Memo!Init, Memo!AbandonedLoadsAreCancelled, EntryOK, CallOK, Memo!NoLoad
<1> QED
  BY <1>3, <1>4, <1>5 DEF MemoInv

(* The typed step: an entry and a call change in one place, to something   *)
(* of their type; who waits on what follows.                               *)
LEMMA OneCallMoves ==
    ASSUME Memo!TypeOK, NEW c \in Calls, NEW r \in Memo!Call, call' = [call EXCEPT ![c] = r]
    PROVE  /\ call' \in [Calls -> Memo!Call]
           /\ \A d \in Calls : call'[d] = IF d = c THEN r ELSE call[d]
           /\ \A e \in Calls :
                Waiters(e)' = IF r.state = "waiting" /\ r.on = e
                              THEN Waiters(e) \union {c} ELSE Waiters(e) \ {c}
<1>1. call' \in [Calls -> Memo!Call]
  BY DEF Memo!TypeOK
<1>2. \A d \in Calls : call'[d] = IF d = c THEN r ELSE call[d]
  BY DEF Memo!TypeOK
<1> QED
  BY <1>1, <1>2 DEF Waiters, Memo!WaitsOn, Memo!Waiting

LEMMA OneEntryMoves ==
    ASSUME Memo!TypeOK, NEW e \in Calls, NEW r \in Memo!Entry, entry' = [entry EXCEPT ![e] = r]
    PROVE  /\ entry' \in [Calls -> Memo!Entry]
           /\ \A f \in Calls : entry'[f] = IF f = e THEN r ELSE entry[f]
BY DEF Memo!TypeOK

(* CallRefused.                                                            *)
LEMMA CallRefusedKeeps ==
    ASSUME Memo!MemoAssumption, MemoInv, NEW c \in Calls, Memo!CallRefused(c)
    PROVE  MemoInv'
<1> DEFINE r == [call[c] EXCEPT !.state = "cancelled"]
<1>1. r \in Memo!Call /\ r.state = "cancelled" /\ r.on = call[c].on /\ r.hit = call[c].hit
      /\ r.at = call[c].at /\ call' = [call EXCEPT ![c] = r]
  BY DEF MemoInv, Memo!TypeOK, Memo!Call, Memo!CallRefused
<1> HIDE DEF r
<1>2. /\ call' \in [Calls -> Memo!Call]
      /\ \A d \in Calls : call'[d] = IF d = c THEN r ELSE call[d]
      /\ \A e \in Calls : Waiters(e)' = Waiters(e) \ {c}
  BY <1>1, OneCallMoves DEF MemoInv
<1>3. \A e \in Calls : Waiters(e)' = Waiters(e)
  BY <1>2 DEF Memo!CallRefused, Waiters, Memo!WaitsOn, Memo!Waiting
<1>4. UNCHANGED <<clock, cached, entry>> /\ call[c].state = "idle"
  BY DEF Memo!CallRefused
<1>5. Memo!TypeOK'
  BY <1>2, <1>4 DEF MemoInv, Memo!TypeOK
<1>6. Memo!SubscribersAreCounted'
  BY <1>3, <1>4 DEF MemoInv, Memo!SubscribersAreCounted, Waiters
<1>7. Memo!AbandonedLoadsAreCancelled'
  BY <1>3, <1>4 DEF MemoInv, Memo!AbandonedLoadsAreCancelled, Waiters
<1>8. EntryOK' /\ CallOK'
  BY <1>1, <1>2, <1>4 DEF MemoInv, EntryOK, CallOK
<1> QED
  BY <1>5, <1>6, <1>7, <1>8 DEF MemoInv

(* A call subscribes: its count and its waiters grow by one together.      *)
LEMMA SubscribingCounts ==
    ASSUME Memo!MemoAssumption, MemoInv, NEW c \in Calls, NEW e \in Calls,
           call[c].state = "idle", call' = Memo!Subscribed(c, e)
    PROVE  /\ call' \in [Calls -> Memo!Call]
           /\ \A d \in Calls : d # c => call'[d] = call[d]
           /\ /\ call'[c].state = "waiting" /\ call'[c].on = e
              /\ call'[c].at = clock /\ (call'[c].hit <=> e # c /\ Memo!Settled(e))
           /\ \A f \in Calls : Waiters(f)' = IF f = e THEN Waiters(f) \union {c}
                                             ELSE Waiters(f)
           /\ Memo!Cardinality(Waiters(e)') = entry[e].subscribers + 1
           /\ entry[e].subscribers + 1 \in 0..Memo!Cardinality(Calls)
<1> DEFINE r == [state |-> "waiting", on |-> e, at |-> clock, hit |-> (e # c /\ Memo!Settled(e))]
<1>1. r \in Memo!Call /\ call' = [call EXCEPT ![c] = r]
      /\ r.state = "waiting" /\ r.on = e /\ r.at = clock /\ (r.hit <=> e # c /\ Memo!Settled(e))
  BY DEF MemoInv, Memo!TypeOK, Memo!Call, Memo!Subscribed
<1> HIDE DEF r
<1>2. /\ call' \in [Calls -> Memo!Call]
      /\ \A d \in Calls : call'[d] = IF d = c THEN r ELSE call[d]
      /\ \A f \in Calls : Waiters(f)' = IF f = e THEN Waiters(f) \union {c}
                                        ELSE Waiters(f) \ {c}
  <2>1. r.state = "waiting" /\ (\A f \in Calls : r.on = f <=> f = e)
    BY <1>1
  <2>2. Memo!TypeOK /\ r \in Memo!Call /\ call' = [call EXCEPT ![c] = r]
    BY <1>1 DEF MemoInv
  <2>3. /\ call' \in [Calls -> Memo!Call]
        /\ \A d \in Calls : call'[d] = IF d = c THEN r ELSE call[d]
        /\ \A f \in Calls : Waiters(f)' = IF r.state = "waiting" /\ r.on = f
                                          THEN Waiters(f) \union {c} ELSE Waiters(f) \ {c}
    BY <2>2, OneCallMoves
  <2> QED
    BY <2>1, <2>3
<1>3. \A f \in Calls : c \notin Waiters(f) /\ Waiters(f) \in SUBSET Calls
  BY DEF Waiters, Memo!WaitsOn, Memo!Waiting
<1>4. Memo!Cardinality(Waiters(e) \union {c}) = Memo!Cardinality(Waiters(e)) + 1
  BY <1>3, CallsAreFinite, MemoCounts, FS_AddElement
<1>5. Memo!Cardinality(Waiters(e) \union {c}) \in 0..Memo!Cardinality(Calls)
  BY <1>3, CallsAreFinite
<1>6. entry[e].subscribers = Memo!Cardinality(Waiters(e))
  BY CountOfWaiters DEF MemoInv
<1>7. \A f \in Calls : Waiters(f)' = IF f = e THEN Waiters(f) \union {c} ELSE Waiters(f)
  BY <1>2, <1>3
<1>8. Memo!Cardinality(Waiters(e)') = entry[e].subscribers + 1
  BY <1>4, <1>6, <1>7
<1>9. entry[e].subscribers + 1 \in 0..Memo!Cardinality(Calls)
  BY <1>4, <1>5, <1>6
<1> QED
  BY <1>1, <1>2, <1>7, <1>8, <1>9

(* CallJoins.                                                              *)
LEMMA CallJoinsKeeps ==
    ASSUME Memo!MemoAssumption, MemoInv, NEW c \in Calls, Memo!CallJoins(c)
    PROVE  MemoInv'
<1>1. PICK e \in Calls : e = cached /\ entry[e].load \in {"running", "resolved"}
                         /\ clock < entry[e].expiresAt
  BY DEF Memo!CallJoins, Memo!Live, MemoInv, Memo!TypeOK, EntryOK
<1>2. /\ call[c].state = "idle" /\ call' = Memo!Subscribed(c, e)
      /\ entry' = [entry EXCEPT ![e] = [entry[e] EXCEPT !.subscribers = @ + 1]]
      /\ UNCHANGED <<clock, cached>>
  BY <1>1 DEF Memo!CallJoins
<1>3. /\ call' \in [Calls -> Memo!Call]
      /\ \A d \in Calls : d # c => call'[d] = call[d]
      /\ /\ call'[c].state = "waiting" /\ call'[c].on = e
         /\ call'[c].at = clock /\ (call'[c].hit <=> e # c /\ Memo!Settled(e))
      /\ \A f \in Calls : Waiters(f)' = IF f = e THEN Waiters(f) \union {c}
                                        ELSE Waiters(f)
      /\ Memo!Cardinality(Waiters(e)') = entry[e].subscribers + 1
      /\ entry[e].subscribers + 1 \in 0..Memo!Cardinality(Calls)
  BY <1>2, SubscribingCounts
<1> DEFINE r == [entry[e] EXCEPT !.subscribers = @ + 1]
<1>4. /\ r \in Memo!Entry /\ r.subscribers = entry[e].subscribers + 1
      /\ r.load = entry[e].load /\ r.aborted = entry[e].aborted
      /\ r.startedAt = entry[e].startedAt /\ r.expiresAt = entry[e].expiresAt
      /\ r.ownExpiry = entry[e].ownExpiry
  BY <1>3 DEF MemoInv, Memo!TypeOK, Memo!Entry
<1> HIDE DEF r
<1>5. /\ entry' \in [Calls -> Memo!Entry]
      /\ \A f \in Calls : entry'[f] = IF f = e THEN r ELSE entry[f]
  BY <1>2, <1>4, OneEntryMoves DEF MemoInv, r
<1>6. Memo!TypeOK'
  BY <1>2, <1>3, <1>5 DEF MemoInv, Memo!TypeOK
<1>7. Memo!SubscribersAreCounted'
  <2> SUFFICES ASSUME NEW f \in Calls PROVE entry'[f].subscribers = Memo!Cardinality(Waiters(f)')
    BY DEF Memo!SubscribersAreCounted, Waiters
  <2>1. CASE f = e
    BY <2>1, <1>3, <1>4, <1>5
  <2>2. CASE f # e
    BY <2>2, <1>3, <1>5, CountOfWaiters DEF MemoInv
  <2> QED BY <2>1, <2>2
<1>8. Memo!AbandonedLoadsAreCancelled'
  <2> SUFFICES ASSUME NEW f \in Calls, entry'[f].load = "running", Waiters(f)' = {}
               PROVE  entry'[f].aborted
    BY DEF Memo!AbandonedLoadsAreCancelled, Waiters
  <2>1. f # e /\ Waiters(f) = {} /\ entry'[f] = entry[f]
    BY <1>3, <1>5
  <2> QED BY <2>1 DEF MemoInv, Memo!AbandonedLoadsAreCancelled, Waiters
<1>9. EntryOK'
  BY <1>2, <1>4, <1>5 DEF MemoInv, EntryOK
<1>10. CallOK'
  <2>1. e # c
    BY <1>1, <1>2 DEF MemoInv, CallOK
  <2>2. clock < entry[e].startedAt + Ttl
    BY <1>1 DEF MemoInv, Memo!TypeOK, Memo!Entry, EntryOK, Memo!MemoAssumption
  <2>3. entry[e].load = "resolved" => clock < entry[e].ownExpiry
    BY <1>1 DEF MemoInv, Memo!TypeOK, Memo!Entry, EntryOK
  <2>4. Memo!Settled(e) => entry[e].load = "resolved"
    BY <1>1 DEF Memo!Settled
  <2>5. \A f \in Calls : /\ entry'[f].load = entry[f].load
                         /\ entry'[f].startedAt = entry[f].startedAt
                         /\ entry'[f].ownExpiry = entry[f].ownExpiry
    BY <1>4, <1>5
  <2> QED
    BY <1>1, <1>2, <1>3, <2>1, <2>2, <2>3, <2>4, <2>5 DEF MemoInv, CallOK
<1> QED
  BY <1>6, <1>7, <1>8, <1>9, <1>10 DEF MemoInv

(* CallLoads: nothing that runs within its Ttl is left behind.             *)
LEMMA CallLoadsKeeps ==
    ASSUME Memo!MemoAssumption, MemoInv, NEW c \in Calls, Memo!CallLoads(c)
    PROVE  MemoInv'
<1>1. /\ call[c].state = "idle" /\ call' = Memo!Subscribed(c, c)
      /\ entry' = [entry EXCEPT ![c] = Memo!NewEntry]
      /\ cached' = c /\ clock' = clock
  BY DEF Memo!CallLoads
<1>2. entry[c].load = "none"
  BY <1>1 DEF MemoInv, CallOK
<1>3. Waiters(c) = {} /\ entry[c].subscribers = 0
  <2>1. \A d \in Calls : ~Memo!WaitsOn(d, c)
    BY <1>2 DEF MemoInv, CallOK, Memo!WaitsOn, Memo!Waiting
  <2>2. Waiters(c) = {}
    BY <2>1 DEF Waiters
  <2> QED
    BY <2>2, CountOfWaiters, MemoCounts, FS_EmptySet DEF MemoInv
<1>4. /\ call' \in [Calls -> Memo!Call]
      /\ \A d \in Calls : d # c => call'[d] = call[d]
      /\ call'[c].state = "waiting" /\ call'[c].on = c
      /\ call'[c].at = clock /\ ~call'[c].hit
      /\ \A f \in Calls : Waiters(f)' = IF f = c THEN Waiters(f) \union {c}
                                        ELSE Waiters(f)
      /\ Memo!Cardinality(Waiters(c)') = 1
      /\ 1 \in 0..Memo!Cardinality(Calls)
  <2>1. /\ call' \in [Calls -> Memo!Call]
        /\ \A d \in Calls : d # c => call'[d] = call[d]
        /\ call'[c].state = "waiting" /\ call'[c].on = c
        /\ call'[c].at = clock /\ (call'[c].hit <=> c # c /\ Memo!Settled(c))
        /\ \A f \in Calls : Waiters(f)' = IF f = c THEN Waiters(f) \union {c}
                                          ELSE Waiters(f)
        /\ Memo!Cardinality(Waiters(c)') = entry[c].subscribers + 1
        /\ entry[c].subscribers + 1 \in 0..Memo!Cardinality(Calls)
    BY <1>1, SubscribingCounts
  <2> QED BY <1>3, <2>1
<1> DEFINE r == Memo!NewEntry
<1>5. /\ r \in Memo!Entry /\ r.load = "running" /\ r.subscribers = 1 /\ ~r.aborted
      /\ r.startedAt = clock /\ r.expiresAt = clock + Ttl
  BY <1>4 DEF Memo!NewEntry, Memo!Entry, MemoInv, Memo!TypeOK, Memo!MemoAssumption
<1>6. entry' = [entry EXCEPT ![c] = r]
  BY <1>1
<1> HIDE DEF r
<1>7. /\ entry' \in [Calls -> Memo!Entry]
      /\ \A f \in Calls : entry'[f] = IF f = c THEN r ELSE entry[f]
  BY <1>5, <1>6, OneEntryMoves DEF MemoInv
<1>8. Memo!TypeOK'
  BY <1>1, <1>4, <1>7 DEF MemoInv, Memo!TypeOK
<1>9. Memo!SubscribersAreCounted'
  <2> SUFFICES ASSUME NEW f \in Calls PROVE entry'[f].subscribers = Memo!Cardinality(Waiters(f)')
    BY DEF Memo!SubscribersAreCounted, Waiters
  <2>1. CASE f = c
    BY <2>1, <1>4, <1>5, <1>7
  <2>2. CASE f # c
    BY <2>2, <1>4, <1>7, CountOfWaiters DEF MemoInv
  <2> QED BY <2>1, <2>2
<1>10. Memo!AbandonedLoadsAreCancelled'
  <2> SUFFICES ASSUME NEW f \in Calls, entry'[f].load = "running", Waiters(f)' = {}
               PROVE  entry'[f].aborted
    BY DEF Memo!AbandonedLoadsAreCancelled, Waiters
  <2>1. f # c /\ Waiters(f) = {} /\ entry'[f] = entry[f]
    BY <1>4, <1>7
  <2> QED BY <2>1 DEF MemoInv, Memo!AbandonedLoadsAreCancelled, Waiters
<1>11. EntryOK'
  <2>1. \A f \in Calls : f # c => ~(entry'[f].load = "running" /\ clock' < entry'[f].expiresAt)
    <3> SUFFICES ASSUME NEW f \in Calls, f # c, entry[f].load = "running",
                        clock < entry[f].expiresAt
                 PROVE  FALSE
      BY <1>1, <1>7
    <3>1. cached = f
      BY DEF MemoInv, EntryOK
    <3> QED
      BY <3>1 DEF Memo!CallLoads, Memo!Live, MemoInv, Memo!TypeOK, Memo!MemoAssumption
  <2> QED
    BY <1>1, <1>5, <1>7, <2>1 DEF MemoInv, EntryOK, Memo!TypeOK, Memo!MemoAssumption
<1>12. CallOK'
  <2>1. \A d \in Calls : call[d].on = c => call[d].state \notin {"waiting", "answered", "failed"} /\ ~call[d].hit
    BY <1>2 DEF MemoInv, CallOK
  <2>2. clock < clock + Ttl
    BY DEF MemoInv, Memo!TypeOK, Memo!MemoAssumption
  <2>3. \A d \in Calls : d # c /\ call'[d].on \in Calls /\ (call'[d].state \in {"waiting", "answered", "failed"}
                                     \/ call'[d].hit) => entry'[call'[d].on] = entry[call[d].on]
    BY <1>4, <1>7, <2>1
  <2> QED
    BY <1>4, <1>5, <1>7, <2>1, <2>2, <2>3 DEF MemoInv, CallOK
<1> QED
  BY <1>8, <1>9, <1>10, <1>11, <1>12 DEF MemoInv

(* LoadResolves and LoadRejects: a load that ran settles, nothing else in  *)
(* its entry but the expiry moves, and that only to an earlier time.       *)
LEMMA LoadSettles ==
    ASSUME Memo!MemoAssumption, MemoInv, NEW e \in Calls, NEW r \in Memo!Entry,
           entry[e].load = "running", r.load \in {"resolved", "rejected"},
           r.aborted = entry[e].aborted, r.subscribers = entry[e].subscribers,
           r.startedAt = entry[e].startedAt, r.expiresAt <= entry[e].expiresAt,
           r.load = "resolved" => r.expiresAt <= r.ownExpiry,
           entry' = [entry EXCEPT ![e] = r],
           cached' = (IF cached = e /\ r.load = "rejected" THEN NoEntry ELSE cached),
           UNCHANGED <<clock, call>>
    PROVE  MemoInv'
<1>1. /\ entry' \in [Calls -> Memo!Entry]
      /\ \A f \in Calls : entry'[f] = IF f = e THEN r ELSE entry[f]
  BY OneEntryMoves DEF MemoInv
<1>2. \A f \in Calls : Waiters(f)' = Waiters(f)
  BY DEF Waiters, Memo!WaitsOn, Memo!Waiting
<1>3. Memo!TypeOK'
  BY <1>1 DEF MemoInv, Memo!TypeOK
<1>4. Memo!SubscribersAreCounted'
  <2> SUFFICES ASSUME NEW f \in Calls PROVE entry'[f].subscribers = Memo!Cardinality(Waiters(f)')
    BY DEF Memo!SubscribersAreCounted, Waiters
  <2> QED BY <1>1, <1>2, CountOfWaiters DEF MemoInv
<1>5. Memo!AbandonedLoadsAreCancelled'
  <2> SUFFICES ASSUME NEW f \in Calls, entry'[f].load = "running", Waiters(f)' = {}
               PROVE  entry'[f].aborted
    BY DEF Memo!AbandonedLoadsAreCancelled, Waiters
  <2> QED BY <1>1, <1>2 DEF MemoInv, Memo!AbandonedLoadsAreCancelled, Waiters
<1>6. EntryOK'
  <2>1. /\ entry[e].startedAt \in Nat /\ entry[e].expiresAt \in Nat /\ r.expiresAt \in Nat
        /\ r.ownExpiry \in Nat /\ Ttl \in Nat
    BY DEF MemoInv, Memo!TypeOK, Memo!Entry, Memo!MemoAssumption
  <2>2. \A f \in Calls : f # e => entry'[f] = entry[f]
    BY <1>1
  <2>3. cached' # NoEntry => entry'[cached'].load \in {"running", "resolved"}
    BY <1>1 DEF MemoInv, EntryOK, Memo!TypeOK
  <2>4. \A f \in Calls : entry'[f].load = "running" /\ clock' < entry'[f].expiresAt => cached' = f
    BY <1>1 DEF MemoInv, EntryOK
  <2> QED BY <1>1, <2>1, <2>2, <2>3, <2>4 DEF MemoInv, EntryOK
<1>7. CallOK'
  <2>1. \A d \in Calls : call'[d] = call[d]
    OBVIOUS
  <2>2. \A f \in Calls : /\ entry'[f].startedAt = entry[f].startedAt
                         /\ entry'[f].load = "none" <=> entry[f].load = "none"
                         /\ entry[f].load \in {"resolved", "rejected"} => entry'[f] = entry[f]
    BY <1>1
  <2> QED BY <2>1, <2>2 DEF MemoInv, CallOK
<1> QED
  BY <1>3, <1>4, <1>5, <1>6, <1>7 DEF MemoInv

LEMMA LoadResolvesKeeps ==
    ASSUME Memo!MemoAssumption, MemoInv, NEW e \in Calls, Memo!LoadResolves(e)
    PROVE  MemoInv'
<1>1. PICK own \in OwnExpiries \union {entry[e].expiresAt} :
         entry' = [entry EXCEPT ![e].load = "resolved",
                                ![e].ownExpiry = own,
                                ![e].expiresAt = Memo!Earlier(@, own)]
  BY DEF Memo!LoadResolves
<1> DEFINE early == Memo!Earlier(entry[e].expiresAt, own)
           r == [entry[e] EXCEPT !.load = "resolved", !.ownExpiry = own, !.expiresAt = early]
<1>2. own \in Nat /\ entry[e] \in Memo!Entry
  BY DEF Memo!MemoAssumption, MemoInv, Memo!TypeOK, Memo!Entry
<1>3. early \in 0..(MaxTime + Ttl) /\ early <= own /\ early <= entry[e].expiresAt
  BY <1>2 DEF Memo!Earlier, Memo!Entry, Memo!MemoAssumption
<1> HIDE DEF early
<1>4. /\ r \in Memo!Entry /\ r.load = "resolved" /\ r.ownExpiry = own /\ r.expiresAt = early
      /\ r.aborted = entry[e].aborted /\ r.subscribers = entry[e].subscribers
      /\ r.startedAt = entry[e].startedAt
  BY <1>2, <1>3 DEF Memo!Entry
<1>5. entry' = [entry EXCEPT ![e] = r]
  BY <1>1 DEF early, MemoInv, Memo!TypeOK
<1> HIDE DEF r
<1>6. entry[e].load = "running" /\ UNCHANGED <<clock, cached, call>>
  BY DEF Memo!LoadResolves
<1> QED
  BY <1>3, <1>4, <1>5, <1>6, LoadSettles

LEMMA LoadRejectsKeeps ==
    ASSUME Memo!MemoAssumption, MemoInv, NEW e \in Calls, Memo!LoadRejects(e)
    PROVE  MemoInv'
<1> DEFINE r == [entry[e] EXCEPT !.load = "rejected"]
<1>1. /\ r \in Memo!Entry /\ r.load = "rejected" /\ r.expiresAt = entry[e].expiresAt
      /\ r.aborted = entry[e].aborted /\ r.subscribers = entry[e].subscribers
      /\ r.startedAt = entry[e].startedAt
      /\ entry[e].expiresAt \in Nat
  BY DEF MemoInv, Memo!TypeOK, Memo!Entry, Memo!MemoAssumption
<1>2. entry' = [entry EXCEPT ![e] = r]
  BY DEF Memo!LoadRejects, MemoInv, Memo!TypeOK
<1> HIDE DEF r
<1>3. /\ entry[e].load = "running" /\ UNCHANGED <<clock, call>>
      /\ cached' = IF cached = e THEN NoEntry ELSE cached
  BY DEF Memo!LoadRejects
<1>4. r.expiresAt <= entry[e].expiresAt
  BY <1>1
<1> QED
  BY <1>1, <1>2, <1>3, <1>4, LoadSettles

(* Deliver and Abort: a call that waits leaves its entry, whose count goes *)
(* down by one; the last to leave a load that runs aborts it.              *)
LEMMA LeavingKeeps ==
    ASSUME Memo!MemoAssumption, MemoInv, NEW c \in Calls, Memo!Waiting(c),
           NEW end \in {"answered", "failed", "cancelled"},
           end = "answered" => entry[call[c].on].load = "resolved",
           end = "failed" => entry[call[c].on].load = "rejected",
           entry' = Memo!Released(call[c].on),
           call' = [call EXCEPT ![c].state = end],
           UNCHANGED <<clock, cached>>
    PROVE  /\ MemoInv'
           /\ Memo!OnlyTheLastCancels
<1>1. PICK e \in Calls : e = call[c].on /\ entry[e].load # "none"
  BY DEF MemoInv, CallOK, Memo!Waiting
<1> DEFINE r == [call[c] EXCEPT !.state = end]
<1>2. r \in Memo!Call /\ r.state = end /\ r.on = e /\ r.hit = call[c].hit
      /\ r.at = call[c].at /\ call' = [call EXCEPT ![c] = r]
  BY <1>1 DEF MemoInv, Memo!TypeOK, Memo!Call
<1> HIDE DEF r
<1>3. /\ call' \in [Calls -> Memo!Call]
      /\ \A d \in Calls : call'[d] = IF d = c THEN r ELSE call[d]
      /\ \A f \in Calls : Waiters(f)' = Waiters(f) \ {c}
  <2>1. r.state # "waiting"
    BY <1>2
  <2>2. Memo!TypeOK /\ r \in Memo!Call /\ call' = [call EXCEPT ![c] = r]
    BY <1>2 DEF MemoInv
  <2> QED BY <2>1, <2>2, OneCallMoves
<1>4. /\ c \in Waiters(e)
      /\ \A f \in Calls : f # e => c \notin Waiters(f)
      /\ \A f \in Calls : Waiters(f) \in SUBSET Calls
  BY <1>1 DEF Waiters, Memo!WaitsOn
<1>5. \A f \in Calls : Waiters(f)' = IF f = e THEN Waiters(f) \ {c} ELSE Waiters(f)
  <2>1. \A f \in Calls : f # e => Waiters(f) \ {c} = Waiters(f)
    BY <1>4
  <2> QED BY <1>3, <2>1
<1>6. Memo!IsFiniteSet(Waiters(e)) /\ Memo!Cardinality(Waiters(e)) \in 0..Memo!Cardinality(Calls)
      /\ Memo!Cardinality(Waiters(e) \ {c}) \in 0..Memo!Cardinality(Calls)
  BY <1>4, CallsAreFinite
<1>7. Memo!Cardinality(Waiters(e) \ {c}) = entry[e].subscribers - 1
  BY <1>4, <1>6, MemoCounts, FS_RemoveElement, CountOfWaiters DEF MemoInv
<1>8. entry[e].subscribers = 1 <=> Waiters(e) \ {c} = {}
  <2>1. Memo!IsFiniteSet(Waiters(e) \ {c})
    BY <1>6, MemoCounts, FS_RemoveElement
  <2>2. Memo!Cardinality(Waiters(e) \ {c}) = 0 <=> Waiters(e) \ {c} = {}
    BY <2>1, MemoCounts, FS_EmptySet
  <2>3. entry[e].subscribers \in Int
    BY DEF MemoInv, Memo!TypeOK, Memo!Entry
  <2> QED BY <1>7, <2>2, <2>3
<1> DEFINE q == [entry[e] EXCEPT !.subscribers = @ - 1, !.aborted = @ \/ Memo!LastOne(e)]
<1>9. /\ q \in Memo!Entry /\ q.load = entry[e].load /\ q.startedAt = entry[e].startedAt
      /\ q.expiresAt = entry[e].expiresAt /\ q.ownExpiry = entry[e].ownExpiry
      /\ q.subscribers = entry[e].subscribers - 1
      /\ (q.aborted <=> entry[e].aborted \/ Memo!LastOne(e))
  <2>1. entry[e] \in Memo!Entry /\ entry[e].subscribers - 1 \in 0..Memo!Cardinality(Calls)
    BY <1>6, <1>7 DEF MemoInv, Memo!TypeOK
  <2>2. Memo!LastOne(e) \in BOOLEAN /\ (entry[e].aborted \/ Memo!LastOne(e)) \in BOOLEAN
    BY DEF Memo!LastOne
  <2> HIDE DEF q
  <2>3. q = [entry[e] EXCEPT !.subscribers = entry[e].subscribers - 1,
                             !.aborted = entry[e].aborted \/ Memo!LastOne(e)]
    BY DEF q
  <2> QED BY <2>1, <2>2, <2>3 DEF Memo!Entry
<1>10. entry' = [entry EXCEPT ![e] = q]
  BY <1>1 DEF Memo!Released, MemoInv, Memo!TypeOK
<1> HIDE DEF q
<1>11. /\ entry' \in [Calls -> Memo!Entry]
       /\ \A f \in Calls : entry'[f] = IF f = e THEN q ELSE entry[f]
  BY <1>9, <1>10, OneEntryMoves DEF MemoInv
<1>12. Memo!TypeOK'
  BY <1>3, <1>11 DEF MemoInv, Memo!TypeOK
<1>13. Memo!SubscribersAreCounted'
  <2> SUFFICES ASSUME NEW f \in Calls PROVE entry'[f].subscribers = Memo!Cardinality(Waiters(f)')
    BY DEF Memo!SubscribersAreCounted, Waiters
  <2>1. CASE f = e
    BY <2>1, <1>5, <1>7, <1>9, <1>11
  <2>2. CASE f # e
    BY <2>2, <1>5, <1>11, CountOfWaiters DEF MemoInv
  <2> QED BY <2>1, <2>2
<1>14. Memo!AbandonedLoadsAreCancelled'
  <2> SUFFICES ASSUME NEW f \in Calls, entry'[f].load = "running", Waiters(f)' = {}
               PROVE  entry'[f].aborted
    BY DEF Memo!AbandonedLoadsAreCancelled, Waiters
  <2>1. CASE f = e
    BY <2>1, <1>5, <1>8, <1>9, <1>11 DEF Memo!LastOne, Memo!Settled
  <2>2. CASE f # e
    BY <2>2, <1>5, <1>11 DEF MemoInv, Memo!AbandonedLoadsAreCancelled, Waiters
  <2> QED BY <2>1, <2>2
<1>15. \A f \in Calls : /\ entry'[f].load = entry[f].load
                        /\ entry'[f].startedAt = entry[f].startedAt
                        /\ entry'[f].expiresAt = entry[f].expiresAt
                        /\ entry'[f].ownExpiry = entry[f].ownExpiry
  BY <1>9, <1>11
<1>16. EntryOK'
  BY <1>15 DEF MemoInv, EntryOK, Memo!TypeOK
<1>17. CallOK'
  <2>1. call[c].state = "waiting"
    BY DEF Memo!Waiting
  <2> QED
    BY <1>1, <1>2, <1>3, <1>15, <2>1 DEF MemoInv, CallOK
<1>18. Memo!OnlyTheLastCancels
  <2> SUFFICES ASSUME NEW f \in Calls, ~entry[f].aborted, entry'[f].aborted
               PROVE  Waiters(f)' = {}
    BY DEF Memo!OnlyTheLastCancels, Waiters
  <2>1. f = e /\ Memo!LastOne(e)
    BY <1>9, <1>11
  <2> QED BY <2>1, <1>5, <1>8 DEF Memo!LastOne
<1> QED
  BY <1>12, <1>13, <1>14, <1>16, <1>17, <1>18 DEF MemoInv

LEMMA DeliverKeeps ==
    ASSUME Memo!MemoAssumption, MemoInv, NEW c \in Calls, Memo!Deliver(c)
    PROVE  MemoInv' /\ Memo!OnlyTheLastCancels
<1>1. PICK end : end = IF entry[call[c].on].load = "resolved" THEN "answered" ELSE "failed"
  OBVIOUS
<1>2. /\ end \in {"answered", "failed", "cancelled"}
      /\ end = "answered" => entry[call[c].on].load = "resolved"
      /\ end = "failed" => entry[call[c].on].load = "rejected"
  BY <1>1 DEF Memo!Deliver, Memo!Settled
<1>3. /\ Memo!Waiting(c) /\ entry' = Memo!Released(call[c].on)
      /\ call' = [call EXCEPT ![c].state = end]
      /\ UNCHANGED <<clock, cached>>
  BY <1>1 DEF Memo!Deliver
<1> QED
  BY <1>2, <1>3, LeavingKeeps

LEMMA AbortKeeps ==
    ASSUME Memo!MemoAssumption, MemoInv, NEW c \in Calls, Memo!Abort(c)
    PROVE  MemoInv' /\ Memo!OnlyTheLastCancels
<1>1. PICK end : end = "cancelled"
  OBVIOUS
<1>2. /\ Memo!Waiting(c) /\ entry' = Memo!Released(call[c].on)
      /\ call' = [call EXCEPT ![c].state = end]
      /\ UNCHANGED <<clock, cached>>
  BY <1>1 DEF Memo!Abort
<1> QED
  BY <1>1, <1>2, LeavingKeeps

LEMMA TickKeeps ==
    ASSUME Memo!MemoAssumption, MemoInv, Memo!Tick
    PROVE  MemoInv'
<1>1. clock' = clock + 1 /\ clock' \in 0..MaxTime /\ UNCHANGED <<cached, entry, call>>
      /\ clock \in Nat
  BY DEF Memo!Tick, MemoInv, Memo!TypeOK, Memo!MemoAssumption
<1>2. Memo!TypeOK'
  BY <1>1 DEF MemoInv, Memo!TypeOK
<1>3. Memo!SubscribersAreCounted' /\ Memo!AbandonedLoadsAreCancelled'
  BY <1>1 DEF MemoInv, Memo!SubscribersAreCounted, Memo!AbandonedLoadsAreCancelled, Memo!WaitsOn, Memo!Waiting
<1>4. EntryOK'
  BY <1>1 DEF MemoInv, EntryOK, Memo!TypeOK, Memo!Entry
<1>5. CallOK'
  BY <1>1 DEF MemoInv, CallOK
<1> QED
  BY <1>2, <1>3, <1>4, <1>5 DEF MemoInv

(* The memo's invariant, for any number of calls and any Ttl: every        *)
(* reachable state of createTtlMemo satisfies it.                          *)
THEOREM MemoInvariance ==
    ASSUME Memo!MemoAssumption
    PROVE  Memo!Spec => []MemoInv
<1>1. Memo!Init => MemoInv
  BY MemoStarts
<1>2. MemoInv /\ [Memo!Next]_Memo!vars => MemoInv'
  <2> SUFFICES ASSUME MemoInv, [Memo!Next]_Memo!vars PROVE MemoInv'
    OBVIOUS
  <2>1. ASSUME NEW c \in Calls, Memo!CallRefused(c) PROVE MemoInv'
    BY <2>1, CallRefusedKeeps
  <2>2. ASSUME NEW c \in Calls, Memo!CallJoins(c) PROVE MemoInv'
    BY <2>2, CallJoinsKeeps
  <2>3. ASSUME NEW c \in Calls, Memo!CallLoads(c) PROVE MemoInv'
    BY <2>3, CallLoadsKeeps
  <2>4. ASSUME NEW e \in Calls, Memo!LoadResolves(e) PROVE MemoInv'
    BY <2>4, LoadResolvesKeeps
  <2>5. ASSUME NEW e \in Calls, Memo!LoadRejects(e) PROVE MemoInv'
    BY <2>5, LoadRejectsKeeps
  <2>6. ASSUME NEW c \in Calls, Memo!Deliver(c) PROVE MemoInv'
    BY <2>6, DeliverKeeps
  <2>7. ASSUME NEW c \in Calls, Memo!Abort(c) PROVE MemoInv'
    BY <2>7, AbortKeeps
  <2>8. CASE Memo!Tick
    BY <2>8, TickKeeps
  <2>9. CASE UNCHANGED Memo!vars
    BY <2>9 DEF Memo!vars, MemoInv, Memo!TypeOK, Memo!SubscribersAreCounted, Memo!AbandonedLoadsAreCancelled,
                EntryOK, CallOK, Memo!WaitsOn, Memo!Waiting
  <2> QED
    BY <2>1, <2>2, <2>3, <2>4, <2>5, <2>6, <2>7, <2>8, <2>9 DEF Memo!Next
<1> QED
  BY <1>1, <1>2, PTL DEF Memo!Spec

(* The reference count of an entry is the number of calls that wait on it. *)
THEOREM CountsAreRight ==
    ASSUME Memo!MemoAssumption
    PROVE  Memo!Spec => []Memo!SubscribersAreCounted
<1>1. MemoInv => Memo!SubscribersAreCounted
  BY DEF MemoInv
<1> QED
  BY <1>1, MemoInvariance, PTL

(* A load nobody waits for any more has been aborted.                      *)
THEOREM AbandonedLoadsStop ==
    ASSUME Memo!MemoAssumption
    PROVE  Memo!Spec => []Memo!AbandonedLoadsAreCancelled
<1>1. MemoInv => Memo!AbandonedLoadsAreCancelled
  BY DEF MemoInv
<1> QED
  BY <1>1, MemoInvariance, PTL

(* At most one load of a key runs within its Ttl: it is the cached one.    *)
THEOREM LoadsAreShared ==
    ASSUME Memo!MemoAssumption
    PROVE  Memo!Spec => []Memo!SingleFlight
<1>1. MemoInv => Memo!SingleFlight
  BY DEF MemoInv, EntryOK, Memo!SingleFlight
<1> QED
  BY <1>1, MemoInvariance, PTL

(* No call fails with the error of a load that had settled before it.      *)
THEOREM FailuresAreForgotten ==
    ASSUME Memo!MemoAssumption
    PROVE  Memo!Spec => []Memo!FailuresAreNotRemembered
<1>1. MemoInv => Memo!FailuresAreNotRemembered
  <2> SUFFICES ASSUME MemoInv, NEW c \in Calls, call[c].state = "failed", call[c].hit
               PROVE  FALSE
    BY DEF Memo!FailuresAreNotRemembered
  <2> QED
    BY DEF MemoInv, CallOK
<1> QED
  BY <1>1, MemoInvariance, PTL

(* Whoever is answered joined the load before its Ttl was over, and a      *)
(* value that was there before its own expiry.                             *)
THEOREM FreshAnswers ==
    ASSUME Memo!MemoAssumption
    PROVE  Memo!Spec => []Memo!AnswersAreFresh
<1>1. MemoInv => Memo!AnswersAreFresh
  BY DEF MemoInv, CallOK, Memo!AnswersAreFresh
<1> QED
  BY <1>1, MemoInvariance, PTL

(* A step that aborts a load leaves nobody waiting on it.                  *)
THEOREM OnlyTheLastCallerCancels ==
    ASSUME Memo!MemoAssumption
    PROVE  Memo!Spec => [][Memo!OnlyTheLastCancels]_Memo!vars
<1>1. MemoInv /\ [Memo!Next]_Memo!vars => [Memo!OnlyTheLastCancels]_Memo!vars
  <2> SUFFICES ASSUME MemoInv, Memo!Next PROVE Memo!OnlyTheLastCancels
    OBVIOUS
  <2> SUFFICES ASSUME ~(\E c \in Calls : Memo!Deliver(c) \/ Memo!Abort(c)) PROVE Memo!OnlyTheLastCancels
    BY DeliverKeeps, AbortKeeps
  <2> SUFFICES ASSUME NEW e \in Calls, ~entry[e].aborted
               PROVE  ~entry'[e].aborted
    BY DEF Memo!OnlyTheLastCancels
  <2>1. ASSUME NEW c \in Calls, Memo!CallRefused(c) \/ Memo!CallJoins(c) \/ Memo!CallLoads(c)
        PROVE  ~entry'[e].aborted
    <3>1. CASE Memo!CallRefused(c)
      BY <3>1 DEF Memo!CallRefused
    <3>2. CASE Memo!CallJoins(c)
      BY <3>2 DEF Memo!CallJoins, MemoInv, Memo!TypeOK, Memo!Entry
    <3>3. CASE Memo!CallLoads(c)
      BY <3>3 DEF Memo!CallLoads, Memo!NewEntry, MemoInv, Memo!TypeOK
    <3> QED BY <2>1, <3>1, <3>2, <3>3
  <2>2. ASSUME NEW f \in Calls, Memo!LoadResolves(f) \/ Memo!LoadRejects(f)
        PROVE  ~entry'[e].aborted
    <3>1. CASE Memo!LoadResolves(f)
      BY <3>1 DEF Memo!LoadResolves, MemoInv, Memo!TypeOK, Memo!Entry
    <3>2. CASE Memo!LoadRejects(f)
      BY <3>2 DEF Memo!LoadRejects, MemoInv, Memo!TypeOK, Memo!Entry
    <3> QED BY <2>2, <3>1, <3>2
  <2>3. CASE Memo!Tick
    BY <2>3 DEF Memo!Tick
  <2> QED
    BY <2>1, <2>2, <2>3 DEF Memo!Next
<1> QED
  BY <1>1, MemoInvariance, PTL DEF Memo!Spec

-----------------------------------------------------------------------------
(***************************************************************************)
(* The read cache.  A reader that waits is in one request, its key's; an   *)
(* entry's value is the time it arrived, a time to live before it expires; *)
(* and the order of the store lists the keys that have one, each once.     *)
(***************************************************************************)
Cache == INSTANCE ReadCache

Entries == [expires : 0..Horizon + TTL, value : 0..Horizon]
Requests == [readers : SUBSET Readers, aborted : BOOLEAN]

CacheTypes ==
    /\ now \in 0..Horizon
    /\ order \in Seq(Keys)
    /\ entry \in [Keys -> Entries \cup {None}]
    /\ inflight \in [Keys -> Requests \cup {None}]
    /\ pc \in [Readers -> {"idle", "direct", "waiting", "done", "aborted"}]
    /\ key \in [Readers -> Keys]
    /\ answer \in [Readers -> Cache!Answers \cup {None}]

EntriesOK == \A k \in Keys : entry[k] # None => entry[k].expires = entry[k].value + TTL

ReadersOK ==
    /\ \A k \in Keys : inflight[k] # None =>
          \A r \in inflight[k].readers : pc[r] = "waiting" /\ key[r] = k
    /\ \A r \in Readers : pc[r] = "waiting" =>
          inflight[key[r]] # None /\ r \in inflight[key[r]].readers

\* What a sequence of keys holds, and that it holds nothing twice.
Held(s) == {s[i] : i \in 1..Len(s)}
Distinct(s) == \A i, j \in 1..Len(s) : s[i] = s[j] => i = j

OrderOK ==
    /\ Len(order) <= MaxEntries /\ Distinct(order)
    /\ \A k \in Keys : entry[k] # None <=> k \in Held(order)

CacheInv ==
    /\ CacheTypes
    /\ EntriesOK
    /\ ReadersOK
    /\ OrderOK
    /\ Cache!AbandonedRequestsAreAborted

(* The instance counts the way this module does.                           *)
LEMMA CacheCounts == ASSUME NEW S PROVE Cache!Cardinality(S) = Cardinality(S)
  BY DEF Cardinality, Cache!Cardinality

(* A sequence without repetition has as many members as it is long.        *)
LEMMA DistinctCount ==
    ASSUME NEW s \in Seq(Keys), Distinct(s)
    PROVE  Cardinality(Held(s)) = Len(s)
<1>1. s \in Bijection(1..Len(s), Held(s))
  BY DEF Distinct, Held, Bijection, Injection, Surjection, IsInjective
<1> QED
  BY <1>1, FS_CountingElements DEF ExistsBijection

(* Putting a key into the store and evicting the oldest keeps the bound,   *)
(* drops keys at most, and holds none twice.                               *)
LEMMA EvictKeepsOrder ==
    ASSUME Cache!ReadCacheAssumption, CacheTypes, OrderOK, NEW k \in Keys
    PROVE  LET s == Cache!Evict(Cache!Put(k)) IN
           /\ s \in Seq(Keys) /\ Len(s) <= MaxEntries /\ Distinct(s)
           /\ Held(s) \subseteq Held(order) \cup {k}
<1> DEFINE p == Cache!Put(k)
<1> DEFINE m == Len(p) - MaxEntries
<1>1. p \in Seq(Keys) /\ Distinct(p) /\ Len(p) <= MaxEntries + 1 /\ Held(p) \subseteq Held(order) \cup {k}
  <2>1. CASE entry[k] # None
    BY <2>1 DEF Cache!Put, CacheTypes, OrderOK, Cache!ReadCacheAssumption
  <2>2. CASE entry[k] = None
    <3>1. p = Append(order, k)
      BY <2>2 DEF Cache!Put
    <3>2. /\ p \in Seq(Keys) /\ Len(p) = Len(order) + 1 /\ p[Len(order) + 1] = k
          /\ \A i \in 1..Len(order) : p[i] = order[i]
      BY <3>1 DEF CacheTypes
    <3>3. \A i \in 1..Len(order) : order[i] # k
      BY <2>2 DEF OrderOK, Held
    <3>4. Len(order) \in Nat
      BY DEF CacheTypes
    <3>5. Distinct(p)
      BY <3>2, <3>3, <3>4 DEF Distinct, OrderOK
    <3>6. Held(p) \subseteq Held(order) \cup {k}
      BY <3>2, <3>4 DEF Held
    <3> QED
      BY <3>2, <3>4, <3>5, <3>6 DEF OrderOK, Cache!ReadCacheAssumption
  <2> QED
    BY <2>1, <2>2
<1>2. CASE Len(p) <= MaxEntries
  BY <1>1, <1>2 DEF Cache!Evict, Cache!ReadCacheAssumption
<1>3. CASE Len(p) > MaxEntries
  <2> SUFFICES /\ Cache!Evict(p) \in Seq(Keys) /\ Len(Cache!Evict(p)) <= MaxEntries
               /\ Distinct(Cache!Evict(p)) /\ Held(Cache!Evict(p)) \subseteq Held(order) \cup {k}
    OBVIOUS
  <2>1. Cache!Evict(p) = SubSeq(p, m + 1, Len(p))
    BY <1>3 DEF Cache!Evict
  <2>2. m = 1 /\ Len(p) = MaxEntries + 1 /\ MaxEntries \in Nat \ {0}
    BY <1>1, <1>3 DEF Cache!ReadCacheAssumption
  <2> HIDE DEF p
  <2>3. \A i \in 2..Len(p) : p[i] \in Keys
    BY <1>1, <2>2
  <2>4. /\ Cache!Evict(p) \in Seq(Keys) /\ Len(Cache!Evict(p)) = MaxEntries
        /\ \A i \in 1..MaxEntries : Cache!Evict(p)[i] = p[i + 1]
    <3>1. Cache!Evict(p) = SubSeq(p, 2, Len(p)) /\ Len(p) \in Int /\ 2 <= Len(p)
      BY <2>1, <2>2
    <3>2. /\ SubSeq(p, 2, Len(p)) \in Seq(Keys)
          /\ Len(SubSeq(p, 2, Len(p))) = IF 2 <= Len(p) THEN Len(p) - 2 + 1 ELSE 0
          /\ \A i \in 1..Len(p) - 2 + 1 : SubSeq(p, 2, Len(p))[i] = p[2 + i - 1]
      BY <2>3, <3>1, SubSeqProperties
    <3>3. Len(Cache!Evict(p)) = MaxEntries
      BY <2>2, <3>1, <3>2
    <3>4. ASSUME NEW i \in 1..MaxEntries PROVE Cache!Evict(p)[i] = p[i + 1]
      <4>1. i \in 1..Len(p) - 2 + 1 /\ 2 + i - 1 = i + 1
        BY <2>2
      <4> QED
        BY <3>1, <3>2, <4>1
    <3> QED
      BY <3>1, <3>2, <3>3, <3>4
  <2>5. Distinct(Cache!Evict(p))
    BY <1>1, <2>2, <2>4 DEF Distinct
  <2>6. Held(Cache!Evict(p)) \subseteq Held(p)
    BY <2>2, <2>4 DEF Held
  <2> QED
    BY <1>1, <2>2, <2>4, <2>5, <2>6
<1> QED
  BY <1>1, <1>2, <1>3 DEF Cache!ReadCacheAssumption

LEMMA CacheStarts ==
    ASSUME Cache!ReadCacheAssumption
    PROVE  Cache!Init => CacheInv
<1> SUFFICES ASSUME Cache!Init PROVE CacheInv
  OBVIOUS
<1>1. order = <<>> /\ Len(order) = 0 /\ order \in Seq(Keys)
  BY DEF Cache!Init
<1> QED
  BY <1>1 DEF Cache!ReadCacheAssumption, Cache!Init, CacheInv, CacheTypes, EntriesOK, ReadersOK, OrderOK,
     Held, Distinct, Cache!AbandonedRequestsAreAborted

(* The store and its clock are left alone: what a reader does.             *)
LEMMA ReaderMoves ==
    ASSUME Cache!ReadCacheAssumption, CacheInv, NEW r \in Readers,
           \/ Cache!Bypass(r) \/ Cache!Hit(r) \/ Cache!Subscribe(r) \/ Cache!DirectEnds(r)
           \/ Cache!Abort(r) \/ Cache!Again(r)
    PROVE  CacheInv'
<1> USE DEF CacheInv
<1>1. UNCHANGED <<now, order, entry>>
  BY DEF Cache!Bypass, Cache!Hit, Cache!Subscribe, Cache!DirectEnds, Cache!Abort, Cache!Again
<1>2. EntriesOK' /\ OrderOK'
  BY <1>1 DEF EntriesOK, OrderOK, Distinct, Held
<1> USE DEF CacheTypes, ReadersOK, Cache!AbandonedRequestsAreAborted, Cache!Answers, Cache!ReadCacheAssumption
<1>3. CASE Cache!Bypass(r)
  BY <1>1, <1>2, <1>3 DEF Cache!Bypass
<1>4. CASE Cache!Hit(r)
  BY <1>1, <1>2, <1>4 DEF Cache!Hit, Cache!Fresh, Entries
<1>5. CASE Cache!Subscribe(r)
  <2> DEFINE k == key[r]
  <2> DEFINE f == IF inflight[k] = None THEN [readers |-> {r}, aborted |-> FALSE]
                  ELSE [inflight[k] EXCEPT !.readers = @ \cup {r}]
  <2>1. /\ pc[r] = "idle" /\ k \in Keys /\ inflight' = [inflight EXCEPT ![k] = f]
        /\ pc' = [pc EXCEPT ![r] = "waiting"] /\ UNCHANGED <<key, answer>>
    BY <1>5 DEF Cache!Subscribe
  <2>2. f \in Requests /\ r \in f.readers /\ f.readers # {}
        /\ \A q \in f.readers : q = r \/ (inflight[k] # None /\ q \in inflight[k].readers)
    <3>1. CASE inflight[k] = None
      BY <3>1 DEF Requests
    <3>2. CASE inflight[k] # None
      <4>1. inflight[k] \in Requests
        BY <2>1, <3>2
      <4>2. f = [inflight[k] EXCEPT !.readers = @ \cup {r}]
        BY <3>2
      <4>3. f.readers = inflight[k].readers \cup {r} /\ f \in Requests
        BY <4>1, <4>2 DEF Requests
      <4> QED
        BY <3>2, <4>3
    <3> QED
      BY <3>1, <3>2
  <2>3. \A q \in Readers : q # r /\ inflight[k] # None /\ q \in inflight[k].readers => q \in f.readers
    BY DEF Requests
  <2>4. None \notin Requests
    BY DEF Requests
  <2> HIDE DEF f
  <2>5. CacheTypes'
    BY <1>1, <2>1, <2>2
  <2>6. ReadersOK'
    BY <1>1, <2>1, <2>2, <2>3, <2>4
  <2>7. Cache!AbandonedRequestsAreAborted'
    BY <2>1, <2>2
  <2> QED
    BY <1>2, <2>5, <2>6, <2>7
<1>6. CASE Cache!DirectEnds(r)
  BY <1>1, <1>2, <1>6 DEF Cache!DirectEnds, Cache!Error
<1>7. CASE Cache!Abort(r)
  <2>1. CASE pc[r] = "waiting"
    <3> DEFINE k == key[r]
    <3> DEFINE f == Cache!Leave(inflight[k], r)
    <3>1. /\ k \in Keys /\ inflight' = [inflight EXCEPT ![k] = f]
          /\ pc' = [pc EXCEPT ![r] = "aborted"] /\ UNCHANGED <<key, answer>>
      BY <1>7, <2>1 DEF Cache!Abort
    <3>2. inflight[k] \in Requests
      BY <2>1, <3>1
    <3>3. /\ f \in Requests /\ f.readers = inflight[k].readers \ {r}
          /\ f.readers = {} => f.aborted
      <4>1. r \in inflight[k].readers
        BY <2>1
      <4>2. f.readers = inflight[k].readers \ {r} /\ f.aborted = (inflight[k].aborted \/ inflight[k].readers = {r})
        BY DEF Cache!Leave
      <4>3. f \in Requests
        BY <3>2 DEF Requests, Cache!Leave
      <4>4. inflight[k].readers \ {r} = {} => inflight[k].readers = {r}
        BY <4>1
      <4> QED
        BY <4>2, <4>3, <4>4
    <3>4. None \notin Requests
      BY DEF Requests
    <3> HIDE DEF f
    <3>5. CacheTypes'
      BY <1>1, <3>1, <3>3
    <3>6. ReadersOK'
      BY <1>1, <3>1, <3>2, <3>3, <3>4
    <3>7. Cache!AbandonedRequestsAreAborted'
      BY <3>1, <3>3
    <3> QED
      BY <1>2, <3>5, <3>6, <3>7
  <2>2. CASE pc[r] # "waiting"
    BY <1>1, <1>2, <1>7, <2>2 DEF Cache!Abort
  <2> QED
    BY <2>1, <2>2
<1>8. CASE Cache!Again(r)
  BY <1>1, <1>2, <1>8 DEF Cache!Again
<1> QED
  BY <1>3, <1>4, <1>5, <1>6, <1>7, <1>8

LEMMA RequestEnds ==
    ASSUME Cache!ReadCacheAssumption, CacheInv, NEW k \in Keys, Cache!Responds(k) \/ Cache!Fails(k)
    PROVE  CacheInv'
<1> USE DEF CacheInv
<1>1. PICK v \in {now, Cache!Error} : Cache!Settle(k, v)
  BY DEF Cache!Responds, Cache!Fails
<1>2. UNCHANGED <<now, key>> /\ inflight[k] # None
  BY DEF Cache!Responds, Cache!Fails
<1>3. ReadersOK' /\ Cache!AbandonedRequestsAreAborted'
  <2>1. inflight[k] \in Requests /\ inflight' = [inflight EXCEPT ![k] = None]
    BY <1>1, <1>2 DEF Cache!Settle, CacheTypes
  <2>2. \A r \in Readers : pc'[r] = IF r \in inflight[k].readers THEN "done" ELSE pc[r]
    BY <1>1 DEF Cache!Settle
  <2>3. \A r \in Readers : r \in inflight[k].readers => key[r] = k
    BY <1>2 DEF ReadersOK
  <2>4. \A j \in Keys : inflight'[j] # None => j # k /\ inflight'[j] = inflight[j] /\ inflight[j] \in Requests
    BY <2>1 DEF CacheTypes
  <2>5. Cache!AbandonedRequestsAreAborted'
    BY <2>4 DEF Cache!AbandonedRequestsAreAborted
  <2>6. \A j \in Keys : inflight'[j] # None => \A r \in inflight'[j].readers : pc'[r] = "waiting" /\ key'[r] = j
    BY <1>2, <2>2, <2>3, <2>4 DEF ReadersOK, Requests
  <2>7. \A r \in Readers : pc'[r] = "waiting" => inflight'[key'[r]] # None /\ r \in inflight'[key'[r]].readers
    BY <1>2, <2>1, <2>2 DEF ReadersOK, CacheTypes
  <2> QED
    BY <2>5, <2>6, <2>7 DEF ReadersOK
<1>4. /\ inflight' \in [Keys -> Requests \cup {None}]
      /\ pc' \in [Readers -> {"idle", "direct", "waiting", "done", "aborted"}]
      /\ key' \in [Readers -> Keys]
      /\ answer' \in [Readers -> Cache!Answers \cup {None}]
  BY <1>1, <1>2 DEF Cache!Settle, CacheTypes, Cache!Answers, Cache!Error, Cache!ReadCacheAssumption
<1>5. CASE Cache!Fails(k)
  <2>1. UNCHANGED <<order, entry>>
    BY <1>5 DEF Cache!Fails
  <2> QED
    BY <1>2, <1>3, <1>4, <2>1 DEF CacheTypes, EntriesOK, OrderOK, Distinct, Held
<1>6. CASE Cache!Responds(k)
  <2> DEFINE new == [expires |-> now + TTL, value |-> now]
  <2>1. /\ order' = Cache!Evict(Cache!Put(k))
        /\ entry' = [j \in Keys |-> IF j \notin Held(order') THEN None
                                    ELSE IF j = k THEN new ELSE entry[j]]
    BY <1>6 DEF Cache!Responds, Held
  <2>2. /\ order' \in Seq(Keys) /\ Len(order') <= MaxEntries /\ Distinct(order')
        /\ Held(order') \subseteq Held(order) \cup {k}
    BY <2>1, EvictKeepsOrder
  <2>3. new \in Entries /\ new.expires = new.value + TTL /\ new # None
    BY DEF Entries, CacheTypes, Cache!ReadCacheAssumption
  <2> HIDE DEF new
  <2>4. \A j \in Keys : j \in Held(order) => entry[j] # None /\ entry[j] \in Entries
    BY DEF OrderOK, CacheTypes
  <2>5. entry' \in [Keys -> Entries \cup {None}]
    BY <2>1, <2>2, <2>3, <2>4
  <2>6. \A j \in Keys : entry'[j] # None <=> j \in Held(order')
    BY <2>1, <2>2, <2>3, <2>4
  <2>7. EntriesOK'
    BY <2>1, <2>3 DEF EntriesOK
  <2>8. OrderOK'
    BY <2>2, <2>6 DEF OrderOK, Distinct, Held
  <2>9. CacheTypes'
    BY <1>2, <1>4, <2>2, <2>5 DEF CacheTypes
  <2> QED
    BY <1>3, <2>7, <2>8, <2>9
<1> QED
  BY <1>5, <1>6

LEMMA CacheInvariance ==
    ASSUME Cache!ReadCacheAssumption
    PROVE  Cache!Spec => []CacheInv
<1>1. Cache!Init => CacheInv
  BY CacheStarts
<1>2. CacheInv /\ [Cache!Next]_Cache!vars => CacheInv'
  <2> SUFFICES ASSUME CacheInv, [Cache!Next]_Cache!vars PROVE CacheInv'
    OBVIOUS
  <2>1. CASE Cache!Tick
    BY <2>1 DEF Cache!Tick, CacheInv, CacheTypes, EntriesOK, ReadersOK, OrderOK, Distinct, Held,
       Cache!AbandonedRequestsAreAborted, Cache!ReadCacheAssumption
  <2>2. CASE UNCHANGED Cache!vars
    <3>1. /\ now' = now /\ order' = order /\ entry' = entry /\ inflight' = inflight
          /\ pc' = pc /\ key' = key /\ answer' = answer
      BY <2>2 DEF Cache!vars
    <3>2. Held(order)' = Held(order) /\ Distinct(order)' = Distinct(order)
      BY <3>1 DEF Held, Distinct
    <3> QED
      BY <3>1, <3>2 DEF CacheInv, CacheTypes, EntriesOK, ReadersOK, OrderOK,
         Cache!AbandonedRequestsAreAborted
  <2> QED
    BY <2>1, <2>2, ReaderMoves, RequestEnds DEF Cache!Next
<1> QED
  BY <1>1, <1>2, PTL DEF Cache!Spec

(* However reads, refreshes, failures and expiry mix, the store holds at   *)
(* most its bound, every key once (ResponseCache.set).                     *)
THEOREM StoreStaysBounded ==
    ASSUME Cache!ReadCacheAssumption
    PROVE  Cache!Spec => []Cache!StoreIsBounded
<1>1. CacheInv => Cache!StoreIsBounded
  <2> SUFFICES ASSUME CacheInv PROVE Cache!StoreIsBounded
    OBVIOUS
  <2>1. /\ order \in Seq(Keys) /\ Distinct(order) /\ Len(order) <= MaxEntries
        /\ \A k \in Keys : entry[k] # None <=> k \in Held(order)
    BY DEF CacheInv, CacheTypes, OrderOK
  <2>2. Held(order) \subseteq Keys
    BY <2>1 DEF Held
  <2>3. {k \in Keys : entry[k] # None} = Held(order)
    BY <2>1, <2>2
  <2>4. Cardinality(Held(order)) = Len(order)
    BY <2>1, DistinctCount
  <2>5. \A k \in Keys : k \in Held(order) <=> \E i \in 1..Len(order) : order[i] = k
    BY DEF Held
  <2>6. Cardinality({k \in Keys : entry[k] # None}) = Len(order)
    BY <2>3, <2>4
  <2>7. \A k \in Keys : entry[k] # None <=> \E i \in 1..Len(order) : order[i] = k
    BY <2>1, <2>5
  <2> QED
    BY <2>1, <2>6, <2>7, CacheCounts DEF Cache!StoreIsBounded
<1> QED
  BY <1>1, CacheInvariance, PTL

(* A request that nobody waits for any more is aborted, and a failure is   *)
(* never kept for the next reader.                                         *)
THEOREM SharedRequestsEnd ==
    ASSUME Cache!ReadCacheAssumption
    PROVE  Cache!Spec => []Cache!AbandonedRequestsAreAborted /\ []Cache!FailuresAreNotCached
<1>1. CacheInv => Cache!AbandonedRequestsAreAborted /\ Cache!FailuresAreNotCached
  BY DEF CacheInv, CacheTypes, Entries, Cache!FailuresAreNotCached, Cache!Error,
         Cache!ReadCacheAssumption
<1> QED
  BY <1>1, CacheInvariance, PTL

(* Who leaves a shared request cancels it for nobody who stays.            *)
THEOREM LeavingIsHarmless ==
    ASSUME Cache!ReadCacheAssumption
    PROVE  Cache!Spec => [][Cache!LeavingHurtsNobody]_Cache!vars
<1>1. CacheInv /\ [Cache!Next]_Cache!vars => [Cache!LeavingHurtsNobody]_Cache!vars
  <2> SUFFICES ASSUME CacheInv, Cache!Next, NEW k \in Keys, inflight[k] # None,
                      inflight'[k] # None, inflight'[k].readers # {}
               PROVE  inflight'[k].aborted = inflight[k].aborted
    BY DEF Cache!LeavingHurtsNobody
  <2> USE DEF CacheInv, CacheTypes
  <2>0. inflight[k] \in Requests
    OBVIOUS
  <2>1. CASE inflight'[k] = inflight[k]
    BY <2>1
  <2>2. ASSUME NEW r \in Readers, Cache!Subscribe(r)
        PROVE  inflight'[k].aborted = inflight[k].aborted
    BY <2>0, <2>2 DEF Cache!Subscribe, Requests
  <2>3. ASSUME NEW r \in Readers, Cache!Abort(r)
        PROVE  inflight'[k].aborted = inflight[k].aborted
    BY <2>0, <2>3 DEF Cache!Abort, Cache!Leave, Requests
  <2>4. ASSUME NEW j \in Keys, Cache!Settle(j, now) \/ Cache!Settle(j, Cache!Error)
        PROVE  inflight'[k] = inflight[k]
    BY <2>4 DEF Cache!Settle
  <2>5. \A r \in Readers : Cache!Bypass(r) \/ Cache!Hit(r) \/ Cache!DirectEnds(r) \/ Cache!Again(r)
           => inflight'[k] = inflight[k]
    BY DEF Cache!Bypass, Cache!Hit, Cache!DirectEnds, Cache!Again
  <2>6. Cache!Tick => inflight'[k] = inflight[k]
    BY DEF Cache!Tick
  <2> QED
    BY <2>1, <2>2, <2>3, <2>4, <2>5, <2>6 DEF Cache!Next, Cache!Responds, Cache!Fails
<1> QED
  BY <1>1, CacheInvariance, PTL DEF Cache!Spec

(* What is answered from the store arrived less than a time to live ago.   *)
THEOREM HitsStayFresh ==
    ASSUME Cache!ReadCacheAssumption
    PROVE  Cache!Spec => [][Cache!HitsAreFresh]_Cache!vars
<1>1. CacheInv /\ [Cache!Next]_Cache!vars => [Cache!HitsAreFresh]_Cache!vars
  <2> SUFFICES ASSUME CacheInv, Cache!Next, NEW r \in Readers, pc[r] = "idle", pc'[r] = "done"
               PROVE  answer'[r] > now - TTL
    BY DEF Cache!HitsAreFresh
  <2> USE DEF CacheInv, CacheTypes
  <2>1. ASSUME NEW q \in Readers, Cache!Hit(q)
        PROVE  answer'[r] > now - TTL
    <3>1. q = r /\ entry[key[r]] # None /\ entry[key[r]].expires > now /\ answer'[r] = entry[key[r]].value
      BY <2>1 DEF Cache!Hit, Cache!Fresh
    <3>2. key[r] \in Keys /\ entry[key[r]] \in Entries
      BY <3>1
    <3>3. entry[key[r]].expires = entry[key[r]].value + TTL /\ entry[key[r]].value \in Int
      BY <3>1, <3>2 DEF EntriesOK, Entries
    <3> QED
      BY <3>1, <3>3 DEF Cache!ReadCacheAssumption
  <2>2. \A q \in Readers : ~(Cache!Bypass(q) \/ Cache!Subscribe(q) \/ Cache!DirectEnds(q)
                             \/ Cache!Abort(q) \/ Cache!Again(q))
    BY DEF Cache!Bypass, Cache!Subscribe, Cache!DirectEnds, Cache!Abort, Cache!Again
  <2>3. ~Cache!Tick
    BY DEF Cache!Tick
  <2>4. \A k \in Keys : ~(Cache!Responds(k) \/ Cache!Fails(k))
    BY DEF Cache!Responds, Cache!Fails, Cache!Settle, ReadersOK
  <2> QED
    BY <2>1, <2>2, <2>3, <2>4 DEF Cache!Next
<1> QED
  BY <1>1, CacheInvariance, PTL DEF Cache!Spec

-----------------------------------------------------------------------------
(***************************************************************************)
(* The Harvest client.  What matters is which names of tokens a read may   *)
(* still meet: the one it was refused with is not minted again while the   *)
(* read remembers it, and it is out of the cache by the time the read      *)
(* looks there.                                                            *)
(***************************************************************************)
Harvest == INSTANCE HarvestClient

(* A read that waits, waits for a token; one that sends has one that was   *)
(* answered, as the cached one was.                                        *)
TokensOK ==
    /\ cachedToken # None => mint[cachedToken] = "none"
    /\ \A r \in Reads :
         /\ pc[r] = "mint" => token[r] # None
         /\ pc[r] \in {"get", "refused"} => token[r] # None /\ mint[token[r]] = "none"

(* What a read was refused with is no mint under way, and is not cached    *)
(* once its 401 was handled.                                               *)
RefusalsOK ==
    \A r \in Reads :
      /\ pc[r] = "refused" => refused[r] = token[r]
      /\ refused[r] # None =>
           /\ mint[refused[r]] = "none"
           /\ pc[r] = "refused" \/ cachedToken # refused[r]

(* Requests sent are the attempts spent, the refresh, and the one that is  *)
(* out.                                                                    *)
BudgetOK ==
    \A r \in Reads :
      /\ pc[r] \in {"start", "sleep", "mint"} => gets[r] <= attempt[r] + authRefreshes[r]
      /\ pc[r] \in {"get", "refused"} => gets[r] <= attempt[r] + authRefreshes[r] + 1
      /\ pc[r] \in Harvest!Ended => gets[r] = 0

HarvestInv ==
    /\ Harvest!TypeOK
    /\ gets \in [Reads -> Nat]
    /\ TokensOK
    /\ RefusalsOK
    /\ BudgetOK

LEMMA HarvestStarts ==
    ASSUME Harvest!ClientAssumption
    PROVE  Harvest!Init => HarvestInv
BY DEF Harvest!ClientAssumption, Harvest!Init, HarvestInv, Harvest!TypeOK, TokensOK, RefusalsOK,
       BudgetOK, Harvest!Ended, Harvest!MaxAuthRefreshes, Harvest!MaxTimeoutRetries

LEMMA HarvestSteps ==
    ASSUME Harvest!ClientAssumption, HarvestInv, [Harvest!Next]_Harvest!vars
    PROVE  HarvestInv'
<1> USE DEF Harvest!ClientAssumption, HarvestInv, Harvest!TypeOK, TokensOK, RefusalsOK, BudgetOK,
            Harvest!Ended, Harvest!MaxAuthRefreshes, Harvest!MaxTimeoutRetries, Harvest!Goto,
            Harvest!auth, Harvest!upstream, Harvest!context, Harvest!Forget, Harvest!Send
<1>1. ASSUME NEW r \in Reads, Harvest!UsesCache(r)
      PROVE  HarvestInv'
  BY <1>1 DEF Harvest!UsesCache
<1>2. ASSUME NEW r \in Reads, Harvest!Joins(r)
      PROVE  HarvestInv'
  BY <1>2 DEF Harvest!Joins
<1>3. ASSUME NEW r \in Reads, Harvest!Mints(r)
      PROVE  HarvestInv'
  BY <1>3 DEF Harvest!Mints, Harvest!Unused
<1>4. ASSUME NEW r \in Reads, NEW o \in Harvest!Ended, Harvest!Ends(r, o),
             \/ UNCHANGED <<cachedToken, inFlightToken>>
             \/ cachedToken' = None /\ inFlightToken' = None
      PROVE  HarvestInv'
  BY <1>4 DEF Harvest!Ends
<1>5. ASSUME NEW r \in Reads, Harvest!Succeeds(r) \/ Harvest!Fails(r)
      PROVE  HarvestInv'
  BY <1>4, <1>5 DEF Harvest!Succeeds, Harvest!Fails
<1>6. ASSUME NEW r \in Reads, Harvest!RateLimited(r)
      PROVE  HarvestInv'
  <2>1. CASE pc[r] = "get" /\ Harvest!Retry(r, "sleep") /\ UNCHANGED timeoutRetries
    BY <2>1 DEF Harvest!Retry
  <2>2. CASE Harvest!Ends(r, "rate_limited") /\ UNCHANGED <<cachedToken, inFlightToken>>
    BY <1>4, <2>2
  <2> QED
    BY <1>6, <2>1, <2>2 DEF Harvest!RateLimited
<1>7. ASSUME NEW r \in Reads, Harvest!TimesOut(r)
      PROVE  HarvestInv'
  <2>1. CASE /\ pc[r] = "get" /\ timeoutRetries[r] < Harvest!MaxTimeoutRetries
             /\ Harvest!Retry(r, "start")
             /\ timeoutRetries' = [timeoutRetries EXCEPT ![r] = @ + 1]
    BY <2>1 DEF Harvest!Retry
  <2>2. CASE Harvest!Ends(r, "failed") /\ UNCHANGED <<cachedToken, inFlightToken>>
    BY <1>4, <2>2
  <2> QED
    BY <1>7, <2>1, <2>2 DEF Harvest!TimesOut
<1>8. ASSUME NEW r \in Reads, Harvest!Refuses(r)
      PROVE  HarvestInv'
  BY <1>8 DEF Harvest!Refuses
<1>9. ASSUME NEW r \in Reads, Harvest!Wakes(r) \/ Harvest!Again(r)
      PROVE  HarvestInv'
  BY <1>9 DEF Harvest!Wakes, Harvest!Again
<1>10. ASSUME NEW r \in Reads, Harvest!Handles401(r)
       PROVE  HarvestInv'
  <2>1. pc[r] = "refused" /\ cachedToken' = None /\ inFlightToken' = None
    BY <1>10 DEF Harvest!Handles401, Harvest!ResetAuthState
  <2>2. CASE /\ authRefreshes[r] < Harvest!MaxAuthRefreshes
             /\ authRefreshes' = [authRefreshes EXCEPT ![r] = @ + 1]
             /\ Harvest!Goto(r, "start")
             /\ Harvest!Forget(token, r, None)
             /\ UNCHANGED <<mint, active, revoked, attempt, timeoutRetries, refused, gets>>
    BY <2>1, <2>2
  <2>3. CASE Harvest!Ends(r, "auth_revoked") \/ Harvest!Ends(r, "aborted")
    BY <1>4, <2>1, <2>3
  <2> QED
    BY <1>10, <2>2, <2>3 DEF Harvest!Handles401
<1>11. ASSUME NEW r \in Reads, Harvest!Abort(r)
       PROVE  HarvestInv'
  BY <1>4, <1>11 DEF Harvest!Abort
<1>12. ASSUME NEW t \in Tokens, Harvest!Issue(t)
       PROVE  HarvestInv'
  BY <1>12 DEF Harvest!Issue
<1>13. ASSUME NEW t \in Tokens, Harvest!MintAnswers(t)
       PROVE  HarvestInv'
  BY <1>13 DEF Harvest!MintAnswers, Harvest!WaitsFor
<1>14. ASSUME NEW t \in Tokens, Harvest!MintFails(t)
       PROVE  HarvestInv'
  BY <1>14 DEF Harvest!MintFails, Harvest!WaitsFor, Harvest!ForAll
<1>15. CASE Harvest!Revoke \/ Harvest!Expire
  BY <1>15 DEF Harvest!Revoke, Harvest!Expire
<1>16. CASE UNCHANGED Harvest!vars
  BY <1>16 DEF Harvest!vars
<1> QED
  BY <1>1, <1>2, <1>3, <1>5, <1>6, <1>7, <1>8, <1>9, <1>10, <1>11, <1>12, <1>13, <1>14, <1>15,
     <1>16 DEF Harvest!Next, Harvest!Step, Harvest!Attempt, Harvest!Response, Harvest!Mint

LEMMA HarvestInvariance ==
    ASSUME Harvest!ClientAssumption
    PROVE  Harvest!Spec => []HarvestInv
<1>1. Harvest!Init => HarvestInv
  BY HarvestStarts
<1>2. HarvestInv /\ [Harvest!Next]_Harvest!vars => HarvestInv'
  BY HarvestSteps
<1> QED
  BY <1>1, <1>2, PTL DEF Harvest!Spec

(* However 401s, 429s and timeouts mix, a read sends at most one request   *)
(* per attempt and one more after its refresh (withRetry).                 *)
THEOREM RetriesAreBounded ==
    ASSUME Harvest!ClientAssumption
    PROVE  Harvest!Spec => []Harvest!RequestsAreBounded
<1>1. HarvestInv => Harvest!RequestsAreBounded
  BY DEF HarvestInv, BudgetOK, Harvest!TypeOK, Harvest!RequestsAreBounded, Harvest!Ended,
         Harvest!MaxAuthRefreshes, Harvest!ClientAssumption
<1> QED
  BY <1>1, HarvestInvariance, PTL

(* A read never sends again the token it was refused with, though other    *)
(* reads fill and drop the shared cache in between (resetAuthState).       *)
THEOREM RefusedTokensStayAway ==
    ASSUME Harvest!ClientAssumption
    PROVE  Harvest!Spec => [][Harvest!RefusedTokensAreNotReused]_Harvest!vars
<1>1. HarvestInv /\ [Harvest!Next]_Harvest!vars
         => [Harvest!RefusedTokensAreNotReused]_Harvest!vars
  <2> SUFFICES ASSUME HarvestInv, Harvest!Next, NEW r \in Reads, gets'[r] > gets[r]
               PROVE  token'[r] # refused[r]
    BY DEF Harvest!RefusedTokensAreNotReused
  <2> USE DEF HarvestInv, Harvest!TypeOK, RefusalsOK, TokensOK, Harvest!ClientAssumption,
              Harvest!Goto, Harvest!Forget, Harvest!Send
  <2>1. ASSUME NEW q \in Reads, Harvest!UsesCache(q)
        PROVE  token'[r] # refused[r]
    BY <2>1 DEF Harvest!UsesCache
  <2>2. ASSUME NEW t \in Tokens, Harvest!MintAnswers(t)
        PROVE  token'[r] # refused[r]
    BY <2>2 DEF Harvest!MintAnswers, Harvest!WaitsFor
  <2>3. \A q \in Reads : ~(Harvest!Joins(q) \/ Harvest!Mints(q) \/ Harvest!Response(q)
                           \/ Harvest!Wakes(q) \/ Harvest!Handles401(q) \/ Harvest!Abort(q)
                           \/ Harvest!Again(q))
    BY DEF Harvest!Joins, Harvest!Mints, Harvest!Response, Harvest!Succeeds, Harvest!Fails,
           Harvest!RateLimited, Harvest!TimesOut, Harvest!Refuses, Harvest!Retry, Harvest!Ends,
           Harvest!Wakes, Harvest!Handles401, Harvest!Abort, Harvest!Again
  <2>4. (\A t \in Tokens : ~(Harvest!Issue(t) \/ Harvest!MintFails(t)))
        /\ ~(Harvest!Revoke \/ Harvest!Expire)
    BY DEF Harvest!Issue, Harvest!MintFails, Harvest!ForAll, Harvest!Revoke, Harvest!Expire
  <2> QED
    BY <2>1, <2>2, <2>3, <2>4 DEF Harvest!Next, Harvest!Step, Harvest!Attempt, Harvest!Mint
<1> QED
  BY <1>1, HarvestInvariance, PTL DEF Harvest!Spec

-----------------------------------------------------------------------------
(***************************************************************************)
(* The rate limiter.  A bucket whose window runs counts at least the calls *)
(* allowed since it began, and the window before it left less than a full  *)
(* limit to the stretch of WindowMs that ends now.                         *)
(*                                                                         *)
(* How many calls a history has is a recursive function of the age.  That  *)
(* it has its values, and what it has them from, is proved by taking the   *)
(* least age at which it has not: the library's induction theorems take an *)
(* operator, but the order of the natural numbers is well founded on every *)
(* set of them.                                                            *)
(***************************************************************************)
Limits == INSTANCE RateLimiter WITH refused <- refusedNow

LEMMA LeastNatural ==
    ASSUME NEW T \in SUBSET Nat, T # {}
    PROVE  \E m \in T : \A k \in T : m <= k
<1> DEFINE R == {ss \in Nat \X Nat : ss[1] < ss[2]}
<1>1. IsWellFoundedOn(R, Nat)
  BY NatLessThanWellFounded DEF OpToRel
<1>2. \E m \in T : \A k \in T : ~(<<k, m>> \in R)
  <2> HIDE DEF R
  <2> QED
    BY <1>1, WFMin
<1>3. PICK m \in T : \A k \in T : ~(<<k, m>> \in R)
  BY <1>2
<1>4. \A k \in T : ~(k < m)
  BY <1>3
<1> QED
  BY <1>4

(* What holds of 0 and of each number after one of which it holds is true  *)
(* of all numbers up to n.                                                 *)
LEMMA UpTo ==
    ASSUME NEW n \in Nat, NEW S, 0 \in S, \A k \in 1..n : k - 1 \in S => k \in S
    PROVE  0..n \subseteq S
<1> DEFINE T == {k \in 0..n : k \notin S}
<1> SUFFICES ASSUME T # {} PROVE FALSE
  OBVIOUS
<1>1. PICK m \in T : \A k \in T : m <= k
  <2>1. T \in SUBSET Nat
    OBVIOUS
  <2> HIDE DEF T
  <2> QED
    BY <2>1, LeastNatural
<1> QED
  BY <1>1

Length == 2 * WindowMs
History == [Limits!Ages -> Nat]

(* The sums exist, and are sums.                                           *)
LEMMA SumsStep ==
    ASSUME Limits!LimiterAssumption, NEW f \in History
    PROVE  /\ Limits!Below(f) \in [0..Length -> Nat]
           /\ Limits!Below(f)[0] = 0
           /\ \A n \in 1..Length : Limits!Below(f)[n] = Limits!Below(f)[n - 1] + f[n - 1]
<1> DEFINE IsSum(g, k) == /\ g \in [0..k -> Nat] /\ g[0] = 0
                          /\ \A n \in 1..k : g[n] = g[n - 1] + f[n - 1]
           S == {k \in 0..Length : \E g : IsSum(g, k)}
           Defined(g) == g = [n \in 0..Length |-> IF n = 0 THEN 0 ELSE g[n - 1] + f[n - 1]]
<1>1. Length \in Nat /\ \A n \in 1..Length : f[n - 1] \in Nat
  BY DEF Limits!LimiterAssumption, History, Limits!Ages, Length
<1>2. 0 \in S
  <2>1. IsSum([n \in 0..0 |-> 0], 0)
    OBVIOUS
  <2>2. \E g : IsSum(g, 0)
    <3> HIDE DEF IsSum
    <3> QED
      BY <2>1
  <2> QED
    BY <1>1, <2>2
<1>3. ASSUME NEW k \in 1..Length, k - 1 \in S PROVE k \in S
  <2>1. PICK g : IsSum(g, k - 1)
    BY <1>3
  <2> DEFINE h == [n \in 0..k |-> IF n = k THEN g[k - 1] + f[k - 1] ELSE g[n]]
  <2>2. \A n \in 0..k - 1 : h[n] = g[n] /\ g[n] \in Nat
    BY <1>1, <2>1
  <2>3. h[k] = h[k - 1] + f[k - 1] /\ h[k] \in Nat
    BY <1>1, <2>1, <2>2
  <2>4. h \in [0..k -> Nat]
    <3> HIDE DEF h
    <3>1. \A n \in 0..k : h[n] \in Nat
      BY <1>1, <2>2, <2>3
    <3>2. h = [n \in 0..k |-> h[n]]
      BY DEF h
    <3> QED
      BY <3>1, <3>2
  <2>5. \A n \in 1..k : h[n] = h[n - 1] + f[n - 1]
    <3>1. \A n \in 1..k - 1 : h[n] = h[n - 1] + f[n - 1]
      BY <1>1, <2>1, <2>2
    <3> HIDE DEF h
    <3> QED
      BY <1>1, <2>3, <3>1
  <2>6. h[0] = 0
    BY <2>1, <2>2
  <2>7. IsSum(h, k)
    <3> HIDE DEF h
    <3> QED
      BY <2>4, <2>5, <2>6
  <2>8. \E i : IsSum(i, k)
    <3> HIDE DEF h, IsSum
    <3> QED
      BY <2>7
  <2>9. k \in 0..Length
    BY <1>1
  <2> HIDE DEF h, IsSum
  <2> QED
    BY <2>8, <2>9
<1>4. PICK g : IsSum(g, Length)
  <2> HIDE DEF S
  <2>1. 0..Length \subseteq S
    BY <1>1, <1>2, <1>3, UpTo
  <2>2. Length \in S
    BY <1>1, <2>1
  <2> HIDE DEF IsSum
  <2> QED
    BY <2>2 DEF S
<1>5. Defined(g)
  BY <1>1, <1>4
<1>6. Limits!Below(f) = CHOOSE b : Defined(b)
  BY DEF Limits!Below, Length
<1>7. Defined(Limits!Below(f))
  <2> HIDE DEF Defined
  <2> QED
    BY <1>5, <1>6
<1> DEFINE b == Limits!Below(f)
<1>8. b[0] = 0 /\ DOMAIN b = 0..Length /\ \A n \in 1..Length : b[n] = b[n - 1] + f[n - 1]
  BY <1>1, <1>7
<1>9. 0..Length \subseteq {n \in 0..Length : b[n] \in Nat}
  <2> HIDE DEF b
  <2> DEFINE N == {n \in 0..Length : b[n] \in Nat}
  <2>1. 0 \in N /\ \A k \in 1..Length : k - 1 \in N => k \in N
    BY <1>1, <1>8
  <2> HIDE DEF N
  <2>2. 0..Length \subseteq N
    BY <1>1, <2>1, UpTo
  <2> QED
    BY <2>2 DEF N
<1>10. b = [n \in 0..Length |-> b[n]]
  BY <1>7
<1> HIDE DEF b
<1> QED
  BY <1>8, <1>9, <1>10 DEF b

(* Sums grow with the age.                                                 *)
LEMMA SumsGrow ==
    ASSUME Limits!LimiterAssumption, NEW f \in History, NEW i \in 0..Length
    PROVE  \A n \in i..Length : Limits!Below(f)[i] <= Limits!Below(f)[n]
<1> DEFINE b == Limits!Below(f)
           S == {k \in 0..Length - i : b[i] <= b[i + k]}
<1>1. Length \in Nat /\ \A n \in 1..Length : f[n - 1] \in Nat
  BY DEF Limits!LimiterAssumption, History, Limits!Ages, Length
<1>2. b \in [0..Length -> Nat] /\ \A n \in 1..Length : b[n] = b[n - 1] + f[n - 1]
  BY SumsStep
<1> HIDE DEF b
<1>3. 0 \in S /\ \A k \in 1..Length - i : k - 1 \in S => k \in S
  <2>1. 0 \in S
    BY <1>1, <1>2
  <2>2. ASSUME NEW k \in 1..Length - i, k - 1 \in S PROVE k \in S
    <3>1. i + k \in 1..Length /\ i + (k - 1) = (i + k) - 1 /\ f[(i + k) - 1] \in Nat
      BY <1>1
    <3>2. b[i + k] = b[(i + k) - 1] + f[(i + k) - 1] /\ b[(i + k) - 1] \in Nat /\ b[i] \in Nat
      BY <1>1, <1>2, <3>1
    <3> QED
      BY <1>1, <2>2, <3>1, <3>2
  <2> QED
    BY <2>1, <2>2
<1>4. 0..Length - i \subseteq S
  <2> HIDE DEF S
  <2> QED
    BY <1>1, <1>3, UpTo
<1>5. ASSUME NEW n \in i..Length PROVE b[i] <= b[n]
  <2>1. n - i \in 0..Length - i /\ i + (n - i) = n
    BY <1>1
  <2> QED
    BY <1>4, <2>1
<1> QED
  BY <1>5 DEF b

(* Two histories that differ in their youngest call, by d of them.         *)
LEMMA SumsWithACall ==
    ASSUME Limits!LimiterAssumption, NEW f \in History, NEW g \in History, NEW d \in Nat,
           g[0] = f[0] + d, \A a \in Limits!Ages \ {0} : g[a] = f[a]
    PROVE  /\ Limits!Below(g)[0] = Limits!Below(f)[0]
           /\ \A n \in 1..Length : Limits!Below(g)[n] = Limits!Below(f)[n] + d
<1> DEFINE b == Limits!Below(f)
           e == Limits!Below(g)
           S == {k \in 0..Length : k = 0 \/ e[k] = b[k] + d}
<1>1. Length \in Nat /\ Limits!Ages = 0..Length - 1
  BY DEF Limits!LimiterAssumption, Limits!Ages, Length
<1>2. b \in [0..Length -> Nat] /\ b[0] = 0 /\ \A n \in 1..Length : b[n] = b[n - 1] + f[n - 1]
  BY SumsStep
<1>3. e \in [0..Length -> Nat] /\ e[0] = 0 /\ \A n \in 1..Length : e[n] = e[n - 1] + g[n - 1]
  BY SumsStep
<1>4. \A n \in 1..Length : f[n - 1] \in Nat /\ g[n - 1] \in Nat
  BY <1>1 DEF History
<1> HIDE DEF b, e
<1>5. ASSUME NEW k \in 1..Length, k - 1 \in S PROVE k \in S
  <2>1. CASE k = 1
    <3>1. 1 \in 1..Length /\ 1 - 1 = 0
      BY <2>1
    <3>2. f[0] \in Nat /\ g[0] \in Nat
      BY <1>4, <3>1
    <3>3. e[1] = e[0] + g[0] /\ b[1] = b[0] + f[0]
      BY <1>2, <1>3, <3>1
    <3>4. e[1] = g[0] /\ b[1] = f[0]
      BY <1>2, <1>3, <3>2, <3>3
    <3> QED
      BY <2>1, <3>2, <3>4
  <2>2. CASE k # 1
    <3>1. g[k - 1] = f[k - 1] /\ e[k - 1] = b[k - 1] + d
      BY <1>1, <1>5, <2>2
    <3> QED
      BY <1>1, <1>2, <1>3, <1>4, <3>1
  <2> QED
    BY <2>1, <2>2
<1>6. 0..Length \subseteq S
  <2>1. 0 \in S
    BY <1>1
  <2> HIDE DEF S
  <2> QED
    BY <1>1, <1>5, <2>1, UpTo
<1> QED
  BY <1>2, <1>3, <1>6 DEF b, e

(* A history that is another one, a tick later.                            *)
LEMMA SumsShift ==
    ASSUME Limits!LimiterAssumption, NEW f \in History, NEW g \in History,
           g[0] = 0, \A a \in Limits!Ages \ {0} : g[a] = f[a - 1]
    PROVE  \A n \in 1..Length : Limits!Below(g)[n] = Limits!Below(f)[n - 1]
<1> DEFINE b == Limits!Below(f)
           e == Limits!Below(g)
           S == {k \in 0..Length : k = 0 \/ e[k] = b[k - 1]}
<1>1. Length \in Nat /\ Limits!Ages = 0..Length - 1
  BY DEF Limits!LimiterAssumption, Limits!Ages, Length
<1>2. b \in [0..Length -> Nat] /\ b[0] = 0 /\ \A n \in 1..Length : b[n] = b[n - 1] + f[n - 1]
  BY SumsStep
<1>3. e \in [0..Length -> Nat] /\ e[0] = 0 /\ \A n \in 1..Length : e[n] = e[n - 1] + g[n - 1]
  BY SumsStep
<1>4. \A n \in 1..Length : f[n - 1] \in Nat /\ g[n - 1] \in Nat
  BY <1>1 DEF History
<1> HIDE DEF b, e
<1>5. ASSUME NEW k \in 1..Length, k - 1 \in S PROVE k \in S
  <2>1. CASE k = 1
    BY <1>1, <1>2, <1>3, <1>4, <2>1
  <2>2. CASE k # 1
    <3>1. k - 1 \in 1..Length /\ k - 2 \in 0..Length /\ e[k - 1] = b[k - 2] /\ g[k - 1] = f[k - 2]
      BY <1>1, <1>5, <2>2
    <3>2. e[k] = e[k - 1] + g[k - 1] /\ b[k - 1] = b[k - 2] + f[k - 2]
      BY <1>2, <1>3, <3>1
    <3> QED
      BY <3>1, <3>2
  <2> QED
    BY <2>1, <2>2
<1>6. 0..Length \subseteq S
  <2>1. 0 \in S
    BY <1>1
  <2> HIDE DEF S
  <2> QED
    BY <1>1, <1>5, <2>1, UpTo
<1> QED
  BY <1>6 DEF b, e

Buckets == [age : 0..WindowMs, count : Nat]
Own(which, s) == bucket[which][Limits!rateLimitPrincipalKey(s)]
Running(b) == b.count > 0 /\ b.age < WindowMs
Charged(b) == IF Running(b) THEN [b EXCEPT !.count = @ + 1] ELSE [age |-> 0, count |-> 1]
Aged(b) == IF Running(b) THEN [b EXCEPT !.age = @ + 1] ELSE b

(* A bucket and the history of calls that it bounds by the limit l.  Where *)
(* a window runs, its first call is as old as the window.                  *)
Fits(b, f, l) ==
    LET sum == Limits!Below(f)
    IN  /\ b.count <= l
        /\ IF Running(b)
           THEN /\ sum[b.age + 1] <= b.count
                /\ sum[b.age] <= b.count - 1
                /\ sum[b.age + WindowMs] - sum[b.age + 1] <= l - 1
           ELSE sum[1] = 0 /\ sum[WindowMs] <= l - 1

(* What a call that is not refused for a full bucket does to it.           *)
LEMMA ChargedFits ==
    ASSUME Limits!LimiterAssumption, NEW b \in Buckets, NEW f \in History, NEW g \in History,
           NEW l \in Nat \ {0}, Fits(b, f, l), Running(b) => b.count < l,
           NEW d \in 0..1, g[0] = f[0] + d, \A a \in Limits!Ages \ {0} : g[a] = f[a]
    PROVE  Charged(b) \in Buckets /\ Fits(Charged(b), g, l)
<1> DEFINE p == Limits!Below(f)
           q == Limits!Below(g)
<1>1. WindowMs \in Nat \ {0} /\ Length = 2 * WindowMs
  BY DEF Limits!LimiterAssumption, Length
<1>2. p \in [0..Length -> Nat] /\ p[0] = 0 /\ q \in [0..Length -> Nat]
  BY SumsStep
<1>3. q[0] = p[0] /\ \A n \in 1..Length : q[n] = p[n] + d
  <2>1. d \in Nat
    OBVIOUS
  <2> QED
    BY <2>1, SumsWithACall
<1> HIDE DEF p, q
<1>4. CASE Running(b)
  <2>1. /\ Charged(b) = [b EXCEPT !.count = @ + 1] /\ b.age \in 0..WindowMs - 1 /\ b.count \in Nat
        /\ Charged(b).age = b.age /\ Charged(b).count = b.count + 1
    BY <1>1, <1>4 DEF Charged, Running, Buckets
  <2>2. Running(Charged(b)) /\ Charged(b) \in Buckets
    BY <1>1, <1>4, <2>1 DEF Running, Buckets
  <2>3. p[b.age + 1] <= b.count /\ p[b.age] <= b.count - 1 /\ p[b.age + WindowMs] - p[b.age + 1] <= l - 1
    BY <1>4 DEF Fits, p
  <2>4. b.age \in 0..Length /\ b.age + 1 \in 1..Length /\ b.age + WindowMs \in 1..Length
    BY <1>1, <2>1
  <2>5. q[b.age + 1] = p[b.age + 1] + d /\ q[b.age + WindowMs] = p[b.age + WindowMs] + d
        /\ q[b.age] <= p[b.age] + d
        /\ {p[b.age], p[b.age + 1], p[b.age + WindowMs], q[b.age]} \subseteq Nat
    <3>1. q[b.age + 1] = p[b.age + 1] + d /\ q[b.age + WindowMs] = p[b.age + WindowMs] + d
      BY <1>3, <2>4
    <3>2. p[b.age] \in Nat /\ q[b.age] \in Nat /\ p[b.age + 1] \in Nat /\ p[b.age + WindowMs] \in Nat
      BY <1>2, <2>4
    <3>3. b.age = 0 \/ b.age \in 1..Length
      BY <2>4
    <3>4. q[b.age] = p[b.age] \/ q[b.age] = p[b.age] + d
      BY <1>3, <3>3
    <3> QED
      BY <3>1, <3>2, <3>4
  <2>6. /\ q[b.age + 1] <= b.count + 1 /\ q[b.age] <= (b.count + 1) - 1
        /\ q[b.age + WindowMs] - q[b.age + 1] <= l - 1 /\ b.count + 1 <= l
    BY <1>4, <2>1, <2>3, <2>5
  <2> QED
    BY <2>1, <2>2, <2>6 DEF Fits, q
<1>5. CASE ~Running(b)
  <2>1. /\ Charged(b) = [age |-> 0, count |-> 1] /\ Charged(b) \in Buckets
        /\ Running(Charged(b)) /\ Charged(b).age = 0 /\ Charged(b).count = 1
    BY <1>1, <1>5 DEF Charged, Running, Buckets
  <2>2. p[1] = 0 /\ p[WindowMs] <= l - 1
    BY <1>5 DEF Fits, p
  <2>3. 1 \in 1..Length /\ WindowMs \in 1..Length
    BY <1>1
  <2>4. q[1] = d /\ q[WindowMs] = p[WindowMs] + d /\ q[0] = 0 /\ p[WindowMs] \in Nat
    BY <1>2, <1>3, <2>2, <2>3
  <2>5. q[0 + 1] <= 1 /\ q[0] <= 1 - 1 /\ q[0 + WindowMs] - q[0 + 1] <= l - 1 /\ 1 <= l
    BY <1>1, <2>2, <2>4
  <2> QED
    BY <2>1, <2>5 DEF Fits, q
<1> QED
  BY <1>4, <1>5

(* And what a tick does.                                                   *)
LEMMA AgedFits ==
    ASSUME Limits!LimiterAssumption, NEW b \in Buckets, NEW f \in History, NEW g \in History,
           NEW l \in Nat \ {0}, Fits(b, f, l),
           g[0] = 0, \A a \in Limits!Ages \ {0} : g[a] = f[a - 1]
    PROVE  Aged(b) \in Buckets /\ Fits(Aged(b), g, l)
<1> DEFINE p == Limits!Below(f)
           q == Limits!Below(g)
<1>1. WindowMs \in Nat \ {0} /\ Length = 2 * WindowMs
  BY DEF Limits!LimiterAssumption, Length
<1>2. p \in [0..Length -> Nat] /\ p[0] = 0 /\ q \in [0..Length -> Nat]
  BY SumsStep
<1>3. \A n \in 1..Length : q[n] = p[n - 1]
  BY SumsShift
<1>4. \A n \in 1..Length : p[n - 1] <= p[n]
  <2> SUFFICES ASSUME NEW n \in 1..Length PROVE p[n - 1] <= p[n]
    OBVIOUS
  <2>1. n - 1 \in 0..Length /\ n \in (n - 1)..Length
    BY <1>1
  <2> QED
    BY <2>1, SumsGrow
<1> HIDE DEF p, q
<1>5. CASE Running(b)
  <2>1. /\ Aged(b) = [b EXCEPT !.age = @ + 1] /\ b.age \in 0..WindowMs - 1 /\ b.count \in Nat
        /\ Aged(b).age = b.age + 1 /\ Aged(b).count = b.count /\ b.count > 0
    BY <1>1, <1>5 DEF Aged, Running, Buckets
  <2>2. Aged(b) \in Buckets
    BY <1>1, <2>1 DEF Buckets
  <2>3. p[b.age + 1] <= b.count /\ p[b.age] <= b.count - 1 /\ p[b.age + WindowMs] - p[b.age + 1] <= l - 1
        /\ b.count <= l
    BY <1>5 DEF Fits, p
  <2>4. /\ b.age + 1 \in 1..Length /\ (b.age + 1) - 1 = b.age /\ b.age \in 0..Length
        /\ b.age + 2 \in 1..Length /\ (b.age + 2) - 1 = b.age + 1
    BY <1>1, <2>1
  <2>5. q[b.age + 1] = p[b.age] /\ q[b.age + 2] = p[b.age + 1] /\ p[b.age] \in Nat
    BY <1>2, <1>3, <2>4
  <2>6. CASE b.age + 1 < WindowMs
    <3>1. /\ b.age + 1 + WindowMs \in 1..Length
          /\ (b.age + 1 + WindowMs) - 1 = b.age + WindowMs
      BY <1>1, <2>1, <2>6
    <3>2. q[b.age + 1 + WindowMs] = p[b.age + WindowMs]
      BY <1>3, <3>1
    <3>3. Running(Aged(b)) /\ (b.age + 1) + 1 = b.age + 2
      BY <2>1, <2>6 DEF Running
    <3> QED
      BY <2>1, <2>2, <2>3, <2>5, <3>2, <3>3 DEF Fits, q
  <2>7. CASE ~(b.age + 1 < WindowMs)
    <3>1. b.age + 1 = WindowMs /\ ~Running(Aged(b))
      BY <1>1, <2>1, <2>7 DEF Running
    <3>2. q[1] = 0
      BY <1>1, <1>2, <1>3
    <3>3. q[WindowMs] <= l - 1
      BY <2>1, <2>3, <2>5, <3>1
    <3> QED
      BY <2>1, <2>2, <2>3, <3>1, <3>2, <3>3 DEF Fits, q
  <2> QED
    BY <2>6, <2>7
<1>6. CASE ~Running(b)
  <2>1. Aged(b) = b
    BY <1>6 DEF Aged
  <2>2. p[1] = 0 /\ p[WindowMs] <= l - 1 /\ b.count <= l
    BY <1>6 DEF Fits, p
  <2>3. WindowMs \in 1..Length /\ 1 \in 1..Length /\ WindowMs - 1 \in 0..Length
    BY <1>1
  <2>4. q[1] = 0 /\ q[WindowMs] <= p[WindowMs] /\ q[WindowMs] \in Nat /\ p[WindowMs] \in Nat
    BY <1>2, <1>3, <1>4, <2>3
  <2>5. q[WindowMs] <= l - 1
    BY <2>2, <2>4
  <2> QED
    BY <1>6, <2>1, <2>2, <2>4, <2>5 DEF Fits, q
<1> QED
  BY <1>5, <1>6

(* A window of analysis calls began with a call that the total bucket      *)
(* allowed as well; a window of the total one with such a call, or with    *)
(* one that a window of analysis calls refused.                            *)
Earned(s) ==
    LET calls == allowed["total"][s]
    IN  /\ Running(Own("total", s)) =>
              \E a \in Limits!Ages : a <= Own("total", s).age + WindowMs - 1 /\ calls[a] > 0
        /\ Running(Own("analysis", s)) => calls[Own("analysis", s).age] > 0
        /\ refusedNow[s] => \E a \in Limits!Ages : calls[a] > 0

LimiterTypes ==
    /\ bucket \in [Limits!Kinds -> [Limits!Keys -> Buckets]]
    /\ allowed \in [Limits!Kinds -> [SignIns -> History]]
    /\ refusedNow \in [SignIns -> BOOLEAN]

LimiterInv ==
    /\ LimiterTypes
    /\ \A which \in Limits!Kinds, s \in SignIns :
          Fits(Own(which, s), allowed[which][s], Limits!Limit(which))
    /\ \A s \in SignIns : Earned(s)

LEMMA LimiterValues ==
    ASSUME Limits!LimiterAssumption
    PROVE  /\ WindowMs \in Nat \ {0} /\ Limits!Kinds = {"total", "analysis"}
           /\ \A which \in Limits!Kinds : Limits!Limit(which) \in Nat \ {0}
           /\ Limits!Ages = 0..2 * WindowMs - 1
           /\ \A s \in SignIns : Limits!rateLimitPrincipalKey(s) \in Limits!Keys
           /\ \A s, t \in SignIns : Limits!rateLimitPrincipalKey(s) = Limits!rateLimitPrincipalKey(t) => s = t
  BY DEF Limits!LimiterAssumption, Limits!Kinds, Limits!Limit, Limits!Ages, Limits!Keys,
         Limits!rateLimitPrincipalKey

(* A charge of a sign-in's buckets and of nobody else's.                   *)
LEMMA ChargeMoves ==
    ASSUME Limits!LimiterAssumption, LimiterTypes, NEW s \in SignIns,
           NEW kinds \in SUBSET Limits!Kinds, Limits!Charge(kinds, s)
    PROVE  /\ bucket' \in [Limits!Kinds -> [Limits!Keys -> Buckets]]
           /\ \A which \in Limits!Kinds, t \in SignIns :
                 Own(which, t)' = IF which \in kinds /\ t = s THEN Charged(Own(which, t)) ELSE Own(which, t)
<1>1. \A which \in Limits!Kinds : Own(which, s) \in Buckets /\ bucket[which] \in [Limits!Keys -> Buckets]
  BY LimiterValues DEF LimiterTypes, Own
<1>2. \A which \in Limits!Kinds :
         [Limits!Current(which, s) EXCEPT !.count = @ + 1] = Charged(Own(which, s))
  <2> SUFFICES ASSUME NEW which \in Limits!Kinds
               PROVE  [Limits!Current(which, s) EXCEPT !.count = @ + 1] = Charged(Own(which, s))
    OBVIOUS
  <2>1. Own(which, s).count \in Nat /\ Own(which, s).age \in 0..WindowMs /\ WindowMs \in Nat
    BY <1>1, LimiterValues DEF Buckets
  <2>2. CASE Running(Own(which, s))
    BY <2>1, <2>2 DEF Running, Charged, Limits!Current, Own
  <2>3. CASE ~Running(Own(which, s))
    <3>1. Own(which, s).count = 0 \/ Own(which, s).age >= WindowMs
      BY <2>1, <2>3 DEF Running
    <3>2. Limits!Current(which, s) = [age |-> 0, count |-> 0]
      BY <3>1 DEF Limits!Current, Own
    <3> QED
      BY <2>3, <3>2 DEF Charged
  <2> QED
    BY <2>2, <2>3
<1>3. \A which \in Limits!Kinds : Charged(Own(which, s)) \in Buckets
  <2> SUFFICES ASSUME NEW which \in Limits!Kinds PROVE Charged(Own(which, s)) \in Buckets
    OBVIOUS
  <2>1. Own(which, s) \in Buckets /\ WindowMs \in Nat
    BY <1>1, LimiterValues
  <2> QED
    BY <2>1 DEF Charged, Buckets
<1>4. bucket' = [which \in Limits!Kinds |->
         IF which \in kinds
         THEN [bucket[which] EXCEPT ![Limits!rateLimitPrincipalKey(s)] = Charged(Own(which, s))]
         ELSE bucket[which]]
  BY <1>2 DEF Limits!Charge, Limits!Set
<1>5. \A t \in SignIns : Limits!rateLimitPrincipalKey(t) \in Limits!Keys
                          /\ (Limits!rateLimitPrincipalKey(t) = Limits!rateLimitPrincipalKey(s) => t = s)
  BY LimiterValues
<1>6. \A which \in Limits!Kinds : bucket'[which] \in [Limits!Keys -> Buckets]
  BY <1>1, <1>3, <1>4
<1>7. \A which \in Limits!Kinds, t \in SignIns :
         bucket'[which][Limits!rateLimitPrincipalKey(t)] =
             IF which \in kinds /\ t = s THEN Charged(Own(which, s)) ELSE bucket[which][Limits!rateLimitPrincipalKey(t)]
  BY <1>1, <1>4, <1>5
<1> QED
  BY <1>4, <1>6, <1>7 DEF Own, Limits!rateLimitPrincipalKey

LEMMA FullMeans ==
    ASSUME Limits!LimiterAssumption, LimiterTypes, NEW which \in Limits!Kinds, NEW s \in SignIns
    PROVE  /\ Own(which, s) \in Buckets
           /\ Limits!Full(which, s) <=> Running(Own(which, s)) /\ Own(which, s).count >= Limits!Limit(which)
<1>1. Own(which, s) \in Buckets /\ WindowMs \in Nat \ {0} /\ Limits!Limit(which) \in Nat \ {0}
  BY LimiterValues DEF LimiterTypes, Own
<1>2. Own(which, s).count \in Nat /\ Own(which, s).age \in 0..WindowMs
  BY <1>1 DEF Buckets
<1>3. CASE Running(Own(which, s))
  BY <1>1, <1>2, <1>3 DEF Running, Limits!Full, Limits!Current, Own
<1>4. CASE ~Running(Own(which, s))
  <2>1. Own(which, s).count = 0 \/ Own(which, s).age >= WindowMs
    BY <1>1, <1>2, <1>4 DEF Running
  <2>2. Limits!Current(which, s) = [age |-> 0, count |-> 0]
    BY <2>1 DEF Limits!Current, Own
  <2> QED
    BY <1>1, <1>4, <2>2 DEF Limits!Full
<1> QED
  BY <1>1, <1>3, <1>4

(* A refused call, whose sign-in's total bucket may have been charged.     *)
LEMMA RefusalFits ==
    ASSUME Limits!LimiterAssumption, LimiterInv, NEW s \in SignIns, Limits!Refuse(s),
           \/ Limits!Full("total", s) /\ UNCHANGED bucket
           \/ ~Limits!Full("total", s) /\ Limits!Full("analysis", s) /\ Limits!Charge({"total"}, s)
    PROVE  LimiterInv'
<1> USE LimiterValues
<1>1. LimiterTypes /\ "total" \in Limits!Kinds /\ "analysis" \in Limits!Kinds
  BY DEF LimiterInv
<1>2. allowed' = allowed /\ refusedNow' = [refusedNow EXCEPT ![s] = TRUE]
  BY DEF Limits!Refuse
<1>3. /\ bucket' \in [Limits!Kinds -> [Limits!Keys -> Buckets]]
      /\ \A which \in Limits!Kinds, t \in SignIns :
            \/ Own(which, t)' = Own(which, t)
            \/ /\ which = "total" /\ t = s /\ Own(which, t)' = Charged(Own(which, t))
               /\ ~Limits!Full("total", s) /\ Limits!Full("analysis", s)
  <2>1. CASE UNCHANGED bucket
    BY <1>1, <2>1 DEF LimiterTypes, Own
  <2>2. CASE ~Limits!Full("total", s) /\ Limits!Full("analysis", s) /\ Limits!Charge({"total"}, s)
    BY <1>1, <2>2, ChargeMoves
  <2> QED
    BY <2>1, <2>2
<1>4. LimiterTypes'
  BY <1>1, <1>2, <1>3 DEF LimiterTypes
<1>5. ASSUME NEW which \in Limits!Kinds, NEW t \in SignIns
      PROVE  Fits(Own(which, t)', allowed'[which][t], Limits!Limit(which))
  <2>1. Own(which, t) \in Buckets /\ allowed[which][t] \in History /\ Limits!Limit(which) \in Nat \ {0}
        /\ Fits(Own(which, t), allowed[which][t], Limits!Limit(which))
    BY <1>1, FullMeans DEF LimiterInv, LimiterTypes
  <2>2. CASE Own(which, t)' = Own(which, t)
    BY <1>2, <2>1, <2>2
  <2>3. CASE which = "total" /\ t = s /\ Own(which, t)' = Charged(Own(which, t)) /\ ~Limits!Full("total", s)
    <3>1. Running(Own(which, t)) => Own(which, t).count < Limits!Limit(which)
      BY <1>1, <2>1, <2>3, FullMeans DEF Buckets
    <3>2. allowed[which][t][0] = allowed[which][t][0] + 0
      BY <2>1 DEF History
    <3>3. Fits(Charged(Own(which, t)), allowed[which][t], Limits!Limit(which))
      BY <2>1, <3>1, <3>2, ChargedFits
    <3> QED
      BY <1>2, <2>3, <3>3
  <2> QED
    BY <1>3, <2>2, <2>3
<1>6. ASSUME NEW t \in SignIns PROVE Earned(t)'
  <2> DEFINE calls == allowed["total"][t]
             total == Own("total", t)
             analysis == Own("analysis", t)
  <2>1. /\ Running(total) => \E a \in Limits!Ages : a <= total.age + WindowMs - 1 /\ calls[a] > 0
        /\ Running(analysis) => calls[analysis.age] > 0
        /\ refusedNow[t] => \E a \in Limits!Ages : calls[a] > 0
        /\ total \in Buckets /\ analysis \in Buckets
    BY <1>1, FullMeans DEF LimiterInv, Earned
  <2>2. analysis' = analysis
    BY <1>1, <1>3
  <2>3. allowed'["total"][t] = calls
    BY <1>2
  <2>4. Limits!Full("analysis", s) /\ t = s => /\ Running(analysis) /\ calls[analysis.age] > 0
                                               /\ analysis.age \in 0..WindowMs - 1
                                               /\ analysis.age \in Limits!Ages
    <3>1. Limits!Full("analysis", s) /\ t = s => Running(analysis)
      BY <1>1, FullMeans
    <3>2. Running(analysis) => analysis.age \in 0..WindowMs - 1
      BY <2>1 DEF Running, Buckets
    <3> HIDE DEF analysis, calls
    <3> QED
      BY <2>1, <3>1, <3>2
  <2>5. Limits!Full("total", s) /\ t = s => Running(total)
    BY <1>1, FullMeans
  <2>6. Running(total)' => \E a \in Limits!Ages : a <= total'.age + WindowMs - 1 /\ calls[a] > 0
    <3>1. CASE total' = total
      BY <2>1, <3>1 DEF Running
    <3>2. CASE t = s /\ total' = Charged(total) /\ Limits!Full("analysis", s)
      <4>1. CASE Running(total)
        <5>1. total'.age = total.age
          BY <2>1, <3>2, <4>1 DEF Charged, Buckets
        <5> HIDE DEF total, calls
        <5> QED
          BY <2>1, <4>1, <5>1
      <4>2. CASE ~Running(total)
        <5>1. total'.age = 0
          BY <3>2, <4>2 DEF Charged
        <5>2. analysis.age <= 0 + WindowMs - 1
          BY <2>4, <3>2
        <5> HIDE DEF total, calls, analysis
        <5> QED
          BY <2>4, <3>2, <5>1, <5>2
      <4> QED
        BY <4>1, <4>2
    <3> QED
      BY <1>1, <1>3, <3>1, <3>2
  <2>7. refusedNow'[t] => \E a \in Limits!Ages : calls[a] > 0
    <3>1. CASE t = s
      <4>1. Limits!Full("total", s) \/ Limits!Full("analysis", s)
        OBVIOUS
      <4> HIDE DEF total, calls, analysis
      <4> QED
        BY <2>1, <2>4, <2>5, <3>1, <4>1
    <3>2. CASE t # s
      <4>1. refusedNow'[t] = refusedNow[t]
        BY <1>1, <1>2, <3>2 DEF LimiterTypes
      <4> QED
        BY <2>1, <4>1
    <3> QED
      BY <3>1, <3>2
  <2>8. (Running(analysis))' => calls[analysis'.age] > 0
    BY <2>1, <2>2 DEF Running
  <2> QED
    BY <2>3, <2>6, <2>7, <2>8 DEF Earned
<1> QED
  BY <1>4, <1>5, <1>6 DEF LimiterInv

(* A call that is allowed.                                                 *)
LEMMA AllowedFits ==
    ASSUME Limits!LimiterAssumption, LimiterInv, NEW s \in SignIns,
           NEW kinds \in {{"total"}, Limits!Kinds}, \A which \in kinds : ~Limits!Full(which, s),
           Limits!Allow(kinds, s)
    PROVE  LimiterInv'
<1> USE LimiterValues
<1>1. LimiterTypes /\ "total" \in Limits!Kinds /\ "analysis" \in Limits!Kinds
      /\ kinds \in SUBSET Limits!Kinds /\ "total" \in kinds
  BY DEF LimiterInv
<1>2. /\ refusedNow' = [refusedNow EXCEPT ![s] = FALSE]
      /\ allowed' = [which \in Limits!Kinds |->
             IF which \in kinds THEN [allowed[which] EXCEPT ![s][0] = @ + 1] ELSE allowed[which]]
  BY DEF Limits!Allow
<1>3. /\ bucket' \in [Limits!Kinds -> [Limits!Keys -> Buckets]]
      /\ \A which \in Limits!Kinds, t \in SignIns :
            Own(which, t)' = IF which \in kinds /\ t = s THEN Charged(Own(which, t)) ELSE Own(which, t)
  BY <1>1, ChargeMoves DEF Limits!Allow
<1>4. ASSUME NEW which \in Limits!Kinds
      PROVE  /\ allowed'[which] \in [SignIns -> History]
             /\ \A t \in SignIns, a \in Limits!Ages :
                   allowed'[which][t][a] = IF which \in kinds /\ t = s /\ a = 0
                                          THEN allowed[which][t][a] + 1 ELSE allowed[which][t][a]
  <2>1. allowed[which] \in [SignIns -> [Limits!Ages -> Nat]] /\ 0 \in Limits!Ages
    BY <1>1 DEF LimiterTypes, History
  <2>2. CASE which \notin kinds
    BY <1>2, <2>1, <2>2 DEF History
  <2>3. CASE which \in kinds
    <3>1. allowed'[which] = [allowed[which] EXCEPT ![s] = [allowed[which][s] EXCEPT ![0] = allowed[which][s][0] + 1]]
      BY <1>2, <2>3
    <3>2. [allowed[which][s] EXCEPT ![0] = allowed[which][s][0] + 1] \in [Limits!Ages -> Nat]
      BY <2>1
    <3> QED
      BY <2>1, <2>3, <3>1, <3>2 DEF History
  <2> QED
    BY <2>2, <2>3
<1>5. LimiterTypes'
  <2>1. allowed' \in [Limits!Kinds -> [SignIns -> History]]
    BY <1>2, <1>4
  <2>2. refusedNow' \in [SignIns -> BOOLEAN]
    BY <1>1, <1>2 DEF LimiterTypes
  <2> QED
    BY <1>3, <2>1, <2>2 DEF LimiterTypes
<1>6. ASSUME NEW which \in Limits!Kinds, NEW t \in SignIns
      PROVE  Fits(Own(which, t)', allowed'[which][t], Limits!Limit(which))
  <2>1. Own(which, t) \in Buckets /\ allowed[which][t] \in History /\ Limits!Limit(which) \in Nat \ {0}
        /\ Fits(Own(which, t), allowed[which][t], Limits!Limit(which)) /\ allowed'[which][t] \in History
    BY <1>1, <1>4, FullMeans DEF LimiterInv, LimiterTypes
  <2>2. CASE which \in kinds /\ t = s
    <3>1. Running(Own(which, t)) => Own(which, t).count < Limits!Limit(which)
      BY <1>1, <2>1, <2>2, FullMeans DEF Buckets
    <3>2. 0 \in Limits!Ages /\ 1 \in 0..1
      OBVIOUS
    <3>3. allowed'[which][t][0] = allowed[which][t][0] + 1
          /\ \A a \in Limits!Ages \ {0} : allowed'[which][t][a] = allowed[which][t][a]
      BY <1>4, <2>2, <3>2
    <3>4. Fits(Charged(Own(which, t)), allowed'[which][t], Limits!Limit(which))
      BY <2>1, <3>1, <3>2, <3>3, ChargedFits
    <3> QED
      BY <1>3, <2>2, <3>4
  <2>3. CASE ~(which \in kinds /\ t = s)
    <3>1. \A a \in Limits!Ages : allowed'[which][t][a] = allowed[which][t][a]
      BY <1>4, <2>3
    <3>2. allowed'[which][t] = [a \in Limits!Ages |-> allowed'[which][t][a]]
          /\ allowed[which][t] = [a \in Limits!Ages |-> allowed[which][t][a]]
      <4>1. allowed'[which][t] \in [Limits!Ages -> Nat] /\ allowed[which][t] \in [Limits!Ages -> Nat]
        BY <2>1 DEF History
      <4> QED
        BY <4>1
    <3>3. allowed'[which][t] = allowed[which][t]
      BY <3>1, <3>2
    <3> QED
      BY <1>3, <2>1, <2>3, <3>3
  <2> QED
    BY <2>2, <2>3
<1>7. ASSUME NEW t \in SignIns PROVE Earned(t)'
  <2> DEFINE calls == allowed["total"][t]
             later == allowed'["total"][t]
             total == Own("total", t)
             charged == Own("total", t)'
             analysis == Own("analysis", t)
             filled == Own("analysis", t)'
  <2>1. /\ Running(total) => \E a \in Limits!Ages : a <= total.age + WindowMs - 1 /\ calls[a] > 0
        /\ Running(analysis) => calls[analysis.age] > 0
        /\ refusedNow[t] => \E a \in Limits!Ages : calls[a] > 0
    BY <1>1 DEF LimiterInv, Earned
  <2>2. total \in Buckets /\ analysis \in Buckets /\ calls \in History
    BY <1>1, FullMeans DEF LimiterTypes
  <2>3. \A a \in Limits!Ages : later[a] = IF t = s /\ a = 0 THEN calls[a] + 1 ELSE calls[a]
    BY <1>1, <1>4
  <2>4. refusedNow'[t] => refusedNow[t]
    BY <1>1, <1>2 DEF LimiterTypes
  <2>5. charged = (IF t = s THEN Charged(total) ELSE total)
    BY <1>1, <1>3
  <2>6. filled = analysis \/ (t = s /\ filled = Charged(analysis))
    BY <1>1, <1>3
  <2> HIDE DEF calls, later, total, charged, analysis, filled
  <2>7. \A a \in Limits!Ages : calls[a] > 0 => later[a] > 0
    BY <2>2, <2>3 DEF History
  <2>8. 0 \in Limits!Ages /\ (t = s => later[0] > 0)
    BY <2>2, <2>3 DEF History
  <2>9. charged \in Buckets
    BY <2>2, <2>5 DEF Charged, Running, Buckets
  <2>10. Running(charged) => \E a \in Limits!Ages : a <= charged.age + WindowMs - 1 /\ later[a] > 0
    <3>1. CASE t = s
      <4>1. 0 <= charged.age + WindowMs - 1
        BY <2>9 DEF Buckets
      <4> QED
        BY <2>8, <3>1, <4>1
    <3>2. CASE t # s
      BY <2>1, <2>5, <2>7, <3>2
    <3> QED
      BY <3>1, <3>2
  <2>11. Running(filled) => later[filled.age] > 0
    <3>1. Running(analysis) => analysis.age \in Limits!Ages
      BY <2>2 DEF Running, Buckets
    <3>2. CASE filled = analysis
      BY <2>1, <2>7, <3>1, <3>2
    <3>3. CASE t = s /\ filled = Charged(analysis)
      <4>1. CASE Running(analysis)
        <5>1. filled.age = analysis.age
          BY <2>2, <3>3, <4>1 DEF Charged, Buckets
        <5> QED
          BY <2>1, <2>7, <3>1, <4>1, <5>1
      <4>2. CASE ~Running(analysis)
        <5>1. filled.age = 0
          BY <3>3, <4>2 DEF Charged
        <5> QED
          BY <2>8, <3>3, <5>1
      <4> QED
        BY <4>1, <4>2
    <3> QED
      BY <2>6, <3>2, <3>3
  <2>12. refusedNow'[t] => \E a \in Limits!Ages : later[a] > 0
    BY <2>1, <2>4, <2>7
  <2> QED
    BY <2>10, <2>11, <2>12 DEF Earned, later, charged, filled, Running
<1> QED
  BY <1>5, <1>6, <1>7 DEF LimiterInv

(* A tick ages every bucket and every call.                                *)
LEMMA TickFits ==
    ASSUME Limits!LimiterAssumption, LimiterInv, Limits!Tick
    PROVE  LimiterInv'
<1> USE LimiterValues
<1>1. LimiterTypes /\ "total" \in Limits!Kinds /\ "analysis" \in Limits!Kinds
  BY DEF LimiterInv
<1>2. ASSUME NEW which \in Limits!Kinds, NEW k \in Limits!Keys
      PROVE  bucket'[which][k] = Aged(bucket[which][k]) /\ Aged(bucket[which][k]) \in Buckets
  <2>1. bucket[which][k] \in Buckets
    BY <1>1 DEF LimiterTypes
  <2>2. bucket'[which][k] = Aged(bucket[which][k])
    BY <2>1 DEF Limits!Tick, Aged, Running
  <2>3. Aged(bucket[which][k]) \in Buckets
    BY <2>1 DEF Aged, Running, Buckets
  <2> QED
    BY <2>2, <2>3
<1>3. ASSUME NEW which \in Limits!Kinds, NEW t \in SignIns
      PROVE  /\ allowed'[which][t] \in History /\ allowed'[which][t][0] = 0
             /\ \A a \in Limits!Ages \ {0} : allowed'[which][t][a] = allowed[which][t][a - 1]
  <2>1. allowed[which][t] \in [Limits!Ages -> Nat] /\ 0 \in Limits!Ages
    BY <1>1 DEF LimiterTypes, History
  <2>2. allowed'[which][t] = [a \in Limits!Ages |-> IF a = 0 THEN 0 ELSE allowed[which][t][a - 1]]
    BY DEF Limits!Tick
  <2>3. \A a \in Limits!Ages \ {0} : a - 1 \in Limits!Ages
    OBVIOUS
  <2> QED
    BY <2>1, <2>2, <2>3 DEF History
<1>4. refusedNow' = [t \in SignIns |-> FALSE]
  BY DEF Limits!Tick
<1>5. LimiterTypes'
  <2>1. bucket' \in [Limits!Kinds -> [Limits!Keys -> Buckets]]
    <3>1. bucket' = [which \in Limits!Kinds |-> [k \in Limits!Keys |-> bucket'[which][k]]]
      BY DEF Limits!Tick
    <3> QED
      BY <1>2, <3>1
  <2>2. allowed' \in [Limits!Kinds -> [SignIns -> History]]
    <3>1. allowed' = [which \in Limits!Kinds |-> [t \in SignIns |-> allowed'[which][t]]]
      BY DEF Limits!Tick
    <3> QED
      BY <1>3, <3>1
  <2> QED
    BY <1>4, <2>1, <2>2 DEF LimiterTypes
<1>6. \A which \in Limits!Kinds, t \in SignIns : Own(which, t)' = Aged(Own(which, t))
  BY <1>2 DEF Own, Limits!rateLimitPrincipalKey
<1>7. ASSUME NEW which \in Limits!Kinds, NEW t \in SignIns
      PROVE  Fits(Own(which, t)', allowed'[which][t], Limits!Limit(which))
  <2>1. Own(which, t) \in Buckets /\ allowed[which][t] \in History /\ Limits!Limit(which) \in Nat \ {0}
        /\ Fits(Own(which, t), allowed[which][t], Limits!Limit(which))
    BY <1>1, FullMeans DEF LimiterInv, LimiterTypes
  <2>2. Fits(Aged(Own(which, t)), allowed'[which][t], Limits!Limit(which))
    BY <1>3, <2>1, AgedFits
  <2> QED
    BY <1>6, <2>2
<1>8. ASSUME NEW t \in SignIns PROVE Earned(t)'
  <2> DEFINE calls == allowed["total"][t]
             total == Own("total", t)
             analysis == Own("analysis", t)
  <2>1. /\ Running(total) => \E a \in Limits!Ages : a <= total.age + WindowMs - 1 /\ calls[a] > 0
        /\ Running(analysis) => calls[analysis.age] > 0
        /\ total \in Buckets /\ analysis \in Buckets /\ calls \in History
    BY <1>1, FullMeans DEF LimiterInv, LimiterTypes, Earned
  <2>2. total' = Aged(total) /\ analysis' = Aged(analysis)
    BY <1>1, <1>6
  <2>3. \A a \in Limits!Ages : a + 1 \in Limits!Ages => calls'[a + 1] = calls[a]
    BY <1>1, <1>3
  <2>4. (Running(total))' => Running(total) /\ total'.age = total.age + 1 /\ total.age + 1 < WindowMs
    BY <2>1, <2>2 DEF Aged, Running, Buckets
  <2>5. (Running(analysis))' => Running(analysis) /\ analysis'.age = analysis.age + 1 /\ analysis.age + 1 < WindowMs
    BY <2>1, <2>2 DEF Aged, Running, Buckets
  <2>6. total.age \in Nat /\ analysis.age \in Nat
    BY <2>1 DEF Buckets
  <2> HIDE DEF calls, total, analysis
  <2>7. (Running(total))' => \E a \in Limits!Ages : a <= total'.age + WindowMs - 1 /\ calls'[a] > 0
    <3> SUFFICES ASSUME (Running(total))'
                 PROVE  \E a \in Limits!Ages : a <= total'.age + WindowMs - 1 /\ calls'[a] > 0
      OBVIOUS
    <3>1. PICK a \in Limits!Ages : a <= total.age + WindowMs - 1 /\ calls[a] > 0
      BY <2>1, <2>4
    <3>2. a + 1 \in Limits!Ages /\ a + 1 <= (total.age + 1) + WindowMs - 1
      BY <2>4, <2>6, <3>1
    <3> QED
      BY <2>3, <2>4, <3>1, <3>2
  <2>8. (Running(analysis))' => calls'[analysis'.age] > 0
    <3>1. analysis.age + 1 < WindowMs => analysis.age \in Limits!Ages /\ analysis.age + 1 \in Limits!Ages
      BY <2>6
    <3> QED
      BY <2>1, <2>3, <2>5, <3>1
  <2>9. ~refusedNow'[t]
    BY <1>4
  <2> QED
    BY <2>7, <2>8, <2>9 DEF Earned, calls, total, analysis
<1> QED
  BY <1>5, <1>7, <1>8 DEF LimiterInv

(* The limiter's invariant.                                                *)
LEMMA LimiterInvariance ==
    ASSUME Limits!LimiterAssumption
    PROVE  Limits!Spec => []LimiterInv
<1> USE LimiterValues
<1>1. ASSUME Limits!Init PROVE LimiterInv
  <2> DEFINE none == [a \in Limits!Ages |-> 0]
             sum == Limits!Below(none)
             Zeroes == {n \in 0..Length : sum[n] = 0}
  <2>1. Length \in Nat /\ Limits!Ages = 0..Length - 1 /\ none \in History /\ 0 \in 0..WindowMs
    BY DEF Length, History
  <2>2. sum[0] = 0 /\ \A n \in 1..Length : sum[n] = sum[n - 1] + none[n - 1]
    <3> HIDE DEF none
    <3> QED
      BY <2>1, SumsStep
  <2>3. \A n \in 1..Length : sum[n] = sum[n - 1] + 0
    <3>1. \A n \in 1..Length : none[n - 1] = 0
      BY <2>1
    <3> HIDE DEF none, sum
    <3> QED
      BY <2>2, <3>1
  <2> HIDE DEF none, sum
  <2>4. 0 \in Zeroes /\ \A k \in 1..Length : k - 1 \in Zeroes => k \in Zeroes
    BY <2>1, <2>2, <2>3
  <2>5. 0..Length \subseteq Zeroes
    <3> HIDE DEF Zeroes
    <3> QED
      BY <2>1, <2>4, UpTo
  <2>6. sum[1] = 0 /\ sum[WindowMs] = 0
    <3>1. 1 \in 0..Length /\ WindowMs \in 0..Length
      BY DEF Length
    <3> QED
      BY <2>5, <3>1
  <2>7. /\ \A which \in Limits!Kinds : /\ bucket[which] = [k \in Limits!Keys |-> [age |-> 0, count |-> 0]]
                                      /\ allowed[which] = [s \in SignIns |-> none]
        /\ bucket = [which \in Limits!Kinds |-> bucket[which]]
        /\ allowed = [which \in Limits!Kinds |-> allowed[which]]
        /\ refusedNow = [s \in SignIns |-> FALSE]
    BY <1>1 DEF Limits!Init, none
  <2>8. [age |-> 0, count |-> 0] \in Buckets /\ ~Running([age |-> 0, count |-> 0])
    BY <2>1 DEF Buckets, Running
  <2>9. LimiterTypes
    <3>1. \A which \in Limits!Kinds : /\ bucket[which] \in [Limits!Keys -> Buckets]
                                     /\ allowed[which] \in [SignIns -> History]
      BY <2>1, <2>7, <2>8
    <3> QED
      BY <2>7, <3>1 DEF LimiterTypes
  <2>10. \A which \in Limits!Kinds, s \in SignIns : Own(which, s) = [age |-> 0, count |-> 0]
    BY <2>7 DEF Own
  <2>11. ASSUME NEW which \in Limits!Kinds, NEW s \in SignIns
         PROVE  Fits(Own(which, s), allowed[which][s], Limits!Limit(which))
    <3>1. allowed[which][s] = none /\ Own(which, s) = [age |-> 0, count |-> 0]
      BY <2>7, <2>10
    <3>2. Limits!Limit(which) \in Nat \ {0}
      OBVIOUS
    <3> QED
      BY <2>6, <2>8, <3>1, <3>2 DEF Fits, sum
  <2>12. ASSUME NEW s \in SignIns PROVE Earned(s)
    <3>1. ~Running(Own("total", s)) /\ ~Running(Own("analysis", s)) /\ ~refusedNow[s]
      BY <2>7, <2>8, <2>10
    <3> QED
      BY <3>1 DEF Earned
  <2> QED
    BY <2>9, <2>11, <2>12 DEF LimiterInv
<1>2. ASSUME LimiterInv, NEW s \in SignIns, NEW kinds \in {{"total"}, Limits!Kinds}, Limits!check(kinds, s)
      PROVE  LimiterInv'
  <2>1. CASE Limits!Full("total", s) /\ Limits!Refuse(s) /\ UNCHANGED bucket
    BY <1>2, <2>1, RefusalFits
  <2>2. CASE ~Limits!Full("total", s) /\ Limits!Full("analysis", s) /\ Limits!Refuse(s)
             /\ Limits!Charge({"total"}, s)
    BY <1>2, <2>2, RefusalFits
  <2>3. CASE (\A which \in kinds : ~Limits!Full(which, s)) /\ Limits!Allow(kinds, s)
    BY <1>2, <2>3, AllowedFits
  <2> QED
    BY <1>2, <2>1, <2>2, <2>3 DEF Limits!check
<1>3. ASSUME LimiterInv, UNCHANGED <<bucket, allowed, refusedNow>>
      PROVE  LimiterInv'
  BY <1>3 DEF LimiterInv, LimiterTypes, Own, Earned
<1>4. LimiterInv /\ [Limits!Next]_Limits!vars => LimiterInv'
  <2> SUFFICES ASSUME LimiterInv, [Limits!Next]_Limits!vars PROVE LimiterInv'
    OBVIOUS
  <2>1. CASE \E s \in SignIns : Limits!check({"total"}, s) \/ Limits!check(Limits!Kinds, s)
    BY <1>2, <2>1
  <2>2. CASE (\E s \in SignIns : Limits!Rotate(s)) \/ UNCHANGED Limits!vars
    BY <1>3, <2>2 DEF Limits!Rotate, Limits!vars
  <2>3. CASE Limits!Tick
    BY <2>3, TickFits
  <2> QED
    BY <2>1, <2>2, <2>3 DEF Limits!Next
<1> QED
  BY <1>1, <1>4, PTL DEF Limits!Spec

(* What the fixed windows promise, whatever the sizes of the windows and   *)
(* of the limits and however tokens are rotated: no sign-in is allowed     *)
(* twice its limit in one stretch of a window's length.                    *)
THEOREM BurstsAreBounded ==
    ASSUME Limits!LimiterAssumption
    PROVE  Limits!Spec => []Limits!LessThanTwiceTheLimit
<1>1. LimiterInv => Limits!LessThanTwiceTheLimit
  <2> SUFFICES ASSUME LimiterInv, NEW which \in Limits!Kinds, NEW s \in SignIns
               PROVE  Limits!Recent(which, s) < 2 * Limits!Limit(which)
    BY DEF Limits!LessThanTwiceTheLimit
  <2> DEFINE b == Own(which, s)
             f == allowed[which][s]
             p == Limits!Below(f)
             l == Limits!Limit(which)
  <2>1. WindowMs \in Nat \ {0} /\ l \in Nat \ {0} /\ Length = 2 * WindowMs
    BY LimiterValues DEF Length
  <2>2. b \in Buckets /\ f \in History /\ Fits(b, f, l)
    BY FullMeans DEF LimiterInv, LimiterTypes
  <2>3. Limits!Recent(which, s) = p[WindowMs]
    BY DEF Limits!Recent
  <2> HIDE DEF b, f, l
  <2>4. p \in [0..Length -> Nat]
    BY <2>2, SumsStep
  <2>5. CASE Running(b)
    <3>1. b.age \in 0..WindowMs - 1 /\ b.count \in Nat
      BY <2>1, <2>2, <2>5 DEF Running, Buckets
    <3>2. b.count <= l /\ p[b.age + 1] <= b.count /\ p[b.age + WindowMs] - p[b.age + 1] <= l - 1
      BY <2>2, <2>5 DEF Fits
    <3>3. /\ WindowMs \in 0..Length /\ b.age + WindowMs \in WindowMs..Length
          /\ b.age + 1 \in 0..Length /\ b.age + WindowMs \in 0..Length
      BY <2>1, <3>1
    <3>4. p[WindowMs] <= p[b.age + WindowMs]
      BY <2>2, <3>3, SumsGrow
    <3>5. p[WindowMs] \in Nat /\ p[b.age + 1] \in Nat /\ p[b.age + WindowMs] \in Nat
      BY <2>4, <3>3
    <3> HIDE DEF p
    <3> QED
      BY <2>1, <2>3, <3>1, <3>2, <3>4, <3>5 DEF l
  <2>6. CASE ~Running(b)
    <3>1. p[WindowMs] <= l - 1 /\ p[WindowMs] \in Nat
      BY <2>1, <2>2, <2>4, <2>6 DEF Fits
    <3> HIDE DEF p
    <3> QED
      BY <2>1, <2>3, <3>1 DEF l
  <2> QED
    BY <2>5, <2>6
<1> QED
  BY <1>1, LimiterInvariance, PTL

(* Nobody is locked out: a sign-in that is refused was allowed a call less *)
(* than two windows ago.                                                   *)
THEOREM RefusalsAreFair ==
    ASSUME Limits!LimiterAssumption
    PROVE  Limits!Spec => []Limits!RefusalsAreEarned
<1>1. LimiterInv => Limits!RefusalsAreEarned
  BY DEF LimiterInv, Earned, Limits!RefusalsAreEarned
<1> QED
  BY <1>1, LimiterInvariance, PTL

-----------------------------------------------------------------------------
(***************************************************************************)
(* The tool runtime.  A call under way has an audit context that counts    *)
(* its pages; a call that closes has its terminal row made up from it; and *)
(* the timer of a recipe's read ends before the recipe's deadline.         *)
(***************************************************************************)
Runtime == INSTANCE ToolRuntime

\* A context that claims no job outside its scope.
ContextOK(x) ==
    /\ x \in Runtime!Contexts
    /\ x.explicit => x.resolved # None
    /\ x.scope \notin {Unknown, All} /\ x.resolved # None => x.resolved \subseteq x.scope

RuntimeTypes ==
    /\ pc \in [Runtime!Calls -> {"idle", "starting", "ready", "waiting", "closing", "done"}]
    /\ elapsed \in [Runtime!Calls -> Nat] /\ left \in [Runtime!Calls -> Nat]
    /\ pages \in [Runtime!Calls -> Nat]
    /\ scope \in [Runtime!Calls -> Runtime!Scopes \cup {Unknown}]
    /\ answer \in [Runtime!Calls -> Runtime!Codes \cup {"data", None}]
    /\ context \in [Runtime!Calls -> Runtime!Contexts \cup {None}]
    /\ rows \in [Runtime!Calls -> [start : BOOLEAN,
                                   terminal : ({"writing", "kept"} \X Runtime!Rows) \cup {None}]]

\* What is known of a call, where it is.
CallFits(c) ==
    /\ pc[c] \in {"starting", "ready", "waiting"} => c \notin ActionCalls
    /\ c \notin ActionCalls => (context[c] # None <=> pc[c] \notin {"idle", "done"})
    /\ context[c] # None => ContextOK(context[c]) /\ context[c].pages >= pages[c]
    /\ pc[c] \in {"idle", "starting"} => pages[c] = 0
    /\ pc[c] \in {"ready", "waiting"} \/ pages[c] > 0 => rows[c].start
    /\ pc[c] \in {"closing", "done"} /\ c \notin ActionCalls => rows[c].start \/ answer[c] # "data"
    /\ pc[c] \notin {"closing", "done"} => rows[c].terminal = None
    /\ pc[c] = "closing" => rows[c].terminal # None /\ rows[c].terminal[1] = "writing"
    /\ pc[c] = "done" /\ answer[c] = "data" => rows[c].terminal # None /\ rows[c].terminal[1] = "kept"
    /\ rows[c].terminal # None /\ answer[c] = "data" => rows[c].terminal[2].outcome = "success"
    /\ rows[c].terminal # None /\ c \notin ActionCalls => rows[c].terminal[2].pages >= pages[c]
    /\ c \in AnalysisCalls /\ pc[c] = "waiting" => elapsed[c] + left[c] <= AnalysisMs

RuntimeInv == RuntimeTypes /\ \A c \in Runtime!Calls : CallFits(c)

LEMMA RuntimeMin ==
    ASSUME NEW a \in Int, NEW b \in Int
    PROVE  Runtime!Min({a, b}) = IF a <= b THEN a ELSE b
  BY DEF Runtime!Min

(* What a read learns keeps a context sound, and loses it no page.         *)
LEMMA ScopesAreNoted ==
    ASSUME Runtime!RuntimeAssumption, NEW x, ContextOK(x), NEW s \in Runtime!Scopes
    PROVE  LET y == Runtime!recordAuditPermissionScope(x, s) IN ContextOK(y) /\ y.pages = x.pages
  BY DEF ContextOK, Runtime!recordAuditPermissionScope, Runtime!Contexts, Runtime!Scopes, Runtime!RuntimeAssumption

LEMMA JobsAreNoted ==
    ASSUME Runtime!RuntimeAssumption, NEW x, ContextOK(x), NEW ids \in SUBSET Jobs
    PROVE  LET y == Runtime!recordExplicitAuditJobIds(x, ids) IN ContextOK(y) /\ y.pages = x.pages
  BY DEF ContextOK, Runtime!recordExplicitAuditJobIds, Runtime!Contexts, Runtime!Scopes, Runtime!RuntimeAssumption

LEMMA PagesAreNoted ==
    ASSUME NEW x, ContextOK(x)
    PROVE  LET y == Runtime!recordAuditReadMetrics(x) IN ContextOK(y) /\ y.pages = x.pages + 1
  BY DEF ContextOK, Runtime!recordAuditReadMetrics, Runtime!Contexts

\* Contexts X come after those there are: of the same calls, with their pages.
Later(X) ==
    /\ X \in [Runtime!Calls -> Runtime!Contexts \cup {None}]
    /\ \A b \in Runtime!Calls :
          /\ X[b] = None <=> context[b] = None
          /\ X[b] # None => ContextOK(X[b]) /\ X[b].pages >= context[b].pages

LEMMA NotesComeLater ==
    ASSUME Runtime!RuntimeAssumption, RuntimeInv
    PROVE  /\ Later(context)
           /\ \A s \in Runtime!Scopes :
                 Later(Runtime!Note(LAMBDA x : Runtime!recordAuditPermissionScope(x, s)))
           /\ \A ids \in SUBSET Jobs :
                 Later(Runtime!Note(LAMBDA x : Runtime!recordExplicitAuditJobIds(x, ids)))
           /\ Later(Runtime!Note(LAMBDA x : Runtime!recordAuditReadMetrics(x)))
           /\ \A b \in Runtime!Calls : context[b] # None =>
                 Runtime!Note(LAMBDA x : Runtime!recordAuditReadMetrics(x))[b].pages = context[b].pages + 1
<1>1. /\ \A b \in Runtime!Calls : context[b] # None => ContextOK(context[b]) /\ context[b].pages \in Nat
      /\ context \in [Runtime!Calls -> Runtime!Contexts \cup {None}]
      /\ \A x : ContextOK(x) => x \in Runtime!Contexts /\ x # None
  BY DEF RuntimeInv, RuntimeTypes, CallFits, ContextOK, Runtime!Contexts, Runtime!RuntimeAssumption
<1>2. Later(context)
  BY <1>1 DEF Later
<1>3. ASSUME NEW s \in Runtime!Scopes
      PROVE  Later(Runtime!Note(LAMBDA x : Runtime!recordAuditPermissionScope(x, s)))
  <2>1. \A b \in Runtime!Calls : context[b] # None =>
           /\ ContextOK(Runtime!recordAuditPermissionScope(context[b], s))
           /\ Runtime!recordAuditPermissionScope(context[b], s).pages = context[b].pages
    BY <1>1, ScopesAreNoted
  <2> QED
    BY <1>1, <2>1 DEF Later, Runtime!Note
<1>4. ASSUME NEW ids \in SUBSET Jobs
      PROVE  Later(Runtime!Note(LAMBDA x : Runtime!recordExplicitAuditJobIds(x, ids)))
  <2>1. \A b \in Runtime!Calls : context[b] # None =>
           /\ ContextOK(Runtime!recordExplicitAuditJobIds(context[b], ids))
           /\ Runtime!recordExplicitAuditJobIds(context[b], ids).pages = context[b].pages
    BY <1>1, JobsAreNoted
  <2> QED
    BY <1>1, <2>1 DEF Later, Runtime!Note
<1>5. \A b \in Runtime!Calls : context[b] # None =>
         /\ ContextOK(Runtime!recordAuditReadMetrics(context[b]))
         /\ Runtime!recordAuditReadMetrics(context[b]).pages = context[b].pages + 1
  BY <1>1, PagesAreNoted
<1>6. Later(Runtime!Note(LAMBDA x : Runtime!recordAuditReadMetrics(x)))
  BY <1>1, <1>5 DEF Later, Runtime!Note
<1>7. \A b \in Runtime!Calls : context[b] # None =>
         Runtime!Note(LAMBDA x : Runtime!recordAuditReadMetrics(x))[b].pages = context[b].pages + 1
  BY <1>5 DEF Runtime!Note
<1> QED
  BY <1>2, <1>3, <1>4, <1>6, <1>7

(* The terminal row of a call: its outcome and its pages.                  *)
LEMMA RowsAreMade ==
    ASSUME Runtime!RuntimeAssumption, NEW c, NEW a, NEW own \in Runtime!Scopes \cup {Unknown}, NEW x, ContextOK(x)
    PROVE  LET w == Runtime!Row(c, a, own, x) IN
           w \in Runtime!Rows /\ w.pages = x.pages /\ (a = "data" => w.outcome = "success")
<1>1. Runtime!Outcome(a) \in {"success", "cancelled", "failed", "denied"}
      /\ (a = "data" => Runtime!Outcome(a) = "success")
  BY DEF Runtime!Outcome
<1> QED
  BY <1>1 DEF Runtime!Row, Runtime!Rows, ContextOK, Runtime!Contexts, Runtime!Scopes

\* Only call c is at another place.
OnlyMoves(c) ==
    \A b \in Runtime!Calls \ {c} :
        /\ pc'[b] = pc[b] /\ elapsed'[b] = elapsed[b] /\ left'[b] = left[b]
        /\ pages'[b] = pages[b] /\ answer'[b] = answer[b] /\ rows'[b] = rows[b]

LEMMA OthersFit ==
    ASSUME RuntimeInv, NEW c \in Runtime!Calls, OnlyMoves(c), CallFits(c)',
           \A b \in Runtime!Calls \ {c} : context'[b] = context[b] \/ Later(context')
    PROVE  \A b \in Runtime!Calls : CallFits(b)'
<1> SUFFICES ASSUME NEW b \in Runtime!Calls \ {c} PROVE CallFits(b)'
  OBVIOUS
<1>1. CallFits(b) /\ (context[b] # None => context[b].pages \in Nat) /\ pages[b] \in Nat
  BY DEF RuntimeInv, RuntimeTypes, Runtime!Contexts
<1>2. /\ context'[b] # None <=> context[b] # None
      /\ context'[b] # None => ContextOK(context'[b]) /\ context'[b].pages >= context[b].pages
                               /\ context'[b].pages \in Nat
  BY <1>1 DEF Later, CallFits, ContextOK, Runtime!Contexts
<1> QED
  BY <1>1, <1>2 DEF CallFits, OnlyMoves, ContextOK


\* A step of call c alone, on contexts that come later than those there are.
StepFits(c) ==
    /\ RuntimeTypes' /\ CallFits(c)' /\ OnlyMoves(c)
    /\ (\A b \in Runtime!Calls \ {c} : context'[b] = context[b]) \/ Later(context')

LEMMA StepsFit ==
    ASSUME RuntimeInv, NEW c \in Runtime!Calls, StepFits(c)
    PROVE  RuntimeInv'
  BY OthersFit DEF StepFits, RuntimeInv

(* A call that has its result makes up a row that accounts for its pages,  *)
(* a read that returned just now included.                                 *)
LEMMA ClosesFit ==
    ASSUME Runtime!RuntimeAssumption, RuntimeInv, NEW c \in Runtime!Calls, pc[c] \in {"ready", "waiting"},
           NEW a \in Runtime!Failures \cup {"data"}, NEW own \in Runtime!Scopes \cup {Unknown},
           NEW X, Later(X), Runtime!Close(c, a, X, own), UNCHANGED <<elapsed, left>>,
           \/ pages' = pages
           \/ pages' = [pages EXCEPT ![c] = @ + 1] /\ X[c].pages = context[c].pages + 1
    PROVE  RuntimeInv'
<1>1. /\ RuntimeTypes /\ CallFits(c) /\ c \notin ActionCalls
      /\ context[c] # None /\ X[c] # None /\ ContextOK(X[c]) /\ X[c].pages >= context[c].pages
      /\ context[c].pages \in Nat /\ X[c].pages \in Nat /\ pages[c] \in Nat /\ pages' \in [Runtime!Calls -> Nat]
  BY DEF RuntimeInv, RuntimeTypes, CallFits, Later, ContextOK, Runtime!Contexts
<1> DEFINE w == Runtime!Row(c, a, own, X[c])
<1>2. w \in Runtime!Rows /\ w.pages = X[c].pages /\ (a = "data" => w.outcome = "success")
  BY <1>1, RowsAreMade
<1> HIDE DEF w
<1>3. /\ pc' = [pc EXCEPT ![c] = "closing"] /\ answer' = [answer EXCEPT ![c] = a]
      /\ scope' = [scope EXCEPT ![c] = own] /\ context' = X
      /\ rows' = [rows EXCEPT ![c].terminal = <<"writing", w>>]
  BY DEF Runtime!Close, w
<1>4. X[c].pages >= pages'[c]
  BY <1>1 DEF RuntimeTypes, CallFits
<1>5. /\ rows'[c].start = rows[c].start /\ rows'[c].terminal = <<"writing", w>>
      /\ rows'[c] \in [start : BOOLEAN, terminal : ({"writing", "kept"} \X Runtime!Rows) \cup {None}]
      /\ <<"writing", w>> # None
  BY <1>1, <1>2, <1>3 DEF RuntimeTypes, Runtime!RuntimeAssumption
<1>6. RuntimeTypes'
  <2>1. rows' \in [Runtime!Calls -> [start : BOOLEAN,
                                     terminal : ({"writing", "kept"} \X Runtime!Rows) \cup {None}]]
    BY <1>1, <1>3, <1>5 DEF RuntimeTypes
  <2> QED
    BY <1>1, <1>3, <2>1 DEF RuntimeTypes, Later, Runtime!Codes
<1>7. CallFits(c)'
  BY <1>1, <1>2, <1>3, <1>4, <1>5 DEF RuntimeTypes, CallFits, ContextOK
<1>8. OnlyMoves(c)
  BY <1>1, <1>3 DEF OnlyMoves, RuntimeTypes
<1> QED
  BY <1>3, <1>6, <1>7, <1>8, StepsFit DEF StepFits, Later

LEMMA BeginFits ==
    ASSUME Runtime!RuntimeAssumption, RuntimeInv, NEW c \in Runtime!Calls, Runtime!Begin(c)
    PROVE  RuntimeInv'
<1>1. Runtime!NewContext # None /\ ContextOK(Runtime!NewContext) /\ Runtime!NewContext.pages = 0
  <2>1. Runtime!NewContext \in Runtime!Contexts
    BY DEF Runtime!NewContext, Runtime!Contexts
  <2> QED
    BY <2>1 DEF Runtime!NewContext, ContextOK, Runtime!RuntimeAssumption
<1>2. StepFits(c)
  BY <1>1 DEF Runtime!Begin, RuntimeInv, RuntimeTypes, CallFits, ContextOK, StepFits, OnlyMoves, Runtime!Codes
<1> QED
  BY <1>2, StepsFit

(* A call that may not go on closes as one that has its start row.         *)
LEMMA StartsFit ==
    ASSUME Runtime!RuntimeAssumption, RuntimeInv, NEW c \in Runtime!Calls,
           Runtime!StartWritten(c) \/ Runtime!StartFails(c)
    PROVE  RuntimeInv'
<1>1. /\ RuntimeTypes /\ CallFits(c) /\ pc[c] = "starting" /\ c \notin ActionCalls
      /\ context[c] # None /\ ContextOK(context[c]) /\ pages[c] = 0 /\ context[c].pages >= 0
  BY DEF RuntimeInv, CallFits, Runtime!StartWritten, Runtime!StartFails
<1>2. CASE Runtime!StartFails(c)
  <2>1. StepFits(c)
    BY <1>1, <1>2 DEF Runtime!StartFails, RuntimeTypes, CallFits, ContextOK, StepFits, OnlyMoves, Runtime!Codes
  <2> QED
    BY <2>1, StepsFit
<1>3. CASE Runtime!StartWritten(c) /\ pc' = [pc EXCEPT ![c] = "ready"]
  <2>1. /\ pc' = [pc EXCEPT ![c] = "ready"] /\ rows' = [rows EXCEPT ![c].start = TRUE]
        /\ UNCHANGED <<elapsed, left, pages, scope, context, answer>>
    <3>1. pc'[c] # "closing"
      BY <1>1, <1>3 DEF RuntimeTypes
    <3>2. [pc EXCEPT ![c] = "closing"][c] = "closing"
      BY <1>1 DEF RuntimeTypes
    <3> QED
      BY <1>3, <3>1, <3>2 DEF Runtime!StartWritten
  <2>2. StepFits(c)
    BY <1>1, <2>1 DEF RuntimeTypes, CallFits, ContextOK, StepFits, OnlyMoves
  <2> QED
    BY <2>2, StepsFit
<1>4. CASE Runtime!StartWritten(c) /\ pc' # [pc EXCEPT ![c] = "ready"]
  <2> DEFINE a == IF answer[c] = None THEN "RATE_LIMITED" ELSE answer[c]
             w == Runtime!Row(c, a, Unknown, context[c])
  <2>1. /\ pc' = [pc EXCEPT ![c] = "closing"] /\ answer' = [answer EXCEPT ![c] = a]
        /\ rows' = [rows EXCEPT ![c] = [start |-> TRUE, terminal |-> <<"writing", w>>]]
        /\ UNCHANGED <<elapsed, left, pages, scope, context>>
    BY <1>4 DEF Runtime!StartWritten
  <2>2. w \in Runtime!Rows /\ w.pages = context[c].pages /\ (a = "data" => w.outcome = "success")
    BY <1>1, RowsAreMade
  <2>3. a \in Runtime!Codes \cup {"data", None}
    BY <1>1 DEF RuntimeTypes, Runtime!Codes
  <2> HIDE DEF a, w
  <2>4. <<"writing", w>> # None /\ <<"writing", w>> \in {"writing", "kept"} \X Runtime!Rows
    BY <2>2 DEF Runtime!RuntimeAssumption
  <2>5. RuntimeTypes'
    BY <1>1, <2>1, <2>3, <2>4 DEF RuntimeTypes
  <2>6. CallFits(c)'
    BY <1>1, <2>1, <2>2, <2>4 DEF RuntimeTypes, CallFits, ContextOK
  <2>7. OnlyMoves(c)
    BY <1>1, <2>1 DEF OnlyMoves, RuntimeTypes
  <2> QED
    BY <2>1, <2>5, <2>6, <2>7, StepsFit DEF StepFits
<1> QED
  BY <1>2, <1>3, <1>4

(* A read starts with a timer that ends before the recipe's deadline.      *)
LEMMA ReadStartsFit ==
    ASSUME Runtime!RuntimeAssumption, RuntimeInv, NEW c \in Runtime!Calls, Runtime!StartRead(c)
    PROVE  RuntimeInv'
<1>1. /\ RuntimeTypes /\ CallFits(c) /\ pc[c] = "ready" /\ c \notin ActionCalls /\ elapsed[c] \in Nat
      /\ scope[c] \in Runtime!Scopes \cup {Unknown} /\ UNCHANGED <<elapsed, pages>>
  BY DEF RuntimeInv, RuntimeTypes, CallFits, Runtime!StartRead
<1> DEFINE noted(ids) == IF ids = {} THEN context
                         ELSE Runtime!Note(LAMBDA x : Runtime!recordExplicitAuditJobIds(x, ids))
<1>2. PICK ids \in SUBSET Jobs :
         \/ \E a \in {"TOOL_TIMEOUT", "CANCELLED"} :
               Runtime!Close(c, a, noted(ids), scope[c]) /\ UNCHANGED <<left, known>>
         \/ /\ ~(c \in AnalysisCalls /\ Runtime!Budget(c) <= 0)
            /\ pc' = [pc EXCEPT ![c] = "waiting"]
            /\ left' = [left EXCEPT ![c] = Runtime!remainingTimeoutMs(c)]
            /\ context' = noted(ids)
            /\ UNCHANGED <<answer, scope, rows>>
  BY DEF Runtime!StartRead
<1>3. Later(noted(ids))
  BY NotesComeLater
<1> HIDE DEF noted
<1>4. ASSUME NEW a \in {"TOOL_TIMEOUT", "CANCELLED"},
             Runtime!Close(c, a, noted(ids), scope[c]) /\ UNCHANGED <<left, known>>
      PROVE  RuntimeInv'
  BY <1>1, <1>3, <1>4, ClosesFit DEF Runtime!Failures
<1>5. CASE /\ ~(c \in AnalysisCalls /\ Runtime!Budget(c) <= 0)
           /\ pc' = [pc EXCEPT ![c] = "waiting"]
           /\ left' = [left EXCEPT ![c] = Runtime!remainingTimeoutMs(c)]
           /\ context' = noted(ids)
           /\ UNCHANGED <<answer, scope, rows>>
  <2>1. Runtime!remainingTimeoutMs(c) \in Nat
        /\ (c \in AnalysisCalls => elapsed[c] + Runtime!remainingTimeoutMs(c) <= AnalysisMs)
    <3>1. ToolMs \in Nat /\ AnalysisMs \in Nat /\ Runtime!Budget(c) = AnalysisMs - elapsed[c]
      BY DEF Runtime!RuntimeAssumption, Runtime!Budget
    <3>2. Runtime!Min({ToolMs, Runtime!Budget(c)})
            = IF ToolMs <= Runtime!Budget(c) THEN ToolMs ELSE Runtime!Budget(c)
      BY <1>1, <3>1, RuntimeMin
    <3> QED
      BY <1>1, <1>5, <3>1, <3>2 DEF Runtime!remainingTimeoutMs
  <2>2. context' \in [Runtime!Calls -> Runtime!Contexts \cup {None}] /\ Later(context')
        /\ context'[c] # None /\ ContextOK(context'[c]) /\ context'[c].pages >= pages[c]
    BY <1>1, <1>3, <1>5 DEF Later, CallFits, RuntimeTypes, ContextOK, Runtime!Contexts
  <2>3. RuntimeTypes'
    BY <1>1, <1>5, <2>1, <2>2 DEF RuntimeTypes
  <2>4. CallFits(c)'
    BY <1>1, <1>5, <2>1, <2>2 DEF CallFits, ContextOK, RuntimeTypes
  <2>5. OnlyMoves(c)
    BY <1>1, <1>5 DEF OnlyMoves, RuntimeTypes
  <2> QED
    BY <2>2, <2>3, <2>4, <2>5, StepsFit DEF StepFits
<1> QED
  BY <1>2, <1>4, <1>5

LEMMA ScopesFit ==
    ASSUME Runtime!RuntimeAssumption, RuntimeInv, NEW c \in Runtime!Calls, Runtime!ScopeResolved(c)
    PROVE  RuntimeInv'
<1>1. PICK s \in Runtime!Scopes :
         /\ context' = Runtime!Note(LAMBDA x : Runtime!recordAuditPermissionScope(x, s))
         /\ scope' = IF pc[c] = "waiting" THEN [scope EXCEPT ![c] = s] ELSE scope
         /\ UNCHANGED <<pc, elapsed, left, pages, answer, rows>>
  BY DEF Runtime!ScopeResolved
<1>2. Later(context')
  BY <1>1, NotesComeLater
<1>3. RuntimeTypes /\ RuntimeTypes'
  BY <1>1, <1>2 DEF RuntimeInv, RuntimeTypes, Later
<1>4. CallFits(c)'
  <2>1. CallFits(c) /\ pages[c] \in Nat /\ (context'[c] # None <=> context[c] # None)
    BY <1>2 DEF RuntimeInv, RuntimeTypes, Later
  <2>2. context[c] # None => context[c].pages \in Nat
    BY <1>3 DEF RuntimeTypes, Runtime!Contexts
  <2>3. context'[c] # None => ContextOK(context'[c]) /\ context'[c].pages >= context[c].pages
                              /\ context'[c].pages \in Nat
    BY <1>2 DEF Later, ContextOK, Runtime!Contexts
  <2>4. UNCHANGED <<pc, elapsed, left, pages, answer, rows>>
    BY <1>1
  <2> QED
    BY <2>1, <2>2, <2>3, <2>4 DEF CallFits, ContextOK
<1> QED
  BY <1>1, <1>2, <1>3, <1>4, StepsFit DEF StepFits, OnlyMoves

(* The page a read returns is counted in every open context, its own too.  *)
LEMMA ReturnsFit ==
    ASSUME Runtime!RuntimeAssumption, RuntimeInv, NEW c \in Runtime!Calls, Runtime!ReadReturns(c)
    PROVE  RuntimeInv'
<1> DEFINE X == Runtime!Note(LAMBDA x : Runtime!recordAuditReadMetrics(x))
<1>1. /\ RuntimeTypes /\ CallFits(c) /\ pc[c] = "waiting" /\ context[c] # None /\ context[c].pages \in Nat
      /\ scope[c] \in Runtime!Scopes \cup {Unknown} /\ pages[c] \in Nat
      /\ pages' = [pages EXCEPT ![c] = @ + 1] /\ UNCHANGED <<elapsed, left>>
  BY DEF RuntimeInv, RuntimeTypes, CallFits, ContextOK, Runtime!Contexts, Runtime!ReadReturns
<1>2. Later(X) /\ X[c].pages = context[c].pages + 1
  BY <1>1, NotesComeLater
<1>3. \/ Runtime!Close(c, "data", X, scope[c])
      \/ pc' = [pc EXCEPT ![c] = "ready"] /\ context' = X /\ UNCHANGED <<answer, scope, rows>>
  BY DEF Runtime!ReadReturns
<1> HIDE DEF X
<1>4. CASE Runtime!Close(c, "data", X, scope[c])
  BY <1>1, <1>2, <1>4, ClosesFit
<1>5. CASE pc' = [pc EXCEPT ![c] = "ready"] /\ context' = X /\ UNCHANGED <<answer, scope, rows>>
  <2>1. Later(context') /\ context'[c] # None /\ ContextOK(context'[c]) /\ context'[c].pages >= pages'[c]
    BY <1>1, <1>2, <1>5 DEF Later, CallFits, RuntimeTypes
  <2>2. RuntimeTypes'
    <3>1. context' \in [Runtime!Calls -> Runtime!Contexts \cup {None}]
          /\ pc' \in [Runtime!Calls -> {"idle", "starting", "ready", "waiting", "closing", "done"}]
          /\ pages' \in [Runtime!Calls -> Nat]
      <4>1. context' \in [Runtime!Calls -> Runtime!Contexts \cup {None}]
        BY <2>1 DEF Later
      <4>2. pages' \in [Runtime!Calls -> Nat]
        BY <1>1 DEF RuntimeTypes
      <4>3. pc' \in [Runtime!Calls -> {"idle", "starting", "ready", "waiting", "closing", "done"}]
        BY <1>1, <1>5 DEF RuntimeTypes
      <4> QED
        BY <4>1, <4>2, <4>3
    <3> QED
      BY <1>1, <1>5, <3>1 DEF RuntimeTypes
  <2>3. CallFits(c)'
    BY <1>1, <1>5, <2>1 DEF CallFits, ContextOK, RuntimeTypes
  <2>4. OnlyMoves(c)
    BY <1>1, <1>5 DEF OnlyMoves, RuntimeTypes
  <2> QED
    BY <2>1, <2>2, <2>3, <2>4, StepsFit DEF StepFits
<1> QED
  BY <1>3, <1>4, <1>5

(* A read that fails, times out or is cancelled, and a recipe that has     *)
(* read enough, close the call on the contexts as they are.                *)
LEMMA EndsOfReadsFit ==
    ASSUME Runtime!RuntimeAssumption, RuntimeInv, NEW c \in Runtime!Calls,
           \/ Runtime!ReadFails(c) \/ Runtime!ReadTimesOut(c) \/ Runtime!ReadCancelled(c) \/ Runtime!Finish(c)
    PROVE  RuntimeInv'
<1>1. /\ RuntimeTypes /\ CallFits(c) /\ pc[c] \in {"ready", "waiting"}
      /\ scope[c] \in Runtime!Scopes \cup {Unknown} /\ UNCHANGED <<elapsed, left, pages>>
  BY DEF RuntimeInv, RuntimeTypes, Runtime!ReadFails, Runtime!ReadTimesOut, Runtime!ReadCancelled, Runtime!Finish
<1>2. Later(context)
  BY NotesComeLater
<1>3. \/ \E a \in Runtime!Failures \cup {"data"}, own \in Runtime!Scopes \cup {Unknown} :
            Runtime!Close(c, a, context, own)
      \/ /\ pc[c] = "waiting" /\ pc' = [pc EXCEPT ![c] = "ready"]
         /\ UNCHANGED <<answer, scope, context, rows>>
  <2>1. CASE Runtime!ReadFails(c)
    BY <2>1 DEF Runtime!ReadFails, Runtime!Failures
  <2>2. CASE Runtime!ReadTimesOut(c)
    BY <2>2 DEF Runtime!ReadTimesOut, Runtime!Failures
  <2>3. CASE Runtime!ReadCancelled(c)
    BY <2>3 DEF Runtime!ReadCancelled, Runtime!Failures
  <2>4. CASE Runtime!Finish(c)
    BY <1>1, <2>4 DEF Runtime!Finish
  <2> QED
    BY <2>1, <2>2, <2>3, <2>4
<1>4. ASSUME NEW a \in Runtime!Failures \cup {"data"}, NEW own \in Runtime!Scopes \cup {Unknown},
             Runtime!Close(c, a, context, own)
      PROVE  RuntimeInv'
  BY <1>1, <1>2, <1>4, ClosesFit
<1>5. CASE /\ pc[c] = "waiting" /\ pc' = [pc EXCEPT ![c] = "ready"]
           /\ UNCHANGED <<answer, scope, context, rows>>
  <2>1. StepFits(c)
    BY <1>1, <1>5 DEF RuntimeTypes, CallFits, ContextOK, StepFits, OnlyMoves
  <2> QED
    BY <2>1, StepsFit
<1> QED
  BY <1>3, <1>4, <1>5

LEMMA ActsFit ==
    ASSUME Runtime!RuntimeAssumption, RuntimeInv, NEW c \in Runtime!Calls, Runtime!Act(c)
    PROVE  RuntimeInv'
<1>1. PICK a \in {"data", "UPSTREAM_ERROR"} :
         /\ pc' = [pc EXCEPT ![c] = "closing"] /\ answer' = [answer EXCEPT ![c] = a]
         /\ rows' = [rows EXCEPT ![c].terminal =
                       <<"writing", Runtime!Row(c, a, Unknown, Runtime!NewContext)>>]
         /\ UNCHANGED <<elapsed, left, pages, scope, context>> /\ c \in ActionCalls /\ pc[c] = "idle"
  BY DEF Runtime!Act
<1> DEFINE w == Runtime!Row(c, a, Unknown, Runtime!NewContext)
<1>2. w \in Runtime!Rows /\ (a = "data" => w.outcome = "success")
  <2>1. Runtime!NewContext \in Runtime!Contexts
    BY DEF Runtime!NewContext, Runtime!Contexts
  <2>2. ContextOK(Runtime!NewContext)
    BY <2>1 DEF Runtime!NewContext, ContextOK
  <2> QED
    BY <2>2, RowsAreMade
<1>3. rows' = [rows EXCEPT ![c].terminal = <<"writing", w>>]
  BY <1>1
<1> HIDE DEF w
<1>4. <<"writing", w>> # None /\ <<"writing", w>> \in {"writing", "kept"} \X Runtime!Rows
  BY <1>2 DEF Runtime!RuntimeAssumption
<1>5. RuntimeTypes /\ CallFits(c)
  BY DEF RuntimeInv
<1>6. rows'[c].start = rows[c].start /\ rows'[c].terminal = <<"writing", w>>
      /\ rows'[c] \in [start : BOOLEAN, terminal : ({"writing", "kept"} \X Runtime!Rows) \cup {None}]
  BY <1>3, <1>4, <1>5 DEF RuntimeTypes
<1>7. RuntimeTypes'
  <2>1. rows' \in [Runtime!Calls -> [start : BOOLEAN,
                                     terminal : ({"writing", "kept"} \X Runtime!Rows) \cup {None}]]
    BY <1>3, <1>5, <1>6 DEF RuntimeTypes
  <2> QED
    BY <1>1, <1>5, <2>1 DEF RuntimeTypes, Runtime!Codes, Runtime!Failures
<1>8. CallFits(c)'
  BY <1>1, <1>2, <1>4, <1>5, <1>6 DEF CallFits, RuntimeTypes, ContextOK
<1>9. OnlyMoves(c)
  BY <1>1, <1>3, <1>5 DEF OnlyMoves, RuntimeTypes
<1> QED
  BY <1>1, <1>7, <1>8, <1>9, StepsFit DEF StepFits

(* The terminal row is kept as it was made up, or the caller gets nothing. *)
LEMMA EndsFit ==
    ASSUME Runtime!RuntimeAssumption, RuntimeInv, NEW c \in Runtime!Calls,
           Runtime!TerminalWritten(c) \/ Runtime!TerminalFails(c)
    PROVE  RuntimeInv'
<1>1. /\ RuntimeTypes /\ CallFits(c) /\ pc[c] = "closing"
      /\ pc' = [pc EXCEPT ![c] = "done"] /\ context' = [context EXCEPT ![c] = None]
      /\ UNCHANGED <<elapsed, left, pages, scope>>
  BY DEF RuntimeInv, Runtime!TerminalWritten, Runtime!TerminalFails, Runtime!Ends
<1>2. CASE Runtime!TerminalWritten(c)
  <2>1. rows[c].terminal \in {"writing", "kept"} \X Runtime!Rows
    BY <1>1 DEF CallFits, RuntimeTypes
  <2> DEFINE t == <<"kept", rows[c].terminal[2]>>
  <2>2. t \in {"writing", "kept"} \X Runtime!Rows /\ t # None /\ t[1] = "kept" /\ t[2] = rows[c].terminal[2]
    BY <2>1 DEF Runtime!RuntimeAssumption
  <2>3. rows' = [rows EXCEPT ![c].terminal = t] /\ answer' = answer
    BY <1>1, <1>2 DEF Runtime!TerminalWritten, RuntimeTypes
  <2> HIDE DEF t
  <2>4. StepFits(c)
    BY <1>1, <2>2, <2>3 DEF RuntimeTypes, CallFits, ContextOK, StepFits, OnlyMoves
  <2> QED
    BY <2>4, StepsFit
<1>3. CASE Runtime!TerminalFails(c)
  <2>1. rows' = [rows EXCEPT ![c].terminal = None] /\ answer' = [answer EXCEPT ![c] = "AUDIT_UNAVAILABLE"]
    BY <1>3 DEF Runtime!TerminalFails
  <2>2. StepFits(c)
    BY <1>1, <2>1 DEF RuntimeTypes, CallFits, ContextOK, StepFits, OnlyMoves, Runtime!Codes
  <2> QED
    BY <2>2, StepsFit
<1> QED
  BY <1>2, <1>3

(* A second: a timer that runs has time left, so it stays ahead.           *)
LEMMA TicksFit ==
    ASSUME Runtime!RuntimeAssumption, RuntimeInv, Runtime!Tick
    PROVE  RuntimeInv'
<1>1. /\ RuntimeTypes /\ AnalysisMs \in Nat /\ UNCHANGED <<pc, pages, scope, answer, context, rows>>
      /\ elapsed \in [Runtime!Calls -> Nat] /\ left \in [Runtime!Calls -> Nat]
  BY DEF RuntimeInv, RuntimeTypes, Runtime!Tick, Runtime!RuntimeAssumption
<1>2. ASSUME NEW c \in Runtime!Calls
      PROVE  /\ elapsed'[c] \in Nat /\ elapsed'[c] <= elapsed[c] + 1
             /\ left'[c] \in Nat /\ (pc[c] = "waiting" => left'[c] = left[c] - 1)
  <2>1. Runtime!Min({elapsed[c] + 1, AnalysisMs + 1})
          = IF elapsed[c] + 1 <= AnalysisMs + 1 THEN elapsed[c] + 1 ELSE AnalysisMs + 1
    BY <1>1, RuntimeMin
  <2> QED
    BY <1>1, <2>1 DEF Runtime!Tick
<1>3. RuntimeTypes'
  <2>1. elapsed' \in [Runtime!Calls -> Nat] /\ left' \in [Runtime!Calls -> Nat]
    BY <1>2 DEF Runtime!Tick
  <2> QED
    BY <1>1, <2>1 DEF RuntimeTypes
<1>4. ASSUME NEW c \in Runtime!Calls
      PROVE  CallFits(c)'
  BY <1>1, <1>2 DEF RuntimeInv, CallFits, ContextOK
<1> QED
  BY <1>3, <1>4 DEF RuntimeInv

LEMMA RuntimeInvariance ==
    ASSUME Runtime!RuntimeAssumption
    PROVE  Runtime!Spec => []RuntimeInv
<1>1. Runtime!Init => RuntimeInv
  BY DEF Runtime!RuntimeAssumption, Runtime!Init, RuntimeInv, RuntimeTypes, CallFits
<1>2. RuntimeInv /\ [Runtime!Next]_Runtime!vars => RuntimeInv'
  <2> SUFFICES ASSUME RuntimeInv, [Runtime!Next]_Runtime!vars PROVE RuntimeInv'
    OBVIOUS
  <2>1. CASE UNCHANGED Runtime!vars
    BY <2>1 DEF Runtime!vars, Runtime!call, RuntimeInv, RuntimeTypes, CallFits, ContextOK
  <2>2. CASE Runtime!ClientLeaves
    BY <2>2 DEF Runtime!ClientLeaves, Runtime!call, RuntimeInv, RuntimeTypes, CallFits, ContextOK
  <2> QED
    BY <2>1, <2>2, BeginFits, StartsFit, ReadStartsFit, ScopesFit, ReturnsFit, EndsOfReadsFit, ActsFit,
       EndsFit, TicksFit DEF Runtime!Next, Runtime!Reads
<1> QED
  BY <1>1, <1>2, PTL DEF Runtime!Spec

(* A caller that got data left a terminal row that says so, and its start  *)
(* row was retained before the first read; the rows of a call account for  *)
(* all it read, whatever ran beside it.                                    *)
THEOREM CallsAreOnRecord ==
    ASSUME Runtime!RuntimeAssumption
    PROVE  Runtime!Spec =>
        [](Runtime!DataLeavesARecord /\ Runtime!ReadsAreAnnounced /\ Runtime!PagesAreAccountedFor)
<1>1. RuntimeInv => Runtime!DataLeavesARecord
  BY DEF RuntimeInv, CallFits, Runtime!DataLeavesARecord, Runtime!Kept
<1>2. RuntimeInv => Runtime!ReadsAreAnnounced
  BY DEF RuntimeInv, CallFits, Runtime!ReadsAreAnnounced
<1>3. RuntimeInv => Runtime!PagesAreAccountedFor
  BY DEF RuntimeInv, CallFits, Runtime!PagesAreAccountedFor, Runtime!Kept
<1> QED
  BY <1>1, <1>2, <1>3, RuntimeInvariance, PTL

(* An audit context lives exactly as long as its call, and claims no job   *)
(* outside its scope, in whatever order overlapping reads name jobs and    *)
(* resolve scopes.                                                         *)
THEOREM ContextsAreSound ==
    ASSUME Runtime!RuntimeAssumption
    PROVE  Runtime!Spec =>
        [](Runtime!ContextsFollowTheirCalls /\ Runtime!AuditedJobsArePermitted)
<1>1. RuntimeInv => Runtime!ContextsFollowTheirCalls
  BY DEF RuntimeInv, CallFits, Runtime!ContextsFollowTheirCalls
<1>2. RuntimeInv => Runtime!AuditedJobsArePermitted
  BY DEF RuntimeInv, CallFits, ContextOK, Runtime!AuditedJobsArePermitted, Runtime!Active
<1> QED
  BY <1>1, <1>2, RuntimeInvariance, PTL

(* No read of a recipe is awaited beyond the deadline of the recipe.       *)
THEOREM RecipesKeepTheirDeadline ==
    ASSUME Runtime!RuntimeAssumption
    PROVE  Runtime!Spec => []Runtime!ReadsEndByTheDeadline
<1>1. RuntimeInv => Runtime!ReadsEndByTheDeadline
  <2> SUFFICES ASSUME RuntimeInv, NEW c \in AnalysisCalls, pc[c] = "waiting"
               PROVE  elapsed[c] <= AnalysisMs
    BY DEF Runtime!ReadsEndByTheDeadline
  <2>1. CallFits(c) /\ elapsed[c] \in Nat /\ left[c] \in Nat /\ AnalysisMs \in Nat
    BY DEF RuntimeInv, RuntimeTypes, Runtime!Calls, Runtime!RuntimeAssumption
  <2> QED
    BY <2>1 DEF CallFits
<1> QED
  BY <1>1, RuntimeInvariance, PTL

-----------------------------------------------------------------------------
(***************************************************************************)
(* The audit trail.  A call of a read tool that got past its announcement  *)
(* has a start row; and the instants of the digests, being read or posted, *)
(* lie an interval apart, the next one included, so that their windows     *)
(* overlap nowhere.                                                        *)
(***************************************************************************)
Audit == INSTANCE AuditTrail

AuditTypes ==
    /\ now \in 0..Horizon
    /\ pc \in [Calls -> Audit!Phases]
    /\ at \in [Calls -> 0..Horizon] /\ name \in [Calls -> 0..Horizon]
    /\ rows \subseteq Audit!Rows
    /\ due \in Nat /\ ticks \subseteq 0..now

Announced(c) == \E r \in rows : r.call = c /\ r.stage = "start"
EndKept(c) == \E r \in rows : r.call = c /\ r.stage = "terminal"

RowsOK ==
    /\ \A c \in Calls : kind[c] # "read" => kind[c] = "action" /\ pc[c] \notin {"starting", "saving start"}
    /\ \A c \in Calls : kind[c] = "read"
          /\ (pc[c] \in {"running", "ending", "saving terminal", "answered", "withheld"} \/ EndKept(c))
             => Announced(c)
    /\ \A c \in Calls : pc[c] = "answered" => EndKept(c)

\* Windows that end at t and at u share no instant.
Apart(t, u) == t + Interval <= u \/ u + Interval <= t

TicksOK ==
    /\ \A t \in ticks : t + Interval <= due
    /\ \A t, u \in ticks : t # u => Apart(t, u)
    /\ \A d \in digests : d.to \in 0..now /\ d.to + Interval <= due
    /\ \A d \in digests, t \in ticks : Apart(d.to, t)
    /\ \A d, e \in digests : d # e => Apart(d.to, e.to)

DigestsOK ==
    \A d \in digests :
        /\ d.retained \subseteq Audit!Rows /\ d.counted \subseteq d.retained
        /\ d.from = d.to - Interval
        /\ \A r \in d.counted : d.from <= r.at /\ r.at < d.to
        /\ \A r \in d.retained :
              r.stage = "terminal" /\ d.from <= r.at /\ r.at < d.to /\ d.from <= r.name /\ r.name < d.to
                => r \in d.counted

AuditInv == AuditTypes /\ RowsOK /\ TicksOK /\ DigestsOK

(* Later instants are in no earlier month.                                 *)
LEMMA MonthsAreOrdered ==
    ASSUME Audit!AuditTrailAssumption, NEW t \in Int, NEW u \in Int, t <= u
    PROVE  Audit!Month(t) \in Int /\ Audit!Month(t) <= Audit!Month(u)
  BY DEF Audit!Month, Audit!AuditTrailAssumption

(* What a digest selects from a trail: rows stamped in its window, and all *)
(* of those that are named in it too, in whichever month they lie.         *)
LEMMA WindowsAreRead ==
    ASSUME Audit!AuditTrailAssumption, NEW trail \in SUBSET Audit!Rows, NEW t \in 0..Horizon
    PROVE  LET f == t - Interval
               s == Audit!Summary(Audit!Fetched(trail, f, t), f, t) IN
           /\ s \subseteq trail
           /\ \A r \in s : f <= r.at /\ r.at < t
           /\ \A r \in trail :
                 r.stage = "terminal" /\ f <= r.at /\ r.at < t /\ f <= r.name /\ r.name < t => r \in s
<1> DEFINE f == t - Interval
<1> DEFINE s == Audit!Summary(Audit!Fetched(trail, f, t), f, t)
<1>1. s \subseteq trail /\ \A r \in s : f <= r.at /\ r.at < t
  BY DEF Audit!Summary, Audit!Fetched, Audit!Within
<1>2. ASSUME NEW r \in trail, r.stage = "terminal", f <= r.at, r.at < t, f <= r.name, r.name < t
      PROVE  r \in s
  <2>1. r.name \in 0..Horizon /\ t - 1 \in Int /\ f \in Int /\ r.name <= t - 1 /\ 0 \in Int /\ Horizon \in Int
    BY <1>2 DEF Audit!Rows, Audit!Times, Audit!AuditTrailAssumption
  <2>2. /\ Audit!Month(r.name) \in Int
        /\ Audit!Month(0) <= Audit!Month(r.name) /\ Audit!Month(r.name) <= Audit!Month(Horizon)
        /\ Audit!Month(f) <= Audit!Month(r.name) /\ Audit!Month(r.name) <= Audit!Month(t - 1)
        /\ Audit!Month(Horizon) \in Int
    BY <1>2, <2>1, MonthsAreOrdered
  <2>3. Audit!Month(0) = 0
    BY DEF Audit!Month, Audit!AuditTrailAssumption
  <2>4. Audit!Month(r.name) \in 0..Audit!Month(Horizon)
    BY <2>2, <2>3
  <2>5. Audit!Month(r.name) \in Audit!MonthsOf(f, t)
    BY <2>2, <2>4 DEF Audit!MonthsOf
  <2>6. r \in Audit!Fetched(trail, f, t)
    BY <1>2, <2>5 DEF Audit!Fetched, Audit!Within
  <2> QED
    BY <1>2, <2>6 DEF Audit!Summary, Audit!Within
<1> QED
  BY <1>1, <1>2

LEMMA AuditStarts ==
    ASSUME Audit!AuditTrailAssumption
    PROVE  Audit!Init => AuditInv
  BY DEF Audit!AuditTrailAssumption, Audit!Init, Audit!Phases, AuditInv, AuditTypes, RowsOK, TicksOK,
     DigestsOK, Announced, EndKept

(* The timer is left alone: what a call and its sink do.                   *)
LEMMA CallMoves ==
    ASSUME Audit!AuditTrailAssumption, AuditInv, NEW c \in Calls,
           Audit!Start(c) \/ Audit!End(c) \/ Audit!Emit(c) \/ Audit!Saved(c) \/ Audit!SaveFails(c)
    PROVE  AuditInv'
<1> USE DEF AuditInv
<1>1. UNCHANGED <<kind, now, due, ticks, digests>>
  BY DEF Audit!Start, Audit!End, Audit!Emit, Audit!Saved, Audit!SaveFails, Audit!config, Audit!timer
<1>2. TicksOK' /\ DigestsOK'
  BY <1>1 DEF TicksOK, DigestsOK, Apart
<1> DEFINE w == Audit!Row(c)
<1>3. w \in Audit!Rows /\ w.call = c /\ w.stage = IF pc[c] = "saving start" THEN "start" ELSE "terminal"
  BY DEF AuditTypes, Audit!Row, Audit!Rows, Audit!Times
<1> HIDE DEF w
<1>4. ASSUME NEW p, pc' = [pc EXCEPT ![c] = p], UNCHANGED rows,
             \/ /\ p \in {"starting", "running", "saving start", "denied", "withheld"} /\ pc[c] # "answered"
                /\ p = "starting" => kind[c] = "read"
                /\ p = "saving start" => pc[c] = "starting"
                /\ p = "running" => kind[c] # "read"
                /\ p = "denied" => pc[c] = "saving start"
                /\ p = "withheld" => pc[c] = "saving terminal"
             \/ p = "ending" /\ pc[c] = "running"
             \/ p = "saving terminal" /\ pc[c] = "ending"
      PROVE  RowsOK'
  <2>1. \A x \in Calls : pc'[x] = IF x = c THEN p ELSE pc[x]
    BY <1>4 DEF AuditTypes
  <2>2. \A x \in Calls : (Announced(x)' <=> Announced(x)) /\ (EndKept(x)' <=> EndKept(x))
    BY <1>4 DEF Announced, EndKept
  <2> QED
    BY <1>1, <1>4, <2>1, <2>2 DEF RowsOK
<1>5. ASSUME NEW p, pc' = [pc EXCEPT ![c] = p], rows' = rows \cup {w},
             \/ pc[c] = "saving start" /\ p \in {"running", "denied"}
             \/ pc[c] = "saving terminal" /\ p \in {"answered", "withheld"}
      PROVE  RowsOK'
  <2>1. \A x \in Calls : pc'[x] = IF x = c THEN p ELSE pc[x]
    BY <1>5 DEF AuditTypes
  <2>2. \A x \in Calls : (Announced(x) => Announced(x)') /\ (EndKept(x) => EndKept(x)')
    BY <1>5 DEF Announced, EndKept
  <2>3. \A x \in Calls \ {c} : EndKept(x)' => EndKept(x)
    BY <1>3, <1>5 DEF EndKept
  <2>4. CASE pc[c] = "saving start"
    <3>1. Announced(c)' /\ kind[c] = "read"
      BY <1>3, <1>5, <2>4 DEF Announced, RowsOK
    <3> QED
      BY <1>1, <1>5, <2>1, <2>2, <2>3, <2>4, <3>1 DEF RowsOK
  <2>5. CASE pc[c] = "saving terminal"
    <3>1. EndKept(c)' /\ (kind[c] = "read" => Announced(c))
      BY <1>3, <1>5, <2>5 DEF EndKept, RowsOK
    <3> QED
      BY <1>1, <1>5, <2>1, <2>2, <2>3, <2>5, <3>1 DEF RowsOK
  <2> QED
    BY <1>5, <2>4, <2>5
<1>6. CASE Audit!Start(c)
  <2>1. /\ pc[c] = "idle" /\ at' = [at EXCEPT ![c] = now] /\ UNCHANGED <<name, rows>>
        /\ pc' = [pc EXCEPT ![c] = IF kind[c] = "read" THEN "starting" ELSE "running"]
    BY <1>6 DEF Audit!Start, Audit!Go
  <2>2. AuditTypes'
    BY <1>1, <2>1 DEF AuditTypes, Audit!Phases
  <2>3. RowsOK'
    <3>1. CASE kind[c] = "read"
      BY <1>4, <2>1, <3>1
    <3>2. CASE kind[c] # "read"
      BY <1>4, <2>1, <3>2
    <3> QED
      BY <3>1, <3>2
  <2> QED
    BY <1>2, <2>2, <2>3
<1>7. CASE Audit!End(c)
  <2>1. /\ pc[c] = "running" /\ pc' = [pc EXCEPT ![c] = "ending"] /\ at' = [at EXCEPT ![c] = now]
        /\ UNCHANGED <<name, rows>>
    BY <1>7 DEF Audit!End, Audit!Go
  <2>2. AuditTypes'
    BY <1>1, <2>1 DEF AuditTypes, Audit!Phases
  <2>3. RowsOK'
    BY <1>4, <2>1
  <2> QED
    BY <1>2, <2>2, <2>3
<1>8. CASE Audit!Emit(c)
  <2>1. /\ name' = [name EXCEPT ![c] = now] /\ UNCHANGED <<at, rows>>
        /\ \/ pc[c] = "starting" /\ pc' = [pc EXCEPT ![c] = "saving start"]
           \/ pc[c] = "ending" /\ pc' = [pc EXCEPT ![c] = "saving terminal"]
    BY <1>8 DEF Audit!Emit, Audit!Go
  <2>2. AuditTypes'
    BY <1>1, <2>1 DEF AuditTypes, Audit!Phases
  <2>3. RowsOK'
    BY <1>4, <2>1
  <2> QED
    BY <1>2, <2>2, <2>3
<1>9. CASE Audit!Saved(c)
  <2>1. /\ pc[c] \in {"saving start", "saving terminal"} /\ rows' = rows \cup {w}
        /\ pc' = [pc EXCEPT ![c] = IF pc[c] = "saving start" THEN "running" ELSE "answered"]
        /\ UNCHANGED <<at, name>>
    BY <1>9 DEF Audit!Saved, Audit!Go, w
  <2>2. AuditTypes'
    BY <1>1, <1>3, <2>1 DEF AuditTypes, Audit!Phases
  <2>3. RowsOK'
    BY <1>5, <2>1
  <2> QED
    BY <1>2, <2>2, <2>3
<1>10. CASE Audit!SaveFails(c)
  <2>1. /\ pc[c] \in {"saving start", "saving terminal"} /\ (rows' = rows \/ rows' = rows \cup {w})
        /\ pc' = [pc EXCEPT ![c] = IF pc[c] = "saving start" THEN "denied" ELSE "withheld"]
        /\ UNCHANGED <<at, name>>
    BY <1>10 DEF Audit!SaveFails, Audit!Closed, Audit!Go, w
  <2>2. AuditTypes'
    BY <1>1, <1>3, <2>1 DEF AuditTypes, Audit!Phases
  <2>3. RowsOK'
    BY <1>4, <1>5, <2>1
  <2> QED
    BY <1>2, <2>2, <2>3
<1> QED
  BY <1>6, <1>7, <1>8, <1>9, <1>10

(* The trail and the calls are left alone: what the timer does.            *)
LEMMA TimerMoves ==
    ASSUME Audit!AuditTrailAssumption, AuditInv,
           \/ Audit!TimerFires
           \/ \E t \in ticks : Audit!Post(t) \/ Audit!TickFails(t)
    PROVE  AuditInv'
<1> USE DEF AuditInv
<1>1. UNCHANGED <<kind, now, pc, at, name, rows>>
  BY DEF Audit!TimerFires, Audit!Post, Audit!TickFails, Audit!config, Audit!calls
<1>2. RowsOK'
  BY <1>1 DEF RowsOK, Announced, EndKept
<1>3. CASE Audit!TimerFires
  <2>1. now \in Int /\ Interval \in Nat \ {0} /\ due \in Int /\ Horizon \in Nat
    BY DEF AuditTypes, Audit!AuditTrailAssumption
  <2>2. due <= now /\ ticks' = ticks \cup {now} /\ due' = now + Interval /\ UNCHANGED digests
    BY <1>3 DEF Audit!TimerFires
  <2>3. AuditTypes'
    BY <1>1, <2>1, <2>2 DEF AuditTypes
  <2>4. \A t \in ticks : t \in Int /\ t + Interval <= now
    BY <2>1, <2>2 DEF AuditTypes, TicksOK
  <2>5. \A d \in digests : d.to \in Int /\ d.to + Interval <= now
    BY <2>1, <2>2 DEF TicksOK
  <2>6. TicksOK'
    BY <1>1, <2>1, <2>2, <2>4, <2>5 DEF TicksOK, Apart
  <2>7. DigestsOK'
    BY <2>2 DEF DigestsOK
  <2> QED
    BY <1>2, <2>3, <2>6, <2>7
<1>4. ASSUME NEW t \in ticks, Audit!Post(t)
      PROVE  AuditInv'
  <2> DEFINE n == [from |-> t - Interval, to |-> t, retained |-> rows,
                   counted |-> Audit!Summary(Audit!Fetched(rows, t - Interval, t), t - Interval, t)]
  <2>1. ticks' = ticks \ {t} /\ digests' = digests \cup {n} /\ UNCHANGED due
    BY <1>4 DEF Audit!Post
  <2>2. t \in 0..Horizon /\ t \in 0..now /\ rows \subseteq Audit!Rows
    BY DEF AuditTypes, Audit!AuditTrailAssumption
  <2>3. /\ n.retained \subseteq Audit!Rows /\ n.counted \subseteq n.retained
        /\ n.to = t /\ n.from = t - Interval
        /\ \A r \in n.counted : n.from <= r.at /\ r.at < n.to
        /\ \A r \in n.retained :
              r.stage = "terminal" /\ n.from <= r.at /\ r.at < n.to /\ n.from <= r.name /\ r.name < n.to
                => r \in n.counted
    BY <2>2, WindowsAreRead
  <2> HIDE DEF n
  <2>4. DigestsOK'
    BY <2>1, <2>3 DEF DigestsOK
  <2>5. TicksOK'
    BY <1>1, <2>1, <2>2, <2>3 DEF TicksOK, Apart
  <2>6. AuditTypes'
    BY <1>1, <2>1 DEF AuditTypes
  <2> QED
    BY <1>2, <2>4, <2>5, <2>6
<1>5. ASSUME NEW t \in ticks, Audit!TickFails(t)
      PROVE  AuditInv'
  BY <1>1, <1>2, <1>5 DEF Audit!TickFails, AuditTypes, TicksOK, DigestsOK, Apart
<1> QED
  BY <1>3, <1>4, <1>5

LEMMA AuditInvariance ==
    ASSUME Audit!AuditTrailAssumption
    PROVE  Audit!Spec => []AuditInv
<1>1. Audit!Init => AuditInv
  BY AuditStarts
<1>2. AuditInv /\ [Audit!Next]_Audit!vars => AuditInv'
  <2> SUFFICES ASSUME AuditInv, [Audit!Next]_Audit!vars PROVE AuditInv'
    OBVIOUS
  <2> USE DEF AuditInv
  <2>1. CASE Audit!Crash
    <3>1. /\ UNCHANGED <<kind, now, at, name, rows, digests>>
          /\ ticks' = {} /\ due' = now + Interval
          /\ pc' = [c \in Calls |-> IF pc[c] \in {"idle", "answered", "denied", "withheld"}
                                    THEN pc[c] ELSE "dead"]
      BY <2>1 DEF Audit!Crash, Audit!config
    <3>2. pc' \in [Calls -> Audit!Phases]
      BY <3>1 DEF AuditTypes, Audit!Phases
    <3>2a. AuditTypes'
      BY <3>1, <3>2 DEF AuditTypes, Audit!AuditTrailAssumption
    <3>3. RowsOK'
      BY <3>1 DEF AuditTypes, RowsOK, Announced, EndKept
    <3>4. TicksOK'
      BY <3>1 DEF AuditTypes, TicksOK, Apart, Audit!AuditTrailAssumption
    <3>5. DigestsOK'
      BY <3>1 DEF DigestsOK
    <3> QED
      BY <3>2a, <3>3, <3>4, <3>5
  <2>2. CASE Audit!Pass
    <3>1. now < Horizon /\ now' = now + 1 /\ UNCHANGED <<kind, pc, at, name, rows, due, ticks, digests>>
      BY <2>2 DEF Audit!Pass, Audit!config, Audit!calls, Audit!timer
    <3>2. AuditTypes'
      BY <3>1 DEF AuditTypes, Audit!AuditTrailAssumption
    <3>3. RowsOK' /\ DigestsOK'
      BY <3>1 DEF RowsOK, Announced, EndKept, DigestsOK
    <3>4. TicksOK'
      BY <3>1 DEF AuditTypes, TicksOK, Apart, Audit!AuditTrailAssumption
    <3> QED
      BY <3>2, <3>3, <3>4
  <2>3. CASE UNCHANGED Audit!vars
    <3>1. UNCHANGED <<kind, now, pc, at, name, rows, due, ticks, digests>>
      BY <2>3 DEF Audit!vars
    <3> QED
      BY <3>1 DEF AuditTypes, RowsOK, TicksOK, DigestsOK, Announced, EndKept, Apart
  <2> QED
    BY <2>1, <2>2, <2>3, CallMoves, TimerMoves DEF Audit!Next
<1> QED
  BY <1>1, <1>2, PTL DEF Audit!Spec

(* Whatever save fails and whichever process dies: a read that ended in    *)
(* the trail began in it, and a start without an end gave its caller no    *)
(* data (the fail-closed audit of the tool runtime).                       *)
THEOREM TrailsArePaired ==
    ASSUME Audit!AuditTrailAssumption
    PROVE  Audit!Spec => []Audit!ReadsArePaired /\ []Audit!UnmatchedStartsGaveNothing
<1>1. AuditInv => Audit!ReadsArePaired /\ Audit!UnmatchedStartsGaveNothing
  <2> SUFFICES ASSUME AuditInv PROVE Audit!ReadsArePaired /\ Audit!UnmatchedStartsGaveNothing
    OBVIOUS
  <2>1. \A c \in Audit!StartsOf(rows) : c \in Calls
    BY DEF AuditInv, AuditTypes, Audit!StartsOf, Audit!Rows
  <2>2. \A c \in Audit!TerminalsOf(rows) : c \in Calls /\ EndKept(c)
    BY DEF AuditInv, AuditTypes, Audit!TerminalsOf, Audit!Rows, EndKept
  <2>3. \A c : Announced(c) => c \in Audit!StartsOf(rows)
    BY DEF Announced, Audit!StartsOf
  <2>4. \A c : EndKept(c) => c \in Audit!TerminalsOf(rows)
    BY DEF EndKept, Audit!TerminalsOf
  <2>5. Audit!ReadsArePaired
    BY <2>2, <2>3 DEF AuditInv, RowsOK, Audit!ReadsArePaired, Audit!orphanTerminals
  <2>6. Audit!UnmatchedStartsGaveNothing
    BY <2>1, <2>4 DEF AuditInv, RowsOK, Audit!UnmatchedStartsGaveNothing, Audit!unmatchedV2Starts
  <2> QED
    BY <2>5, <2>6
<1> QED
  BY <1>1, AuditInvariance, PTL

(* Late timers, ticks that overlap and restarts included, two digests      *)
(* count no row twice.                                                     *)
THEOREM DigestsAreDisjoint ==
    ASSUME Audit!AuditTrailAssumption
    PROVE  Audit!Spec => []Audit!NeverCountedTwice
<1>1. AuditInv => Audit!NeverCountedTwice
  <2> SUFFICES ASSUME AuditInv, NEW d \in digests, NEW e \in digests, d # e,
                      NEW r \in d.counted \cap e.counted
               PROVE  FALSE
    BY DEF Audit!NeverCountedTwice
  <2>1. /\ d.from <= r.at /\ r.at < d.to /\ e.from <= r.at /\ r.at < e.to
        /\ d.from = d.to - Interval /\ e.from = e.to - Interval
        /\ r \in Audit!Rows
    BY DEF AuditInv, DigestsOK
  <2>2. d.to \in Int /\ e.to \in Int /\ (d.to + Interval <= e.to \/ e.to + Interval <= d.to)
    BY DEF AuditInv, TicksOK, Apart
  <2>3. r.at \in Int /\ Interval \in Int
    BY <2>1 DEF Audit!Rows, Audit!Times, Audit!AuditTrailAssumption
  <2> QED
    BY <2>1, <2>2, <2>3
<1> QED
  BY <1>1, AuditInvariance, PTL

(* And none of those that both its clocks place in the window is missed,   *)
(* in either store, across months (utcMonthDirsInRange).                   *)
THEOREM DigestsAreComplete ==
    ASSUME Audit!AuditTrailAssumption
    PROVE  Audit!Spec => []Audit!NothingInsideIsMissed
<1>1. AuditInv => Audit!NothingInsideIsMissed
  BY DEF AuditInv, DigestsOK, Audit!NothingInsideIsMissed
<1> QED
  BY <1>1, AuditInvariance, PTL

-----------------------------------------------------------------------------
(***************************************************************************)
(* Paged reads.  The pages read lead from the start to the cursor, each to *)
(* the next; and of a read that started at the first page, the cursors     *)
(* seen are those of its other pages, so that no page comes back.          *)
(***************************************************************************)
Paging == INSTANCE ReadAll

PagingTypes ==
    /\ next \in [Paging!Pages -> Cursors \cup {None}] /\ start \in Paging!Pages
    /\ pc \in {"check", "fetch", "wait", "done"}
    /\ cursor \in Paging!Pages \cup {None} /\ seen \subseteq Cursors
    /\ read \in Seq(Paging!Pages) /\ Len(read) <= MaxPages
    /\ status \in {"complete"} \cup Paging!Incomplete \cup Paging!Denials
    /\ pc # "done" => Len(read) < MaxPages

(* What was read, and where the cursor is.                                 *)
TrailOK ==
    /\ pc # "done" => cursor # None /\ status \in {"complete", "incomplete_scope_resolution"}
    /\ IF read = <<>> THEN cursor = start ELSE start \in Paging!PagesRead
    /\ Paging!PagesRead \subseteq Paging!Following(start)
    /\ cursor \in Paging!Following(start) \cup {None}
    /\ \A q \in Paging!PagesRead : next[q] \in Paging!PagesRead \cup {cursor, None}
    /\ unresolved => status # "complete"
    /\ status \in {"TOOL_TIMEOUT", "RATE_LIMITED", "PERMISSION_JOIN_FAILED"} => read = <<>>

(* The guard against cycles.                                               *)
NoPageTwice ==
    start = First =>
        /\ \A i, k \in 1..Len(read) : read[i] = read[k] => i = k
        /\ Paging!PagesRead \ {First} \subseteq seen
        /\ pc # "done" => cursor \in seen \cup {First} /\ cursor \notin Paging!PagesRead

PagingInv == PagingTypes /\ TrailOK /\ NoPageTwice

(* The pages from p hold p, and with each page the next.                   *)
LEMMA FollowingCloses ==
    ASSUME PagingTypes, NEW p \in Paging!Pages \cup {None}
    PROVE  /\ Paging!Following(p) \subseteq Paging!Pages
           /\ p \in Paging!Following(p) \cup {None}
           /\ \A q \in Paging!Following(p) : next[q] \in Paging!Following(p) \cup {None}
<1>1. ASSUME NEW q \in Paging!Following(p), next[q] # None
      PROVE  next[q] \in Paging!Following(p)
  <2>1. q \in Paging!Pages /\ next[q] \in Paging!Pages
    BY <1>1 DEF PagingTypes, Paging!Pages, Paging!Following
  <2>2. ASSUME NEW S \in SUBSET Paging!Pages, p \in S \cup {None}, Paging!Closed(S)
        PROVE  next[q] \in S
    BY <1>1, <2>2 DEF Paging!Following, Paging!Closed
  <2> QED
    BY <2>1, <2>2 DEF Paging!Following
<1> QED
  BY <1>1 DEF Paging!Following

(* A page is appended, and the cursor it answered with is taken.           *)
LEMMA PageIsTaken ==
    ASSUME PagingInv, pc # "done", read' = Append(read, cursor)
    PROVE  /\ cursor \in Paging!Pages /\ next[cursor] \in Cursors \cup {None}
           /\ read' \in Seq(Paging!Pages) /\ Len(read') = Len(read) + 1 /\ read' # <<>>
           /\ Paging!PagesRead' = Paging!PagesRead \cup {cursor}
           /\ \A i \in 1..Len(read) : read'[i] = read[i]
           /\ read'[Len(read) + 1] = cursor
<1>1. read \in Seq(Paging!Pages) /\ cursor \in Paging!Pages /\ next \in [Paging!Pages -> Cursors \cup {None}]
  BY DEF PagingInv, PagingTypes, TrailOK
<1>2. /\ read' \in Seq(Paging!Pages) /\ Len(read') = Len(read) + 1 /\ Len(read) \in Nat
      /\ \A i \in 1..Len(read) : read'[i] = read[i]
      /\ read'[Len(read) + 1] = cursor
  BY <1>1
<1>3. Paging!PagesRead' = Paging!PagesRead \cup {cursor}
  BY <1>2 DEF Paging!PagesRead
<1> QED
  BY <1>1, <1>2, <1>3

LEMMA PagesFit ==
    ASSUME Paging!ReadAllAssumption, PagingInv, Paging!Page
    PROVE  PagingInv'
<1>1. /\ pc = "fetch" /\ read' = Append(read, cursor) /\ cursor' = next[cursor]
      /\ UNCHANGED <<next, start, expired>> /\ PagingTypes /\ TrailOK /\ NoPageTwice
  BY DEF Paging!Page, Paging!upstream, PagingInv
<1>2. /\ cursor \in Paging!Pages /\ next[cursor] \in Cursors \cup {None}
      /\ read' \in Seq(Paging!Pages) /\ Len(read') = Len(read) + 1 /\ read' # <<>>
      /\ Paging!PagesRead' = Paging!PagesRead \cup {cursor}
      /\ \A i \in 1..Len(read) : read'[i] = read[i]
      /\ read'[Len(read) + 1] = cursor
  BY <1>1, PageIsTaken DEF PagingInv
<1>3. Len(read) \in Nat /\ Len(read) < MaxPages /\ MaxPages \in Nat
  BY <1>1 DEF PagingTypes, Paging!ReadAllAssumption
<1>4. PICK bad \in BOOLEAN :
        /\ unresolved' = (unresolved \/ bad)
        /\ \/ /\ cursor' = None
              /\ Paging!Finish(Paging!Grade(bad)) /\ UNCHANGED seen
           \/ /\ cursor' # None /\ Paging!Stop # "no"
              /\ Paging!Finish(Paging!Stop) /\ UNCHANGED seen
           \/ /\ cursor' # None /\ Paging!Stop = "no"
              /\ seen' = seen \cup {cursor'}
              /\ \/ pc' \in {"check", "wait"} /\ status' = Paging!Grade(bad)
                 \/ Paging!Finish("incomplete_rate_limited")
  BY DEF Paging!Page
<1>5. /\ status \in {"complete", "incomplete_scope_resolution"}
      /\ unresolved => status # "complete"
  BY <1>1 DEF PagingTypes, TrailOK
<1>6. /\ pc' \in {"check", "wait", "done"}
      /\ status' \in {"complete", "incomplete_scope_resolution", "incomplete_page_cap", "incomplete_rate_limited"}
      /\ unresolved' => status' # "complete"
      /\ pc' # "done" => /\ status' \in {"complete", "incomplete_scope_resolution"}
                         /\ cursor' # None /\ cursor' \notin seen /\ seen' = seen \cup {cursor'}
                         /\ Len(read) + 1 < MaxPages
      /\ seen' = seen \/ (cursor' # None /\ seen' = seen \cup {cursor'})
  <2> DEFINE s == Paging!Grade(bad)
  <2>1. /\ s \in {"complete", "incomplete_scope_resolution"}
        /\ unresolved' => s # "complete"
    BY <1>4, <1>5 DEF Paging!Grade
  <2>2. /\ Paging!Stop \in {"no", "incomplete_page_cap"}
        /\ Paging!Stop = "no" => cursor' \notin seen /\ Len(read) + 1 < MaxPages
    BY <1>3 DEF Paging!Stop
  <2>3. \/ pc' = "done" /\ status' = s /\ seen' = seen
        \/ pc' = "done" /\ status' = "incomplete_page_cap" /\ seen' = seen
        \/ /\ cursor' # None /\ Paging!Stop = "no" /\ seen' = seen \cup {cursor'}
           /\ \/ pc' \in {"check", "wait"} /\ status' = s
              \/ pc' = "done" /\ status' = "incomplete_rate_limited"
    BY <1>4, <2>2 DEF Paging!Finish
  <2> HIDE DEF s
  <2> QED
    BY <2>1, <2>2, <2>3
<1>7. PagingTypes'
  <2>1. cursor' \in Paging!Pages \cup {None} /\ (cursor' # None => cursor' \in Cursors)
    BY <1>1, <1>2 DEF Paging!Pages
  <2>2. seen' \subseteq Cursors
    BY <1>1, <1>6, <2>1 DEF PagingTypes
  <2>3. Len(read') <= MaxPages /\ (pc' # "done" => Len(read') < MaxPages)
    BY <1>2, <1>3, <1>6
  <2>4. status' \in {"complete"} \cup Paging!Incomplete
    BY <1>6 DEF Paging!Incomplete
  <2> QED
    BY <1>1, <1>2, <1>6, <2>1, <2>2, <2>3, <2>4 DEF PagingTypes
<1>8. TrailOK'
  <2>1. Paging!Following(start)' = Paging!Following(start)
    BY <1>1 DEF Paging!Following, Paging!Closed
  <2>2. cursor \in Paging!Following(start) /\ next[cursor] \in Paging!Following(start) \cup {None}
    BY <1>1, <1>2, FollowingCloses DEF TrailOK, PagingTypes
  <2>3. start \in Paging!PagesRead'
    BY <1>1, <1>2 DEF TrailOK
  <2>4. \A q \in Paging!PagesRead' : next[q] \in Paging!PagesRead' \cup {cursor', None}
    BY <1>1, <1>2 DEF TrailOK
  <2> QED
    BY <1>1, <1>2, <1>6, <2>1, <2>2, <2>3, <2>4 DEF TrailOK
<1>9. NoPageTwice'
  <2> SUFFICES ASSUME start = First
               PROVE  /\ \A i, k \in 1..Len(read') : read'[i] = read'[k] => i = k
                      /\ Paging!PagesRead' \ {First} \subseteq seen'
                      /\ pc' # "done" => cursor' \in seen' \cup {First} /\ cursor' \notin Paging!PagesRead'
    BY <1>1 DEF NoPageTwice
  <2>1. /\ \A i, k \in 1..Len(read) : read[i] = read[k] => i = k
        /\ Paging!PagesRead \ {First} \subseteq seen
        /\ cursor \in seen \cup {First} /\ cursor \notin Paging!PagesRead
    BY <1>1 DEF NoPageTwice
  <2>2. \A i \in 1..Len(read) : read[i] # cursor
    BY <2>1 DEF Paging!PagesRead
  <2>3. \A i, k \in 1..Len(read') : read'[i] = read'[k] => i = k
    BY <1>2, <1>3, <2>1, <2>2
  <2>4. cursor' # None => cursor' # First
    BY <1>1, <1>2 DEF Paging!ReadAllAssumption
  <2> QED
    BY <1>2, <1>6, <2>1, <2>3, <2>4
<1> QED
  BY <1>7, <1>8, <1>9 DEF PagingInv

LEMMA PagingInvariance ==
    ASSUME Paging!ReadAllAssumption
    PROVE  Paging!Spec => []PagingInv
<1>1. Paging!Init => PagingInv
  <2> SUFFICES ASSUME Paging!Init PROVE PagingInv
    OBVIOUS
  <2>1. PagingTypes
    <3>1. read \in Seq(Paging!Pages) /\ Len(read) = 0
      BY DEF Paging!Init
    <3>2. MaxPages \in Nat /\ 0 < MaxPages
      BY DEF Paging!ReadAllAssumption
    <3> QED
      BY <3>1, <3>2 DEF Paging!Init, PagingTypes
  <2>2. Paging!PagesRead = {}
    BY DEF Paging!Init, Paging!PagesRead
  <2>3. start \in Paging!Following(start)
    BY <2>1, FollowingCloses DEF PagingTypes, Paging!ReadAllAssumption
  <2>4. TrailOK
    BY <2>1, <2>2, <2>3 DEF Paging!Init, PagingTypes, TrailOK, Paging!ReadAllAssumption
  <2>5. NoPageTwice
    BY <2>2 DEF Paging!Init, NoPageTwice
  <2> QED
    BY <2>1, <2>4, <2>5 DEF PagingInv
<1>2. PagingInv /\ [Paging!Next]_Paging!vars => PagingInv'
  <2> SUFFICES ASSUME PagingInv, [Paging!Next]_Paging!vars PROVE PagingInv'
    OBVIOUS
  <2>1. CASE Paging!Page
    BY <2>1, PagesFit
  <2>2. CASE Paging!Check \/ Paging!NoPage \/ Paging!Wait \/ Paging!Expire \/ UNCHANGED Paging!vars
    <3>1. /\ UNCHANGED <<next, start, cursor, seen, read, unresolved>>
          /\ \/ pc' = pc /\ status' = status
             \/ pc # "done" /\ pc' \in {"check", "fetch"} /\ status' = status
             \/ /\ pc # "done" /\ pc' = "done" /\ status' \in Paging!Incomplete \cup Paging!Denials
                /\ status' \in {"TOOL_TIMEOUT", "RATE_LIMITED", "PERMISSION_JOIN_FAILED"} => read = <<>>
      BY <2>2 DEF Paging!Check, Paging!NoPage, Paging!Wait, Paging!Expire, Paging!vars, Paging!upstream,
         Paging!Break, Paging!Finish, Paging!Incomplete, Paging!Denials, PagingInv, PagingTypes
    <3>2. Paging!PagesRead' = Paging!PagesRead /\ Paging!Following(start)' = Paging!Following(start)
      BY <3>1 DEF Paging!PagesRead, Paging!Following, Paging!Closed
    <3>3. PagingTypes'
      BY <3>1 DEF PagingInv, PagingTypes
    <3>4. TrailOK' /\ NoPageTwice'
      BY <3>1, <3>2 DEF PagingInv, PagingTypes, TrailOK, NoPageTwice, Paging!Incomplete, Paging!Denials
    <3> QED
      BY <3>3, <3>4 DEF PagingInv
  <2> QED
    BY <2>1, <2>2 DEF Paging!Next
<1> QED
  BY <1>1, <1>2, PTL DEF Paging!Spec

(* A paged read that says it is complete read every page from its start,   *)
(* all of them resolved; and to one that is not, the cursor it hands out   *)
(* leads through the rest.                                                 *)
THEOREM PagedReadsAreWhole ==
    ASSUME Paging!ReadAllAssumption
    PROVE  Paging!Spec => []Paging!CompleteIsComplete /\ []Paging!ResumeMissesNothing
<1>1. PagingInv => Paging!CompleteIsComplete
  <2> SUFFICES ASSUME PagingInv, status = "complete", cursor = None
               PROVE  Paging!PagesRead = Paging!Following(start) /\ ~unresolved
    BY DEF Paging!CompleteIsComplete, Paging!Rows, Paging!complete
  <2>1. /\ start \in Paging!PagesRead /\ Paging!PagesRead \in SUBSET Paging!Pages
        /\ \A q \in Paging!PagesRead : next[q] \in Paging!PagesRead \cup {None}
    BY DEF PagingInv, PagingTypes, TrailOK, Paging!PagesRead, Paging!ReadAllAssumption
  <2>2. Paging!Following(start) \subseteq Paging!PagesRead
    BY <2>1 DEF Paging!Following, Paging!Closed
  <2> QED
    BY <2>2 DEF PagingInv, TrailOK
<1>2. PagingInv => Paging!ResumeMissesNothing
  <2> SUFFICES ASSUME PagingInv
               PROVE  Paging!Following(start) \subseteq Paging!PagesRead \cup Paging!Following(cursor)
    BY DEF Paging!ResumeMissesNothing
  <2> DEFINE S == Paging!PagesRead \cup Paging!Following(cursor)
  <2>1. /\ Paging!Following(cursor) \subseteq Paging!Pages /\ cursor \in Paging!Following(cursor) \cup {None}
        /\ \A q \in Paging!Following(cursor) : next[q] \in Paging!Following(cursor) \cup {None}
    BY FollowingCloses DEF PagingInv, PagingTypes
  <2>2. S \in SUBSET Paging!Pages
    BY <2>1 DEF PagingInv, PagingTypes, Paging!PagesRead
  <2>3. start \in S
    BY <2>1 DEF PagingInv, PagingTypes, TrailOK, Paging!ReadAllAssumption
  <2>4. \A q \in S : next[q] \in S \cup {None}
    BY <2>1 DEF PagingInv, TrailOK
  <2> HIDE DEF S
  <2>5. Paging!Following(start) \subseteq S
    BY <2>2, <2>3, <2>4 DEF Paging!Following, Paging!Closed
  <2> QED
    BY <2>5 DEF S
<1> QED
  BY <1>1, <1>2, PagingInvariance, PTL

(* Pages named by different cursors are as many as were read.              *)
LEMMA PagesAreCounted ==
    ASSUME NEW T, read \in Seq(T), \A i, k \in 1..Len(read) : read[i] = read[k] => i = k
    PROVE  Paging!Cardinality(Paging!PagesRead) = Len(read)
<1>1. Paging!Cardinality(Paging!PagesRead) = Cardinality(Paging!PagesRead)
  BY DEF Cardinality, Paging!Cardinality
<1>2. read \in Bijection(1..Len(read), Paging!PagesRead)
  BY DEF Paging!PagesRead, Bijection, Injection, Surjection, IsInjective
<1> QED
  BY <1>1, <1>2, FS_CountingElements DEF ExistsBijection

(* A read from the first page holds no page twice, whatever cycles the     *)
(* cursors make; and what a deadline, a limit or a failed parent read cuts *)
(* short keeps the pages it has.                                           *)
THEOREM PagedReadsEndOnce ==
    ASSUME Paging!ReadAllAssumption
    PROVE  Paging!Spec => []Paging!EachPageOnce /\ []Paging!DeadlineKeepsPages
<1>1. PagingInv => Paging!EachPageOnce
  <2> SUFFICES ASSUME PagingInv, start = First
               PROVE  Paging!Cardinality(Paging!PagesRead) = Len(read)
    BY DEF Paging!EachPageOnce
  <2> QED
    BY PagesAreCounted DEF PagingInv, PagingTypes, NoPageTwice
<1>2. PagingInv => Paging!DeadlineKeepsPages
  BY DEF PagingInv, TrailOK, Paging!DeadlineKeepsPages
<1> QED
  BY <1>1, <1>2, PagingInvariance, PTL

-----------------------------------------------------------------------------
(***************************************************************************)
(* The base read server.  A call that was let through is of a registered   *)
(* tool and, where its gate stands, names a user on the list; it has no    *)
(* line and no reply until it ends, and then at most one line, of how it   *)
(* ended.                                                                  *)
(***************************************************************************)
Control == INSTANCE ControlPlane WITH r <- asked, Requests <- ToolCalls

Approved == Control!createToolGateConfig.tier3ActorIds

(* What is known of the call in flight, by where it is.                    *)
CallStands ==
    /\ asked.tool \in Control!Registered
    /\ \/ /\ pc = "denied" \/ (pc = "done" /\ reply.kind # "answer")
          /\ parts = {}
       \/ /\ pc # "denied" /\ (pc = "done" => reply.kind # "TIER3_GATE_DENIED")
          /\ Control!shouldGate(asked) /\ Approved # {} => asked.actor \in Approved
          /\ actor = IF asked.tool \in Control!Wrapped THEN asked.actor ELSE None
    /\ pc \in {"called", "denied"} => parts = {}
    /\ pc = "gather" => asked.tool = Control!Letter /\ Control!Accepts(asked)
    /\ pc # "done" => lines = <<>> /\ reply = None /\ ~failed

(* How a call ended: with an answer, with a refusal, or with neither since *)
(* its line could not be written.                                          *)
AnswerStands ==
    /\ reply.kind = "answer" /\ ~failed
    /\ IF asked.tool \in Control!Audited
       THEN lines = <<[outcome |-> "success", actor |-> actor]>> ELSE lines = <<>>
    /\ Control!Accepts(asked)
    /\ IF asked.tool = Control!Letter THEN parts = Control!Wanted(asked)
       ELSE reply.data = Control!Projection(asked)

LineStands ==
    \/ lines = <<>>
    \/ \E o \in {"success", "error", "denied"}, w \in {actor, None} :
          /\ lines = <<[outcome |-> o, actor |-> w]>>
          /\ o = "error" <=> failed
          /\ o = "denied" => reply.kind = "TIER3_GATE_DENIED"

ControlInv ==
    /\ pc \in {"idle", "denied", "called", "gather", "done"}
    /\ pc = "idle" => asked = None /\ lines = <<>> /\ reply = None /\ parts = {} /\ ~failed
    /\ pc # "idle" => CallStands
    /\ pc = "done" => /\ LineStands
                      /\ reply.kind = "answer" => AnswerStands

(* The configuration is that of the start.                                 *)
LEMMA ConfigurationStays ==
    ASSUME env' = env
    PROVE  Approved' = Approved /\ Control!Registered' = Control!Registered
  BY DEF Approved, Control!Registered, Control!createToolGateConfig, Control!parseTier3ActorIds

(* A call passes the gate with its user's name, or is refused there.       *)
LEMMA GateFits ==
    ASSUME ControlInv, NEW q \in ToolCalls, Control!Call(q)
    PROVE  ControlInv'
<1>1. /\ pc = "idle" /\ q.tool \in Control!Registered /\ asked' = q /\ env' = env
      /\ actor' = IF q.tool \in Control!Wrapped
                     /\ (Control!GateRequired(q) => Control!assertTier3ActorAllowed(q))
                  THEN q.actor ELSE None
      /\ pc' = IF Control!GateRequired(q) /\ ~Control!assertTier3ActorAllowed(q) THEN "denied" ELSE "called"
      /\ UNCHANGED <<failed, parts, lines, reply>>
  BY DEF Control!Call
<1>2. /\ Control!GateRequired(q) <=> Control!shouldGate(q) /\ Approved # {}
      /\ Control!assertTier3ActorAllowed(q) <=> q.actor \in Approved
  BY DEF Control!GateRequired, Control!assertTier3ActorAllowed, Approved
<1>3. lines = <<>> /\ reply = None /\ parts = {} /\ ~failed
  BY <1>1 DEF ControlInv
<1>4. Approved' = Approved /\ Control!Registered' = Control!Registered
  BY <1>1, ConfigurationStays
<1>5. Control!shouldGate(asked') <=> Control!shouldGate(q)
  BY <1>1
<1>6. CallStands'
  BY <1>1, <1>2, <1>3, <1>4, <1>5 DEF CallStands
<1> QED
  BY <1>1, <1>6 DEF ControlInv

(* A call ends: with the line of its outcome and the reply, or without a   *)
(* line and with the failure of the audit.                                 *)
LEMMA CallEndsFit ==
    ASSUME ControlInv, pc \in {"called", "gather"}, Control!Ends,
           NEW how, how # "TIER3_GATE_DENIED", NEW data, NEW primary, how = "answer" <=> ~failed',
           \/ asked.tool \in Control!Audited /\
                Control!Emit(IF failed' THEN "error" ELSE "success", actor, Control!Answer(how, data, primary))
           \/ asked.tool \notin Control!Audited /\ lines' = lines /\ reply' = Control!Answer(how, data, primary),
           how = "answer" => /\ Control!Accepts(asked)
                             /\ IF asked.tool = Control!Letter THEN parts = Control!Wanted(asked)
                                ELSE data = Control!Projection(asked)
    PROVE  ControlInv'
<1>1. pc' = "done" /\ UNCHANGED <<env, asked, actor, live, parts, offers>>
  BY DEF Control!Ends
<1>2. CallStands /\ lines = <<>> /\ ~failed
      /\ (Control!shouldGate(asked) /\ Approved # {} => asked.actor \in Approved)
      /\ actor = (IF asked.tool \in Control!Wrapped THEN asked.actor ELSE None)
  BY DEF ControlInv, CallStands
<1> DEFINE o == IF failed' THEN "error" ELSE "success"
           rep == Control!Answer(how, data, primary)
<1>3. rep.kind = how /\ rep.data = data
  BY DEF Control!Answer
<1>4. /\ \/ lines' = lines
         \/ lines' = <<[outcome |-> o, actor |-> actor]>>
      /\ \/ /\ reply' = rep
            /\ IF asked.tool \in Control!Audited THEN lines' = <<[outcome |-> o, actor |-> actor]>> ELSE lines' = <<>>
         \/ reply' = Control!AuditFailure
  <2>1. Append(lines, [outcome |-> o, actor |-> actor]) = <<[outcome |-> o, actor |-> actor]>>
    BY <1>2
  <2> QED
    BY <1>2, <2>1 DEF Control!Emit
<1>5. Control!AuditFailure.kind = "READ_AUDIT_FAILURE"
  BY DEF Control!AuditFailure, Control!Answer
<1> HIDE DEF rep
<1>6. reply'.kind # "TIER3_GATE_DENIED" /\ (reply'.kind = "answer" => reply' = rep /\ how = "answer" /\ ~failed')
  BY <1>3, <1>4, <1>5
<1>7. Approved' = Approved /\ Control!Registered' = Control!Registered
      /\ Control!shouldGate(asked') = Control!shouldGate(asked)
      /\ Control!Projection(asked') = Control!Projection(asked)
      /\ Control!Accepts(asked') = Control!Accepts(asked) /\ Control!Wanted(asked') = Control!Wanted(asked)
  BY <1>1, ConfigurationStays
<1>8. CallStands'
  BY <1>1, <1>2, <1>6, <1>7 DEF CallStands
<1>9. LineStands'
  BY <1>1, <1>2, <1>4, <1>6 DEF LineStands
<1>10. reply'.kind = "answer" => AnswerStands'
  BY <1>1, <1>3, <1>4, <1>5, <1>6, <1>7 DEF AnswerStands
<1> QED
  BY <1>1, <1>8, <1>9, <1>10 DEF ControlInv

(* What ends a call that was let through: rejected arguments, a read that  *)
(* fails or succeeds, a context whose parts have all been read.            *)
LEMMA LetThroughFits ==
    ASSUME ControlInv,
           \/ Control!Rejected \/ Control!Read \/ Control!buildOfferLetterContext
           \/ (pc = "called" \/ pc = "gather") /\ Control!Fails("HARVEST")
    PROVE  ControlInv'
<1>1. ASSUME NEW how \in {"INVALID", "HARVEST"}, pc \in {"called", "gather"}, Control!Fails(how)
      PROVE  ControlInv'
  <2>1. /\ Control!Ends /\ failed' = TRUE
        /\ \/ asked.tool \in Control!Audited /\ Control!Emit("error", actor, Control!Answer(how, "none", None))
           \/ asked.tool \notin Control!Audited /\ lines' = lines /\ reply' = Control!Answer(how, "none", None)
    BY <1>1 DEF Control!Fails, Control!Refusal
  <2> QED
    BY <1>1, <2>1, CallEndsFit
<1>2. ASSUME pc \in {"called", "gather"}, NEW data, NEW primary,
             Control!emitTier3SuccessReadAudit(Control!Answer("answer", data, primary)),
             Control!Accepts(asked),
             IF asked.tool = Control!Letter THEN parts = Control!Wanted(asked)
             ELSE data = Control!Projection(asked)
      PROVE  ControlInv'
  <2>1. /\ Control!Ends /\ failed' = failed
        /\ \/ asked.tool \in Control!Audited /\ Control!Emit("success", actor, Control!Answer("answer", data, primary))
           \/ asked.tool \notin Control!Audited /\ lines' = lines /\ reply' = Control!Answer("answer", data, primary)
    BY <1>2 DEF Control!emitTier3SuccessReadAudit
  <2>2. ~failed'
    BY <1>2, <2>1 DEF ControlInv, CallStands
  <2> QED
    BY <1>2, <2>1, <2>2, CallEndsFit
<1>3. CASE Control!Rejected
  BY <1>1, <1>3 DEF Control!Rejected
<1>4. CASE Control!Read
  BY <1>1, <1>2, <1>4 DEF Control!Read
<1>5. CASE Control!buildOfferLetterContext
  <2>1. asked.tool = Control!Letter /\ Control!Accepts(asked)
    BY <1>5 DEF Control!buildOfferLetterContext, ControlInv, CallStands
  <2> QED
    BY <1>2, <1>5, <2>1 DEF Control!buildOfferLetterContext
<1> QED
  BY <1>1, <1>3, <1>4, <1>5

LEMMA ControlInvariance == Control!Spec => []ControlInv
<1>1. Control!Init => ControlInv
  BY DEF Control!Init, ControlInv
<1>2. ControlInv /\ [Control!Next]_Control!vars => ControlInv'
  <2> SUFFICES ASSUME ControlInv, [Control!Next]_Control!vars PROVE ControlInv'
    OBVIOUS
  <2>1. ASSUME NEW q \in ToolCalls, Control!Call(q) PROVE ControlInv'
    BY <2>1, GateFits
  <2>2. CASE Control!Denied
    <3>1. /\ pc = "denied" /\ pc' = "done" /\ UNCHANGED <<env, asked, actor, parts, failed>>
          /\ CallStands /\ lines = <<>> /\ parts = {} /\ ~failed
      BY <2>2 DEF Control!Denied, Control!Ends, ControlInv, CallStands
    <3>2. Append(lines, [outcome |-> "denied", actor |-> None]) = <<[outcome |-> "denied", actor |-> None]>>
      BY <3>1
    <3>3. \/ reply'.kind = "TIER3_GATE_DENIED" /\ lines' = <<[outcome |-> "denied", actor |-> None]>>
          \/ reply'.kind = "READ_AUDIT_FAILURE" /\ lines' = <<>>
      BY <2>2, <3>1, <3>2 DEF Control!Denied, Control!Emit, Control!Refusal, Control!AuditFailure, Control!Answer
    <3>4. Approved' = Approved /\ Control!Registered' = Control!Registered
      BY <3>1, ConfigurationStays
    <3>5. CallStands'
      <4>1. asked.tool \in Control!Registered /\ parts = {}
        BY <3>1 DEF CallStands
      <4> QED
        BY <3>1, <3>3, <3>4, <4>1 DEF CallStands
    <3>6. LineStands'
      BY <3>1, <3>3 DEF LineStands
    <3> QED
      BY <3>1, <3>3, <3>5, <3>6 DEF ControlInv
  <2>3. CASE Control!Rejected \/ Control!Read \/ Control!buildOfferLetterContext
    BY <2>3, LetThroughFits
  <2>4. CASE Control!Lookup
    <3>1. CASE /\ pc = "called" /\ asked.tool = Control!Letter /\ Control!Accepts(asked) /\ pc' = "gather"
               /\ UNCHANGED <<env, asked, actor, failed, parts, lines, reply>>
      <4>1. Approved' = Approved /\ Control!Registered' = Control!Registered
            /\ Control!shouldGate(asked') = Control!shouldGate(asked)
            /\ Control!Accepts(asked') = Control!Accepts(asked)
        BY <3>1, ConfigurationStays
      <4>2. CallStands /\ CallStands'
        BY <3>1, <4>1 DEF ControlInv, CallStands
      <4> QED
        BY <3>1, <4>2 DEF ControlInv
    <3> QED
      BY <2>4, <3>1, LetThroughFits DEF Control!Lookup
  <2>5. CASE Control!Gather
    <3>1. CASE /\ pc = "gather" /\ UNCHANGED <<env, pc, asked, actor, failed, lines, reply>>
      <4>1. Approved' = Approved /\ Control!Registered' = Control!Registered
            /\ Control!shouldGate(asked') = Control!shouldGate(asked)
            /\ Control!Accepts(asked') = Control!Accepts(asked)
        BY <3>1, ConfigurationStays
      <4>2. CallStands /\ CallStands'
        BY <3>1, <4>1 DEF ControlInv, CallStands
      <4> QED
        BY <3>1, <4>2 DEF ControlInv
    <3> QED
      BY <2>5, <3>1, LetThroughFits DEF Control!Gather
  <2>6. CASE Control!Taken
    BY <2>6 DEF Control!Taken, ControlInv
  <2>7. CASE Control!OfferChanges \/ UNCHANGED Control!vars
    <3>1. UNCHANGED <<env, pc, asked, actor, failed, parts, lines, reply>>
      BY <2>7 DEF Control!OfferChanges, Control!vars
    <3>2. Approved' = Approved /\ Control!Registered' = Control!Registered
          /\ Control!shouldGate(asked') = Control!shouldGate(asked)
          /\ Control!Projection(asked') = Control!Projection(asked)
          /\ Control!Accepts(asked') = Control!Accepts(asked) /\ Control!Wanted(asked') = Control!Wanted(asked)
      BY <3>1, ConfigurationStays
    <3>3. /\ CallStands => CallStands'
          /\ LineStands => LineStands'
          /\ AnswerStands => AnswerStands'
      <4>1. CallStands => CallStands'
        BY <3>1, <3>2 DEF CallStands
      <4>2. LineStands => LineStands'
        BY <3>1 DEF LineStands
      <4>3. AnswerStands => AnswerStands'
        BY <3>1, <3>2 DEF AnswerStands
      <4> QED
        BY <4>1, <4>2, <4>3
    <3> QED
      BY <3>1, <3>3 DEF ControlInv
  <2> QED
    BY <2>1, <2>2, <2>3, <2>4, <2>5, <2>6, <2>7 DEF Control!Next
<1> QED
  BY <1>1, <1>2, PTL DEF Control!Spec

(* What an audited tool answers has its line, and a line says what         *)
(* happened: whoever audits the server reads "error" for the calls that    *)
(* failed, "denied" for those that read nothing, "success" for the rest.   *)
THEOREM AnswersAreAudited ==
    Control!Spec => []Control!NothingLeavesUnaudited /\ []Control!LinesAreHonest
<1>1. ControlInv => Control!NothingLeavesUnaudited /\ Control!LinesAreHonest
  <2> SUFFICES ASSUME ControlInv
               PROVE  Control!NothingLeavesUnaudited /\ Control!LinesAreHonest
    OBVIOUS
  <2>1. Control!NothingLeavesUnaudited
    BY DEF ControlInv, CallStands, AnswerStands, Control!NothingLeavesUnaudited, Control!Answered
  <2>2. CASE lines = <<>>
    BY <2>1, <2>2 DEF Control!LinesAreHonest
  <2>3. CASE pc = "done"
    <3>1. CASE lines # <<>>
      <4>1. PICK o \in {"success", "error", "denied"}, w \in {actor, None} :
                    /\ lines = <<[outcome |-> o, actor |-> w]>>
                    /\ o = "error" <=> failed
                    /\ o = "denied" => reply.kind = "TIER3_GATE_DENIED"
        BY <2>3, <3>1 DEF ControlInv, LineStands
      <4>2. Len(lines) = 1 /\ lines[1].outcome = o /\ DOMAIN lines = {1}
        BY <4>1
      <4>3. o = "denied" => parts = {}
        BY <2>3, <4>1 DEF ControlInv, CallStands
      <4> QED
        BY <2>1, <4>1, <4>2, <4>3 DEF Control!LinesAreHonest
    <3> QED
      BY <2>2, <3>1
  <2> QED
    BY <2>2, <2>3 DEF ControlInv, CallStands
<1> QED
  BY <1>1, ControlInvariance, PTL

(* With a list of approved users, what the gate guards is answered only to *)
(* one of them, named in the line; and more than the allowlist of a        *)
(* projected tool is given only to a call that asked for it with a reason. *)
THEOREM BroadReadsAreApproved ==
    Control!Spec => []Control!ApprovedOnly /\ []Control!BroadIsAskedFor
<1>1. ControlInv => Control!ApprovedOnly /\ Control!BroadIsAskedFor
  <2> SUFFICES ASSUME ControlInv PROVE Control!ApprovedOnly /\ Control!BroadIsAskedFor
    OBVIOUS
  <2>1. ASSUME Control!Answered PROVE CallStands /\ AnswerStands /\ pc = "done" /\ reply.kind = "answer"
    BY <2>1 DEF ControlInv, CallStands, Control!Answered
  <2>2. Control!BroadIsAskedFor
    <3> SUFFICES ASSUME Control!Answered, asked.tool \in Control!Profiled \cup {"list_candidates"},
                        reply.data # "narrow"
                 PROVE  asked.broad /\ asked.reason
      BY DEF Control!BroadIsAskedFor
    <3>1. reply.data = Control!Projection(asked) /\ Control!assertDetailProfileReason(asked)
      BY <2>1 DEF AnswerStands, Control!Accepts, Control!Profiled, Control!Letter
    <3>2. asked.broad
      BY <3>1 DEF Control!Projection, Control!Profiled
    <3> QED
      BY <3>1, <3>2 DEF Control!assertDetailProfileReason
  <2>3. Control!ApprovedOnly
    <3> SUFFICES ASSUME Control!Answered, Approved # {},
                        asked.tool \in Control!Expanded \/ (asked.tool \in Control!Profiled /\ reply.data = "broad")
                 PROVE  asked.actor \in Approved /\ \A i \in DOMAIN lines : lines[i].actor = asked.actor
      BY DEF Control!ApprovedOnly, Approved
    <3>0. /\ Control!shouldGate(asked) => asked.actor \in Approved
          /\ actor = IF asked.tool \in Control!Wrapped THEN asked.actor ELSE None
      BY <2>1 DEF CallStands
    <3>1. asked.tool \in Control!Profiled /\ reply.data = "broad" => asked.broad
      BY <2>1 DEF AnswerStands, Control!Projection, Control!Profiled, Control!Letter
    <3>2. Control!shouldGate(asked)
      BY <3>1 DEF Control!shouldGate
    <3>3. asked.actor \in Approved
      BY <3>0, <3>2
    <3>4. asked.tool \in Control!Wrapped /\ asked.tool \in Control!Audited
      BY DEF Control!Wrapped, Control!Audited
    <3>5. actor = asked.actor /\ lines = <<[outcome |-> "success", actor |-> actor]>>
      BY <2>1, <3>0, <3>4 DEF AnswerStands
    <3> QED
      BY <3>3, <3>5
  <2> QED
    BY <2>2, <2>3
<1> QED
  BY <1>1, ControlInvariance, PTL

(* The switches of a start hold for every call it lets through, and the    *)
(* context of an offer letter is drafted from all the reads its call asked *)
(* for, for one application or one offer.                                  *)
THEOREM ConfiguredReadsHold ==
    Control!Spec => []Control!SwitchesHold /\ []Control!ContextsAreWhole
<1>1. ControlInv => Control!SwitchesHold /\ Control!ContextsAreWhole
  <2> SUFFICES ASSUME ControlInv PROVE Control!SwitchesHold /\ Control!ContextsAreWhole
    OBVIOUS
  <2>1. Control!SwitchesHold
    <3>1. pc # "idle" => asked.tool \in Control!Registered
      BY DEF ControlInv, CallStands
    <3>2. asked # None => pc # "idle"
      BY DEF ControlInv
    <3> QED
      BY <3>1, <3>2 DEF Control!SwitchesHold, Control!Registered, Control!createToolGateConfig
  <2>2. Control!ContextsAreWhole
    BY DEF ControlInv, CallStands, AnswerStands, Control!Answered, Control!ContextsAreWhole,
           Control!Accepts
  <2> QED
    BY <2>1, <2>2
<1> QED
  BY <1>1, ControlInvariance, PTL

-----------------------------------------------------------------------------
(***************************************************************************)
(* Resumes.  The parsers counted are the calls that wait for their child,  *)
(* what a call has spent and what its timer has left fit into the budget,  *)
(* and a download's locations are few and of one origin.                   *)
(***************************************************************************)
Resumes == INSTANCE Resume

Parsing == {c \in Calls : pc[c] = "parse"}

SlotsOK ==
    /\ active \in 0..MaxParsers
    /\ IsFiniteSet(Parsing) /\ active = Cardinality(Parsing)

TimesOK ==
    /\ pc \in [Calls -> {"idle", "lookup", "download", "parse", "done"}]
    /\ timer \in [Calls -> 0..Budget] /\ spent \in [Calls -> Nat]
    /\ \A c \in Calls : spent[c] + timer[c] <= Budget

TravelsOK ==
    /\ url \in [Calls -> Resumes!Locations \cup {None}]
    /\ at \in [Calls -> Resumes!Locations \cup {None}]
    /\ visited \in [Calls -> SUBSET Resumes!Locations]
    /\ \A c \in Calls : pc[c] \in {"download", "parse"} =>
          /\ at[c] \in visited[c] /\ at[c][1] = url[c][1]
          /\ IsFiniteSet(visited[c]) /\ Cardinality(visited[c]) <= MaxRedirects + 1

ResumeInv == SlotsOK /\ TimesOK /\ TravelsOK

(* The instance counts the way this module does.                           *)
LEMMA ResumeCounts == ASSUME NEW S PROVE Resumes!Cardinality(S) = Cardinality(S)
  BY DEF Cardinality, Resumes!Cardinality

(* A call leaves its phase for another: which calls parse, and how many.   *)
LEMMA PhaseChanges ==
    ASSUME Resumes!ResumeAssumption, ResumeInv, NEW c \in Calls,
           NEW p \in {"idle", "lookup", "download", "parse", "done"}, pc' = [pc EXCEPT ![c] = p]
    PROVE  /\ p # "parse" /\ pc[c] # "parse" => Parsing' = Parsing
           /\ p = "parse" /\ pc[c] # "parse" =>
                 IsFiniteSet(Parsing') /\ Cardinality(Parsing') = Cardinality(Parsing) + 1
           /\ p # "parse" /\ pc[c] = "parse" =>
                 IsFiniteSet(Parsing') /\ Cardinality(Parsing') = Cardinality(Parsing) - 1
                 /\ Cardinality(Parsing) > 0
<1>1. \A b \in Calls : pc'[b] = IF b = c THEN p ELSE pc[b]
  BY DEF ResumeInv, TimesOK
<1>2. IsFiniteSet(Parsing) /\ Cardinality(Parsing) \in Nat
  BY FS_CardinalityType DEF ResumeInv, SlotsOK
<1>3. p # "parse" /\ pc[c] # "parse" => Parsing' = Parsing
  BY <1>1 DEF Parsing
<1>4. ASSUME p = "parse", pc[c] # "parse"
      PROVE  IsFiniteSet(Parsing') /\ Cardinality(Parsing') = Cardinality(Parsing) + 1
  <2>1. Parsing' = Parsing \cup {c} /\ c \notin Parsing
    BY <1>1, <1>4 DEF Parsing
  <2> QED
    BY <1>2, <2>1, FS_AddElement
<1>5. ASSUME p # "parse", pc[c] = "parse"
      PROVE  IsFiniteSet(Parsing') /\ Cardinality(Parsing') = Cardinality(Parsing) - 1
             /\ Cardinality(Parsing) > 0
  <2>1. Parsing' = Parsing \ {c} /\ c \in Parsing
    BY <1>1, <1>5 DEF Parsing
  <2>2. IsFiniteSet(Parsing') /\ Cardinality(Parsing') = Cardinality(Parsing) - 1
    BY <1>2, <2>1, FS_RemoveElement
  <2>3. Cardinality(Parsing') \in Nat
    BY <2>2, FS_CardinalityType
  <2> QED
    BY <1>2, <2>2, <2>3
<1> QED
  BY <1>3, <1>4, <1>5

(* A phase gets what is left of the one deadline.                          *)
LEMMA PhasesShareTheBudget ==
    ASSUME Resumes!ResumeAssumption, TimesOK, NEW c \in Calls, UNCHANGED spent,
           \/ \E p \in {"lookup", "download", "parse"} : Resumes!Enter(c, p)
           \/ \E e \in Resumes!Errors \cup {"text"} : Resumes!End(c, e)
    PROVE  TimesOK'
<1> USE DEF TimesOK, Resumes!ResumeAssumption
<1>1. spent[c] \in 0..Budget /\ timer[c] \in 0..Budget
  OBVIOUS
<1>2. Resumes!remainingDeadlineMs(c) \in 0..Budget /\ spent[c] + Resumes!remainingDeadlineMs(c) <= Budget
  BY <1>1 DEF Resumes!remainingDeadlineMs
<1>3. ASSUME NEW p \in {"lookup", "download", "parse"}, Resumes!Enter(c, p)
      PROVE  TimesOK'
  BY <1>2, <1>3 DEF Resumes!Enter
<1>4. ASSUME NEW e \in Resumes!Errors \cup {"text"}, Resumes!End(c, e)
      PROVE  TimesOK'
  BY <1>4 DEF Resumes!End
<1> QED
  BY <1>3, <1>4

LEMMA ResumeStarts ==
    ASSUME Resumes!ResumeAssumption
    PROVE  Resumes!Init => ResumeInv
<1> SUFFICES ASSUME Resumes!Init PROVE ResumeInv
  OBVIOUS
<1>1. Parsing = {}
  BY DEF Resumes!Init, Parsing
<1> QED
  BY <1>1, FS_EmptySet DEF Resumes!Init, ResumeInv, SlotsOK, TimesOK, TravelsOK, Resumes!ResumeAssumption

(* The way to the bytes: two lookups at most, redirects, refusals.         *)
LEMMA TravelMoves ==
    ASSUME Resumes!ResumeAssumption, ResumeInv, NEW c \in Calls,
           \/ Resumes!Begin(c) \/ Resumes!LookupDenied(c) \/ \E u \in Resumes!Locations : Resumes!LookupDone(c, u)
           \/ Resumes!UrlExpired(c) \/ Resumes!DownloadEnds(c)
           \/ \E l \in Resumes!Locations : Resumes!Redirected(c, l)
           \/ Resumes!SpawnThrows(c)
    PROVE  ResumeInv'
<1> USE DEF ResumeInv
<1>1. /\ UNCHANGED <<spent, active>> /\ pc[c] # "parse"
      /\ \/ \E p \in {"lookup", "download"} : Resumes!Enter(c, p)
         \/ \E e \in Resumes!Errors : Resumes!End(c, e)
         \/ UNCHANGED <<pc, timer>>
  BY DEF Resumes!Begin, Resumes!LookupDenied, Resumes!LookupDone, Resumes!UrlExpired, Resumes!DownloadEnds,
         Resumes!Redirected, Resumes!SpawnThrows, Resumes!Errors
<1>2. TimesOK'
  <2>1. CASE UNCHANGED <<pc, timer>>
    BY <1>1, <2>1 DEF TimesOK
  <2> QED
    BY <1>1, <2>1, PhasesShareTheBudget
<1>3. SlotsOK'
  <2>1. UNCHANGED pc \/ \E p \in {"lookup", "download", "done"} : pc' = [pc EXCEPT ![c] = p]
    BY <1>1 DEF Resumes!Enter, Resumes!End
  <2>2. Parsing' = Parsing
    <3>1. CASE UNCHANGED pc
      BY <3>1 DEF Parsing
    <3> QED
      BY <1>1, <2>1, <3>1, PhaseChanges
  <2> QED
    BY <1>1, <2>2 DEF SlotsOK
<1>4. TravelsOK'
  <2> USE DEF TravelsOK, TimesOK
  <2>1. CASE UNCHANGED <<url, at, visited>> /\ pc'[c] # "parse" /\ (pc'[c] = "download" => pc[c] = "download")
             /\ \A b \in Calls \ {c} : pc'[b] = pc[b]
    BY <2>1
  <2>2. CASE Resumes!Begin(c) \/ Resumes!LookupDenied(c) \/ Resumes!UrlExpired(c) \/ Resumes!DownloadEnds(c)
             \/ Resumes!SpawnThrows(c)
    BY <2>1, <2>2 DEF Resumes!Begin, Resumes!LookupDenied, Resumes!UrlExpired, Resumes!DownloadEnds,
       Resumes!SpawnThrows, Resumes!Enter, Resumes!End, Resumes!request
  <2>3. ASSUME NEW u \in Resumes!Locations, Resumes!LookupDone(c, u)
        PROVE  TravelsOK'
    <3>1. /\ url' = [url EXCEPT ![c] = u] /\ at' = [at EXCEPT ![c] = u] /\ visited' = [visited EXCEPT ![c] = {u}]
          /\ \A b \in Calls \ {c} : pc'[b] = pc[b]
      BY <2>3 DEF Resumes!LookupDone, Resumes!Enter, Resumes!End
    <3>2. IsFiniteSet({u}) /\ Cardinality({u}) <= MaxRedirects + 1
      <4>1. IsFiniteSet({u}) /\ Cardinality({u}) = 1
        BY FS_Singleton
      <4> QED
        BY <4>1 DEF Resumes!ResumeAssumption
    <3> QED
      BY <3>1, <3>2
  <2>4. ASSUME NEW l \in Resumes!Locations, Resumes!Redirected(c, l)
        PROVE  TravelsOK'
    <3>1. CASE Resumes!MayFollow(c, l)
      <4>1. /\ pc[c] = "download" /\ at' = [at EXCEPT ![c] = l] /\ visited' = [visited EXCEPT ![c] = @ \cup {l}]
            /\ UNCHANGED <<pc, url>>
            /\ l[1] = url[c][1] /\ l \notin visited[c] /\ Cardinality(visited[c]) <= MaxRedirects
        BY <2>4, <3>1, ResumeCounts DEF Resumes!Redirected, Resumes!MayFollow
      <4>2. IsFiniteSet(visited[c]) /\ Cardinality(visited[c]) \in Nat
        BY <4>1, FS_CardinalityType
      <4>3. /\ IsFiniteSet(visited[c] \cup {l})
            /\ Cardinality(visited[c] \cup {l}) = Cardinality(visited[c]) + 1
        BY <4>1, <4>2, FS_AddElement
      <4>4. Cardinality(visited[c] \cup {l}) <= MaxRedirects + 1
        BY <4>1, <4>2, <4>3 DEF Resumes!ResumeAssumption
      <4> QED
        BY <4>1, <4>3, <4>4
    <3>2. CASE ~Resumes!MayFollow(c, l)
      BY <2>1, <2>4, <3>2 DEF Resumes!Redirected, Resumes!End
    <3> QED
      BY <3>1, <3>2
  <2> QED
    BY <2>2, <2>3, <2>4
<1> QED
  BY <1>2, <1>3, <1>4

(* The parsers: one more, or one less.                                     *)
LEMMA ParserMoves ==
    ASSUME Resumes!ResumeAssumption, ResumeInv, NEW c \in Calls,
           Resumes!Downloaded(c) \/ \E e \in Resumes!Errors \cup {"text"} : Resumes!finish(c, e)
    PROVE  ResumeInv'
<1> USE DEF ResumeInv
<1>1. UNCHANGED <<url, at, visited, spent>>
  BY DEF Resumes!Downloaded, Resumes!finish, Resumes!request
<1>2. CASE Resumes!Downloaded(c)
  <2>1. CASE Resumes!ParseGate(c) = "start"
    <3>1. /\ Resumes!Enter(c, "parse") /\ active' = active + 1 /\ active < MaxParsers /\ pc[c] = "download"
          /\ pc' = [pc EXCEPT ![c] = "parse"]
      BY <1>2, <2>1 DEF Resumes!Downloaded, Resumes!ParseGate, Resumes!Enter, SlotsOK, Resumes!ResumeAssumption
    <3>2. TimesOK'
      BY <1>1, <3>1, PhasesShareTheBudget
    <3>3. IsFiniteSet(Parsing') /\ Cardinality(Parsing') = Cardinality(Parsing) + 1
      BY <3>1, PhaseChanges
    <3>5. SlotsOK'
      BY <3>1, <3>3 DEF SlotsOK, Resumes!ResumeAssumption
    <3>4. TravelsOK'
      BY <1>1, <3>1 DEF TravelsOK, TimesOK
    <3> QED
      BY <3>2, <3>4, <3>5
  <2>2. CASE Resumes!ParseGate(c) # "start"
    <3>1. /\ Resumes!End(c, Resumes!ParseGate(c)) /\ active' = active /\ pc[c] = "download"
          /\ Resumes!ParseGate(c) \in Resumes!Errors
          /\ pc' = [pc EXCEPT ![c] = "done"]
      BY <1>2, <2>2 DEF Resumes!Downloaded, Resumes!ParseGate, Resumes!End, Resumes!Errors
    <3>2. TimesOK'
      BY <1>1, <3>1, PhasesShareTheBudget
    <3>3. SlotsOK'
      BY <3>1, PhaseChanges DEF SlotsOK
    <3>4. TravelsOK'
      BY <1>1, <3>1 DEF TravelsOK, TimesOK
    <3> QED
      BY <3>2, <3>3, <3>4
  <2> QED
    BY <2>1, <2>2
<1>3. ASSUME NEW e \in Resumes!Errors \cup {"text"}, Resumes!finish(c, e)
      PROVE  ResumeInv'
  <2>1. Resumes!End(c, e) /\ active' = active - 1 /\ pc[c] = "parse" /\ pc' = [pc EXCEPT ![c] = "done"]
    BY <1>3 DEF Resumes!finish, Resumes!End
  <2>2. TimesOK'
    BY <1>1, <2>1, PhasesShareTheBudget
  <2>3. /\ IsFiniteSet(Parsing') /\ Cardinality(Parsing') = Cardinality(Parsing) - 1
        /\ Cardinality(Parsing) > 0
    BY <2>1, PhaseChanges
  <2>5. SlotsOK'
    BY <2>1, <2>3 DEF SlotsOK, Resumes!ResumeAssumption
  <2>4. TravelsOK'
    BY <1>1, <2>1 DEF TravelsOK, TimesOK
  <2> QED
    BY <2>2, <2>4, <2>5
<1> QED
  BY <1>2, <1>3

LEMMA ResumeInvariance ==
    ASSUME Resumes!ResumeAssumption
    PROVE  Resumes!Spec => []ResumeInv
<1>1. Resumes!Init => ResumeInv
  BY ResumeStarts
<1>2. ResumeInv /\ [Resumes!Next]_Resumes!vars => ResumeInv'
  <2> SUFFICES ASSUME ResumeInv, [Resumes!Next]_Resumes!vars PROVE ResumeInv'
    OBVIOUS
  <2> USE DEF ResumeInv
  <2>1. CASE UNCHANGED <<pc, url, at, visited, spent, timer, active>>
    BY <2>1 DEF SlotsOK, TimesOK, TravelsOK, Parsing
  <2>2. Resumes!SetAccess => ResumeInv'
    BY <2>1 DEF Resumes!SetAccess, Resumes!request
  <2>3. UNCHANGED Resumes!vars => ResumeInv'
    BY <2>1 DEF Resumes!vars
  <2>4. ASSUME NEW c \in Calls, Resumes!Outgrown(c) \/ Resumes!Abort(c)
        PROVE  ResumeInv'
    BY <2>1, <2>4 DEF Resumes!Outgrown, Resumes!Abort, Resumes!request
  <2>5. ASSUME NEW c \in Calls, Resumes!Tick(c)
        PROVE  ResumeInv'
    <3>1. /\ timer[c] > 0 /\ spent' = [spent EXCEPT ![c] = @ + 1] /\ timer' = [timer EXCEPT ![c] = @ - 1]
          /\ UNCHANGED <<pc, url, at, visited, active>>
      BY <2>5 DEF Resumes!Tick, Resumes!request
    <3>2. TimesOK'
      BY <3>1 DEF TimesOK, Resumes!ResumeAssumption
    <3>3. SlotsOK' /\ TravelsOK'
      BY <3>1 DEF SlotsOK, TravelsOK, Parsing
    <3> QED
      BY <3>2, <3>3
  <2>6. ASSUME NEW c \in Calls,
               Resumes!Closed(c) \/ Resumes!ParseTimeout(c) \/ Resumes!ParseAborted(c) \/ Resumes!ChildError(c)
        PROVE  \E e \in Resumes!Errors \cup {"text"} : Resumes!finish(c, e)
    BY <2>6 DEF Resumes!Closed, Resumes!ParseTimeout, Resumes!ParseAborted, Resumes!ChildError, Resumes!Errors
  <2> QED
    BY <2>2, <2>3, <2>4, <2>5, <2>6, TravelMoves, ParserMoves DEF Resumes!Next
<1> QED
  BY <1>1, <1>2, PTL DEF Resumes!Spec

(* No order of timeout, disconnect, error, close and failed spawn leaks a  *)
(* parser slot or frees one twice (activeResumeParsers), and all phases of *)
(* a call fit into its one deadline.                                       *)
THEOREM ParserSlotsAreExact ==
    ASSUME Resumes!ResumeAssumption
    PROVE  Resumes!Spec => []Resumes!SlotsAreExact /\ []Resumes!OneDeadline
<1>1. ResumeInv => Resumes!SlotsAreExact
  BY ResumeCounts DEF ResumeInv, SlotsOK, Parsing, Resumes!SlotsAreExact
<1>2. ResumeInv => Resumes!OneDeadline
  BY DEF ResumeInv, TimesOK, Resumes!OneDeadline, Resumes!ResumeAssumption
<1> QED
  BY <1>1, <1>2, ResumeInvariance, PTL

(* Whatever the redirects say, the bytes come from the origin that the     *)
(* scoped read authorised, a bounded number of hops away.                  *)
THEOREM ResumesComeFromTheirOrigin ==
    ASSUME Resumes!ResumeAssumption
    PROVE  Resumes!Spec => []Resumes!BytesComeFromTheOrigin
<1>1. ResumeInv => Resumes!BytesComeFromTheOrigin
  BY ResumeCounts DEF ResumeInv, TravelsOK, Resumes!BytesComeFromTheOrigin
<1> QED
  BY <1>1, ResumeInvariance, PTL

(* A location that refused the first download is not where the second      *)
(* starts, which is authorised anew; and no parser starts for a client     *)
(* that has gone.                                                          *)
THEOREM DownloadsAreAuthorised ==
    ASSUME Resumes!ResumeAssumption
    PROVE  Resumes!Spec => /\ [][Resumes!RefreshesAreAuthorized]_Resumes!vars
                           /\ [][Resumes!NoParserForTheGone]_Resumes!vars
<1>1. ResumeInv /\ [Resumes!Next]_Resumes!vars =>
        [Resumes!RefreshesAreAuthorized /\ Resumes!NoParserForTheGone]_Resumes!vars
  <2> SUFFICES ASSUME TimesOK, TravelsOK, Resumes!Next, NEW b \in Calls, pc'[b] # pc[b]
               PROVE  /\ pc'[b] = "download" => allowed /\ (refreshed[b] => url'[b] # url[b])
                      /\ pc'[b] = "parse" => ~aborted[b]
    BY DEF ResumeInv, Resumes!RefreshesAreAuthorized, Resumes!NoParserForTheGone
  <2> USE DEF TimesOK, Resumes!End, Resumes!Enter
  <2>1. PICK c \in Calls :
          \/ Resumes!Begin(c) \/ Resumes!LookupDenied(c) \/ \E u \in Resumes!Locations : Resumes!LookupDone(c, u)
          \/ Resumes!UrlExpired(c) \/ Resumes!DownloadEnds(c)
          \/ \E l \in Resumes!Locations : Resumes!Redirected(c, l)
          \/ Resumes!SpawnThrows(c) \/ Resumes!Downloaded(c)
          \/ \E e \in Resumes!Errors \cup {"text"} : Resumes!finish(c, e)
    BY DEF Resumes!Next, Resumes!SetAccess, Resumes!Outgrown, Resumes!Tick, Resumes!Abort,
           Resumes!Closed, Resumes!ParseTimeout, Resumes!ParseAborted, Resumes!ChildError, Resumes!Errors
  <2>2. ASSUME NEW u \in Resumes!Locations, Resumes!LookupDone(c, u)
        PROVE  (pc'[b] = "download" /\ allowed /\ (refreshed[b] => url'[b] # url[b])) \/ pc'[b] = "done"
    BY <2>2 DEF Resumes!LookupDone, Resumes!FreshEnough, TravelsOK
  <2>3. Resumes!Downloaded(c) => (pc'[b] = "parse" /\ ~aborted[b]) \/ pc'[b] = "done"
    BY DEF Resumes!Downloaded, Resumes!ParseGate
  <2> QED
    BY <2>1, <2>2, <2>3 DEF Resumes!Begin, Resumes!LookupDenied, Resumes!UrlExpired, Resumes!DownloadEnds,
       Resumes!Redirected, Resumes!SpawnThrows, Resumes!finish
<1> QED
  BY <1>1, ResumeInvariance, PTL DEF Resumes!Spec

-----------------------------------------------------------------------------
(***************************************************************************)
(* The HTTP server.  The MCP requests in flight are counted, none of them  *)
(* but those has an open connection, and the steps of the shutdown each    *)
(* keep to their time.                                                     *)
(***************************************************************************)
Http == INSTANCE HttpLifecycle

Flying == {r \in Mcp : phase[r] \in Http!InFlight}

PhasesOK ==
    /\ phase \in [Mcp \cup Oauth -> {"new", "token", "done"} \cup Http!InFlight]
    /\ conn \in [Mcp \cup Oauth -> {"none", "open", "answered", "gone"}]
    /\ \A r \in Oauth : phase[r] \notin Http!InFlight
    /\ \A r \in Mcp : phase[r] # "token" /\ (conn[r] = "open" => phase[r] \in Http!InFlight)

FlightOK == IsFiniteSet(Flying) /\ active = Cardinality(Flying)

ShutdownOK ==
    /\ clock \in Nat /\ since \in Nat
    /\ \/ shutdown = "no" /\ clock = 0 /\ since = 0
       \/ shutdown = "draining" /\ clock = since /\ since <= Grace
       \/ shutdown = "settling" /\ clock <= Grace + since /\ since <= Settle
       \/ shutdown = "done" /\ clock <= Grace + Settle /\ proc # "up"

HttpInv == PhasesOK /\ FlightOK /\ ShutdownOK /\ Http!AdmittedWorkIsDrained

(* The instance counts the way this module does.                           *)
LEMMA HttpCounts == ASSUME NEW S PROVE Http!Cardinality(S) = Cardinality(S)
  BY DEF Cardinality, Http!Cardinality

(* A request that takes off, flies on, or lands.                           *)
LEMMA FlightChanges ==
    ASSUME PhasesOK, FlightOK, NEW r \in Mcp, NEW p, phase' = [phase EXCEPT ![r] = p]
    PROVE  /\ (p \in Http!InFlight <=> phase[r] \in Http!InFlight) => Flying' = Flying
           /\ p \in Http!InFlight /\ phase[r] \notin Http!InFlight =>
                 IsFiniteSet(Flying') /\ Cardinality(Flying') = active + 1
           /\ p \notin Http!InFlight /\ phase[r] \in Http!InFlight =>
                 IsFiniteSet(Flying') /\ Cardinality(Flying') = active - 1
<1>1. \A q \in Mcp : phase'[q] = IF q = r THEN p ELSE phase[q]
  BY DEF PhasesOK
<1>2. IsFiniteSet(Flying) /\ Cardinality(Flying) = active
  BY DEF FlightOK
<1>3. (p \in Http!InFlight <=> phase[r] \in Http!InFlight) => Flying' = Flying
  BY <1>1 DEF Flying
<1>4. ASSUME p \in Http!InFlight, phase[r] \notin Http!InFlight
      PROVE  IsFiniteSet(Flying') /\ Cardinality(Flying') = active + 1
  <2>1. Flying' = Flying \cup {r} /\ r \notin Flying
    BY <1>1, <1>4 DEF Flying
  <2> QED
    BY <1>2, <2>1, FS_AddElement
<1>5. ASSUME p \notin Http!InFlight, phase[r] \in Http!InFlight
      PROVE  IsFiniteSet(Flying') /\ Cardinality(Flying') = active - 1
  <2>1. Flying' = Flying \ {r} /\ r \in Flying
    BY <1>1, <1>5 DEF Flying
  <2> QED
    BY <1>2, <2>1, FS_RemoveElement
<1> QED
  BY <1>3, <1>4, <1>5

LEMMA HttpStarts ==
    ASSUME Http!LifecycleAssumption
    PROVE  Http!Init => HttpInv
<1> SUFFICES ASSUME Http!Init PROVE HttpInv
  OBVIOUS
<1>1. Flying = {}
  BY DEF Http!Init, Http!Requests, Flying, Http!InFlight, Http!Armed
<1> QED
  BY <1>1, FS_EmptySet DEF Http!Init, Http!Requests, HttpInv, PhasesOK, FlightOK, ShutdownOK,
     Http!AdmittedWorkIsDrained, Http!InFlight, Http!Armed

(* The shutdown is left alone: what a request does.                        *)
LEMMA RequestMoves ==
    ASSUME Http!LifecycleAssumption, HttpInv, NEW r \in Mcp \cup Oauth, Http!Request(r)
    PROVE  HttpInv'
<1> USE DEF HttpInv
<1>1. UNCHANGED <<shutdown, since, clock, proc, dropped>>
  BY DEF Http!Request, Http!Arrives, Http!Authorizes, Http!ReadsBody, Http!Preflights, Http!Mounts, Http!Finishes,
         Http!AsksToken, Http!GetsToken, Http!ClientLeaves, Http!Goes, Http!Stopping
<1>2. ShutdownOK' /\ Http!AdmittedWorkIsDrained'
  BY <1>1 DEF ShutdownOK, Http!AdmittedWorkIsDrained
<1>3. /\ "new" \notin Http!InFlight /\ "token" \notin Http!InFlight /\ "done" \notin Http!InFlight
      /\ {"auth", "body", "audit", "mount", "handling"} = Http!InFlight
  BY DEF Http!InFlight, Http!Armed
<1>4. ASSUME r \in Mcp, phase[r] \in Http!InFlight, Http!Ends(r)
      PROVE  PhasesOK' /\ FlightOK'
  <2>1. /\ phase' = [phase EXCEPT ![r] = "done"] /\ active' = active - 1
        /\ conn' = [conn EXCEPT ![r] = IF conn[r] = "open" THEN "answered" ELSE conn[r]]
    BY <1>4 DEF Http!Ends, Http!Answered
  <2>2. FlightOK'
    BY <1>3, <1>4, <2>1, FlightChanges DEF FlightOK
  <2>3. PhasesOK'
    BY <1>3, <1>4, <2>1 DEF PhasesOK
  <2> QED
    BY <2>2, <2>3
<1>5. ASSUME r \in Mcp, phase[r] \in Http!InFlight, NEW p \in Http!InFlight,
             phase' = [phase EXCEPT ![r] = p], UNCHANGED <<conn, active>>
      PROVE  PhasesOK' /\ FlightOK'
  <2>1. FlightOK'
    BY <1>5, FlightChanges DEF FlightOK
  <2>2. PhasesOK'
    BY <1>3, <1>5 DEF PhasesOK
  <2> QED
    BY <2>1, <2>2
<1>6. phase[r] \in Http!InFlight => r \in Mcp
  BY DEF PhasesOK
<1>7. CASE Http!Arrives(r)
  <2>1. r \in Mcp /\ phase[r] = "new"
    BY <1>7 DEF Http!Arrives
  <2>2. CASE Http!draining
    <3>1. /\ phase' = [phase EXCEPT ![r] = "done"] /\ conn' = [conn EXCEPT ![r] = "answered"]
          /\ UNCHANGED active
      BY <1>7, <2>2 DEF Http!Arrives
    <3>2. FlightOK'
      BY <1>3, <2>1, <3>1, FlightChanges DEF FlightOK
    <3>3. PhasesOK'
      BY <1>3, <2>1, <3>1 DEF PhasesOK, Http!LifecycleAssumption
    <3> QED
      BY <1>2, <3>2, <3>3
  <2>3. CASE ~Http!draining
    <3>1. /\ phase' = [phase EXCEPT ![r] = "auth"] /\ conn' = [conn EXCEPT ![r] = "open"]
          /\ active' = active + 1
      BY <1>7, <2>3 DEF Http!Arrives
    <3>2. FlightOK'
      BY <1>3, <2>1, <3>1, FlightChanges DEF FlightOK
    <3>3. PhasesOK'
      BY <1>3, <2>1, <3>1 DEF PhasesOK, Http!LifecycleAssumption
    <3> QED
      BY <1>2, <3>2, <3>3
  <2> QED
    BY <2>2, <2>3
<1>8. CASE Http!Authorizes(r) \/ Http!ReadsBody(r) \/ Http!Preflights(r) \/ Http!Mounts(r) \/ Http!Finishes(r)
  <2>1. /\ phase[r] \in Http!InFlight
        /\ \/ Http!Ends(r)
           \/ \E p \in Http!InFlight : phase' = [phase EXCEPT ![r] = p] /\ UNCHANGED <<conn, active>>
    BY <1>3, <1>8 DEF Http!Authorizes, Http!ReadsBody, Http!Preflights, Http!Mounts, Http!Finishes, Http!Goes
  <2> QED
    BY <1>2, <1>4, <1>5, <1>6, <2>1
<1>9. CASE Http!AsksToken(r) \/ Http!GetsToken(r)
  <2>1. /\ r \in Oauth /\ UNCHANGED active
        /\ \E p \in {"token", "done"} : phase' = [phase EXCEPT ![r] = p]
        /\ \E p \in {"none", "open", "answered", "gone"} : conn' = [conn EXCEPT ![r] = p]
    BY <1>9 DEF Http!AsksToken, Http!GetsToken, Http!Answered, PhasesOK
  <2>2. r \notin Mcp
    BY <2>1 DEF Http!LifecycleAssumption
  <2>3. PhasesOK'
    BY <1>3, <2>1, <2>2 DEF PhasesOK
  <2>4. Flying' = Flying
    BY <2>1, <2>2 DEF PhasesOK, Flying
  <2> QED
    BY <1>2, <2>1, <2>3, <2>4 DEF FlightOK
<1>10. CASE Http!ClientLeaves(r)
  <2>1. /\ UNCHANGED <<phase, active>>
        /\ conn' = [q \in Mcp \cup Oauth |-> IF q \in {r} THEN "gone" ELSE conn[q]]
    BY <1>10 DEF Http!ClientLeaves, Http!Close, Http!Requests
  <2>2. PhasesOK'
    BY <2>1 DEF PhasesOK
  <2> QED
    BY <1>2, <2>1, <2>2 DEF FlightOK, Flying
<1> QED
  BY <1>7, <1>8, <1>9, <1>10 DEF Http!Request

(* The requests are left alone, but for the connections that are cut: the  *)
(* signals, the drain and its clock.                                       *)
LEMMA ShutdownMoves ==
    ASSUME Http!LifecycleAssumption, HttpInv,
           \/ Http!Terminates \/ Http!PressesCtrlC \/ \E s \in Http!Signals : Http!Receives(s)
           \/ Http!StopsDraining \/ Http!Settles \/ Http!Ticks
    PROVE  HttpInv'
<1> USE DEF HttpInv
<1>1. UNCHANGED <<phase, active>>
  BY DEF Http!Terminates, Http!PressesCtrlC, Http!Receives, Http!StopsDraining, Http!Settles, Http!Ticks
<1>2. FlightOK'
  BY <1>1 DEF FlightOK, Flying
<1>3. CASE Http!StopsDraining
  <2> DEFINE cut == {r \in Mcp \cup Oauth : conn[r] = "open"}
  <2>1. /\ proc = "up" /\ shutdown = "draining" /\ (active = 0 \/ since = Grace)
        /\ shutdown' = "settling" /\ since' = 0 /\ clock' = clock
        /\ conn' = [r \in Mcp \cup Oauth |-> IF r \in cut THEN "gone" ELSE conn[r]]
        /\ dropped' = IF since = Grace THEN dropped ELSE dropped \cup cut
    BY <1>3 DEF Http!StopsDraining, Http!Close, Http!Requests, Http!Idle
  <2>2. PhasesOK'
    BY <1>1, <2>1 DEF PhasesOK
  <2>3. ShutdownOK'
    BY <2>1 DEF ShutdownOK, Http!LifecycleAssumption
  <2>4. since # Grace => cut \cap Mcp = {}
    <3>1. active = 0 => Flying = {}
      BY FS_EmptySet DEF FlightOK
    <3>2. \A r \in Mcp : conn[r] = "open" => r \in Flying
      BY DEF PhasesOK, Flying
    <3> QED
      BY <2>1, <3>1, <3>2
  <2>5. Http!AdmittedWorkIsDrained'
    BY <2>1, <2>4 DEF Http!AdmittedWorkIsDrained
  <2> QED
    BY <1>2, <2>2, <2>3, <2>5
<1>4. CASE ~Http!StopsDraining
  <2>1. UNCHANGED <<conn, dropped>>
    BY <1>4 DEF Http!Terminates, Http!PressesCtrlC, Http!Receives, Http!Settles, Http!Ticks
  <2>2. PhasesOK' /\ Http!AdmittedWorkIsDrained'
    BY <1>1, <2>1 DEF PhasesOK, Http!AdmittedWorkIsDrained
  <2>3. ASSUME UNCHANGED <<shutdown, since, clock, proc>>
        PROVE  ShutdownOK'
    BY <2>3 DEF ShutdownOK
  <2>4. Http!Terminates \/ Http!PressesCtrlC => ShutdownOK'
    BY <2>3 DEF Http!Terminates, Http!PressesCtrlC
  <2>5. ASSUME NEW s \in Http!Signals, Http!Receives(s)
        PROVE  ShutdownOK'
    <3>1. /\ proc = "up" /\ UNCHANGED <<since, clock>>
          /\ \/ proc' = "killed" /\ UNCHANGED shutdown
             \/ UNCHANGED proc /\ shutdown' = IF shutdown # "no" THEN shutdown ELSE "draining"
      BY <2>5 DEF Http!Receives, Http!draining
    <3> QED
      BY <3>1 DEF ShutdownOK, Http!LifecycleAssumption
  <2>6. Http!Settles => ShutdownOK'
    BY DEF Http!Settles, ShutdownOK, Http!LifecycleAssumption
  <2>7. Http!Ticks => ShutdownOK'
    BY DEF Http!Ticks, Http!Limit, Http!draining, ShutdownOK, Http!LifecycleAssumption
  <2> QED
    BY <1>2, <1>4, <2>2, <2>4, <2>5, <2>6, <2>7
<1> QED
  BY <1>3, <1>4

LEMMA HttpInvariance ==
    ASSUME Http!LifecycleAssumption
    PROVE  Http!Spec => []HttpInv
<1>1. Http!Init => HttpInv
  BY HttpStarts
<1>2. HttpInv /\ [Http!Next]_Http!vars => HttpInv'
  <2> SUFFICES ASSUME HttpInv, [Http!Next]_Http!vars PROVE HttpInv'
    OBVIOUS
  <2>1. CASE UNCHANGED Http!vars
    BY <2>1 DEF Http!vars, HttpInv, PhasesOK, FlightOK, Flying, ShutdownOK, Http!AdmittedWorkIsDrained
  <2> QED
    BY <2>1, RequestMoves, ShutdownMoves DEF Http!Next, Http!Requests
<1> QED
  BY <1>1, <1>2, PTL DEF Http!Spec

(* On every way a request can end, the count that the drain waits for is   *)
(* the number of MCP requests in flight (lifecycle.activeRequests).        *)
THEOREM RequestsAreCounted ==
    ASSUME Http!LifecycleAssumption
    PROVE  Http!Spec => []Http!InFlightIsCounted
<1>1. HttpInv => Http!InFlightIsCounted
  BY HttpCounts DEF HttpInv, FlightOK, Flying, Http!InFlightIsCounted
<1> QED
  BY <1>1, HttpInvariance, PTL

(* No admitted MCP request loses its connection before the grace period is *)
(* over, and drain and settling together end before the platform kills.    *)
THEOREM ShutdownsAreGraceful ==
    ASSUME Http!LifecycleAssumption
    PROVE  Http!Spec => []Http!AdmittedWorkIsDrained /\ []Http!ExitsBeforeTheKill
<1>1. HttpInv => Http!ExitsBeforeTheKill
  BY DEF HttpInv, ShutdownOK, Http!ExitsBeforeTheKill, Http!LifecycleAssumption
<1>2. HttpInv => Http!AdmittedWorkIsDrained
  BY DEF HttpInv
<1> QED
  BY <1>1, <1>2, HttpInvariance, PTL

-----------------------------------------------------------------------------
(***************************************************************************)
(* Provisioning.  Files(r) are the keys whose bearer file run r has on     *)
(* disk.  Every phase of a run has its files, and what a row says somebody *)
(* wrote.  A run that removes its manifest had every row off when it last  *)
(* looked, so that only an upsert that the database had yet to execute can *)
(* switch one on behind it.                                                *)
(***************************************************************************)
Access == INSTANCE AccessProvisioning

Phase == {"start", "stage", "bearers", "entitle", "readback", "publish", "undo", "undoback",
          "unbear", "unstage"} \cup Access!Ended
Files(r) == {k \in Keys : <<r, k>> \in bearers}

AccessTypes ==
    /\ rows \in [Keys -> [by : Runs \cup Disables \cup {None}, on : BOOLEAN]]
    /\ late \subseteq [by : Runs \cup Disables, on : BOOLEAN, keys : SUBSET Keys]
    /\ manifest \in Runs \cup {None} /\ staged \subseteq Runs
    /\ bearers \subseteq Runs \X Keys /\ \A r \in Runs : Files(r) \subseteq Roster[r]
    /\ run \in [Runs -> [at : Phase, owned : BOOLEAN, may : BOOLEAN, unsure : BOOLEAN]]
    /\ off \in [Disables -> [at : {"start", "ok", "failed", "readback"}, key : Keys \cup {None}]]
    /\ \A d \in Disables : off[d].at = "readback" => off[d].key \in Keys

\* What run r has on disk, where it is.
FilesFit(r) ==
    /\ run[r].at \in {"bearers", "entitle", "readback", "publish"} => r \in staged
    /\ run[r].at \in {"start", "stage"} => r \notin staged /\ Files(r) = {}
    /\ Files(r) # {} => r \in staged \/ manifest = r
    /\ run[r].at \in {"unstage", "failed"} => Files(r) = {}
    /\ run[r].at = "failed" => r \notin staged
    /\ run[r].at \in {"entitle", "readback", "publish", "ok"} => Files(r) = Roster[r]
    /\ run[r].at = "ok" <=> manifest = r

FilesOK == \A r \in Runs : FilesFit(r)

LandedOK ==
    /\ \A k \in Keys : rows[k].by # None => <<rows[k].by, rows[k].on>> \in landed
    /\ \A k \in Keys : rows[k].on => rows[k].by \in Runs
    /\ \A w \in late : w.on => w.by \in Runs
    /\ \A r \in Runs : run[r].at \in {"publish", "ok"} => <<r, TRUE>> \in landed
    /\ \A d \in Disables : off[d].at = "ok" => <<d, FALSE>> \in landed

AccessInv == AccessTypes /\ FilesOK /\ LandedOK

LEMMA AccessCounts ==
    ASSUME NEW S
    PROVE  Access!Cardinality(S) = Cardinality(S) /\ (Access!IsFiniteSet(S) <=> IsFiniteSet(S))
<1>1. Access!Cardinality(S) = Cardinality(S)
  BY DEF Cardinality, Access!Cardinality
<1>2. Access!IsFiniteSet(S) <=> IsFiniteSet(S)
  BY DEF IsFiniteSet, Access!IsFiniteSet
<1> QED
  BY <1>1, <1>2

(* As many bearer files as there are people in the roster: one of each.    *)
LEMMA AllBearersWritten ==
    ASSUME Access!ProvisioningAssumption, AccessTypes, NEW r \in Runs,
           Access!Cardinality(Access!Bearers(r)) = Access!Cardinality(Roster[r])
    PROVE  Files(r) = Roster[r]
<1> DEFINE B == Access!Bearers(r)
<1> DEFINE g == [b \in B |-> b[2]]
<1>1. IsFiniteSet(Roster[r]) /\ Cardinality(B) = Cardinality(Roster[r]) /\ Roster[r] \subseteq Keys
  BY AccessCounts DEF Access!ProvisioningAssumption
<1>2. \A b \in B : b \in bearers /\ b = <<r, b[2]>> /\ b[2] \in Files(r)
  <2>1. \A b \in B : b \in bearers /\ b[1] = r /\ b \in Runs \X Keys
    BY DEF AccessTypes, Access!Bearers
  <2>2. \A b \in Runs \X Keys : b = <<b[1], b[2]>> /\ b[2] \in Keys
    OBVIOUS
  <2> QED
    BY <2>1, <2>2 DEF Files
<1>3. \A b \in B : b[2] \in Roster[r]
  BY <1>2 DEF AccessTypes
<1>4. g \in Injection(B, Roster[r])
  BY <1>2, <1>3 DEF Injection, IsInjective
<1>5. g \in Surjection(B, Roster[r])
  BY <1>1, <1>4, FS_Injection
<1>6. \A k \in Roster[r] : \E b \in B : b[2] = k
  BY <1>5 DEF Surjection
<1>7. Roster[r] \subseteq Files(r)
  BY <1>2, <1>6
<1> QED
  BY <1>7 DEF AccessTypes

(* What an upsert does to the rows and to what is known of them.           *)
LEMMA UpsertsLand ==
    ASSUME AccessTypes, LandedOK, NEW w, w.by \in Runs \cup Disables, w.on \in BOOLEAN, w.keys \subseteq Keys,
           w.on => w.by \in Runs, Access!Upsert(w)
    PROVE  /\ rows' \in [Keys -> [by : Runs \cup Disables \cup {None}, on : BOOLEAN]]
           /\ \A k \in Keys : rows'[k].by # None => <<rows'[k].by, rows'[k].on>> \in landed'
           /\ \A k \in Keys : rows'[k].on => rows'[k].by \in Runs
           /\ landed \subseteq landed' /\ <<w.by, w.on>> \in landed'
<1>1. /\ rows' = [k \in Keys |-> IF k \in w.keys THEN [by |-> w.by, on |-> w.on] ELSE rows[k]]
      /\ landed' = landed \cup {<<w.by, w.on>>}
  BY DEF Access!Upsert
<1>2. \A k \in Keys : \/ rows'[k].by = w.by /\ rows'[k].on = w.on
                      \/ rows'[k] = rows[k]
  BY <1>1
<1>3. rows' \in [Keys -> [by : Runs \cup Disables \cup {None}, on : BOOLEAN]]
  BY <1>1 DEF AccessTypes
<1> QED
  BY <1>1, <1>2, <1>3 DEF LandedOK

\* Run r goes to x, and nothing else of the runs changes.
Went(r, x) ==
    /\ run' \in [Runs -> [at : Phase, owned : BOOLEAN, may : BOOLEAN, unsure : BOOLEAN]]
    /\ run'[r].at = x /\ \A q \in Runs \ {r} : run'[q] = run[q]

LEMMA GoesThere ==
    ASSUME AccessTypes, NEW r \in Runs, NEW x \in Phase,
           \/ Access!Goes(r, x)
           \/ run' = [run EXCEPT ![r].at = x, ![r].owned = TRUE]
           \/ run' = [run EXCEPT ![r].at = x, ![r].may = TRUE]
           \/ run' = [run EXCEPT ![r].at = x, ![r].unsure = TRUE]
    PROVE  Went(r, x)
<1> DEFINE S == [at : Phase, owned : BOOLEAN, may : BOOLEAN, unsure : BOOLEAN]
<1>1. run \in [Runs -> S] /\ run[r] \in S
  BY DEF AccessTypes
<1>2. PICK s \in S : s.at = x /\ run' = [run EXCEPT ![r] = s]
  <2>1. CASE Access!Goes(r, x)
    <3>1. run' = [run EXCEPT ![r] = [run[r] EXCEPT !.at = x]]
      BY <2>1 DEF Access!Goes
    <3>2. [run[r] EXCEPT !.at = x] \in S /\ [run[r] EXCEPT !.at = x].at = x
      BY <1>1
    <3> QED
      BY <3>1, <3>2
  <2>2. CASE run' = [run EXCEPT ![r].at = x, ![r].owned = TRUE]
    <3>1. run' = [run EXCEPT ![r] = [run[r] EXCEPT !.at = x, !.owned = TRUE]]
      BY <1>1, <2>2
    <3>2. [run[r] EXCEPT !.at = x, !.owned = TRUE] \in S /\ [run[r] EXCEPT !.at = x, !.owned = TRUE].at = x
      BY <1>1
    <3> QED
      BY <3>1, <3>2
  <2>3. CASE run' = [run EXCEPT ![r].at = x, ![r].may = TRUE]
    <3>1. run' = [run EXCEPT ![r] = [run[r] EXCEPT !.at = x, !.may = TRUE]]
      BY <1>1, <2>3
    <3>2. [run[r] EXCEPT !.at = x, !.may = TRUE] \in S /\ [run[r] EXCEPT !.at = x, !.may = TRUE].at = x
      BY <1>1
    <3> QED
      BY <3>1, <3>2
  <2>4. CASE run' = [run EXCEPT ![r].at = x, ![r].unsure = TRUE]
    <3>1. run' = [run EXCEPT ![r] = [run[r] EXCEPT !.at = x, !.unsure = TRUE]]
      BY <1>1, <2>4
    <3>2. [run[r] EXCEPT !.at = x, !.unsure = TRUE] \in S /\ [run[r] EXCEPT !.at = x, !.unsure = TRUE].at = x
      BY <1>1
    <3> QED
      BY <3>1, <3>2
  <2> QED
    BY <2>1, <2>2, <2>3, <2>4
<1> HIDE DEF S
<1>3. run' \in [Runs -> S] /\ run'[r].at = x /\ \A q \in Runs \ {r} : run'[q] = run[q]
  BY <1>1, <1>2
<1> QED
  BY <1>3 DEF Went, S

(* A run takes a step among its files.                                     *)
LEMMA FileMoves ==
    ASSUME Access!ProvisioningAssumption, AccessInv, NEW r \in Runs,
           \/ Access!Starts(r) \/ Access!Stages(r) \/ Access!WritesBearer(r) \/ Access!Publishes(r)
           \/ Access!RemovesBearers(r) \/ Access!Unstages(r) \/ Access!Crashes(r)
    PROVE  AccessInv'
<1> USE DEF AccessInv
<1>1. UNCHANGED <<rows, late, landed, off>>
  BY DEF Access!Starts, Access!Stages, Access!WritesBearer, Access!Publishes, Access!RemovesBearers,
         Access!Unstages, Access!Crashes
<1>5. ASSUME NEW x \in Phase, Went(r, x), x \in {"publish", "ok"} => run[r].at = "publish",
             manifest' \in Runs \cup {None}, staged' \subseteq Runs, bearers' \subseteq Runs \X Keys,
             Files(r)' \subseteq Roster[r],
             \A q \in Runs \ {r} : /\ \A k \in Keys : <<q, k>> \in bearers' <=> <<q, k>> \in bearers
                                   /\ q \in staged' <=> q \in staged
                                   /\ manifest' = q <=> manifest = q,
             FilesFit(r)'
      PROVE  AccessInv'
  <2>1. \A q \in Runs \ {r} : Files(q)' = Files(q)
    BY <1>5 DEF Files
  <2>2. \A q \in Runs \ {r} : FilesFit(q)'
    BY <1>5, <2>1 DEF FilesOK, FilesFit, Went
  <2>3. FilesOK'
    BY <1>5, <2>2 DEF FilesOK
  <2>4. AccessTypes'
    BY <1>1, <1>5, <2>1 DEF AccessTypes, Went
  <2>5. LandedOK'
    BY <1>1, <1>5 DEF LandedOK, Went
  <2> QED
    BY <2>3, <2>4, <2>5
<1>6. FilesFit(r) /\ Files(r) \subseteq Roster[r] /\ r # None
  BY DEF FilesOK, AccessTypes, Access!ProvisioningAssumption
<1>7. {"start", "stage", "bearers", "entitle", "undo", "unstage", "ok", "failed", "keep", "leftover",
       "crashed"} \subseteq Phase
  BY DEF Phase, Access!Ended
<1>8. CASE Access!Starts(r)
  <2>1. PICK x \in {"stage", "failed"} : Access!Goes(r, x)
    BY <1>8 DEF Access!Starts
  <2>2. run[r].at = "start" /\ UNCHANGED <<manifest, staged, bearers>> /\ Went(r, x)
    BY <1>7, <1>8, <2>1, GoesThere DEF Access!Starts, Access!files
  <2>3. FilesFit(r)'
    BY <1>6, <2>1, <2>2 DEF FilesFit, Files, Went
  <2> QED
    BY <1>5, <1>6, <1>7, <2>1, <2>2, <2>3 DEF AccessTypes, Files
<1>9. CASE Access!Stages(r)
  <2>1. PICK x \in {"bearers", "undo"} :
          \/ staged' = staged \cup {r} /\ run' = [run EXCEPT ![r].at = x, ![r].owned = TRUE]
          \/ staged' = staged /\ x = "undo" /\ Access!Goes(r, x)
    BY <1>9 DEF Access!Stages
  <2>2. run[r].at = "stage" /\ UNCHANGED <<manifest, bearers>> /\ Went(r, x)
    BY <1>7, <1>9, <2>1, GoesThere DEF Access!Stages
  <2>3. FilesFit(r)'
    BY <1>6, <2>1, <2>2 DEF FilesFit, Files, Went
  <2> QED
    BY <1>5, <1>6, <1>7, <2>1, <2>2, <2>3 DEF AccessTypes, Files
<1>10. CASE Access!WritesBearer(r)
  <2>1. run[r].at = "bearers" /\ UNCHANGED <<manifest, staged>>
    BY <1>10 DEF Access!WritesBearer
  <2>2. CASE Access!Cardinality(Access!Bearers(r)) = Access!Cardinality(Roster[r])
    <3>1. Went(r, "entitle") /\ bearers' = bearers
      BY <1>7, <1>10, <2>2, GoesThere DEF Access!WritesBearer
    <3>2. Files(r) = Roster[r] /\ Files(r)' = Files(r)
      BY <2>2, <3>1, AllBearersWritten DEF Files
    <3>3. FilesFit(r)'
      BY <1>6, <2>1, <3>1, <3>2 DEF FilesFit, Went
    <3> QED
      BY <1>5, <1>6, <1>7, <2>1, <3>1, <3>2, <3>3 DEF AccessTypes
  <2>3. CASE Access!Cardinality(Access!Bearers(r)) # Access!Cardinality(Roster[r])
    <3>1. PICK k \in Roster[r], x \in {"bearers", "undo"} :
            Access!Goes(r, x) /\ (bearers' = bearers \/ bearers' = bearers \cup {<<r, k>>})
      BY <1>10, <2>3 DEF Access!WritesBearer
    <3>2. Went(r, x)
      BY <1>7, <3>1, GoesThere
    <3>3. /\ Files(r)' \subseteq Roster[r] /\ bearers' \subseteq Runs \X Keys
          /\ \A q \in Runs \ {r} : \A j \in Keys : <<q, j>> \in bearers' <=> <<q, j>> \in bearers
      BY <1>6, <3>1 DEF Files, AccessTypes, Access!ProvisioningAssumption
    <3>4. FilesFit(r)'
      BY <1>6, <2>1, <3>1, <3>2 DEF FilesFit, Went
    <3> QED
      BY <1>5, <1>7, <2>1, <3>1, <3>2, <3>3, <3>4 DEF AccessTypes
  <2> QED
    BY <2>2, <2>3
<1>11. CASE Access!Publishes(r)
  <2>1. PICK x \in {"ok", "undo"} :
          /\ Access!Goes(r, x)
          /\ \/ /\ manifest = None /\ manifest' = r /\ x = "ok"
                /\ staged' = staged \/ staged' = staged \ {r}
             \/ x = "undo" /\ UNCHANGED <<manifest, staged>>
    BY <1>11 DEF Access!Publishes
  <2>2. run[r].at = "publish" /\ UNCHANGED bearers /\ Went(r, x)
    BY <1>7, <1>11, <2>1, GoesThere DEF Access!Publishes
  <2>3. FilesFit(r)'
    BY <1>6, <2>1, <2>2 DEF FilesFit, Files, Went
  <2>4. None \notin Runs
    BY DEF Access!ProvisioningAssumption
  <2> QED
    BY <1>5, <1>6, <1>7, <2>1, <2>2, <2>3, <2>4 DEF AccessTypes, Files
<1>12. CASE Access!RemovesBearers(r)
  <2>1. PICK rest \in SUBSET Access!Bearers(r) :
          /\ bearers' = (bearers \ Access!Bearers(r)) \cup rest
          /\ Access!Goes(r, IF rest # {} \/ run[r].unsure THEN "keep" ELSE "unstage")
    BY <1>12 DEF Access!RemovesBearers
  <2>2. PICK x \in {"keep", "unstage"} : Access!Goes(r, x) /\ (x = "unstage" => rest = {})
    BY <2>1
  <2>3. run[r].at = "unbear" /\ UNCHANGED <<manifest, staged>> /\ Went(r, x)
    BY <1>7, <1>12, <2>2, GoesThere DEF Access!RemovesBearers
  <2>4. /\ bearers' \subseteq bearers /\ Files(r)' \subseteq Files(r)
        /\ rest = {} => Files(r)' = {}
        /\ \A q \in Runs \ {r} : \A k \in Keys : <<q, k>> \in bearers' <=> <<q, k>> \in bearers
    BY <2>1 DEF Files, Access!Bearers
  <2>5. FilesFit(r)'
    BY <1>6, <2>2, <2>3, <2>4 DEF FilesFit, Went
  <2> QED
    BY <1>5, <1>6, <1>7, <2>2, <2>3, <2>4, <2>5 DEF AccessTypes
<1>13. CASE Access!Unstages(r)
  <2>1. PICK x \in {"failed", "leftover"} :
          /\ Access!Goes(r, x)
          /\ \/ staged' = staged \ {r} /\ x = "failed"
             \/ staged' = staged /\ x = "leftover"
    BY <1>13 DEF Access!Unstages
  <2>2. run[r].at = "unstage" /\ UNCHANGED <<manifest, bearers>> /\ Went(r, x)
    BY <1>7, <1>13, <2>1, GoesThere DEF Access!Unstages
  <2>3. FilesFit(r)'
    BY <1>6, <2>1, <2>2 DEF FilesFit, Files, Went
  <2> QED
    BY <1>5, <1>6, <1>7, <2>1, <2>2, <2>3 DEF AccessTypes, Files
<1>14. CASE Access!Crashes(r)
  <2>1. Went(r, "crashed") /\ run[r].at # "ok" /\ UNCHANGED <<manifest, staged, bearers>>
    BY <1>7, <1>14, GoesThere DEF Access!Crashes, Access!files, Access!Ended
  <2>2. FilesFit(r)'
    BY <1>6, <2>1 DEF FilesFit, Files, Went
  <2> QED
    BY <1>5, <1>6, <1>7, <2>1, <2>2 DEF AccessTypes, Files
<1> QED
  BY <1>8, <1>9, <1>10, <1>11, <1>12, <1>13, <1>14

(* A step leaves the files as they are.                                    *)
LEMMA FilesStay ==
    ASSUME AccessInv, NEW r \in Runs, NEW x \in Phase, Went(r, x), UNCHANGED <<manifest, staged, bearers>>,
           \/ run[r].at = "entitle" /\ x \in {"publish", "undo", "readback"}
           \/ run[r].at = "readback" /\ x \in {"publish", "undo"}
           \/ run[r].at \in {"undo", "undoback"} /\ x \in {"undoback", "unbear"}
    PROVE  FilesOK'
<1>1. \A q \in Runs : Files(q)' = Files(q)
  BY DEF Files
<1>2. FilesFit(r)'
  BY <1>1 DEF AccessInv, FilesOK, FilesFit, Went
<1>3. \A q \in Runs \ {r} : FilesFit(q)'
  BY <1>1 DEF AccessInv, FilesOK, FilesFit, Went
<1> QED
  BY <1>2, <1>3 DEF FilesOK

(* A run asks the database, or reads back what it asked for.               *)
LEMMA RowMoves ==
    ASSUME Access!ProvisioningAssumption, AccessInv, NEW r \in Runs,
           Access!Entitles(r) \/ Access!ReadsBack(r) \/ Access!Undoes(r) \/ Access!UndoReadsBack(r)
    PROVE  AccessInv'
<1> USE DEF AccessInv
<1>1. UNCHANGED <<manifest, staged, bearers, off>>
  BY DEF Access!Entitles, Access!ReadsBack, Access!Undoes, Access!UndoReadsBack, Access!files
<1>2. {"publish", "undo", "readback", "undoback", "unbear"} \subseteq Phase
  BY DEF Phase
<1>3. ASSUME NEW x \in Phase, Went(r, x), FilesOK',
             NEW w, w.by = r, w.on \in BOOLEAN, w.keys \subseteq Keys,
             w \in [by : Runs \cup Disables, on : BOOLEAN, keys : SUBSET Keys],
             \/ Access!Upsert(w) /\ late' = late
             \/ UNCHANGED <<rows, landed>> /\ (late' = late \/ late' = late \cup {w}),
             x = "publish" => <<r, TRUE>> \in landed', x # "ok"
      PROVE  AccessInv'
  <2>1. /\ rows' \in [Keys -> [by : Runs \cup Disables \cup {None}, on : BOOLEAN]]
        /\ \A k \in Keys : rows'[k].by # None => <<rows'[k].by, rows'[k].on>> \in landed'
        /\ \A k \in Keys : rows'[k].on => rows'[k].by \in Runs
        /\ landed \subseteq landed'
    <3>1. CASE Access!Upsert(w)
      BY <1>3, <3>1, UpsertsLand
    <3>2. CASE UNCHANGED <<rows, landed>>
      BY <3>2 DEF AccessTypes, LandedOK
    <3> QED
      BY <1>3, <3>1, <3>2
  <2>2. \A q \in Runs : Files(q)' = Files(q)
    BY <1>1 DEF Files
  <2>3. AccessTypes'
    BY <1>1, <1>3, <2>1, <2>2 DEF AccessTypes, Went
  <2>4. LandedOK'
    BY <1>1, <1>3, <2>1 DEF LandedOK, Went
  <2> QED
    BY <1>3, <2>3, <2>4
<1>4. ASSUME NEW on \in BOOLEAN
      PROVE  LET w == Access!Entitlements(r, on, Roster[r]) IN
             /\ w.by = r /\ w.on = on /\ w.keys = Roster[r] /\ w.keys \subseteq Keys /\ w.on \in BOOLEAN
             /\ w \in [by : Runs \cup Disables, on : BOOLEAN, keys : SUBSET Keys]
  BY DEF Access!Entitlements, Access!ProvisioningAssumption
<1>5. CASE Access!Entitles(r)
  <2> DEFINE w == Access!Enabling(r)
  <2>1. PICK x \in {"publish", "undo", "readback"} :
          /\ Access!Goes(r, x) \/ run' = [run EXCEPT ![r].at = x, ![r].may = TRUE]
          /\ \/ Access!Upsert(w) /\ late' = late
             \/ UNCHANGED <<rows, landed>> /\ (late' = late \/ late' = late \cup {w}) /\ x # "publish"
    BY <1>5 DEF Access!Entitles, Access!Request
  <2>2. Went(r, x) /\ run[r].at = "entitle"
    BY <1>2, <1>5, <2>1, GoesThere DEF Access!Entitles
  <2>3. FilesOK'
    BY <1>1, <1>2, <2>1, <2>2, FilesStay
  <2>4. Access!Upsert(w) => <<r, TRUE>> \in landed'
    BY DEF Access!Upsert, Access!Enabling, Access!Entitlements
  <2>5. w.by = r /\ w.on \in BOOLEAN /\ w.keys \subseteq Keys
        /\ w \in [by : Runs \cup Disables, on : BOOLEAN, keys : SUBSET Keys]
    BY <1>4 DEF Access!Enabling
  <2> HIDE DEF w
  <2> QED
    BY <1>2, <1>3, <2>1, <2>2, <2>3, <2>4, <2>5
<1>6. CASE Access!ReadsBack(r)
  <2>1. PICK x \in {"publish", "undo"} :
          Access!Goes(r, x) /\ (x = "publish" => Access!ExactlyMatch(Access!Enabling(r)))
    BY <1>6 DEF Access!ReadsBack
  <2>2. Went(r, x) /\ run[r].at = "readback" /\ UNCHANGED <<rows, late, landed>>
    BY <1>2, <1>6, <2>1, GoesThere DEF Access!ReadsBack
  <2>3. FilesOK'
    BY <1>1, <1>2, <2>1, <2>2, FilesStay
  <2>4. x = "publish" => <<r, TRUE>> \in landed'
    <3> SUFFICES ASSUME Access!ExactlyMatch(Access!Enabling(r)) PROVE <<r, TRUE>> \in landed
      BY <2>1, <2>2
    <3>1. PICK k \in Roster[r] : k \in Keys
      BY DEF Access!ProvisioningAssumption
    <3>2. rows[k] = [by |-> r, on |-> TRUE] /\ r # None
      BY <3>1 DEF Access!ExactlyMatch, Access!Enabling, Access!Entitlements, Access!ProvisioningAssumption
    <3>3. rows[k].by = r /\ rows[k].on = TRUE
      BY <3>2
    <3>4. <<rows[k].by, rows[k].on>> \in landed
      BY <3>1, <3>2, <3>3 DEF LandedOK
    <3> QED
      BY <3>3, <3>4
  <2> QED
    BY <1>2, <1>3, <1>4, <2>1, <2>2, <2>3, <2>4
<1>7. CASE Access!Undoes(r)
  <2> DEFINE w == Access!Disabling(r)
  <2>1. PICK x \in {"unbear", "undoback"} :
          /\ Access!Goes(r, x) \/ run' = [run EXCEPT ![r].at = x, ![r].unsure = TRUE]
          /\ \/ Access!Upsert(w) /\ late' = late
             \/ UNCHANGED <<rows, landed>> /\ (late' = late \/ late' = late \cup {w})
    BY <1>7 DEF Access!Undoes, Access!Request
  <2>2. Went(r, x) /\ run[r].at = "undo"
    BY <1>2, <1>7, <2>1, GoesThere DEF Access!Undoes
  <2>3. FilesOK'
    BY <1>1, <1>2, <2>1, <2>2, FilesStay
  <2>4. w.by = r /\ w.on \in BOOLEAN /\ w.keys \subseteq Keys
        /\ w \in [by : Runs \cup Disables, on : BOOLEAN, keys : SUBSET Keys]
    BY <1>4 DEF Access!Disabling
  <2> HIDE DEF w
  <2> QED
    BY <1>2, <1>3, <2>1, <2>2, <2>3, <2>4
<1>8. CASE Access!UndoReadsBack(r)
  <2>1. Access!Goes(r, "unbear") \/ run' = [run EXCEPT ![r].at = "unbear", ![r].unsure = TRUE]
    BY <1>8 DEF Access!UndoReadsBack
  <2>2. Went(r, "unbear") /\ run[r].at = "undoback" /\ UNCHANGED <<rows, late, landed>>
    BY <1>2, <1>8, <2>1, GoesThere DEF Access!UndoReadsBack
  <2>3. FilesOK'
    BY <1>1, <1>2, <2>2, FilesStay
  <2> QED
    BY <1>2, <1>3, <1>4, <2>2, <2>3
<1> QED
  BY <1>5, <1>6, <1>7, <1>8

(* A disable command, or an upsert that was given up and comes late.       *)
LEMMA DisableMoves ==
    ASSUME Access!ProvisioningAssumption, AccessInv,
           \/ \E d \in Disables : Access!DisableReadsBack(d) \/ \E k \in Keys : Access!DisableAsks(d, k)
           \/ \E w \in late : Access!LandsLate(w)
    PROVE  AccessInv'
<1> USE DEF AccessInv
<1>1. UNCHANGED <<manifest, staged, bearers, run>>
  BY DEF Access!DisableReadsBack, Access!DisableAsks, Access!LandsLate, Access!files
<1>2. FilesOK' /\ \A r \in Runs : Files(r)' = Files(r)
  BY <1>1 DEF FilesOK, FilesFit, Files
<1>3. ASSUME NEW w \in late, Access!LandsLate(w)
      PROVE  AccessInv'
  <2>1. Access!Upsert(w) /\ late' = late \ {w} /\ UNCHANGED off
    BY <1>3 DEF Access!LandsLate
  <2>2. w.by \in Runs \cup Disables /\ w.on \in BOOLEAN /\ w.keys \subseteq Keys /\ (w.on => w.by \in Runs)
    BY DEF AccessTypes, LandedOK
  <2>3. /\ rows' \in [Keys -> [by : Runs \cup Disables \cup {None}, on : BOOLEAN]]
        /\ \A k \in Keys : rows'[k].by # None => <<rows'[k].by, rows'[k].on>> \in landed'
        /\ \A k \in Keys : rows'[k].on => rows'[k].by \in Runs
        /\ landed \subseteq landed'
    BY <2>1, <2>2, UpsertsLand
  <2>4. AccessTypes'
    BY <1>1, <1>2, <2>1, <2>3 DEF AccessTypes
  <2>5. LandedOK'
    BY <1>1, <2>1, <2>3 DEF LandedOK
  <2> QED
    BY <1>2, <2>4, <2>5
<1>4. ASSUME NEW d \in Disables, NEW k \in Keys, Access!DisableAsks(d, k)
      PROVE  AccessInv'
  <2> DEFINE w == Access!Entitlements(d, FALSE, {k})
  <2>1. PICK x \in {"ok", "failed", "readback"} :
          /\ off' = [off EXCEPT ![d] = [at |-> x, key |-> k]]
          /\ \/ Access!Upsert(w) /\ late' = late
             \/ UNCHANGED <<rows, landed>> /\ (late' = late \/ late' = late \cup {w}) /\ x # "ok"
    BY <1>4 DEF Access!DisableAsks, Access!Request
  <2>2. /\ w.by = d /\ w.on = FALSE /\ w.keys \subseteq Keys
        /\ w \in [by : Runs \cup Disables, on : BOOLEAN, keys : SUBSET Keys]
    BY DEF Access!Entitlements
  <2> HIDE DEF w
  <2>3. /\ rows' \in [Keys -> [by : Runs \cup Disables \cup {None}, on : BOOLEAN]]
        /\ \A j \in Keys : rows'[j].by # None => <<rows'[j].by, rows'[j].on>> \in landed'
        /\ \A j \in Keys : rows'[j].on => rows'[j].by \in Runs
        /\ landed \subseteq landed' /\ (x = "ok" => <<d, FALSE>> \in landed')
    <3>1. CASE Access!Upsert(w)
      BY <2>2, <3>1, UpsertsLand
    <3>2. CASE UNCHANGED <<rows, landed>> /\ x # "ok"
      BY <3>2 DEF AccessTypes, LandedOK
    <3> QED
      BY <2>1, <3>1, <3>2
  <2>4. AccessTypes'
    BY <1>1, <1>2, <2>1, <2>2, <2>3 DEF AccessTypes
  <2>5. LandedOK'
    BY <1>1, <2>1, <2>2, <2>3 DEF LandedOK, AccessTypes
  <2> QED
    BY <1>2, <2>4, <2>5
<1>5. ASSUME NEW d \in Disables, Access!DisableReadsBack(d)
      PROVE  AccessInv'
  <2>1. PICK x \in {"ok", "failed"} :
          /\ off' = [off EXCEPT ![d].at = x]
          /\ x = "ok" => Access!ExactlyMatch(Access!Entitlements(d, FALSE, {off[d].key}))
    BY <1>5 DEF Access!DisableReadsBack
  <2>2. off[d].at = "readback" /\ UNCHANGED <<rows, late, landed>> /\ off[d].key \in Keys
    BY <1>5 DEF Access!DisableReadsBack, AccessTypes
  <2>3. x = "ok" => <<d, FALSE>> \in landed
    <3> SUFFICES ASSUME Access!ExactlyMatch(Access!Entitlements(d, FALSE, {off[d].key}))
                 PROVE  <<d, FALSE>> \in landed
      BY <2>1
    <3>1. rows[off[d].key] = [by |-> d, on |-> FALSE]
      BY DEF Access!ExactlyMatch, Access!Entitlements
    <3>2. rows[off[d].key].by = d /\ rows[off[d].key].on = FALSE
      BY <3>1
    <3>3. <<rows[off[d].key].by, rows[off[d].key].on>> \in landed
      BY <2>2, <3>2 DEF LandedOK, Access!ProvisioningAssumption
    <3> QED
      BY <3>2, <3>3
  <2>4. AccessTypes'
    BY <1>1, <1>2, <2>1, <2>2 DEF AccessTypes
  <2>5. LandedOK'
    BY <1>1, <2>1, <2>2, <2>3 DEF LandedOK, AccessTypes
  <2> QED
    BY <1>2, <2>4, <2>5
<1> QED
  BY <1>3, <1>4, <1>5

LEMMA AccessStarts ==
    ASSUME Access!ProvisioningAssumption
    PROVE  Access!Init => AccessInv
<1> SUFFICES ASSUME Access!Init PROVE AccessInv
  OBVIOUS
<1> USE DEF Access!Init, Access!ProvisioningAssumption
<1>1. \A r \in Runs : Files(r) = {} /\ run[r] = [at |-> "start", owned |-> FALSE, may |-> FALSE, unsure |-> FALSE]
  BY DEF Files
<1>2. AccessTypes
  <2>1. rows \in [Keys -> [by : Runs \cup Disables \cup {None}, on : BOOLEAN]]
    BY DEF Access!NoRow
  <2>2. run \in [Runs -> [at : Phase, owned : BOOLEAN, may : BOOLEAN, unsure : BOOLEAN]]
    BY DEF Phase
  <2>3. off \in [Disables -> [at : {"start", "ok", "failed", "readback"}, key : Keys \cup {None}]]
        /\ \A d \in Disables : off[d].at = "start"
    OBVIOUS
  <2> QED
    BY <1>1, <2>1, <2>2, <2>3 DEF AccessTypes
<1>3. FilesOK
  BY <1>1 DEF FilesOK, FilesFit
<1>4. LandedOK
  <2>1. \A k \in Keys : rows[k].by = None /\ rows[k].on = FALSE
    BY DEF Access!NoRow
  <2> QED
    BY <1>1, <2>1 DEF LandedOK
<1> QED
  BY <1>2, <1>3, <1>4 DEF AccessInv

LEMMA AccessInvariance ==
    ASSUME Access!ProvisioningAssumption
    PROVE  Access!Spec => []AccessInv
<1>1. Access!Init => AccessInv
  BY AccessStarts
<1>2. AccessInv /\ [Access!Next]_Access!vars => AccessInv'
  <2> SUFFICES ASSUME AccessInv, [Access!Next]_Access!vars PROVE AccessInv'
    OBVIOUS
  <2>1. CASE UNCHANGED Access!vars
    <3>1. UNCHANGED <<rows, late, manifest, staged, bearers, run, off, landed, strays>>
      BY <2>1 DEF Access!vars, Access!files
    <3> QED
      BY <3>1 DEF AccessInv, AccessTypes, FilesOK, FilesFit, Files, LandedOK
  <2> QED
    BY <2>1, FileMoves, RowMoves, DisableMoves DEF Access!Next
<1> QED
  BY <1>1, <1>2, PTL DEF Access!Spec

(* Whatever fails or dies, and whenever: a bearer file on disk is named by *)
(* a manifest beside it, so that it can be revoked.                        *)
THEOREM BearersAreListed ==
    ASSUME Access!ProvisioningAssumption
    PROVE  Access!Spec => []Access!EveryBearerIsListed
<1>1. AccessInv => Access!EveryBearerIsListed
  <2> SUFFICES ASSUME AccessInv, NEW b \in bearers PROVE Access!Listed(b[1])
    BY DEF Access!EveryBearerIsListed
  <2>1. b[1] \in Runs /\ b[2] \in Keys /\ b = <<b[1], b[2]>>
    BY DEF AccessInv, AccessTypes
  <2>2. b[2] \in Files(b[1])
    BY <2>1 DEF Files
  <2> QED
    BY <2>1, <2>2 DEF AccessInv, FilesOK, FilesFit, Access!Listed
<1> QED
  BY <1>1, AccessInvariance, PTL

(* A provision that says it succeeded has written its rows and all its     *)
(* files and published its manifest; a disable that says so was executed,  *)
(* also where answers were lost and others wrote the row meanwhile; and a  *)
(* published manifest stays.                                               *)
THEOREM CommandsTellTheTruth ==
    ASSUME Access!ProvisioningAssumption
    PROVE  Access!Spec => /\ []Access!SuccessIsComplete /\ []Access!DisablesHappened
                          /\ [][Access!ManifestsStay]_Access!vars
<1>1. AccessInv => Access!SuccessIsComplete
  <2> SUFFICES ASSUME AccessInv, NEW r \in Runs, run[r].at = "ok"
               PROVE  /\ manifest = r /\ {b[2] : b \in Access!Bearers(r)} = Roster[r]
                      /\ <<r, TRUE>> \in landed
    BY DEF Access!SuccessIsComplete
  <2>1. Files(r) = Roster[r] /\ manifest = r /\ <<r, TRUE>> \in landed
    BY DEF AccessInv, FilesOK, FilesFit, LandedOK
  <2>2. \A b \in Access!Bearers(r) : b[2] \in Files(r)
    <3>1. \A b \in Runs \X Keys : b = <<b[1], b[2]>> /\ b[2] \in Keys
      OBVIOUS
    <3>2. \A b \in Access!Bearers(r) : b \in bearers /\ b[1] = r /\ b \in Runs \X Keys
      BY DEF AccessInv, AccessTypes, Access!Bearers
    <3> QED
      BY <3>1, <3>2 DEF Files
  <2>3. \A k \in Files(r) : <<r, k>> \in Access!Bearers(r)
    BY DEF Access!Bearers, Files
  <2>4. \A k \in Files(r) : k \in {b[2] : b \in Access!Bearers(r)}
    <3>1. \A k \in Files(r) : <<r, k>> \in Access!Bearers(r) /\ <<r, k>>[2] = k
      BY <2>3
    <3> QED
      BY <3>1
  <2> QED
    BY <2>1, <2>2, <2>4
<1>2. AccessInv => Access!DisablesHappened
  BY DEF AccessInv, LandedOK, Access!DisablesHappened
<1>3. [Access!Next]_Access!vars => [Access!ManifestsStay]_Access!vars
  <2> SUFFICES ASSUME Access!Next, manifest # None PROVE manifest' = manifest
    BY DEF Access!ManifestsStay
  <2> QED
    BY DEF Access!Next, Access!Starts, Access!Stages, Access!WritesBearer, Access!Entitles, Access!ReadsBack,
       Access!Publishes, Access!Undoes, Access!UndoReadsBack, Access!RemovesBearers, Access!Unstages,
       Access!Crashes, Access!DisableAsks, Access!DisableReadsBack, Access!LandsLate, Access!files
<1> QED
  BY <1>1, <1>2, <1>3, AccessInvariance, PTL DEF Access!Spec

-----------------------------------------------------------------------------
\* Nothing that run r switched on is on, unless it was executed too late.
NoGrant(r) == r \in strays \/ \A k \in Keys : rows[k].by = r => ~rows[k].on

\* A run that may have asked is listed until it failed, and it fails only when
\* it saw its rows off; what it asked for may still be executed.
GrantFits(r) ==
    /\ run[r].at \in {"start", "stage", "bearers", "entitle"} => ~run[r].may
    /\ run[r].unsure => run[r].at \in {"unbear", "keep", "crashed"}
    /\ run[r].may => r \in staged \/ manifest = r \/ run[r].at = "failed"
    /\ ~run[r].may \/ Access!Undone(r) => NoGrant(r)
    /\ \A k \in Keys : rows[k].by = r => k \in Roster[r]
    /\ \A w \in late : w.by = r => w.keys = Roster[r] /\ (w.on => run[r].may)

GrantsOK == \A r \in Runs : GrantFits(r)

(* What a step does to the two notes a run keeps for its undoing.          *)
LEMMA NotesStay ==
    ASSUME AccessTypes, NEW r \in Runs, NEW x \in Phase
    PROVE  /\ Access!Goes(r, x) \/ run' = [run EXCEPT ![r].at = x, ![r].owned = TRUE]
                => run'[r].may = run[r].may /\ run'[r].unsure = run[r].unsure
           /\ run' = [run EXCEPT ![r].at = x, ![r].may = TRUE]
                => run'[r].may /\ run'[r].unsure = run[r].unsure
           /\ run' = [run EXCEPT ![r].at = x, ![r].unsure = TRUE]
                => run'[r].may = run[r].may /\ run'[r].unsure
<1> DEFINE S == [at : Phase, owned : BOOLEAN, may : BOOLEAN, unsure : BOOLEAN]
<1>1. run \in [Runs -> S] /\ run[r] \in S
  BY DEF AccessTypes
<1>2. ASSUME Access!Goes(r, x) PROVE run'[r].may = run[r].may /\ run'[r].unsure = run[r].unsure
  <2>1. run'[r] = [run[r] EXCEPT !.at = x]
    BY <1>1, <1>2 DEF Access!Goes
  <2> QED
    BY <1>1, <2>1
<1>3. ASSUME run' = [run EXCEPT ![r].at = x, ![r].owned = TRUE]
      PROVE  run'[r].may = run[r].may /\ run'[r].unsure = run[r].unsure
  <2>1. run'[r] = [run[r] EXCEPT !.at = x, !.owned = TRUE]
    BY <1>1, <1>3
  <2> QED
    BY <1>1, <2>1
<1>4. ASSUME run' = [run EXCEPT ![r].at = x, ![r].may = TRUE]
      PROVE  run'[r].may /\ run'[r].unsure = run[r].unsure
  <2>1. run'[r] = [run[r] EXCEPT !.at = x, !.may = TRUE]
    BY <1>1, <1>4
  <2> QED
    BY <1>1, <2>1
<1>5. ASSUME run' = [run EXCEPT ![r].at = x, ![r].unsure = TRUE]
      PROVE  run'[r].may = run[r].may /\ run'[r].unsure
  <2>1. run'[r] = [run[r] EXCEPT !.at = x, !.unsure = TRUE]
    BY <1>1, <1>5
  <2> QED
    BY <1>1, <2>1
<1> QED
  BY <1>2, <1>3, <1>4, <1>5

(* A run's steps among its files and its readback keep its grants fitting. *)
LEMMA GrantMoves ==
    ASSUME Access!ProvisioningAssumption, AccessInv, GrantsOK, NEW r \in Runs,
           \/ Access!Starts(r) \/ Access!Stages(r) \/ Access!WritesBearer(r) \/ Access!Publishes(r)
           \/ Access!RemovesBearers(r) \/ Access!Unstages(r) \/ Access!Crashes(r) \/ Access!ReadsBack(r)
    PROVE  GrantsOK'
<1> USE DEF AccessInv
<1>1. UNCHANGED <<rows, late, strays>>
  BY DEF Access!Starts, Access!Stages, Access!WritesBearer, Access!Publishes, Access!RemovesBearers,
         Access!Unstages, Access!Crashes, Access!ReadsBack
<1>2. \A q \in Runs : NoGrant(q)' <=> NoGrant(q)
  BY <1>1 DEF NoGrant
<1>3. ASSUME NEW x \in Phase, Went(r, x), run'[r].may = run[r].may, run'[r].unsure = run[r].unsure,
             \A q \in Runs \ {r} : q \in staged \/ manifest = q => q \in staged' \/ manifest' = q,
             r \in staged \/ manifest = r => r \in staged' \/ manifest' = r \/ x = "failed",
             run[r].at # "failed", run[r].unsure => x \in {"unbear", "keep", "crashed"},
             x \in {"start", "stage", "bearers", "entitle"} => run[r].at \in {"start", "stage", "bearers", "entitle"},
             x \in {"unbear", "unstage", "failed"} => ~run[r].may \/ Access!Undone(r)
      PROVE  GrantsOK'
  <2>1. GrantFits(r)'
    BY <1>1, <1>2, <1>3 DEF GrantsOK, GrantFits, Went, Access!Undone
  <2>2. \A q \in Runs \ {r} : GrantFits(q)'
    BY <1>1, <1>2, <1>3 DEF GrantsOK, GrantFits, Went, Access!Undone
  <2> QED
    BY <1>1, <2>1, <2>2 DEF GrantsOK
<1>4. {"start", "stage", "bearers", "entitle", "undo", "unstage", "ok", "failed", "keep", "leftover",
       "crashed", "publish"} \subseteq Phase
  BY DEF Phase, Access!Ended
<1>5. /\ run[r].at = "start" => ~run[r].may
      /\ run[r].unsure => run[r].at \in {"unbear", "keep", "crashed"}
      /\ run[r].at = "unstage" => Access!Undone(r)
  BY DEF GrantsOK, GrantFits, Access!Undone
<1>6. CASE Access!Starts(r)
  <2>1. PICK x \in {"stage", "failed"} : Access!Goes(r, x)
    BY <1>6 DEF Access!Starts
  <2>2. run[r].at = "start" /\ UNCHANGED <<manifest, staged>> /\ Went(r, x)
    BY <1>4, <1>6, <2>1, GoesThere DEF Access!Starts, Access!files
  <2> QED
    BY <1>3, <1>4, <1>5, <2>1, <2>2, NotesStay
<1>7. CASE Access!Stages(r)
  <2>1. PICK x \in {"bearers", "undo"} :
          \/ staged' = staged \cup {r} /\ run' = [run EXCEPT ![r].at = x, ![r].owned = TRUE]
          \/ staged' = staged /\ x = "undo" /\ Access!Goes(r, x)
    BY <1>7 DEF Access!Stages
  <2>2. run[r].at = "stage" /\ UNCHANGED manifest /\ Went(r, x)
    BY <1>4, <1>7, <2>1, GoesThere DEF Access!Stages
  <2> QED
    BY <1>3, <1>4, <1>5, <2>1, <2>2, NotesStay
<1>8. CASE Access!WritesBearer(r)
  <2>1. PICK x \in {"bearers", "undo", "entitle"} : Access!Goes(r, x)
    BY <1>8 DEF Access!WritesBearer
  <2>2. run[r].at = "bearers" /\ UNCHANGED <<manifest, staged>> /\ Went(r, x)
    BY <1>4, <1>8, <2>1, GoesThere DEF Access!WritesBearer
  <2> QED
    BY <1>3, <1>4, <1>5, <2>1, <2>2, NotesStay
<1>9. CASE Access!Publishes(r)
  <2>1. PICK x \in {"ok", "undo"} :
          /\ Access!Goes(r, x)
          /\ \/ /\ manifest = None /\ manifest' = r
                /\ staged' = staged \/ staged' = staged \ {r}
             \/ UNCHANGED <<manifest, staged>>
    BY <1>9 DEF Access!Publishes
  <2>2. run[r].at = "publish" /\ Went(r, x) /\ None \notin Runs
    BY <1>4, <1>9, <2>1, GoesThere DEF Access!Publishes, Access!ProvisioningAssumption
  <2> QED
    BY <1>3, <1>4, <1>5, <2>1, <2>2, NotesStay
<1>10. CASE Access!RemovesBearers(r)
  <2>1. PICK x \in {"keep", "unstage"} : Access!Goes(r, x) /\ (x = "unstage" => Access!Undone(r) /\ ~run[r].unsure)
    BY <1>10 DEF Access!Undone, Access!RemovesBearers
  <2>2. run[r].at = "unbear" /\ UNCHANGED <<manifest, staged>> /\ Went(r, x)
    BY <1>4, <1>10, <2>1, GoesThere DEF Access!RemovesBearers
  <2> QED
    BY <1>3, <1>4, <1>5, <2>1, <2>2, NotesStay
<1>11. CASE Access!Unstages(r)
  <2>1. PICK x \in {"failed", "leftover"} :
          Access!Goes(r, x) /\ ((staged' = staged \ {r} /\ x = "failed") \/ staged' = staged)
    BY <1>11 DEF Access!Unstages
  <2>2. run[r].at = "unstage" /\ UNCHANGED manifest /\ Went(r, x)
    BY <1>4, <1>11, <2>1, GoesThere DEF Access!Unstages
  <2>3. run'[r].may = run[r].may /\ run'[r].unsure = run[r].unsure
    BY <1>4, <2>1, NotesStay
  <2>4. Access!Undone(r) /\ ~run[r].unsure
    BY <1>5, <2>2
  <2>5. /\ \A q \in Runs \ {r} : q \in staged \/ manifest = q => q \in staged' \/ manifest' = q
        /\ r \in staged \/ manifest = r => r \in staged' \/ manifest' = r \/ x = "failed"
    BY <2>1, <2>2
  <2> QED
    BY <1>3, <1>4, <2>1, <2>2, <2>3, <2>4, <2>5
<1>12. CASE Access!Crashes(r)
  <2>1. /\ Access!Goes(r, "crashed") /\ Went(r, "crashed") /\ UNCHANGED <<manifest, staged>>
        /\ run[r].at # "failed"
    BY <1>4, <1>12, GoesThere DEF Access!Crashes, Access!files, Access!Ended
  <2> QED
    BY <1>3, <1>4, <1>5, <2>1, NotesStay
<1>13. CASE Access!ReadsBack(r)
  <2>1. PICK x \in {"publish", "undo"} : Access!Goes(r, x)
    BY <1>13 DEF Access!ReadsBack
  <2>2. run[r].at = "readback" /\ Went(r, x) /\ UNCHANGED <<manifest, staged>>
    BY <1>4, <1>13, <2>1, GoesThere DEF Access!ReadsBack, Access!files
  <2> QED
    BY <1>3, <1>4, <1>5, <2>1, <2>2, NotesStay
<1> QED
  BY <1>6, <1>7, <1>8, <1>9, <1>10, <1>11, <1>12, <1>13

LEMMA GrantRequests ==
    ASSUME Access!ProvisioningAssumption, AccessInv, GrantsOK,
           \/ \E r \in Runs : Access!Entitles(r) \/ Access!Undoes(r) \/ Access!UndoReadsBack(r)
           \/ \E d \in Disables : Access!DisableReadsBack(d) \/ \E k \in Keys : Access!DisableAsks(d, k)
           \/ \E w \in late : Access!LandsLate(w)
    PROVE  GrantsOK'
<1> USE DEF AccessInv
<1>1. UNCHANGED <<manifest, staged, bearers>>
  BY DEF Access!Entitles, Access!Undoes, Access!UndoReadsBack, Access!DisableReadsBack,
     Access!DisableAsks, Access!LandsLate, Access!files
<1>2. ASSUME NEW w, w.on \in BOOLEAN, Access!Upsert(w)
      PROVE  /\ \A k \in Keys \ w.keys : rows'[k] = rows[k]
             /\ \A k \in Keys \cap w.keys : rows'[k].by = w.by /\ rows'[k].on = w.on
  BY <1>2 DEF Access!Upsert
\* Of what another writes, or asks for, run q keeps its own.
<1>3. ASSUME NEW q \in Runs, run'[q] = run[q], strays \subseteq strays',
             \A k \in Keys : rows'[k].by = q => rows'[k] = rows[k],
             \A w \in late' : w.by = q => w \in late
      PROVE  GrantFits(q)'
  <2>1. NoGrant(q) => NoGrant(q)'
    BY <1>3 DEF NoGrant
  <2>2. GrantFits(q)
    BY DEF GrantsOK
  <2> QED
    BY <1>1, <1>3, <2>1, <2>2 DEF GrantFits, Access!Undone
<1>5. ASSUME NEW d \in Disables, NEW k \in Keys, Access!DisableAsks(d, k)
      PROVE  GrantsOK'
  <2> DEFINE w == Access!Entitlements(d, FALSE, {k})
  <2>1. /\ UNCHANGED <<run, strays>> /\ (Access!Upsert(w) \/ UNCHANGED rows)
        /\ late' = late \/ late' = late \cup {w}
    BY <1>5 DEF Access!DisableAsks, Access!Request
  <2>2. w.by = d /\ w.on \in BOOLEAN
    BY DEF Access!Entitlements
  <2>3. d \notin Runs
    BY DEF Access!ProvisioningAssumption
  <2> HIDE DEF w
  <2>4. \A q \in Runs : \A j \in Keys : rows'[j].by = q => rows'[j] = rows[j]
    BY <1>2, <2>1, <2>2, <2>3
  <2> QED
    BY <1>3, <2>1, <2>2, <2>3, <2>4 DEF GrantsOK
<1>6. ASSUME NEW d \in Disables, Access!DisableReadsBack(d)
      PROVE  GrantsOK'
  <2>1. UNCHANGED <<run, rows, late, strays>>
    BY <1>6 DEF Access!DisableReadsBack
  <2> QED
    BY <1>3, <2>1 DEF GrantsOK
<1>7. ASSUME NEW r \in Runs, NEW x \in Phase, Went(r, x), GrantFits(r)',
             \A j \in Keys : rows'[j].by # r => rows'[j] = rows[j],
             \A w \in late' : w.by # r => w \in late, strays' = strays
      PROVE  GrantsOK'
  <2>1. \A q \in Runs \ {r} : GrantFits(q)'
    BY <1>3, <1>7 DEF Went
  <2> QED
    BY <1>7, <2>1 DEF GrantsOK
<1>8. {"publish", "undo", "readback", "undoback", "unbear"} \subseteq Phase
  BY DEF Phase
<1>9. ASSUME NEW r \in Runs, Access!Entitles(r)
      PROVE  GrantsOK'
  <2> DEFINE w == Access!Enabling(r)
  <2>1. PICK x \in {"publish", "undo", "readback"} :
          \/ /\ x # "undo" /\ run' = [run EXCEPT ![r].at = x, ![r].may = TRUE]
             /\ Access!Upsert(w) \/ UNCHANGED rows
             /\ late' = late \/ late' = late \cup {w}
          \/ x = "undo" /\ Access!Goes(r, x) /\ UNCHANGED <<rows, late>>
    BY <1>9 DEF Access!Entitles, Access!Request
  <2>2. w.by = r /\ w.on \in BOOLEAN /\ w.keys = Roster[r]
    BY DEF Access!Enabling, Access!Entitlements
  <2> HIDE DEF w
  <2>3. /\ Went(r, x) /\ run[r].at = "entitle" /\ r \in staged /\ UNCHANGED strays
        /\ ~run[r].unsure
    BY <1>8, <1>9, <2>1, GoesThere DEF Access!Entitles, FilesOK, FilesFit, GrantsOK, GrantFits
  <2>4. /\ \A j \in Keys : rows'[j].by # r => rows'[j] = rows[j]
        /\ \A j \in Keys : rows'[j].by = r => j \in Roster[r]
        /\ \A v \in late' : v.by # r => v \in late
        /\ \A v \in late' : v.by = r => v.keys = Roster[r]
    BY <1>2, <2>1, <2>2 DEF GrantsOK, GrantFits
  <2>5. CASE x # "undo"
    <3>1. run'[r].may /\ ~run'[r].unsure
      BY <1>8, <2>1, <2>3, <2>5, NotesStay
    <3>2. GrantFits(r)'
      BY <1>1, <2>1, <2>3, <2>4, <2>5, <3>1 DEF GrantFits, Went, Access!Undone
    <3> QED
      BY <1>7, <1>8, <2>1, <2>3, <2>4, <3>2
  <2>6. CASE x = "undo"
    <3>1. run'[r].may = run[r].may /\ ~run'[r].unsure /\ UNCHANGED <<rows, late>>
      BY <1>8, <2>1, <2>3, <2>6, NotesStay
    <3>2. NoGrant(r)' <=> NoGrant(r)
      BY <2>3, <3>1 DEF NoGrant
    <3>3. GrantFits(r)'
      BY <1>1, <2>3, <2>4, <2>6, <3>1, <3>2 DEF GrantsOK, GrantFits, Went, Access!Undone
    <3> QED
      BY <1>7, <1>8, <2>1, <2>3, <2>4, <3>3
  <2> QED
    BY <2>5, <2>6
<1>10. ASSUME NEW r \in Runs, Access!Undoes(r)
      PROVE  GrantsOK'
  <2> DEFINE w == Access!Disabling(r)
  <2>1. PICK x \in {"unbear", "undoback"} :
          /\ \/ x = "unbear" /\ Access!Goes(r, x) /\ (Access!Upsert(w) \/ (~run[r].may /\ UNCHANGED rows))
             \/ x = "unbear" /\ run' = [run EXCEPT ![r].at = x, ![r].unsure = TRUE] /\ UNCHANGED rows /\ run[r].may
             \/ x = "undoback" /\ Access!Goes(r, x) /\ (Access!Upsert(w) \/ UNCHANGED rows) /\ run[r].may
          /\ late' = late \/ late' = late \cup {w}
    BY <1>10 DEF Access!Undoes, Access!Request
  <2>2. w.by = r /\ w.on = FALSE /\ w.keys = Roster[r]
    BY DEF Access!Disabling, Access!Entitlements
  <2> HIDE DEF w
  <2>3. Went(r, x) /\ run[r].at = "undo" /\ UNCHANGED strays /\ ~run[r].unsure
    BY <1>8, <1>10, <2>1, GoesThere DEF Access!Undoes, GrantsOK, GrantFits
  <2>4. \A j \in Keys : rows[j].by = r => j \in Roster[r]
    BY DEF GrantsOK, GrantFits
  <2>5. /\ \A j \in Keys : rows'[j].by # r => rows'[j] = rows[j]
        /\ \A j \in Keys : rows'[j].by = r => j \in Roster[r]
        /\ Access!Upsert(w) => NoGrant(r)'
        /\ NoGrant(r) => NoGrant(r)'
        /\ \A v \in late' : v.by # r => v \in late
        /\ \A v \in late' : v.by = r => v.keys = Roster[r] /\ (v.on => run[r].may)
    <3>3. /\ \A v \in late' : v.by # r => v \in late
          /\ \A v \in late' : v.by = r => v.keys = Roster[r] /\ (v.on => run[r].may)
      BY <2>1, <2>2 DEF GrantsOK, GrantFits
    <3>1. CASE Access!Upsert(w)
      <4>1. /\ \A j \in Keys \ Roster[r] : rows'[j] = rows[j]
            /\ \A j \in Keys \cap Roster[r] : rows'[j].by = r /\ ~rows'[j].on
        BY <2>2, <3>1 DEF Access!Upsert
      <4>2. NoGrant(r)'
        BY <2>4, <4>1 DEF NoGrant
      <4> QED
        BY <2>4, <3>3, <4>1, <4>2
    <3>2. CASE ~Access!Upsert(w)
      <4>1. rows' = rows
        BY <2>1, <3>2
      <4> QED
        BY <2>3, <2>4, <3>2, <3>3, <4>1 DEF NoGrant
    <3> QED
      BY <3>1, <3>2
  <2>6. /\ run'[r].may = run[r].may
        /\ x = "unbear" => run'[r].unsure \/ NoGrant(r)'
        /\ x = "undoback" => ~run'[r].unsure
    <3>1. run[r].may \/ NoGrant(r)
      BY DEF GrantsOK, GrantFits
    <3> QED
      BY <1>8, <2>1, <2>3, <2>5, <3>1, NotesStay
  <2>7. r \in staged \/ manifest = r \/ ~run[r].may
    BY <2>3 DEF GrantsOK, GrantFits
  <2>8. NoGrant(r)' \/ run[r].may
    BY <2>5 DEF GrantsOK, GrantFits
  <2>9. GrantFits(r)'
    BY <1>1, <2>1, <2>3, <2>5, <2>6, <2>7, <2>8 DEF GrantFits, Went, Access!Undone
  <2> QED
    BY <1>7, <1>8, <2>1, <2>3, <2>5, <2>9
<1>11. ASSUME NEW r \in Runs, Access!UndoReadsBack(r)
      PROVE  GrantsOK'
  <2>1. /\ run[r].at = "undoback" /\ UNCHANGED <<rows, late, strays>>
        /\ \/ Access!ExactlyMatch(Access!Disabling(r)) /\ Access!Goes(r, "unbear")
           \/ run' = [run EXCEPT ![r].at = "unbear", ![r].unsure = TRUE]
    BY <1>11 DEF Access!UndoReadsBack
  <2>2. Went(r, "unbear") /\ run'[r].may = run[r].may
    BY <1>8, <2>1, GoesThere, NotesStay
  <2>3. NoGrant(r)' <=> NoGrant(r)
    BY <2>1 DEF NoGrant
  <2>4. run'[r].unsure \/ NoGrant(r)
    <3>1. ASSUME Access!ExactlyMatch(Access!Disabling(r)) PROVE NoGrant(r)
      <4>1. \A j \in Roster[r] : rows[j] = [by |-> r, on |-> FALSE]
        BY <3>1 DEF Access!ExactlyMatch, Access!Disabling, Access!Entitlements
      <4>2. \A j \in Roster[r] : ~rows[j].on
        BY <4>1
      <4> QED
        BY <4>2 DEF NoGrant, GrantsOK, GrantFits
    <3> QED
      BY <1>8, <2>1, <3>1, NotesStay
  <2>5. GrantFits(r)'
    BY <1>1, <2>1, <2>2, <2>3, <2>4 DEF GrantsOK, GrantFits, Went, Access!Undone
  <2> QED
    BY <1>7, <1>8, <2>1, <2>2, <2>5
<1>12. ASSUME NEW w \in late, Access!LandsLate(w)
       PROVE  GrantsOK'
  <2>1. /\ Access!Upsert(w) /\ UNCHANGED run /\ late' \subseteq late /\ strays \subseteq strays'
        /\ \A q \in Runs : w.on /\ w.by = q /\ Access!Undone(q) => q \in strays'
    BY <1>12 DEF Access!LandsLate
  <2>2. w.on \in BOOLEAN
    BY DEF AccessTypes
  <2>3. ASSUME NEW q \in Runs, w.by # q PROVE GrantFits(q)'
    BY <1>2, <1>3, <2>1, <2>2, <2>3
  <2>4. ASSUME NEW q \in Runs, w.by = q PROVE GrantFits(q)'
    <3>1. w.keys = Roster[q] /\ (w.on => run[q].may) /\ GrantFits(q)
      BY <2>4 DEF GrantsOK, GrantFits
    <3>2. /\ \A k \in Keys \ Roster[q] : rows'[k] = rows[k]
          /\ \A k \in Keys \cap Roster[q] : rows'[k].by = q /\ rows'[k].on = w.on
      BY <1>2, <2>1, <2>2, <2>4, <3>1
    <3>3. ~w.on /\ NoGrant(q) => NoGrant(q)'
      BY <2>1, <3>2 DEF NoGrant
    <3>4. w.on /\ Access!Undone(q) => NoGrant(q)'
      BY <2>1, <2>4 DEF NoGrant
    <3>5. ~run'[q].may \/ Access!Undone(q)' => NoGrant(q)'
      BY <2>1, <2>2, <3>1, <3>3, <3>4 DEF GrantFits, Access!Undone
    <3>6. \A k \in Keys : rows'[k].by = q => k \in Roster[q]
      BY <3>1, <3>2 DEF GrantFits
    <3> QED
      BY <1>1, <2>1, <3>1, <3>5, <3>6 DEF GrantFits
  <2> QED
    BY <2>3, <2>4 DEF GrantsOK
<1> QED
  BY <1>5, <1>6, <1>9, <1>10, <1>11, <1>12

(* Whenever the database executes what a command gave up waiting for: a    *)
(* row that is on is named by a manifest, and a run that reports that it   *)
(* failed and cleaned up has left no file and no row that is on.  The one  *)
(* exception is a grant executed after its run had asked for the row to be *)
(* switched off and been told that it was.                                 *)
THEOREM GrantsAreListed ==
    ASSUME Access!ProvisioningAssumption
    PROVE  Access!Spec => []Access!EveryGrantIsListed /\ []Access!CleanFailuresLeaveNothing
<1>1. Access!Init => GrantsOK
  <2> SUFFICES ASSUME Access!Init PROVE GrantsOK
    OBVIOUS
  <2>1. /\ \A k \in Keys : rows[k].by = None /\ rows[k].on = FALSE
        /\ \A r \in Runs : ~run[r].may /\ run[r].at = "start"
        /\ late = {} /\ None \notin Runs /\ \A r \in Runs : ~run[r].unsure
    BY DEF Access!Init, Access!NoRow, Access!ProvisioningAssumption
  <2> QED
    BY <2>1 DEF GrantsOK, GrantFits, NoGrant
<1>2. AccessInv /\ GrantsOK /\ [Access!Next]_Access!vars => GrantsOK'
  <2> SUFFICES ASSUME AccessInv, GrantsOK, [Access!Next]_Access!vars PROVE GrantsOK'
    OBVIOUS
  <2>1. CASE UNCHANGED Access!vars
    <3>1. UNCHANGED <<rows, late, manifest, staged, bearers, run, off, landed, strays>>
      BY <2>1 DEF Access!vars, Access!files
    <3> QED
      BY <3>1 DEF GrantsOK, GrantFits, NoGrant, Access!Undone
  <2> QED
    BY <2>1, GrantMoves, GrantRequests DEF Access!Next
<1>3. AccessInv /\ GrantsOK => Access!EveryGrantIsListed
  <2> SUFFICES ASSUME AccessInv, GrantsOK, NEW k \in Keys, rows[k].on
               PROVE  Access!Listed(rows[k].by) \/ rows[k].by \in strays
    BY DEF Access!EveryGrantIsListed
  <2>1. rows[k].by \in Runs /\ GrantFits(rows[k].by)
    BY DEF AccessInv, LandedOK, GrantsOK
  <2> QED
    BY <2>1 DEF GrantFits, NoGrant, Access!Listed, Access!Undone
<1>4. AccessInv /\ GrantsOK => Access!CleanFailuresLeaveNothing
  <2> SUFFICES ASSUME AccessInv, GrantsOK, NEW r \in Runs, run[r].at = "failed"
               PROVE  /\ Access!Bearers(r) = {} /\ r \notin staged
                      /\ r \in strays \/ \A k \in Keys : rows[k] # [by |-> r, on |-> TRUE]
    BY DEF Access!CleanFailuresLeaveNothing
  <2>1. Files(r) = {} /\ r \notin staged /\ NoGrant(r)
    BY DEF AccessInv, FilesOK, FilesFit, GrantsOK, GrantFits, Access!Undone
  <2>2. Access!Bearers(r) = {}
    <3>1. \A b \in Runs \X Keys : b = <<b[1], b[2]>> /\ b[2] \in Keys
      OBVIOUS
    <3>2. \A b \in Access!Bearers(r) : b \in bearers /\ b[1] = r /\ b \in Runs \X Keys
      BY DEF AccessInv, AccessTypes, Access!Bearers
    <3> QED
      BY <2>1, <3>1, <3>2 DEF Files
  <2> QED
    BY <2>1, <2>2 DEF NoGrant
<1> QED
  BY <1>1, <1>2, <1>3, <1>4, AccessInvariance, PTL DEF Access!Spec

-----------------------------------------------------------------------------
(***************************************************************************)
(* The action gateway.  GatewayInv says which calls may hold a token that  *)
(* Greenhouse does not accept.  A token goes stale by a loss, or because   *)
(* another is minted, and that happens only when the cache has been        *)
(* emptied, by a loss or by a call that was refused with the very token it *)
(* held.                                                                   *)
(***************************************************************************)
Gateway == INSTANCE ActionGateway WITH Pages <- ListPages

HoldsToken(c) == pc[c] \in {"request", "401"}

(* One mint is under way at a time, when nothing is cached, and only calls *)
(* that wait for it know its token.                                        *)
GatewayMintOK ==
    /\ \A t \in Tokens : mint[t] # "none" <=> t = inFlight
    /\ inFlight # None => cache = None
    /\ \A c \in Gateway!Calls : pc[c] = "mint" => token[c] = inFlight /\ inFlight # None
    /\ \A c \in Gateway!Calls : inFlight # None /\ token[c] = inFlight => pc[c] = "mint"

(* A call holds a token while its request is out; a refused one is refused *)
(* for good.                                                               *)
HoldOK ==
    \A c \in Gateway!Calls :
      /\ HoldsToken(c) => token[c] # None
      /\ pc[c] = "401" => token[c] # active

(* A mutation that is not over, or has been refused, was not executed.     *)
ExecutedOK ==
    \A c \in Mutations :
      /\ executed[c] <= 1
      /\ pc[c] \notin {"ok", "ambiguous"} => executed[c] = 0

(* Before the first loss every token in use is the one that is accepted.   *)
NoLossOK ==
    losses = 0 =>
      /\ cache # None => cache = active
      /\ inFlight # None /\ mint[inFlight] = "issued" => active = inFlight
      /\ \A c \in Gateway!Calls :
           /\ ~retried[c] /\ pc[c] \notin {"401", "unauthorized"}
           /\ pc[c] = "request" => cache # None /\ token[c] = cache

(* After one, a stale token is cached only as long as nobody has been      *)
(* refused with it, and whoever has been holds the accepted one.           *)
OneLossOK ==
    losses <= 1 =>
      /\ cache # None /\ cache # active =>
           \A c \in Gateway!Calls : ~retried[c] /\ (HoldsToken(c) => token[c] = cache)
      /\ inFlight # None /\ mint[inFlight] = "issued" /\ active # inFlight =>
           \A c \in Gateway!Calls : ~retried[c] /\ ~HoldsToken(c)
      /\ \A c \in Gateway!Calls :
           /\ retried[c] /\ pc[c] = "request" => cache = active /\ token[c] = active
           /\ retried[c] => pc[c] # "401"
           /\ pc[c] # "unauthorized"

GatewayInv ==
    /\ Gateway!TypeOK
    /\ GatewayMintOK
    /\ HoldOK
    /\ ExecutedOK
    /\ NoLossOK
    /\ OneLossOK

LEMMA GatewayStarts ==
    ASSUME Gateway!GatewayAssumption
    PROVE  Gateway!Init => GatewayInv
BY DEF Gateway!GatewayAssumption, Gateway!Init, GatewayInv, Gateway!TypeOK, GatewayMintOK, HoldOK, HoldsToken, ExecutedOK,
       NoLossOK, OneLossOK, Gateway!Ended, Gateway!Calls

(* Every action keeps the invariant, whose parts lean on each other.       *)
LEMMA GatewaySteps ==
    ASSUME Gateway!GatewayAssumption, GatewayInv, [Gateway!Next]_Gateway!vars
    PROVE  GatewayInv'
<1> USE DEF Gateway!GatewayAssumption, GatewayInv, Gateway!TypeOK, GatewayMintOK, HoldOK, HoldsToken, ExecutedOK,
            NoLossOK, OneLossOK, Gateway!Ended, Gateway!Calls, Gateway!Goto, Gateway!Take, Gateway!local, Gateway!upstream
<1>1. ASSUME NEW c \in Gateway!Calls, Gateway!UsesCache(c)
      PROVE  GatewayInv'
  BY <1>1 DEF Gateway!UsesCache
<1>2. ASSUME NEW c \in Gateway!Calls, Gateway!Joins(c)
      PROVE  GatewayInv'
  BY <1>2 DEF Gateway!Joins
<1>3. ASSUME NEW c \in Gateway!Calls, Gateway!Mints(c)
      PROVE  GatewayInv'
  BY <1>3 DEF Gateway!Mints, Gateway!Unused
<1>4. ASSUME NEW c \in Gateway!Calls, Gateway!Succeeds(c)
      PROVE  GatewayInv'
  BY <1>4 DEF Gateway!Succeeds, Gateway!Executes, Gateway!Ends
<1>5. ASSUME NEW c \in Gateway!Calls, Gateway!Breaks(c)
      PROVE  GatewayInv'
  BY <1>5 DEF Gateway!Breaks, Gateway!Executes, Gateway!Ends
<1>6. ASSUME NEW c \in Gateway!Calls, Gateway!Refused(c)
      PROVE  GatewayInv'
  BY <1>6 DEF Gateway!Refused, Gateway!Ends
<1>7. ASSUME NEW c \in Gateway!Calls, Gateway!Unauthorized(c)
      PROVE  GatewayInv'
  BY <1>7 DEF Gateway!Unauthorized
<1>8. ASSUME NEW c \in Gateway!Calls, Gateway!Handles401(c)
      PROVE  GatewayInv'
  <2>1. pc[c] = "401" /\ token[c] # None /\ token[c] # active /\ executed' = executed
    BY <1>8 DEF Gateway!Handles401
  <2>2. CASE /\ ~retried[c] /\ Gateway!Drop(c) /\ Gateway!Goto(c, "start") /\ Gateway!Take(c, None)
             /\ retried' = [retried EXCEPT ![c] = TRUE]
             /\ UNCHANGED Gateway!upstream
    <3>1. /\ cache' = IF cache = token[c] THEN None ELSE cache
          /\ UNCHANGED <<inFlight, mint, active, losses>>
      BY <2>2 DEF Gateway!Drop
    <3>2. Gateway!TypeOK' /\ GatewayMintOK' /\ HoldOK' /\ ExecutedOK'
      BY <2>1, <2>2, <3>1
    <3>3. NoLossOK' /\ OneLossOK'
      BY <2>1, <2>2, <3>1
    <3> QED
      BY <3>2, <3>3
  <2>3. CASE retried[c] /\ Gateway!Ends(c, "unauthorized")
    BY <2>1, <2>3 DEF Gateway!Ends
  <2> QED
    BY <1>8, <2>2, <2>3 DEF Gateway!Handles401
<1>9. ASSUME NEW t \in Tokens, Gateway!Issue(t)
      PROVE  GatewayInv'
  BY <1>9 DEF Gateway!Issue
<1>10. ASSUME NEW t \in Tokens, Gateway!MintAnswers(t)
      PROVE  GatewayInv'
  BY <1>10 DEF Gateway!MintAnswers, Gateway!MintEnds, Gateway!WaitsFor
<1>11. ASSUME NEW t \in Tokens, Gateway!MintFails(t)
      PROVE  GatewayInv'
  BY <1>11 DEF Gateway!MintFails, Gateway!MintEnds, Gateway!WaitsFor
<1>12. CASE Gateway!Revoke
  BY <1>12 DEF Gateway!Revoke, Gateway!Lose
<1>13. CASE Gateway!Expire
  BY <1>13 DEF Gateway!Expire, Gateway!Lose
<1> QED
  BY <1>1, <1>2, <1>3, <1>4, <1>5, <1>6, <1>7, <1>8, <1>9, <1>10, <1>11, <1>12, <1>13 DEF Gateway!Next, Gateway!vars

(* The invariant of the gateway, for any mutations, pages and losses.      *)
THEOREM GatewayInvariance ==
    ASSUME Gateway!GatewayAssumption
    PROVE  Gateway!Spec => []GatewayInv
<1>1. Gateway!Init => GatewayInv
  BY GatewayStarts
<1>2. GatewayInv /\ [Gateway!Next]_Gateway!vars => GatewayInv'
  BY GatewaySteps
<1> QED
  BY <1>1, <1>2, PTL DEF Gateway!Spec

(* However often its token is lost, a mutation is executed at most once,   *)
(* though a 401 makes the gateway send it again.                           *)
THEOREM MutationsExecuteOnce ==
    ASSUME Gateway!GatewayAssumption
    PROVE  Gateway!Spec => []Gateway!OneExecution
<1>1. GatewayInv => Gateway!OneExecution
  BY DEF GatewayInv, ExecutedOK, Gateway!OneExecution
<1> QED
  BY <1>1, GatewayInvariance, PTL

(* What is reported as refused, unauthorized or failed was not executed:   *)
(* the ground on which the service records a failure.                      *)
THEOREM RefusalsAreClean ==
    ASSUME Gateway!GatewayAssumption
    PROVE  Gateway!Spec => []Gateway!RefusalsDidNotExecute
<1>1. GatewayInv => Gateway!RefusalsDidNotExecute
  BY DEF GatewayInv, ExecutedOK, Gateway!RefusalsDidNotExecute
<1> QED
  BY <1>1, GatewayInvariance, PTL

(* Calls share one mint: no mint of theirs revokes another's token.        *)
THEOREM MintsAreShared ==
    ASSUME Gateway!GatewayAssumption
    PROVE  Gateway!Spec => []Gateway!OneMintAtATime
<1>1. GatewayInv => Gateway!OneMintAtATime
  BY DEF GatewayInv, GatewayMintOK, Gateway!OneMintAtATime
<1> QED
  BY <1>1, GatewayInvariance, PTL

(* One refresh is enough unless two tokens are lost: the 401 of one call,  *)
(* late as it may be, does not cost another its fresh token.               *)
THEOREM OneRefreshSuffices ==
    ASSUME Gateway!GatewayAssumption
    PROVE  Gateway!Spec => []Gateway!OneRefreshIsEnough
<1>1. GatewayInv => Gateway!OneRefreshIsEnough
  BY DEF GatewayInv, Gateway!TypeOK, OneLossOK, Gateway!OneRefreshIsEnough, Gateway!GatewayAssumption
<1> QED
  BY <1>1, GatewayInvariance, PTL
=============================================================================
