------------------------------ MODULE ReadCache ------------------------------
(***************************************************************************)
(* The cache of upstream reads that all recruiters share                   *)
(* (recruiter-mcp/src/read-cache.ts): a store with a time to live and a    *)
(* bound, and one request per key in flight, which belongs to all who wait *)
(* for it.  JavaScript runs one handler at a time: a read up to its await, *)
(* the settling of a request and the abort of a signal are atomic.         *)
(***************************************************************************)
EXTENDS Integers, Sequences, FiniteSets

CONSTANTS
    Readers, Keys,
    Attachments,     \* the keys whose path is /attachments
    None,
    TTL, MaxEntries, \* ReadCacheConfig
    Horizon          \* bound: the clock stops there

ReadCacheAssumption ==
    /\ Attachments \subseteq Keys
    /\ TTL \in Nat \ {0} /\ MaxEntries \in Nat \ {0} /\ Horizon \in Nat
    /\ None \notin [expires : Nat, value : Int] /\ None \notin Int
    /\ None \notin [readers : SUBSET Readers, aborted : BOOLEAN]

VARIABLES
    now,
    order,     \* keys of the store, oldest insertion first (a Map)
    entry,     \* [Keys -> expiry and value], None when absent
    inflight,  \* [Keys -> what is subscribed to, or None]
    pc, key,   \* of each reader
    answer     \* what it got: the time of a response, an error, or None

vars == <<now, order, entry, inflight, pc, key, answer>>

Init ==
    /\ now = 0
    /\ order = <<>> /\ entry = [k \in Keys |-> None]
    /\ inflight = [k \in Keys |-> None]
    /\ pc = [r \in Readers |-> "idle"]
    /\ key \in [Readers -> Keys]
    /\ answer = [r \in Readers |-> None]

Error == -1

-----------------------------------------------------------------------------

Fresh(k) == entry[k] # None /\ entry[k].expires > now

(* Attachment URLs are signed anew for every read.                         *)
Bypass(r) ==
    /\ pc[r] = "idle" /\ key[r] \in Attachments
    /\ pc' = [pc EXCEPT ![r] = "direct"]
    /\ UNCHANGED <<now, order, entry, inflight, key, answer>>

Hit(r) ==
    /\ pc[r] = "idle" /\ key[r] \notin Attachments /\ Fresh(key[r])
    /\ pc' = [pc EXCEPT ![r] = "done"]
    /\ answer' = [answer EXCEPT ![r] = entry[key[r]].value]
    /\ UNCHANGED <<now, order, entry, inflight, key>>

(* Join the request in flight, aborted or not, or make one.                *)
Subscribe(r) ==
    /\ pc[r] = "idle" /\ key[r] \notin Attachments /\ ~Fresh(key[r])
    /\ LET f == inflight[key[r]] IN
       inflight' = [inflight EXCEPT ![key[r]] =
           IF f = None THEN [readers |-> {r}, aborted |-> FALSE]
                       ELSE [f EXCEPT !.readers = @ \cup {r}]]
    /\ pc' = [pc EXCEPT ![r] = "waiting"]
    /\ UNCHANGED <<now, order, entry, key, answer>>

Settle(k, value) ==
    /\ inflight' = [inflight EXCEPT ![k] = None]
    /\ pc' = [r \in Readers |-> IF r \in inflight[k].readers THEN "done" ELSE pc[r]]
    /\ answer' = [r \in Readers |-> IF r \in inflight[k].readers THEN value ELSE answer[r]]

(* store.set: a key that is there, stale or not, keeps its place.          *)
Put(k) == IF entry[k] # None THEN order ELSE Append(order, k)

Evict(s) ==
    IF Len(s) > MaxEntries THEN SubSeq(s, Len(s) - MaxEntries + 1, Len(s)) ELSE s

(* The response of Greenhouse, also one that crossed the abort.            *)
Responds(k) ==
    /\ inflight[k] # None
    /\ order' = Evict(Put(k))
    /\ LET kept == {order'[i] : i \in 1..Len(order')} IN
       entry' = [j \in Keys |->
           IF j \notin kept THEN None
           ELSE IF j = k THEN [expires |-> now + TTL, value |-> now] ELSE entry[j]]
    /\ Settle(k, now)
    /\ UNCHANGED <<now, key>>

(* An error of Greenhouse, or the abort of the request arriving.           *)
Fails(k) ==
    /\ inflight[k] # None
    /\ Settle(k, Error)
    /\ UNCHANGED <<now, order, entry, key>>

DirectEnds(r) ==
    /\ pc[r] = "direct"
    /\ pc' = [pc EXCEPT ![r] = "done"]
    /\ \E value \in {now, Error} : answer' = [answer EXCEPT ![r] = value]
    /\ UNCHANGED <<now, order, entry, inflight, key>>

(* release: the last to leave aborts the request.                          *)
Leave(f, r) ==
    [readers |-> f.readers \ {r}, aborted |-> f.aborted \/ f.readers = {r}]

(* The caller's signal.                                                    *)
Abort(r) ==
    /\ pc[r] \in {"waiting", "direct"}
    /\ inflight' = IF pc[r] = "waiting"
                   THEN [inflight EXCEPT ![key[r]] = Leave(@, r)] ELSE inflight
    /\ pc' = [pc EXCEPT ![r] = "aborted"]
    /\ UNCHANGED <<now, order, entry, key, answer>>

(* The reader's next read.                                                 *)
Again(r) ==
    /\ pc[r] \in {"done", "aborted"}
    /\ pc' = [pc EXCEPT ![r] = "idle"]
    /\ \E k \in Keys : key' = [key EXCEPT ![r] = k]
    /\ answer' = [answer EXCEPT ![r] = None]
    /\ UNCHANGED <<now, order, entry, inflight>>

Tick == now < Horizon /\ now' = now + 1
        /\ UNCHANGED <<order, entry, inflight, pc, key, answer>>

Next ==
    \/ \E r \in Readers : Bypass(r) \/ Hit(r) \/ Subscribe(r) \/ DirectEnds(r)
                          \/ Abort(r) \/ Again(r)
    \/ \E k \in Keys : Responds(k) \/ Fails(k)
    \/ Tick

Spec == Init /\ [][Next]_vars

-----------------------------------------------------------------------------
Answers == 0..Horizon \cup {Error}

TypeOK ==
    /\ now \in 0..Horizon
    /\ \A k \in Keys :
         /\ entry[k] = None \/ entry[k] \in [expires : 0..Horizon + TTL, value : Answers]
         /\ inflight[k] = None
            \/ inflight[k] \in [readers : SUBSET Readers, aborted : BOOLEAN]
    /\ pc \in [Readers -> {"idle", "direct", "waiting", "done", "aborted"}]
    /\ key \in [Readers -> Keys]
    /\ \A r \in Readers : answer[r] = None \/ answer[r] \in Answers
    /\ \A r \in Readers : pc[r] = "waiting" <=>
         \E k \in Keys : inflight[k] # None /\ r \in inflight[k].readers

(* The order and the entries agree, no key is there twice, and whatever is *)
(* read, refreshed and expired in between, the store keeps its bound.      *)
StoreIsBounded ==
    /\ Len(order) <= MaxEntries
    /\ Cardinality({k \in Keys : entry[k] # None}) = Len(order)
    /\ \A k \in Keys : entry[k] # None <=> \E i \in 1..Len(order) : order[i] = k

(* A request nobody waits for is aborted, and while those who began it are *)
(* there it is not, however they leave.                                    *)
AbandonedRequestsAreAborted ==
    \A k \in Keys : inflight[k] # None /\ inflight[k].readers = {} => inflight[k].aborted

(* "One caller can abandon it without cancelling another": a request that  *)
(* somebody waits for stays alive as long as nobody new joins.             *)
LeavingHurtsNobody ==
    \A k \in Keys :
      inflight[k] # None /\ inflight'[k] # None /\ inflight'[k].readers # {}
        => inflight'[k].aborted = inflight[k].aborted

(* A failure is answered once to those who waited and never remembered.    *)
FailuresAreNotCached == \A k \in Keys : entry[k] # None => entry[k].value # Error

(* What a reader is answered from the store arrived less than TTL ago.     *)
HitsAreFresh ==
    \A r \in Readers :
      pc[r] = "idle" /\ pc'[r] = "done" => answer'[r] > now - TTL
=============================================================================
