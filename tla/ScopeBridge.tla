----------------------------- MODULE ScopeBridge -----------------------------
(***************************************************************************)
(* A confirmed job scope on an endpoint that cannot be filtered by job     *)
(* (recruiter-mcp/src/tools/evidence-read.ts, application-job-lookup.ts):  *)
(* the scope's jobs are turned into ids the endpoint takes, hop by hop,    *)
(* each hop reading its ids in batches, and the endpoint is read with the  *)
(* last ones.  Batches of a hop are read by a few lanes and folded in the  *)
(* order of the batches once all have settled; readBridgedByScope reads    *)
(* the endpoint batch after batch.                                         *)
(*                                                                         *)
(* One record stands for an application and for what hangs from it.        *)
(***************************************************************************)
EXTENDS Integers, Sequences, FiniteSets, SequencesExt

CONSTANTS
    Jobs, Apps,
    Paths,      \* "bridged": readBridgedByScope; "backed": readApplicationBackedRowsForJobScope
    DeriveHops, \* 1; 2 by way of scorecards, more for a join-backed policy
    BatchSize,  \* JOB_ID_BATCH_SIZE and APPLICATION_ID_BATCH_SIZE
    Lanes,      \* CHUNK_READ_CONCURRENCY
    None

BridgeAssumption ==
    /\ {DeriveHops, BatchSize, Lanes} \subseteq Nat \ {0}
    /\ Paths \subseteq {"bridged", "backed"}

VARIABLES
    jobOf, hidden,       \* the tenant: an application's job; withheld by the privacy gate
    path, scope, caller, \* the call: its jobs, the ids the caller names ({}: none)
    hop, batches,        \* the hop under way and its batches
    next, lane,          \* the next batch, and the batch of each lane (0: idle)
    results,             \* of the batches
    derived,             \* what the hops before have found and left out
    answer

call == <<jobOf, hidden, path, scope, caller>>
vars == <<call, hop, batches, next, lane, results, derived, answer>>

chunks(S) ==
    LET s == SetToSeq(S)
        n == (Len(s) + BatchSize - 1) \div BatchSize
    IN [i \in 1..n |-> {s[k] : k \in (i - 1) * BatchSize + 1 .. IF i = n THEN Len(s) ELSE i * BatchSize}]

Idle == [l \in 1..Lanes |-> 0]
Endpoint == hop > DeriveHops

StartHop(h, ids) ==
    /\ hop' = h
    /\ batches' = chunks(ids)
    /\ next' = 1
    /\ lane' = Idle
    /\ results' = [i \in 1..Len(chunks(ids)) |-> None]

Init ==
    /\ jobOf \in [Apps -> Jobs]
    /\ hidden \in SUBSET Apps
    /\ path \in Paths
    /\ scope \in SUBSET Jobs \ {{}}
    /\ caller \in SUBSET Apps
    /\ hop = 1
    /\ batches = chunks(scope)
    /\ next = 1
    /\ lane = Idle
    /\ results = [i \in 1..Len(chunks(scope)) |-> None]
    /\ derived = [ids |-> {}, complete |-> TRUE, withheld |-> 0]
    /\ answer = None

-----------------------------------------------------------------------------
Denied(i) == results[i] # None /\ results[i].kind = "denial"

(* readBridgedByScope reads the endpoint in a plain loop.                  *)
Sequential == Endpoint /\ path = "bridged"

LastBatch == Len(batches)

(* mapWithConcurrency: a free lane takes the next batch, also when another *)
(* lane has thrown and nobody waits for the results any more.              *)
Take(l) ==
    /\ lane[l] = 0 /\ next <= LastBatch
    /\ Sequential => l = 1 /\ answer = None /\ \A i \in 1..next - 1 : ~Denied(i)
    /\ lane' = [lane EXCEPT ![l] = next]
    /\ next' = next + 1
    /\ UNCHANGED <<call, hop, batches, results, derived, answer>>

Asked(i) == IF hop = 1 THEN {a \in Apps : jobOf[a] \in batches[i]} ELSE batches[i]

(* readAllScopedRows: all rows, some of them and a status that says so, or *)
(* a denial; it stands for a truncation when the first page met a limit.   *)
Outcomes(i) ==
    LET rows == Asked(i) \ hidden
        held == Asked(i) \cap hidden
    IN {[kind |-> "rows", ids |-> rows, complete |-> TRUE, withheld |-> Cardinality(held)]} \cup
       {[kind |-> "rows", ids |-> some, complete |-> FALSE, withheld |-> 0] : some \in SUBSET rows} \cup
       {[kind |-> "denial", truncated |-> t] : t \in BOOLEAN}

BatchReturns(l) ==
    /\ lane[l] # 0
    /\ \E r \in Outcomes(lane[l]) : results' = [results EXCEPT ![lane[l]] = r]
    /\ lane' = [lane EXCEPT ![l] = 0]
    /\ UNCHANGED <<call, hop, batches, next, derived, answer>>

(* An error read-all does not take for a limit rejects the whole hop.      *)
BatchThrows(l) ==
    /\ lane[l] # 0
    /\ results' = [results EXCEPT ![lane[l]] = [kind |-> "throw"]]
    /\ lane' = [lane EXCEPT ![l] = 0]
    /\ answer' = IF answer = None THEN [kind |-> "error"] ELSE answer
    /\ UNCHANGED <<call, hop, batches, next, derived>>

Settled ==
    /\ lane = Idle
    /\ \/ next > Len(batches)
       \/ Sequential /\ \E i \in 1..next - 1 : Denied(i)

-----------------------------------------------------------------------------
(* The fold of the results: up to the first denial, which denies the call  *)
(* unless it is a truncation after a batch that was read.                  *)
Denials == {i \in 1..Len(batches) : Denied(i)}
Until == IF Denials = {} THEN Len(batches) ELSE (CHOOSE i \in Denials : \A j \in Denials : i <= j) - 1
Refused == Denials # {} /\ (Until = 0 \/ ~results[Until + 1].truncated)

(* mergeRows: what the batches add to what was read before them.           *)
Merged(before) ==
    [ids |-> UNION {results[i].ids : i \in 1..Until},
     complete |-> before.complete /\ \A i \in 1..Until : results[i].complete,
     withheld |-> FoldSet(LAMBDA i, n : n + results[i].withheld, before.withheld, 1..Until)]

(* Plausible bug: a truncation ends the loop without a trace.              *)
FoldQuietly(before) == Merged(before)

Fold(before) == [Merged(before) EXCEPT !.complete = @ /\ Denials = {}]

effectiveIds(ids) == IF path = "bridged" /\ caller # {} THEN ids \cap caller ELSE ids

(* applyBridgeAccounting.  The other path starts its count of withheld     *)
(* rows at zero.                                                           *)
Accounting(d) == IF path = "bridged" THEN d ELSE [d EXCEPT !.withheld = 0]

FoldHop ==
    /\ answer = None /\ ~Endpoint /\ Settled
    /\ IF Refused
       THEN answer' = [kind |-> "denial"] /\ UNCHANGED <<hop, batches, next, lane, results, derived>>
       ELSE /\ LET d == Fold(derived) IN
               IF hop = DeriveHops
               THEN StartHop(hop + 1, effectiveIds(d.ids)) /\ derived' = Accounting(d)
               ELSE StartHop(hop + 1, d.ids) /\ derived' = d
            /\ UNCHANGED answer
    /\ UNCHANGED call

Answer ==
    /\ answer = None /\ Endpoint /\ Settled
    /\ answer' = IF Refused THEN [kind |-> "denial"]
                 ELSE LET d == Fold(derived) IN
                      [kind |-> "rows", rows |-> d.ids, complete |-> d.complete, withheld |-> d.withheld]
    /\ UNCHANGED <<call, hop, batches, next, lane, results, derived>>

Next ==
    \/ \E l \in 1..Lanes : Take(l) \/ BatchReturns(l) \/ BatchThrows(l)
    \/ FoldHop
    \/ Answer

Spec == Init /\ [][Next]_vars

-----------------------------------------------------------------------------
TypeOK ==
    /\ hop \in 1..DeriveHops + 1
    /\ next \in 1..Len(batches) + 1
    /\ lane \in [1..Lanes -> 0..Len(batches)]
    /\ DOMAIN results = 1..Len(batches)
    /\ derived.ids \subseteq Apps /\ derived.complete \in BOOLEAN /\ derived.withheld \in Nat
    /\ answer = None \/ answer.kind \in {"rows", "denial", "error"}

Answered == answer # None /\ answer.kind = "rows"
OfTheScope == {a \in Apps : jobOf[a] \in scope}

(* An answer that calls itself complete has every row of the scope the     *)
(* actor may see, and of the ids the caller named, across all hops,        *)
(* batches and lanes.                                                      *)
CompleteMeansAll ==
    Answered /\ answer.complete => answer.rows = effectiveIds(OfTheScope \ hidden)

(* "The bridge NARROWS within the permitted set and never widens": the     *)
(* ids a caller names only take rows away.                                 *)
ScopeNeverWidens ==
    Answered => answer.rows \subseteq (OfTheScope \ hidden) \cap effectiveIds(Apps)

(* Rows the privacy gate withheld from a hop are missing from the ids the  *)
(* endpoint is read with: the bridge reports them as withheld.             *)
BridgeReportsTheWithheld ==
    path = "bridged" /\ Answered /\ answer.complete =>
        answer.withheld = Cardinality(OfTheScope \cap hidden)

(* Rows or a denial are answered when every read of the hop has settled.   *)
NoReadOutlivesTheAnswer ==
    answer # None /\ answer.kind # "error" => lane = Idle
=============================================================================
