------------------------------ MODULE RowPriming -----------------------------
(***************************************************************************)
(* How the privacy gate reads what it must know about the rows of a page   *)
(* (applyCandidatePrivacyGate and its primers in scoped-core/src/index.ts).*)
(* The parents that the rows name are read in batches, level by level;     *)
(* then the candidates the rows name, then those their parents name; then  *)
(* the rows are decided one by one, each reading for itself what is still  *)
(* unknown.  What is learnt is kept in caches of promises, so that a read  *)
(* that failed stays failed.                                               *)
(*                                                                         *)
(* On a privacy-only branch (strict) a batch that fails, or that leaves an *)
(* id out, settles every such id; elsewhere the per-row read settles it.   *)
(* Meanwhile recruiters change the flags and delete records.               *)
(*                                                                         *)
(* One chain of parents stands for the four endpoints; whether the actor   *)
(* holds the Private role on a row's job is ScopedReader's subject, and no *)
(* actor does here.                                                        *)
(***************************************************************************)
EXTENDS Integers, FiniteSets, Sequences, SequencesExt, FiniteSetsExt

CONSTANTS
    Candidates, Parents,
    Pages,          \* the pages considered: sequences of [candidate, parent]
    ParentRow,      \* the record of each parent: [candidate, parent]
    BatchSize,      \* PARENT_BATCH_SIZE
    Lanes,          \* of mapWithConcurrency
    MaxChanges,     \* bound on the changes made in Greenhouse
    None

Depth == 4          \* CANDIDATE_PARENT_HOPS.length
Flags == {"public", "private", "absent"}

BatchAssumption == BatchSize \in Nat \ {0} /\ Lanes \in Nat \ {0}

VARIABLES
    page, strict, substance,  \* the rows, the branch, whether every row must have a candidate
    flag, gone,               \* Greenhouse: the candidates' flags, the parents deleted
    changes,
    pc, depth,
    queue, flight, answers,   \* batches: to be sent, sent, what each came to
    parents, privacy,         \* the caches
    row, verdicts,            \* the row being decided, and those decided
    reads,                    \* how often each id was read by itself
    seen                      \* the flags each candidate has had since the read began

greenhouse == <<flag, gone, changes, seen>>
batch == <<queue, flight, answers>>
input == <<page, strict, substance>>
vars == <<input, greenhouse, pc, depth, batch, parents, privacy, row, verdicts, reads>>

Init ==
    /\ page \in Pages /\ strict \in BOOLEAN /\ substance \in BOOLEAN
    /\ flag \in [Candidates -> Flags] /\ gone \in SUBSET Parents /\ changes = 0
    /\ pc = "parents" /\ depth = 0
    /\ queue = <<>> /\ flight = {} /\ answers = {}
    /\ parents = [p \in Parents |-> "unknown"]
    /\ privacy = [c \in Candidates |-> "unknown"]
    /\ row = 1 /\ verdicts = <<>>
    /\ reads = [i \in Parents \cup Candidates |-> 0]
    /\ seen = [c \in Candidates |-> {flag[c]}]

(***************************************************************************)
(* Batches.                                                                *)
(***************************************************************************)
chunks(ids) ==
    LET s == SetToSeq(ids)
        size(i) == IF i * BatchSize > Len(s) THEN Len(s) ELSE i * BatchSize
    IN [i \in 1..((Len(s) + BatchSize - 1) \div BatchSize) |->
          {s[k] : k \in ((i - 1) * BatchSize + 1)..size(i)}]

(* The records whose parents the next level reads: the rows, and after     *)
(* each level what it loaded.  A record that names its candidate ends the  *)
(* walk unless the branch is strict.                                       *)
Goes(r) == strict \/ r.candidate = None
Wanted(records) ==
    {r.parent : r \in {q \in records : Goes(q) /\ q.parent # None}}
RowsOfPage == {page[i] : i \in 1..Len(page)}
Unread(ids, cache) == {i \in ids : cache[i] = "unknown"}

(***************************************************************************)
(* A row, as far as the caches know it.                                    *)
(***************************************************************************)
(* walkRowCandidate: the candidate behind a record, or "none",             *)
(* "unresolved", "error" (a read of its own failed), or the parent that    *)
(* has to be read first.                                                   *)
Walked(record) ==
    LET outcome(state, x) == [state |-> state, of |-> x]
        end(r, state) == IF r.candidate = None THEN outcome(state, None)
                         ELSE outcome("resolved", r.candidate)
        join(r, w) ==
          CASE w.state \in {"error", "read"} -> w
            [] w.state = "unresolved" -> IF strict THEN w ELSE end(r, "unresolved")
            [] w.state = "none"       -> end(r, "none")
            [] OTHER -> IF r.candidate \in {None, w.of} THEN w ELSE outcome("unresolved", None)
        walk[d \in 0..Depth, r \in {record} \cup {ParentRow[p] : p \in Parents}] ==
          IF ~Goes(r) \/ r.parent = None THEN end(r, "none")
          ELSE IF d = Depth THEN end(r, "unresolved")
          ELSE CASE parents[r.parent] = "unknown" -> outcome("read", r.parent)
                 [] parents[r.parent] = "failed"  -> outcome("error", None)
                 [] parents[r.parent] = "null"    -> join(r, outcome("unresolved", None))
                 [] OTHER                         -> join(r, walk[d + 1, ParentRow[r.parent]])
    IN walk[0, record]

CandidateOf(r) == LET w == Walked(r) IN IF w.state = "resolved" THEN w.of ELSE None

(***************************************************************************)
(* The primers.  Each starts the batches of what is not yet known.         *)
(***************************************************************************)
StartBatches(ids) ==
    /\ queue' = chunks(ids) /\ flight' = {} /\ answers' = {}
    /\ UNCHANGED <<input, greenhouse, parents, privacy, row, verdicts, reads>>

Frontier ==
    IF depth = 0 THEN RowsOfPage
    ELSE {ParentRow[p] : p \in UNION {a.rows : a \in answers}}

primeCandidateParents ==
    /\ pc = "parents"
    /\ LET ids == Unread(Wanted(Frontier), parents)
       IN IF depth = Depth \/ ids = {}
            THEN pc' = "named" /\ depth' = 0 /\ StartBatches({})
            ELSE pc' = "parents-read" /\ depth' = depth + 1 /\ StartBatches(ids)

prefetchScopeParents ==
    /\ pc = "named"
    /\ StartBatches(Unread({r.candidate : r \in RowsOfPage} \ {None}, privacy))
    /\ pc' = "named-read" /\ UNCHANGED depth

(* Only of rows that name no candidate; a walk may have to read.           *)
prefetchCandidatesBehindParents ==
    /\ pc = "behind"
    /\ LET rows == {r \in RowsOfPage : r.candidate = None}
       IN /\ \A r \in rows : Walked(r).state # "read"
          /\ StartBatches(Unread({CandidateOf(r) : r \in rows} \ {None}, privacy))
    /\ pc' = "behind-read" /\ UNCHANGED depth

(* mapWithConcurrency: the lanes take the batches in order, and nothing is *)
(* entered in a cache before the last of them has answered.                *)
Send ==
    /\ queue # <<>> /\ Cardinality(flight) < Lanes
    /\ flight' = flight \cup {Head(queue)} /\ queue' = Tail(queue)
    /\ UNCHANGED <<input, greenhouse, pc, depth, answers, parents, privacy, row, verdicts, reads>>

Present(ids) == {i \in ids : IF i \in Parents THEN i \notin gone ELSE flag[i] # "absent"}
Answer ==
    /\ \E ids \in flight :
         /\ flight' = flight \ {ids}
         /\ \/ answers' = answers \cup
                 {[ids |-> ids, failed |-> FALSE, rows |-> Present(ids),
                   private |-> {i \in ids \cap Candidates : flag[i] = "private"}]}
            \/ answers' = answers \cup
                 {[ids |-> ids, failed |-> TRUE, rows |-> {}, private |-> {}]}
    /\ UNCHANGED <<input, greenhouse, pc, depth, queue, parents, privacy, row, verdicts, reads>>

AnswerTo(i) == CHOOSE a \in answers : i \in a.ids
Answered(i) == \E a \in answers : i \in a.ids

SeededParent(i) ==
    IF parents[i] # "unknown" \/ ~Answered(i) THEN parents[i]
    ELSE CASE i \in AnswerTo(i).rows -> "here" [] strict -> "null" [] OTHER -> "unknown"

SeededPrivacy(c) ==
    IF privacy[c] # "unknown" \/ ~Answered(c) THEN privacy[c]
    ELSE CASE AnswerTo(c).failed -> IF strict THEN "private" ELSE "unknown"
           [] c \in AnswerTo(c).rows \ AnswerTo(c).private -> "public"
           [] OTHER -> "private"

Seed ==
    /\ pc \in {"parents-read", "named-read", "behind-read"} /\ queue = <<>> /\ flight = {}
    /\ pc' = CASE pc = "parents-read" -> "parents" [] pc = "named-read" -> "behind"
               [] OTHER -> "decide"
    /\ parents' = [p \in Parents |-> SeededParent(p)]
    /\ privacy' = [c \in Candidates |-> SeededPrivacy(c)]
    /\ UNCHANGED <<input, greenhouse, depth, batch, row, verdicts, reads>>

(***************************************************************************)
(* Reads of one record (loadApplication, loadRecordById,                   *)
(* loadCandidateIsPrivate): the promise is cached, kept or broken.         *)
(***************************************************************************)
KeptFailure == "failed"

Reading == CASE pc = "behind" -> {r \in RowsOfPage : r.candidate = None}
             [] pc = "decide" /\ row <= Len(page) -> {page[row]}
             [] OTHER -> {}

loadParentRecord ==
    \E r \in Reading :
        LET w == Walked(r)
        IN /\ w.state = "read" /\ reads[w.of] < 2
           /\ reads' = [reads EXCEPT ![w.of] = @ + 1]
           /\ \E got \in {KeptFailure, IF w.of \in gone THEN "null" ELSE "here"} :
                parents' = [parents EXCEPT ![w.of] = got]
           /\ UNCHANGED <<input, greenhouse, pc, depth, batch, privacy, row, verdicts>>

loadCandidateIsPrivate ==
    /\ pc = "decide" /\ row <= Len(page)
    /\ LET c == CandidateOf(page[row])
       IN /\ c # None /\ privacy[c] = "unknown" /\ reads[c] < 2
          /\ reads' = [reads EXCEPT ![c] = @ + 1]
          /\ \E got \in {KeptFailure, IF flag[c] = "public" THEN "public" ELSE "private"} :
               privacy' = [privacy EXCEPT ![c] = got]
    /\ UNCHANGED <<input, greenhouse, pc, depth, batch, parents, row, verdicts>>

(***************************************************************************)
(* A row is kept or withheld; a failed read withholds its row alone.       *)
(***************************************************************************)

Decide ==
    /\ pc = "decide" /\ row <= Len(page)
    /\ LET w == Walked(page[row])
           verdict == CASE w.state = "resolved" -> privacy[w.of] = "public"
                        [] w.state = "none"     -> ~substance
                        [] OTHER                -> FALSE
       IN /\ w.state # "read"
          /\ w.state = "resolved" => privacy[w.of] # "unknown"
          /\ verdicts' = Append(verdicts, [candidate |-> CandidateOf(page[row]), keep |-> verdict])
    /\ row' = row + 1
    /\ UNCHANGED <<input, greenhouse, pc, depth, batch, parents, privacy, reads>>

Done == pc = "decide" /\ row > Len(page) /\ UNCHANGED vars

(***************************************************************************)
(* Greenhouse meanwhile.                                                   *)
(***************************************************************************)
Change ==
    /\ changes < MaxChanges /\ row <= Len(page)
    /\ \/ /\ \E c \in Candidates, f \in Flags :
               /\ f # flag[c] /\ flag' = [flag EXCEPT ![c] = f]
               /\ seen' = [seen EXCEPT ![c] = @ \cup {f}]
          /\ UNCHANGED gone
       \/ /\ \E p \in Parents \ gone : gone' = gone \cup {p}
          /\ UNCHANGED <<flag, seen>>
    /\ changes' = changes + 1
    /\ UNCHANGED <<input, pc, depth, batch, parents, privacy, row, verdicts, reads>>

Next ==
    \/ primeCandidateParents \/ prefetchScopeParents \/ prefetchCandidatesBehindParents
    \/ Send \/ Answer \/ Seed
    \/ loadParentRecord \/ loadCandidateIsPrivate \/ Decide \/ Done
    \/ Change

Spec == Init /\ [][Next]_vars

(***************************************************************************)
(* Properties.                                                             *)
(***************************************************************************)
TypeOK ==
    /\ pc \in {"parents", "parents-read", "named", "named-read", "behind", "behind-read", "decide"}
    /\ parents \in [Parents -> {"unknown", "here", "null", "failed"}]
    /\ privacy \in [Candidates -> {"unknown", "public", "private", "failed"}]
    /\ Cardinality(flight) <= Lanes /\ depth \in 0..Depth /\ row \in 1..(Len(page) + 1)

(* Whatever fails, is deleted or changes in the middle, a row that leads   *)
(* to a candidate is returned only if that candidate was flagged public at *)
(* some moment of this read.                                               *)
KeptWasPublic ==
    \A i \in 1..Len(verdicts) :
        verdicts[i].keep /\ verdicts[i].candidate # None => "public" \in seen[verdicts[i].candidate]

(* Rows that lead to the same candidate share a fate, though the flag may  *)
(* be changed between the moments at which they are decided.               *)
OneVerdictPerCandidate ==
    \A i, k \in 1..Len(verdicts) :
        verdicts[i].candidate # None /\ verdicts[i].candidate = verdicts[k].candidate
        => verdicts[i].keep = verdicts[k].keep

(* On a privacy-only branch no row costs a read of its own, also when a    *)
(* batch fails or answers for nobody (the ceiling of calls that            *)
(* private-candidate-multihop.test.ts locks).                              *)
StrictReadsInBatches == strict => \A i \in DOMAIN reads : reads[i] = 0

(* Nothing is read by itself twice, a failed read included.                *)
NoReadIsRepeated == \A i \in DOMAIN reads : reads[i] <= 1
=============================================================================
