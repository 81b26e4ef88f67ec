------------------------------ MODULE PolicyJoin -------------------------------
(***************************************************************************)
(* filterWithScopePolicy (scoped-core/src/index.ts): the job filter of the *)
(* endpoints whose rows name no job the reader could use directly.  The    *)
(* rows of a page lead to their jobs through parent records, one           *)
(* dependency after another.  The ids of a level are read in batches, a    *)
(* few at a time, each page after page; a batch that fails on its first    *)
(* page denies the read, one that fails later leaves its ids incomplete.   *)
(* Meanwhile recruiters move records to other jobs and delete them.        *)
(***************************************************************************)
EXTENDS Integers, FiniteSets, Sequences, SequencesExt, FiniteSetsExt

CONSTANTS Jobs, Permitted, Ids,
          Pages,        \* the pages considered: [kind, redact, rows]
          Worlds,       \* the sets of parent records to begin with
          Hops,         \* policy.dependencies.length
          BatchSize, Lanes, PerPage,
          MaxChanges,   \* bound: records moved or deleted during the read
          MaxFaults,    \* bound: pages that fail
          None, Bad     \* no value, a value that is not an id

JoinAssumption == /\ Permitted \subseteq Jobs /\ Hops \in Nat
                  /\ BatchSize \in Nat \ {0} /\ Lanes \in Nat \ {0} /\ PerPage \in Nat \ {0}

VARIABLES page, world, was,    \* the page, Greenhouse, and Greenhouse when it was read
          states,              \* of each row: the parents it has led to, and whether one was cut
          level, queue, flight, loaded,
          incomplete, reply, changes, faults

vars == <<page, world, was, states, level, queue, flight, loaded, incomplete, reply, changes, faults>>

scorecardVisibilityAllowsScopedRead(row) ==
    IF row.visibility # None THEN row.visibility = "public" ELSE ~row.marked

Init == /\ page \in Pages /\ world \in Worlds /\ was = world
        /\ states = [i \in 1..Len(page.rows) |->
                        [failed |-> FALSE,
                         parents |-> IF scorecardVisibilityAllowsScopedRead(page.rows[i])
                                     THEN {page.rows[i]} ELSE {}]]
        /\ level = 0 /\ queue = <<>> /\ flight = {} /\ loaded = {}
        /\ incomplete = FALSE /\ reply = None /\ changes = 0 /\ faults = 0

(* The jobs a record names, None if they cannot be told: the terminal may be
   a list, or one id, or one id told twice, which must then agree. *)
resolveTerminalIds(r) ==
    CASE r.jobs # None -> r.jobs
      [] r.job = Bad \/ r.nested = Bad -> None
      [] r.job # None /\ r.nested # None /\ r.job # r.nested -> None
      [] r.job # None -> {r.job}
      [] r.nested # None -> {r.nested}
      [] OTHER -> None

Decision(outcome, row) == [outcome |-> outcome, row |-> row]

applyDirectScopePolicy(row) ==
    LET jobs == resolveTerminalIds(row)
    IN  CASE jobs \in {None, {}} -> Decision("missing_parent", None)
          [] jobs \cap Permitted = {} -> Decision("not_permitted", None)
          [] page.redact -> Decision("permitted", [row EXCEPT !.jobs = jobs \cap Permitted])
          [] OTHER -> Decision("permitted", row)

-----------------------------------------------------------------------------
(* loadPolicyParents: the ids that the rows lead to at this level. *)
chunks(ids) ==
    LET sorted == SetToSortSeq(ids, LAMBDA x, y : x < y)
        last(i) == IF i * BatchSize > Len(sorted) THEN Len(sorted) ELSE i * BatchSize
    IN  [i \in 1..((Len(sorted) + BatchSize - 1) \div BatchSize) |->
            {sorted[k] : k \in ((i - 1) * BatchSize + 1)..last(i)}]

Joining == page.kind = "join_backed" /\ reply = None

(* A row none of whose parents is left leads nowhere from there on. *)
NextLevel ==
    /\ Joining /\ level < Hops /\ queue = <<>> /\ flight = {} /\ loaded = {}
    /\ LET ids == UNION {r.refs : r \in UNION {states[i].parents : i \in DOMAIN states}}
       IN  \/ /\ ids = {} /\ level' = Hops /\ UNCHANGED queue
              /\ states' = [i \in DOMAIN states |-> [states[i] EXCEPT !.parents = {}]]
           \/ ids # {} /\ level' = level + 1 /\ queue' = chunks(ids) /\ UNCHANGED states
    /\ UNCHANGED <<page, world, was, flight, loaded, incomplete, reply, changes, faults>>

(* mapWithConcurrency: each lane takes the next batch. *)
Send ==
    /\ Joining /\ queue # <<>> /\ Cardinality(flight) < Lanes
    /\ flight' = flight \cup {[ids |-> Head(queue), cursor |-> 0, rows |-> {}, pages |-> 0]}
    /\ queue' = Tail(queue)
    /\ UNCHANGED <<page, world, was, states, level, loaded, incomplete, reply, changes, faults>>

Matching(batch) == {r \in world : r.level = level /\ r.key \in batch.ids /\ r.id > batch.cursor}
FirstPage(rows) == {r \in rows : Cardinality({o \in rows : o.id < r.id}) < PerPage}

Finish(batch, rows, cut) ==
    /\ flight' = flight \ {batch}
    /\ loaded' = loaded \cup {[ids |-> batch.ids, rows |-> rows, incomplete |-> cut]}

(* One page of a batch.  A cursor that comes back a second time ends the
   batch, as incomplete. *)
PageAnswers ==
    /\ Joining
    /\ \E batch \in flight :
         LET rest == Matching(batch)
             got == FirstPage(rest)
         IN  \/ got = rest /\ Finish(batch, batch.rows \cup got, FALSE) /\ UNCHANGED faults
             \/ /\ got # rest /\ UNCHANGED <<loaded, faults>>
                /\ flight' = (flight \ {batch}) \cup
                     {[batch EXCEPT !.rows = @ \cup got, !.pages = @ + 1,
                                    !.cursor = Max({r.id : r \in got})]}
             \/ /\ batch.pages > 0 /\ faults < MaxFaults /\ faults' = faults + 1
                /\ Finish(batch, batch.rows \cup got, TRUE)
    /\ UNCHANGED <<page, world, was, states, level, queue, incomplete, reply, changes>>

(* A page that fails, or that is no list, after a good one. *)
LaterPageFails ==
    /\ Joining /\ faults < MaxFaults /\ faults' = faults + 1
    /\ \E batch \in flight : batch.pages > 0 /\ Finish(batch, batch.rows, TRUE)
    /\ UNCHANGED <<page, world, was, states, level, queue, incomplete, reply, changes>>

(* A PermissionJoinError, PERMISSION_JOIN_FAILED to the caller. *)
FirstPageFails ==
    /\ Joining /\ faults < MaxFaults /\ faults' = faults + 1
    /\ \E batch \in flight : batch.pages = 0
    /\ reply' = [code |-> "PERMISSION_JOIN_FAILED"]
    /\ queue' = <<>> /\ flight' = {}
    /\ UNCHANGED <<page, world, was, states, level, loaded, incomplete, changes>>

(* Each row moves on to the records that its parents name. *)
FoldLevel ==
    /\ Joining /\ queue = <<>> /\ flight = {} /\ loaded # {}
    /\ LET rows == UNION {read.rows : read \in loaded}
           cutIds == UNION {read.ids : read \in {x \in loaded : x.incomplete}}
       IN  /\ states' = [i \in DOMAIN states |->
                LET refs == UNION {r.refs : r \in states[i].parents}
                IN  [failed |-> states[i].failed \/ refs \cap cutIds # {},
                     parents |-> {r \in rows : r.key \in refs}]]
           /\ incomplete' = (incomplete \/ cutIds # {})
    /\ loaded' = {}
    /\ UNCHANGED <<page, world, was, level, queue, flight, reply, changes, faults>>

-----------------------------------------------------------------------------
(* Once a parent page failed, a job that was not found proves nothing: a row
   is kept only on what was read, and excluded only if all was. *)
applyJoinBackedScopePolicy(i) ==
    LET terminals == {resolveTerminalIds(r) : r \in states[i].parents}
        jobs == UNION (terminals \ {None})
        unless(outcome) == Decision(IF states[i].failed THEN "parent_read_failed" ELSE outcome, None)
    IN  CASE ~scorecardVisibilityAllowsScopedRead(page.rows[i]) -> Decision("not_permitted", None)
          [] None \in terminals \/ jobs = {} -> unless("missing_parent")
          [] jobs \cap Permitted # {} -> Decision("permitted", page.rows[i])
          [] OTHER -> unless("not_permitted")

decide(i) == IF page.kind = "direct" THEN applyDirectScopePolicy(page.rows[i])
             ELSE applyJoinBackedScopePolicy(i)

filterWithScopePolicy ==
    /\ reply = None
    /\ \/ page.kind = "direct"
       \/ Joining /\ level = Hops /\ queue = <<>> /\ flight = {} /\ loaded = {}
    /\ LET among(outcomes) ==
             Cardinality({i \in DOMAIN page.rows : decide(i).outcome \in outcomes})
           unresolved == among({"missing_parent", "parent_read_failed"})
       IN  reply' = [code |-> "ok",
                     kept |-> [i \in {k \in DOMAIN page.rows : decide(k).outcome = "permitted"} |->
                                  decide(i).row],
                     excluded |-> among({"not_permitted"}), unresolved |-> unresolved,
                     complete |-> unresolved = 0 /\ ~incomplete]
    /\ UNCHANGED <<page, world, was, states, level, queue, flight, loaded, incomplete, changes, faults>>

GreenhouseChanges ==
    /\ Joining /\ changes < MaxChanges /\ changes' = changes + 1
    /\ \E r \in world :
         \/ world' = world \ {r}
         \/ \E j \in Jobs \ {r.job} :
              /\ r.job # None
              /\ world' = (world \ {r}) \cup {[r EXCEPT !.job = j, !.nested = None]}
    /\ UNCHANGED <<page, was, states, level, queue, flight, loaded, incomplete, reply, faults>>

Next == \/ NextLevel \/ Send \/ PageAnswers \/ LaterPageFails \/ FirstPageFails \/ FoldLevel
        \/ filterWithScopePolicy \/ GreenhouseChanges

Spec == Init /\ [][Next]_vars

-----------------------------------------------------------------------------
(* The records a row leads to, in a given state of Greenhouse. *)
Leads(row, records) ==
    LET at[n \in 0..Hops] ==
          IF n = 0 THEN {row}
          ELSE {r \in records : r.level = n /\ r.key \in UNION {p.refs : p \in at[n - 1]}}
    IN  at[Hops]

JobsOf(records) == UNION ({resolveTerminalIds(r) : r \in records} \ {None})

Visible(i) == LET ends == Leads(page.rows[i], was)
              IN  /\ scorecardVisibilityAllowsScopedRead(page.rows[i])
                  /\ \A r \in ends : resolveTerminalIds(r) # None
                  /\ JobsOf(ends) \cap Permitted # {}

Answered == reply # None /\ reply.code = "ok"
Rows == DOMAIN page.rows

TypeOK == /\ page \in Pages /\ was \in Worlds /\ level \in 0..Hops
          /\ \A i \in DOMAIN states : /\ states[i].failed \in BOOLEAN
                                      /\ level > 0 => states[i].parents \subseteq
                                            world \cup was \cup {page.rows[i]}
          /\ Cardinality(flight) <= Lanes
          /\ \A batch \in flight : batch.ids \subseteq Ids /\ Cardinality(batch.ids) <= BatchSize
          /\ incomplete \in BOOLEAN /\ changes \in 0..MaxChanges /\ faults \in 0..MaxFaults

(* A row that is kept leads to a permitted job, through records as they were
   when the read began or as they are now, whatever page failed; a row marked
   private is not kept; and a redacted one names permitted jobs only. *)
KeptLeadToPermittedJobs ==
    Answered => \A i \in DOMAIN reply.kept :
        IF page.kind = "direct"
        THEN /\ resolveTerminalIds(page.rows[i]) \cap Permitted # {}
             /\ page.redact => reply.kept[i].jobs \subseteq Permitted
        ELSE /\ JobsOf(Leads(page.rows[i], was \cup world)) \cap Permitted # {}
             /\ scorecardVisibilityAllowsScopedRead(page.rows[i])

(* A row on a permitted job that a failed page hides is unresolved, never
   excluded: while Greenhouse stands still the rows lost are among those the
   reply calls unresolved, and a reply that calls itself complete lost none. *)
LostRowsAreUnresolved ==
    Answered /\ page.kind = "join_backed" =>
        /\ LET lost == {i \in Rows \ DOMAIN reply.kept : changes = 0 /\ Visible(i)}
           IN  /\ Cardinality(lost) <= reply.unresolved
               /\ reply.complete => lost = {}
        /\ Cardinality(DOMAIN reply.kept) + reply.excluded + reply.unresolved = Len(page.rows)
=============================================================================
