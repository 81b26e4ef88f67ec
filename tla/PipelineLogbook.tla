--------------------------- MODULE PipelineLogbook ---------------------------
(***************************************************************************)
(* The temporal logbook: sweeps that stream the active applications page   *)
(* by page into counters and write one row per job, stage and week, and    *)
(* the week-over-week difference of the rows.                              *)
(*                                                                         *)
(* Applications move while a sweep reads, sweeps overlap (the timer's, the *)
(* startup's, the command's), a read or a write fails midway.  Jobs and    *)
(* stages are numbers, in the order the rows are written in; stage 0 is    *)
(* the job's rollup row, an application of no named stage counts there     *)
(* only.                                                                   *)
(***************************************************************************)
EXTENDS Integers, FiniteSets, FiniteSetsExt, SequencesExt

CONSTANTS Apps, JobOf, PageOf,     \* an application's job, the page it is listed on
          Jobs, Stages,            \* 1..n
          Pages, MaxPages,         \* pages there are; the backstop
          ChunkRows,               \* rows of one request
          Sweepers, None,
          MaxWeek, MaxMoves, MaxSweeps    \* bounds on the exploration

Rollup  == 0
Unnamed == 0       \* active, but in no named stage
Ended   == -1      \* hired or rejected: not listed

LogbookAssumption ==
    /\ \A x \in Jobs \cup Stages : x \in Nat \ {0}
    /\ JobOf \in [Apps -> Jobs] /\ PageOf \in [Apps -> 1..Pages]
    /\ {Pages, MaxPages, ChunkRows} \subseteq Nat \ {0} /\ MaxWeek \in Nat

VARIABLES where,    \* the stage each application is in
          moves, week, sweeps,
          store,    \* the counts of the rows there are, by week, job and stage
          sweep,    \* each sweeper's progress
          calm      \* nothing moved since a sweep of this week was written
vars == <<where, moves, week, sweeps, store, sweep, calm>>

Keys == Jobs \X ({Rollup} \cup Stages)
(* A row for each week, job and stage at most.                             *)
NoRows == [w \in 1..MaxWeek |-> [k \in Keys |-> None]]
Resting == [at |-> "idle", page |-> 1, count |-> [k \in Keys |-> 0],
            rows |-> <<>>, period |-> 0, moved |-> {}, from |-> {}, alone |-> FALSE]

Init == /\ where \in [Apps -> Stages]
        /\ moves = 0 /\ week = 1 /\ sweeps = 0
        /\ store = NoRows
        /\ sweep = [s \in Sweepers |-> Resting] /\ calm = FALSE

InStage(f, j, st) == {a \in Apps : JobOf[a] = j /\ f[a] = st}

-----------------------------------------------------------------------------
Moves(a) ==
    /\ moves < MaxMoves /\ moves' = moves + 1
    /\ \E st \in Stages \cup {Unnamed, Ended} : st # where[a] /\ where' = [where EXCEPT ![a] = st]
    /\ sweep' = [s \in Sweepers |-> IF sweep[s].at = "reading"
                                    THEN [sweep[s] EXCEPT !.moved = @ \cup {a}] ELSE sweep[s]]
    /\ calm' = FALSE
    /\ UNCHANGED <<week, sweeps, store>>

WeekEnds ==
    /\ week < MaxWeek /\ week' = week + 1
    /\ calm' = FALSE
    /\ UNCHANGED <<where, moves, sweeps, store, sweep>>

Starts(s) ==
    /\ sweeps < MaxSweeps /\ sweep[s].at = "idle"
    /\ sweeps' = sweeps + 1
    /\ sweep' = [o \in Sweepers |->
          IF o # s THEN [sweep[o] EXCEPT !.alone = FALSE]
          ELSE [Resting EXCEPT !.at = "reading", !.from = {where},
                               !.alone = \A x \in Sweepers \ {s} : sweep[x].at = "idle"]]
    /\ UNCHANGED <<where, moves, week, store, calm>>

\* Fold one page into the counters: every active application counts in its
\* job's row, the ones in a named stage in the stage's too.
AddPage(count, p) ==
    [k \in Keys |-> count[k] + Cardinality({a \in Apps :
        /\ PageOf[a] = p /\ JobOf[a] = k[1]
        /\ IF k[2] = Rollup THEN where[a] # Ended ELSE where[a] = k[2]})]

Before(k, l) == k[1] < l[1] \/ (k[1] = l[1] /\ k[2] < l[2])

\* One row per bucket there is, by job and stage.
Finalize(count) == SetToSortSeq({k \in Keys : count[k] > 0}, Before)

\* The last page closes the books, in the week it is then.  A sweep whose
\* read is incomplete writes nothing.
ReadsPage(s) ==
    LET w == sweep[s]
        count == AddPage(w.count, w.page) IN
    /\ w.at = "reading"
    /\ sweep' = [sweep EXCEPT ![s] =
          IF w.page = Pages
          THEN [w EXCEPT !.at = "writing", !.count = count, !.rows = Finalize(count), !.period = week]
          ELSE IF w.page = MaxPages THEN Resting
          ELSE [w EXCEPT !.page = @ + 1, !.count = count]]
    /\ UNCHANGED <<where, moves, week, sweeps, store, calm>>

Written(w) == {w.rows[i] : i \in 1..(IF Len(w.rows) < ChunkRows THEN Len(w.rows) ELSE ChunkRows)}

Merged(w) ==
    [store EXCEPT ![w.period] = [k \in Keys |-> IF k \in Written(w) THEN w.count[k] ELSE @[k]]]

\* One chunk; after the last one the sweep is over.  It was calm if nothing
\* moved since it began and no other sweep was under way.
WritesChunk(s) ==
    LET w == sweep[s]
        left == SubSeq(w.rows, ChunkRows + 1, Len(w.rows)) IN
    /\ w.at = "writing"
    /\ store' = Merged(w)
    /\ IF left = <<>>
       THEN /\ sweep' = [sweep EXCEPT ![s] = Resting]
            /\ calm' = (w.alone /\ w.from = {where} /\ w.moved = {} /\ w.period = week)
       ELSE sweep' = [sweep EXCEPT ![s].rows = left] /\ UNCHANGED calm
    /\ UNCHANGED <<where, moves, week, sweeps>>

\* A read or a write fails, the write perhaps after it was done: the sweep is
\* given up, the chunks before stay.
Fails(s) ==
    LET w == sweep[s] IN
    /\ w.at # "idle"
    /\ sweep' = [sweep EXCEPT ![s] = Resting]
    /\ \/ UNCHANGED store
       \/ w.at = "writing" /\ store' = Merged(w)
    /\ UNCHANGED <<where, moves, week, sweeps, calm>>

Next == \/ \E a \in Apps : Moves(a)
        \/ WeekEnds
        \/ \E s \in Sweepers : Starts(s) \/ ReadsPage(s) \/ WritesChunk(s) \/ Fails(s)

Spec == Init /\ [][Next]_vars

-----------------------------------------------------------------------------
(* The week-over-week difference. *)

Periods == {w \in 1..MaxWeek : \E k \in Keys : store[w][k] # None}
Count(w, k) == IF store[w][k] = None THEN 0 ELSE store[w][k]

StageFlow ==
    IF Cardinality(Periods) < 2 THEN {}
    ELSE LET current == Max(Periods)
             previous == Max(Periods \ {current})
         IN {[key |-> k, previous |-> Count(previous, k), current |-> Count(current, k)] :
                k \in {x \in Keys : store[previous][x] # None \/ store[current][x] # None}}

-----------------------------------------------------------------------------
TypeOK ==
    /\ where \in [Apps -> Stages \cup {Unnamed, Ended}]
    /\ \A w \in 1..MaxWeek, k \in Keys : store[w][k] = None \/ store[w][k] \in Nat \ {0}
    /\ \A s \in Sweepers : Range(sweep[s].rows) \subseteq Keys /\ sweep[s].moved \subseteq Apps

Actual(k) == IF k[2] = Rollup THEN Cardinality({a \in Apps : JobOf[a] = k[1] /\ where[a] # Ended})
             ELSE Cardinality(InStage(where, k[1], k[2]))

(***************************************************************************)
(* What a sweep writes accounts for every application that stayed where it *)
(* was while it read, and for none that was never there: moves during the  *)
(* read blur the counts by no more than the moved.                         *)
(***************************************************************************)
SweepsCountTheUnmoved ==
    \A s \in Sweepers : sweep[s].at = "writing" =>
        \A f \in sweep[s].from : \A j \in Jobs, st \in Stages :
            LET there == InStage(f, j, st)
                blur == {a \in sweep[s].moved : JobOf[a] = j}
            IN /\ sweep[s].count[<<j, st>>] >= Cardinality(there \ blur)
               /\ sweep[s].count[<<j, st>>] <= Cardinality(there \cup blur)

(***************************************************************************)
(* After a sweep during which nothing moved and no other was under way,    *)
(* the rows of the stages that are occupied are the truth, whatever        *)
(* earlier sweeps and failed ones have left and later ones write, and so   *)
(* is the difference drawn from them.                                      *)
(***************************************************************************)
OccupiedStagesAreRight ==
    calm => /\ \A k \in Keys : Actual(k) > 0 => store[week][k] = Actual(k)
            /\ (Cardinality(Periods) > 1) =>
                   \A k \in Keys : Actual(k) > 0 =>
                       \E d \in StageFlow : d.key = k /\ d.current = Actual(k)
=============================================================================
