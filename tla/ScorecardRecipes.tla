--------------------------- MODULE ScorecardRecipes ---------------------------
(***************************************************************************)
(* The two scorecard recipes: who owes scorecards                          *)
(* (analyze_scorecard_accountability) and whose feedback is late           *)
(* (analyze_interview_feedback_drag).  One call: the window is resolved, a *)
(* narrowed scope is bridged from jobs to application ids once, the cards  *)
(* are read twice (by interview date, then by submission date), in batches *)
(* that run side by side, the copies are united by card, each card is      *)
(* placed in one partition, and the in-window cards' applications are      *)
(* looked up for their jobs.  Interviewers submit, interviews move and     *)
(* applications change job between the reads, and a read may be answered   *)
(* from the read cache, with Greenhouse as it was when the call began.     *)
(***************************************************************************)
EXTENDS AnalysisFrame, Sequences

CONSTANTS Cards, Apps,
          All,             \* the scope of a call that names no jobs
          CardApp,         \* the application of each card
          CardPerson,      \* the interviewer of each card, None where unnamed
          Worlds,          \* the states Greenhouse may be in when the call begins
          Calls,           \* the calls: recipe, scope, window bounds
          AppBatches,      \* each set of application ids cut into batches (APPLICATION_ID_BATCH_SIZE)
          Now, Ticks,      \* the tick of the call; the ticks an event may carry
          Lookback, DueTicks,
          ServerReadsWholeDay,  \* how Greenhouse takes a bare date as an upper bound
          MaxChanges,      \* bound: changes in Greenhouse during the call
          MaxFaults        \* bound: reads that are cut or denied

VARIABLES call, world, was, phase, ids, bridged, field, returned, reads, whole, rows,
          jobOf, answer, changes, faults

vars == <<call, world, was, phase, ids, bridged, field, returned, reads, whole, rows,
          jobOf, answer, changes, faults>>

WINDOW_FILTER_FIELDS == <<"interviewed", "submitted">>
Jobs == UNION {{w.job[a] : a \in Apps} : w \in Worlds} \ {None}

window == AdmittedWindow(call.bounds, Now, Lookback)
narrowed == call.scope # All

Init == /\ call \in Calls /\ world \in Worlds /\ was = world
        /\ phase = "asked" /\ ids = {} /\ bridged = TRUE /\ field = 1
        /\ returned = <<>> /\ reads = <<>> /\ whole = TRUE /\ rows = <<>>
        /\ jobOf = <<>> /\ answer = None /\ changes = 0 /\ faults = 0

-----------------------------------------------------------------------------
(* What a card's row says.  A row is the card as it was when it was read. *)
scorecardWindowBasis(row) == IF row.interviewed # None THEN row.interviewed ELSE row.submitted

partitionScorecardByWindow(row) ==
    LET basis == scorecardWindowBasis(row)
    IN  CASE basis = None -> "missing_basis"
          [] window.start <= basis /\ basis <= window.end -> "in_window"
          [] OTHER -> "outside_window"

isSubmittedScorecard(row) == row.submitted # None \/ row.status = "complete"

(* Days from the basis to the submission, or to the window's end for a card
   with no submission date; None when the submission precedes the basis. *)
delayTicks(row) ==
    LET from == scorecardWindowBasis(row)
        to == IF row.submitted # None THEN row.submitted ELSE window.end
    IN  IF to < from THEN None ELSE to - from

partitionFeedbackRow(row) ==
    LET partition == partitionScorecardByWindow(row)
    IN  IF partition = "in_window" /\ delayTicks(row) = None
        THEN "submitted_before_interview" ELSE partition

partitionOf(row) == IF call.recipe = "drag" THEN partitionFeedbackRow(row)
                    ELSE partitionScorecardByWindow(row)

-----------------------------------------------------------------------------
Deny == phase' = "done" /\ answer' = [kind |-> "denial"]

Start == /\ phase = "asked"
         /\ \/ window = None /\ Deny
            \/ window # None /\ UNCHANGED answer
               /\ phase' = IF narrowed THEN "derive" ELSE "read"
         /\ UNCHANGED <<call, world, was, ids, bridged, field, returned, reads, whole, rows,
                        jobOf, changes, faults>>

(* loadApplicationIdsForJobScope, once for both filters: the applications on
   the jobs asked for, some of them when the read is cut, or a denial. *)
Derive == /\ phase = "derive"
          /\ \E w \in {world, was} :
               LET onJobs == {a \in Apps : w.job[a] \in call.scope}
               IN  \/ /\ ids' = onJobs /\ phase' = "read"
                      /\ UNCHANGED <<bridged, answer, faults>>
                   \/ /\ faults < MaxFaults /\ faults' = faults + 1
                      /\ ids' \in SUBSET onJobs /\ bridged' = FALSE /\ phase' = "read"
                      /\ UNCHANGED answer
                   \/ /\ faults < MaxFaults /\ faults' = faults + 1
                      /\ Deny /\ UNCHANGED <<ids, bridged>>
          /\ UNCHANGED <<call, world, was, field, returned, reads, whole, rows, jobOf, changes>>

(* The reads of one filter: a batch of application ids each, or the one
   unbridged read of every card the caller may see. *)
batches == IF narrowed THEN AppBatches[ids] ELSE <<Apps>>

(* What Greenhouse selects for one batch: cards of these applications dated
   inside the window on the filter's field. *)
SelectedUpTo == LET end == call.bounds.end
                IN  IF end # None /\ end.date /\ ServerReadsWholeDay
                    THEN window.end + DayTicks - 1 ELSE window.end

Selected(w, apps) ==
    LET f == WINDOW_FILTER_FIELDS[field]
    IN  {c \in Cards : /\ CardApp[c] \in apps
                       /\ w.card[c][f] # None
                       /\ window.start <= w.card[c][f] /\ w.card[c][f] <= SelectedUpTo}

Copies(w, cards) == [c \in cards |-> w.card[c]]

(* A batch comes back whole, cut short, or denied (a truncation-shaped denial
   or a hard one); batches run side by side, so in any order. *)
ReadBatch ==
    /\ phase = "read"
    /\ \E b \in DOMAIN batches \ DOMAIN returned, w \in {world, was} :
         LET selected == Selected(w, batches[b])
             result(kind, cards) ==
                 returned' = [i \in DOMAIN returned \cup {b} |->
                                 IF i = b THEN [kind |-> kind, rows |-> Copies(w, cards)]
                                 ELSE returned[i]]
         IN  \/ result("whole", selected) /\ UNCHANGED faults
             \/ /\ faults < MaxFaults /\ faults' = faults + 1
                /\ \/ \E cards \in SUBSET selected : result("cut", cards)
                   \/ result("stopped", {})
                   \/ result("hard", {})
    /\ UNCHANGED <<call, world, was, phase, ids, bridged, field, reads, whole, rows, jobOf,
                   answer, changes>>

(* The batches are folded in order.  The prefix before the first denial
   stands when it is not empty and the denial is truncation-shaped. *)
FirstDenial == LET denied == {b \in DOMAIN batches : returned[b].kind \in {"stopped", "hard"}}
               IN  IF denied = {} THEN Len(batches) + 1
                   ELSE CHOOSE b \in denied : \A o \in denied : b <= o

ReadDenied == FirstDenial <= Len(batches)
              /\ (returned[FirstDenial].kind = "hard" \/ FirstDenial = 1)

Folded == LET kept == 1..(FirstDenial - 1)
              cards == UNION {DOMAIN returned[b].rows : b \in kept}
          IN  [c \in cards |-> returned[CHOOSE b \in kept : c \in DOMAIN returned[b].rows].rows[c]]

FoldWhole == /\ FirstDenial > Len(batches)
             /\ \A b \in DOMAIN batches : returned[b].kind = "whole"

(* True when the copy held is the older observation of the card. *)
isStalerThan(held, candidate) ==
    \/ held.updated = None \/ candidate.updated = None
    \/ candidate.updated > held.updated

FreshestOf(held, candidate) == IF isStalerThan(held, candidate) THEN candidate ELSE held

unionScorecardReads(done) ==
    LET cards == UNION {DOMAIN done[i] : i \in DOMAIN done}
        seen(c) == {i \in DOMAIN done : c \in DOMAIN done[i]}
    IN  [c \in cards |-> IF seen(c) = {1, 2} THEN FreshestOf(done[1][c], done[2][c])
                         ELSE done[CHOOSE i \in seen(c) : TRUE][c]]

Unite(done) == /\ rows' = unionScorecardReads(done) /\ phase' = "lookup"

(* One filter's reads are in.  After the first filter comes the second; a
   truncation-shaped denial of the second leaves the first filter's rows as a
   partial answer, any other denial is the answer. *)
FoldRead ==
    /\ phase = "read" /\ DOMAIN returned = DOMAIN batches
    /\ returned' = <<>>
    /\ \/ /\ ReadDenied
          /\ \/ /\ returned[FirstDenial].kind = "stopped" /\ field = 2
                /\ whole' = FALSE /\ Unite(reads) /\ UNCHANGED answer
             \/ /\ returned[FirstDenial].kind = "hard" \/ field = 1
                /\ Deny /\ UNCHANGED <<whole, rows>>
          /\ UNCHANGED <<reads, field>>
       \/ /\ ~ReadDenied
          /\ reads' = Append(reads, Folded) /\ whole' = (whole /\ FoldWhole)
          /\ \/ field = 1 /\ field' = 2 /\ UNCHANGED <<phase, rows>>
             \/ field = 2 /\ Unite(Append(reads, Folded)) /\ UNCHANGED field
          /\ UNCHANGED answer
    /\ UNCHANGED <<call, world, was, ids, bridged, jobOf, changes, faults>>

-----------------------------------------------------------------------------
InPartition(p) == {c \in DOMAIN rows : partitionOf(rows[c]) = p}
Windowed == InPartition("in_window")

(* loadApplicationJobIdsFromScopedList: the job of each application a windowed
   card names; one denied batch denies the call. *)
Lookup == /\ phase = "lookup"
          /\ \/ \E w \in {world, was} :
                  /\ jobOf' = [a \in {CardApp[c] : c \in Windowed} |-> w.job[a]]
                  /\ phase' = "count" /\ UNCHANGED <<answer, faults>>
             \/ /\ faults < MaxFaults /\ faults' = faults + 1 /\ Windowed # {}
                /\ Deny /\ UNCHANGED jobOf
          /\ UNCHANGED <<call, world, was, ids, bridged, field, returned, reads, whole, rows, changes>>

Resolved == {c \in Windowed : jobOf[CardApp[c]] # None}

OutOfScope == {c \in Resolved : narrowed /\ jobOf[CardApp[c]] \notin call.scope}
Considered == Resolved \ OutOfScope

exclusionReasons ==
    [outside_analysis_window |-> Cardinality(InPartition("outside_window")),
     missing_window_basis |-> Cardinality(InPartition("missing_basis")),
     submitted_before_interview |-> Cardinality(InPartition("submitted_before_interview")),
     unresolved_application_job_association |-> Cardinality(Windowed \ Resolved),
     outside_requested_scope |-> Cardinality(OutOfScope)]

Owed(c) == ~isSubmittedScorecard(rows[c])
Late(c) == delayTicks(rows[c]) > DueTicks

TotalDelay(cards) == sumExclusions([c \in cards |-> delayTicks(rows[c])])

(* What is counted of a set of cards: of one person's, for a ranking, and of
   all of them, for the metrics.  Rates and means are left out. *)
feedbackCounts(cards) ==
    [total |-> Cardinality(cards),
     submitted |-> Cardinality({c \in cards : ~Owed(c)}),
     lateOrUnsubmitted |-> Cardinality({c \in cards : Late(c) \/ Owed(c)}),
     unsubmitted |-> Cardinality({c \in cards : Owed(c)}),
     delay |-> TotalDelay(cards)]

accountabilityCounts(cards) ==
    LET owed == {c \in cards : Owed(c)}
    IN  [total |-> Cardinality(cards), unsubmitted |-> Cardinality(owed),
         delay |-> TotalDelay(owed)]

CountsOf(cards) == IF call.recipe = "drag" THEN feedbackCounts(cards) ELSE accountabilityCounts(cards)

affectedJobs(cards) == {jobOf[CardApp[c]] : c \in cards}

(* One entry per person, "unknown" (None) among them; order, score and the
   evidence ids are left out. *)
buildRankings ==
    [p \in {CardPerson[c] : c \in Considered} |->
        LET own == {c \in Considered : CardPerson[c] = p}
        IN  [counts |-> CountsOf(own), affectedJobs |-> affectedJobs(own)]]

(* The jobs asked for, or every job a looked-up application is on. *)
countScopedJobs == IF narrowed THEN Cardinality(call.scope)
                   ELSE Cardinality({jobOf[a] : a \in DOMAIN jobOf} \ {None})

Answer == /\ phase = "count" /\ phase' = "done"
          /\ answer' = [kind |-> "answer", considered |-> Considered,
                        metrics |-> CountsOf(Considered), rankings |-> buildRankings,
                        scopedJobs |-> countScopedJobs,
                        completeness |-> buildAnalysisCompleteness(
                            Cardinality(DOMAIN rows), Cardinality(Considered),
                            sumExclusions(exclusionReasons), exclusionReasons,
                            whole /\ bridged, TRUE)]
          /\ UNCHANGED <<call, world, was, ids, bridged, field, returned, reads, whole, rows, jobOf,
                         changes, faults>>

-----------------------------------------------------------------------------
(* Greenhouse moves on while the call runs. *)
Touched(row) == IF row.updated = None THEN None ELSE row.updated + 1

Edit(c, row) == world' = [world EXCEPT !.card[c] = [row EXCEPT !.updated = Touched(row)]]

GreenhouseChanges ==
    /\ phase # "done" /\ changes < MaxChanges /\ changes' = changes + 1
    /\ \/ \E c \in Cards : /\ ~isSubmittedScorecard(world.card[c])
                           /\ Edit(c, [world.card[c] EXCEPT !.submitted = Now, !.status = "complete"])
       \/ \E c \in Cards, t \in Ticks :
            /\ world.card[c].interviewed \notin {None, t}
            /\ Edit(c, [world.card[c] EXCEPT !.interviewed = t])
       \/ \E a \in Apps, j \in Jobs \cup {None} :
            /\ world.job[a] # j /\ world' = [world EXCEPT !.job[a] = j]
    /\ UNCHANGED <<call, was, phase, ids, bridged, field, returned, reads, whole, rows, jobOf,
                   answer, faults>>

Next == Start \/ Derive \/ ReadBatch \/ FoldRead \/ Lookup \/ Answer \/ GreenhouseChanges

Spec == Init /\ [][Next]_vars

-----------------------------------------------------------------------------
Row == [status : {"draft", "complete"}, interviewed : Ticks \cup {None},
        submitted : Ticks \cup {None}, updated : 0..MaxChanges \cup {None}]
Phases == {"asked", "derive", "read", "lookup", "count", "done"}

TypeOK ==
    /\ call \in Calls /\ phase \in Phases /\ field \in 1..2
    /\ ids \subseteq Apps /\ bridged \in BOOLEAN /\ whole \in BOOLEAN
    /\ DOMAIN returned \subseteq DOMAIN batches
    /\ Len(reads) \in 0..2
    /\ DOMAIN rows \subseteq Cards /\ \A c \in DOMAIN rows : rows[c] \in Row
    /\ DOMAIN jobOf \subseteq Apps /\ \A a \in DOMAIN jobOf : jobOf[a] \in Jobs \cup {None}
    /\ answer # None /\ answer.kind = "answer" =>
          /\ answer.considered \subseteq DOMAIN rows
          /\ \A count \in DOMAIN answer.metrics : answer.metrics[count] \in Nat
    /\ changes \in 0..MaxChanges /\ faults \in 0..MaxFaults

answered == answer # None /\ answer.kind = "answer"

(* Every card read is analysed or excluded under exactly one reason: the
   accounting of an answer adds up, so a whole read is never reported as
   "incomplete", and every exclusion lowers it to "partial". *)
EveryRowIsAccountedFor ==
    answered => LET done == answer.completeness
                IN  /\ done.total = done.analyzed + done.excluded
                    /\ done.inventoryComplete => done.status # "incomplete"
                    /\ done.status = "complete" => answer.considered = DOMAIN rows

(* A card nobody touched during the call, its application neither: in the
   window, with a delay to measure, on a job the caller asked about. *)
Quiet(c) == world.card[c] = was.card[c] /\ world.job[CardApp[c]] = was.job[CardApp[c]]
Wanted(c) == /\ partitionOf(was.card[c]) = "in_window"
             /\ was.job[CardApp[c]] # None
             /\ narrowed => was.job[CardApp[c]] \in call.scope

(* An answer that calls its inventory complete misses no card: one that was in
   the window before, during and after the call is among those analysed,
   whichever of its two dates places it there and whatever was read when. *)
CompleteMissesNothing ==
    answered /\ answer.completeness.inventoryComplete =>
        \A c \in Cards : Quiet(c) /\ Wanted(c) => c \in answer.considered

(* A narrowed answer is about the jobs asked for: no card of another job is
   analysed, not even one whose application changed job after the ids were
   derived; and every card analysed lies in the window on the clock the
   recipe reports. *)
AnalysedBelong ==
    answered => \A c \in answer.considered :
        /\ narrowed => jobOf[CardApp[c]] \in call.scope
        /\ LET at == scorecardWindowBasis(rows[c])
           IN  window.start <= at /\ at <= window.end

(* A card both filters returned is reported as its newest copy, although the
   second read may come from the cache and be the older of the two. *)
FreshestCopyIsReported ==
    phase \in {"lookup", "count"} =>
        \A i \in DOMAIN reads : \A c \in DOMAIN reads[i] :
            /\ c \in DOMAIN rows
            /\ reads[i][c].updated # None => rows[c].updated >= reads[i][c].updated
            /\ reads[i][c].updated = None /\ i = Len(reads) => rows[c] = reads[i][c]

(* The rankings and the headline count the same cards: over all people, the
   unnamed among them, the entries of every count add up to the metric; a card
   is submitted or owed; and no more jobs are affected than are in scope. *)
RankingsAddUp ==
    answered =>
        /\ \A count \in DOMAIN answer.metrics :
              sumExclusions([p \in DOMAIN answer.rankings |-> answer.rankings[p].counts[count]])
                 = answer.metrics[count]
        /\ call.recipe = "drag" =>
              answer.metrics.total = answer.metrics.submitted + answer.metrics.unsubmitted
        /\ Cardinality(UNION {answer.rankings[p].affectedJobs : p \in DOMAIN answer.rankings})
              <= answer.scopedJobs
=============================================================================
