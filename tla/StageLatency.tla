----------------------------- MODULE StageLatency -----------------------------
(***************************************************************************)
(* analyze_stage_latency: how long each application has been where it is.  *)
(* One call reads the applications in scope, keeps those still moving, then*)
(* reads their current stage rows by batches of application ids, page after*)
(* page in the order of the rows' ids, and measures each row's dwell to the*)
(* end of the window.  Recruiters advance and reject candidates meanwhile: *)
(* an advance ends a stage row and starts another with a later id.         *)
(***************************************************************************)
EXTENDS AnalysisFrame, Sequences, FiniteSetsExt

CONSTANTS Apps, Stages,
          AppJob,          \* the job of each application, None where unreadable
          Worlds,          \* the pipelines the call may begin with
          Calls,           \* the calls: status, include_terminal, window bounds
          AppBatches,      \* each set of ids cut into batches (APPLICATION_STAGE_ID_BATCH_SIZE)
          PerPage,         \* stage rows on a page
          Now, Lookback, MinAge,
          MaxChanges,      \* bound: advances and rejections during the call
          MaxFaults        \* bound: reads that are cut or denied

VARIABLES call, world, was, phase, contexts, raw, seen, reads, stageRows, whole, answer,
          changes, faults

vars == <<call, world, was, phase, contexts, raw, seen, reads, stageRows, whole, answer,
          changes, faults>>

window == AdmittedWindow(call.bounds, Now, Lookback)

Init == /\ call \in Calls /\ world \in Worlds /\ was = world
        /\ phase = "asked" /\ contexts = {} /\ raw = 0 /\ seen = 0 /\ reads = <<>>
        /\ stageRows = {} /\ whole = TRUE /\ answer = None /\ changes = 0 /\ faults = 0

-----------------------------------------------------------------------------
Deny == phase' = "done" /\ answer' = [kind |-> "denial"]

isActiveApplicationStatus(status) == status \in {"active", "in_process"}

(* The status filter the read carries: the caller's, else active unless
   terminal applications are wanted; Greenhouse's "active" is every
   application still moving. *)
Listed(w) == {a \in Apps :
                CASE call.status # None -> w.status[a] = call.status
                  [] call.includeTerminal -> TRUE
                  [] OTHER -> isActiveApplicationStatus(w.status[a])}

buildApplicationContextById(w, apps) ==
    {a \in apps : call.includeTerminal \/ isActiveApplicationStatus(w.status[a])}

(* readAllScopedRows over list_applications: every row read counts, the rows
   on jobs the caller may not see are withheld. *)
ReadApplications ==
    /\ phase = "asked"
    /\ \/ window = None /\ Deny /\ UNCHANGED <<contexts, raw, seen, whole, faults>>
       \/ /\ window # None
          /\ \/ \E cut \in SUBSET Listed(world) :
                  /\ \/ cut = {} /\ UNCHANGED <<whole, faults>>
                     \/ /\ cut # {} /\ faults < MaxFaults /\ faults' = faults + 1
                        /\ whole' = FALSE
                  /\ LET read == Listed(world) \ cut
                         visible == read \ world.hidden
                     IN  /\ raw' = Cardinality(read) /\ seen' = Cardinality(visible)
                         /\ contexts' = buildApplicationContextById(world, visible)
                  /\ phase' = "stages" /\ UNCHANGED answer
             \/ /\ faults < MaxFaults /\ faults' = faults + 1
                /\ Deny /\ UNCHANGED <<contexts, raw, seen, whole>>
    /\ UNCHANGED <<call, world, was, reads, stageRows, changes>>

-----------------------------------------------------------------------------
batches == AppBatches[contexts]

Unread == [rows |-> {}, cursor |-> 0, kind |-> "reading"]
readOf(b) == IF b \in DOMAIN reads THEN reads[b] ELSE Unread

(* The rows after the cursor, oldest id first, one page of them. *)
After(apps, cursor) == {r \in world.rows : r.app \in apps /\ r.id > cursor}
Page(rows) == {r \in rows : Cardinality({o \in rows : o.id < r.id}) < PerPage}

(* One page of one batch; the batches run side by side. *)
ReadPage ==
    /\ phase = "stages"
    /\ \E b \in DOMAIN batches :
         /\ readOf(b).kind = "reading"
         /\ LET rest == After(batches[b], readOf(b).cursor)
                page == Page(rest)
                next(rows, cursor, kind) ==
                    reads' = [i \in DOMAIN reads \cup {b} |->
                                IF i = b THEN [rows |-> rows, cursor |-> cursor, kind |-> kind]
                                ELSE reads[i]]
            IN  \/ /\ UNCHANGED faults
                   /\ \/ page = {} /\ next(readOf(b).rows, readOf(b).cursor, "whole")
                      \/ /\ page # {}
                         /\ next(readOf(b).rows \cup page, Max({r.id : r \in page}), "reading")
                \/ /\ faults < MaxFaults /\ faults' = faults + 1
                   /\ \E kind \in {"cut", "stopped", "hard"} :
                        next(IF kind = "cut" THEN readOf(b).rows ELSE {}, 0, kind)
    /\ UNCHANGED <<call, world, was, phase, contexts, raw, seen, stageRows, whole, answer, changes>>

(* Folded in request order: a later truncation-shaped denial keeps the
   batches before it, a hard or a first denial is the answer. *)
FirstDenial == LET denied == {b \in DOMAIN batches : reads[b].kind \in {"stopped", "hard"}}
               IN  IF denied = {} THEN Len(batches) + 1 ELSE Min(denied)

FoldStages ==
    /\ phase = "stages" /\ \A b \in DOMAIN batches : readOf(b).kind # "reading"
    /\ LET denial == FirstDenial
           denied == denial <= Len(batches)
           kept == 1..(denial - 1)
       IN  \/ /\ denied /\ (denial = 1 \/ reads[denial].kind = "hard")
              /\ Deny /\ UNCHANGED <<stageRows, whole>>
           \/ /\ denied => denial > 1 /\ reads[denial].kind = "stopped"
              /\ stageRows' = UNION {reads[b].rows : b \in kept}
              /\ whole' = (whole /\ ~denied /\ \A b \in kept : reads[b].kind = "whole")
              /\ phase' = "count" /\ UNCHANGED answer
    /\ reads' = <<>>
    /\ UNCHANGED <<call, world, was, contexts, raw, seen, changes, faults>>

-----------------------------------------------------------------------------
(* None for a row with no entry date, or one entered after the window. *)
readStageDwell(row) ==
    IF row.entered = None THEN None
    ELSE IF row.entered > window.end THEN None ELSE window.end - row.entered

(* One observation per stage row, none for an application not kept.  There is
   no lower bound: the longest stay began before the window did. *)
buildObservations == {r \in stageRows : r.app \in contexts /\ readStageDwell(r) # None}

exclusionReasons ==
    [backend_scope_filtered |-> raw - seen,
     terminal_or_inactive_application |-> seen - Cardinality(contexts),
     missing_current_application_stage_row |->
        Cardinality({a \in contexts : \A r \in stageRows : r.app # a}),
     missing_stage_entry_timestamp |->
        Cardinality({r \in stageRows : r.app \in contexts /\ readStageDwell(r) = None})]

missingTiming == exclusionReasons.missing_current_application_stage_row
                 + exclusionReasons.missing_stage_entry_timestamp

(* Plausible bug: the gap may be negative. *)
SignedGap == raw - Cardinality(buildObservations)

recordsExcluded == LET gap == raw - Cardinality(buildObservations) IN IF gap > 0 THEN gap ELSE 0

(* What the named reasons leave unexplained is named too. *)
ReasonsGiven ==
    LET named == sumExclusions(exclusionReasons)
        rest == IF named < recordsExcluded THEN recordsExcluded - named ELSE 0
    IN  [reason \in DOMAIN exclusionReasons \cup {"other_scope_or_shape_exclusions"} |->
            IF reason \in DOMAIN exclusionReasons THEN exclusionReasons[reason] ELSE rest]

-----------------------------------------------------------------------------
Aging(observed) == {r \in observed : readStageDwell(r) >= MinAge}
JobsOf(observed) == {AppJob[r.app] : r \in observed} \ {None}
LongestDwell(observed) == Max({readStageDwell(r) : r \in observed})

(* One entry per stage, over all jobs; order, score and means are left out. *)
buildStageRankings(observed) ==
    [s \in {r.stage : r \in observed} |->
        LET own == {r \in observed : r.stage = s}
        IN  [applications |-> Cardinality(own), aging |-> Cardinality(Aging(own)),
             longest |-> LongestDwell(own), affectedJobs |-> JobsOf(own)]]

(* One entry per job; an application whose job cannot be read is in none. *)
buildJobBreakdown(observed) ==
    [j \in JobsOf(observed) |->
        LET own == {r \in observed : AppJob[r.app] = j}
        IN  [applications |-> Cardinality(own), aging |-> Cardinality(Aging(own)),
             longest |-> LongestDwell(own), stages |-> {r.stage : r \in own}]]

metrics(observed) ==
    [considered |-> Cardinality(observed), aging |-> Cardinality(Aging(observed)),
     longest |-> IF observed = {} THEN 0 ELSE LongestDwell(observed)]

Answer == /\ phase = "count" /\ phase' = "done"
          /\ answer' = [kind |-> "answer", observed |-> buildObservations,
                        aging |-> Aging(buildObservations),
                        metrics |-> metrics(buildObservations),
                        rankings |-> buildStageRankings(buildObservations),
                        breakdown |-> buildJobBreakdown(buildObservations),
                        completeness |-> buildAnalysisCompleteness(
                            raw, Cardinality(buildObservations), recordsExcluded, ReasonsGiven,
                            whole, missingTiming = 0)]
          /\ UNCHANGED <<call, world, was, contexts, raw, seen, reads, stageRows, whole, changes, faults>>

-----------------------------------------------------------------------------
NextId == Max({0} \cup {r.id : r \in world.rows} \cup {r.id : r \in was.rows}) + 1

(* An advance or a rejection ends the current stage row. *)
PipelineChanges ==
    /\ phase # "done" /\ changes < MaxChanges /\ changes' = changes + 1
    /\ \E a \in Apps :
         /\ isActiveApplicationStatus(world.status[a])
         /\ LET others == {r \in world.rows : r.app # a}
            IN  \/ \E s \in Stages : world' = [world EXCEPT !.rows = others \cup
                                {[id |-> NextId + changes, app |-> a, entered |-> Now, stage |-> s]}]
                \/ world' = [world EXCEPT !.rows = others, !.status[a] = "rejected"]
    /\ UNCHANGED <<call, was, phase, contexts, raw, seen, reads, stageRows, whole, answer, faults>>

Next == ReadApplications \/ ReadPage \/ FoldStages \/ Answer \/ PipelineChanges

Spec == Init /\ [][Next]_vars

-----------------------------------------------------------------------------
TypeOK ==
    /\ call \in Calls /\ phase \in {"asked", "stages", "count", "done"}
    /\ contexts \subseteq Apps /\ raw \in 0..Cardinality(Apps) /\ seen \in 0..raw
    /\ DOMAIN reads \subseteq DOMAIN batches
    /\ \A r \in stageRows : r.app \in Apps
    /\ whole \in BOOLEAN /\ changes \in 0..MaxChanges /\ faults \in 0..MaxFaults
    /\ answer # None /\ answer.kind = "answer" =>
          /\ answer.completeness.excluded \in 0..raw
          /\ \A reason \in DOMAIN answer.completeness.reasons :
                answer.completeness.reasons[reason] >= 0

answered == answer # None /\ answer.kind = "answer"
Done == answer.completeness

(* No record drops silently: the reasons given explain at least every record
   the answer excludes, and an answer whose numbers do not add up says
   "incomplete". *)
ExclusionsAreExplained ==
    answered => /\ sumExclusions(Done.reasons) >= Done.excluded
                /\ Done.total # Done.analyzed + Done.excluded => Done.status = "incomplete"

(* An answer that claims its inventory complete has the worst bottlenecks in
   it: every visible application that was moving and stayed where it was during
   the call is observed, however long before the window it got there. *)
LongestDwellersAreKept ==
    answered /\ Done.inventoryComplete =>
        \A r \in was.rows :
            /\ call.status = None /\ r \in world.rows /\ r.app \notin world.hidden
            /\ isActiveApplicationStatus(was.status[r.app])
            /\ r.entered # None /\ r.entered <= window.end
            => /\ r \in answer.observed
               /\ window.end - r.entered >= MinAge => r \in answer.aging

(* No application is observed the caller may not see, nor, unless terminal
   ones were asked for, one that was already rejected when the call began. *)
ObservedInScope ==
    answered => \A r \in answer.observed :
        /\ r.app \notin world.hidden
        /\ ~call.includeTerminal => isActiveApplicationStatus(was.status[r.app])
(* The three tables of an answer tell one story: the rankings add up to the
   metrics, the breakdown to the observations whose job is known, the longest
   dwell is some stage's, and a stage affects a job exactly where the job's
   breakdown names the stage. *)
TablesAgree ==
    answered =>
        LET rankings == answer.rankings
            breakdown == answer.breakdown
            Total(table, count) == sumExclusions([x \in DOMAIN table |-> table[x][count]])
        IN  /\ Total(rankings, "applications") = answer.metrics.considered
            /\ Total(rankings, "aging") = answer.metrics.aging
            /\ Total(breakdown, "applications")
                  = Cardinality({r \in answer.observed : AppJob[r.app] # None})
            /\ answer.metrics.longest = Max({0} \cup {rankings[s].longest : s \in DOMAIN rankings})
            /\ \A s \in DOMAIN rankings, j \in DOMAIN breakdown :
                  j \in rankings[s].affectedJobs <=> s \in breakdown[j].stages
=============================================================================
