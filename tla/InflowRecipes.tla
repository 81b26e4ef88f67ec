----------------------------- MODULE InflowRecipes -----------------------------
(***************************************************************************)
(* analyze_pipeline_quality and analyze_source_quality: from the           *)
(* applications one read returned to what is published about them.  Both   *)
(* count the rows by group and by status, bucket them by the week they     *)
(* came in (resolution/temporal.ts), and judge whether the dates look like *)
(* a data load (resolution/provenance.ts).  The pipeline recipe counts     *)
(* every row as of now and bounds only the weekly series by the window; the*)
(* source recipe drops the rows outside the window and counts its weeks    *)
(* back from now.                                                          *)
(*                                                                         *)
(* Time is in ticks, a week is a number.  The order of the rankings, their *)
(* cut and the evidence ids they carry are left out.                       *)
(***************************************************************************)
EXTENDS AnalysisFrame, Sequences, FiniteSetsExt, TLC

CONSTANTS Calls,      \* [recipe, bounds, filtered]; filtered: it asks for one status
          Cohorts,    \* what a read may return: sequences of applications
          Nows, Lookback, WeekTicks, StaleTicks, DEFAULT_MAX_WEEKS,
          OpenedAt,   \* a job's opening, None where no anchor is known
          CLUSTER_MIN_RECORDS, CLUSTER_WINDOW, ALL_DEFAULT_MIN_RECORDS,
          PREDATE_TOLERANCE, PREDATE_MIN_RECORDS

VARIABLES call, now, rows, whole, answer
vars == <<call, now, rows, whole, answer>>

(* The fields of an application that count.  The group is its stage or its *)
(* source; at stands for the first date the recipe finds; all but status   *)
(* and prospect may be None.                                               *)
ApplicationRow == {"job", "group", "status", "prospect", "at", "activity", "staged"}

Init == /\ call \in Calls /\ now \in Nows
        /\ rows = <<>> /\ whole = FALSE /\ answer = None

window == AdmittedWindow(call.bounds, now, Lookback)

-----------------------------------------------------------------------------
(* Observations.                                                           *)

isActiveStatus(status) == status \in {"active", "in_process"}
isTerminalStatus(status) == status \in {"rejected", "hired", "converted"}

daysAgo(at, asOf) == IF at = None THEN None ELSE IF at > asOf THEN None ELSE asOf - at

(* Today's rows cannot be rewound, so the pipeline recipe asks as of now.  *)
AsOf == IF call.recipe = "pipeline" THEN now ELSE window.end

staleActive(row) ==
    LET ago == daysAgo(row.activity, AsOf)
    IN  isActiveStatus(row.status) /\ (IF ago = None THEN TRUE ELSE ago >= StaleTicks)

Inside(at, w) == w.start <= at /\ at <= w.end

(* Prospects are no applications; a row without a date is in the snapshot. *)
buildObservations(read) ==
    SelectSeq(read, LAMBDA row : ~row.prospect /\ (call.recipe = "source" =>
        (row.at # None => Inside(row.at, window))))

exclusionReasons(read) ==
    LET prospects == Len(SelectSeq(read, LAMBDA row : row.prospect))
    IN  [prospect_record |-> prospects,
         outside_analysis_window |->
            Len(read) - prospects - Len(buildObservations(read))]

Count(obs, P(_)) == Cardinality({i \in DOMAIN obs : P(obs[i])})

(* One group's numbers.                                                    *)
Tally(obs) ==
    [applications |-> Len(obs),
     active   |-> Count(obs, LAMBDA o : isActiveStatus(o.status)),
     terminal |-> Count(obs, LAMBDA o : isTerminalStatus(o.status)),
     hired    |-> Count(obs, LAMBDA o : o.status = "hired"),
     rejected |-> Count(obs, LAMBDA o : o.status = "rejected"),
     stale    |-> Count(obs, staleActive)]

Grouped(obs, keys) == [k \in keys |-> Tally(SelectSeq(obs, LAMBDA o : o.group = k))]

(* Rows without a stage are a group; rows without a source are in none.    *)
buildGroupRankings(obs) == Grouped(obs, {obs[i].group : i \in DOMAIN obs})
buildAttributionRankings(obs) == Grouped(obs, {obs[i].group : i \in DOMAIN obs} \ {None})

Rankings(obs) ==
    IF call.recipe = "pipeline" THEN buildGroupRankings(obs) ELSE buildAttributionRankings(obs)

(* The active rows of the fullest stage, and of all.                       *)
topStageConcentration(obs) ==
    LET active == SelectSeq(obs, LAMBDA o : isActiveStatus(o.status))
        stages == {active[i].group : i \in DOMAIN active}
        held(s) == Len(SelectSeq(active, LAMBDA o : o.group = s))
    IN  [top |-> Max({0} \cup {held(s) : s \in stages}), active |-> Len(active)]

statusMix(obs) ==
    [s \in {obs[i].status : i \in DOMAIN obs} |-> Count(obs, LAMBDA o : o.status = s)]

missingStageTiming(obs) ==
    Count(obs, LAMBDA o : isActiveStatus(o.status) /\ daysAgo(o.staged, AsOf) = None)

dataQuality(obs) ==
    [missing_job_id |-> Count(obs, LAMBDA o : o.job = None),
     missing_stage |-> Count(obs, LAMBDA o : o.group = None),
     missing_last_activity_at |-> Count(obs, LAMBDA o : daysAgo(o.activity, AsOf) = None),
     missing_stage_timing |-> missingStageTiming(obs)]

-----------------------------------------------------------------------------
(* The weekly series.                                                      *)

weekKey(at) == at \div WeekTicks
WeekStart(week) == WeekTicks * week
WeekEnd(week) == WeekStart(week) + WeekTicks - 1

(* Plausible bug: a week that the window only touches is inside it.        *)
WeekTouchesWindow(week, w) == w.start <= WeekEnd(week) /\ WeekStart(week) <= w.end
isWeekInsideWindow(week, w) == w.start <= WeekStart(week) /\ WeekEnd(week) <= w.end

weeksCovered(w) == Max({1, (w.end - w.start + WeekTicks - 1) \div WeekTicks})

(* Only the pipeline recipe passes its window on.                          *)
resolveWindowMode == IF call.recipe = "pipeline" THEN window ELSE None

(* Plausible bug: weeks are compared to the first day of the window.       *)
LowerBoundIsTheDay(w, current, maxWeeks) ==
    IF w = None THEN current - (maxWeeks - 1) ELSE (w.start + WeekTicks - 1) \div WeekTicks
lowerBoundWeek(w, current, maxWeeks) ==
    IF w = None THEN current - (maxWeeks - 1) ELSE weekKey(w.start)

(* Weeks to counts, of the rows whose own date is in scope.                *)
Buckets(obs, w) ==
    LET scope == {i \in DOMAIN obs : obs[i].at # None /\
                                     (w # None => Inside(obs[i].at, w))}
    IN  [week \in {weekKey(obs[i].at) : i \in scope} |->
            Cardinality({i \in scope : weekKey(obs[i].at) = week})]
countOf(buckets, week) == IF week \in DOMAIN buckets THEN buckets[week] ELSE 0

windowComparisonGap(w, current) ==
    w # None /\ \E week \in {current - 1, current - 2} : ~isWeekInsideWindow(week, w)

computeWeekOverWeek(buckets, current) ==
    IF buckets = <<>> THEN None
    ELSE [current |-> current - 1, count |-> countOf(buckets, current - 1),
          prior |-> current - 2, priorCount |-> countOf(buckets, current - 2)]

Sum(counts, weeks) == MapThenSumSet(LAMBDA week : countOf(counts, week), weeks)

(* The mean of the later half against that of the earlier, a tenth apart.  *)
computeTrend(buckets, weeks) ==
    LET n == Cardinality(weeks)
        earlier == {week \in weeks : week - Min(weeks) < n \div 2}
        before == Sum(buckets, earlier) * (n - n \div 2)
        after == Sum(buckets, weeks \ earlier) * (n \div 2)
    IN  CASE n < 4 -> "insufficient_data"
          [] n >= 4 /\ before = 0 -> IF after > 0 THEN "rising" ELSE "flat"
          [] n >= 4 /\ before > 0 /\ 10 * after > 11 * before -> "rising"
          [] n >= 4 /\ before > 0 /\ 10 * after < 9 * before -> "falling"
          [] OTHER -> "flat"

(* From the first week with a row to the last before the current one.      *)
computeVelocity(buckets, current, maxWeeks) ==
    LET withData == {week \in DOMAIN buckets : current - maxWeeks <= week /\ week < current}
        weeks == IF withData = {} THEN {} ELSE Min(withData)..(current - 1)
    IN  [weeks |-> weeks, total |-> Sum(buckets, weeks), trend |-> computeTrend(buckets, weeks)]

(* Dated rows before the days of a window, and after them.                 *)
Excluded(obs, w) ==
    LET dated == {i \in DOMAIN obs : obs[i].at # None}
    IN  IF w = None THEN [before |-> 0, after |-> 0]
        ELSE [before |-> Cardinality({i \in dated : obs[i].at < w.start}),
              after |-> Cardinality({i \in dated : obs[i].at > w.end})]

buildTemporalView(obs) ==
    LET w == resolveWindowMode
        buckets == Buckets(obs, w)
        current == weekKey(IF w = None THEN now ELSE w.end)
        maxWeeks == IF w = None THEN DEFAULT_MAX_WEEKS ELSE weeksCovered(w)
        gap == windowComparisonGap(w, current)
    IN  [inflow |-> [week \in {k \in DOMAIN buckets :
                                  lowerBoundWeek(w, current, maxWeeks) <= k /\ k <= current} |->
                        [count |-> buckets[week],
                         partial |-> w # None /\ ~isWeekInsideWindow(week, w)]],
         excluded |-> Excluded(obs, w),
         missing |-> Count(obs, LAMBDA o : o.at = None),
         inProgress |-> IF current = weekKey(now) /\ current \in DOMAIN buckets
                        THEN current ELSE None,
         weekOverWeek |-> IF gap THEN None ELSE computeWeekOverWeek(buckets, current),
         velocity |-> IF gap THEN None ELSE computeVelocity(buckets, current, maxWeeks)]

(* weekly_application_volume, from facts that insist on a job; the pipeline *)
(* recipe feeds it the rows of the series, the source recipe all of its     *)
(* observations.                                                            *)
WeeklyVolume(obs, temporal) ==
    LET fed == SelectSeq(obs, LAMBDA o : call.recipe = "pipeline" =>
                   /\ o.at # None
                   /\ o.at # None => Inside(o.at, window) /\ weekKey(o.at) \in DOMAIN temporal.inflow)
    IN  IF \E i \in DOMAIN fed : fed[i].job = None THEN None ELSE Buckets(fed, None)

-----------------------------------------------------------------------------
(* Where the dates come from.                                              *)

Times(obs) ==
    LET dated == SelectSeq(obs, LAMBDA o : o.at # None)
    IN  SortSeq([i \in DOMAIN dated |-> dated[i].at], <)

(* The sweep of two pointers over the sorted dates.                        *)
DensestWindow(times) ==
    LET sweep[end \in 0..Len(times)] ==
            IF end = 0 THEN [start |-> 1, best |-> 0]
            ELSE LET p == sweep[end - 1]
                     start == Min({s \in p.start..end : times[end] - times[s] <= CLUSTER_WINDOW})
                 IN  [start |-> start, best |-> Max({p.best, end - start + 1})]
    IN  sweep[Len(times)].best

detectRecentCreationCluster(obs) ==
    LET times == Times(obs)
    IN  /\ Len(times) >= CLUSTER_MIN_RECORDS
        /\ 10 * DensestWindow(times) >= 9 * Len(times)

OpenedOf(o) == IF o.job = None THEN None ELSE OpenedAt[o.job]
IsAnchored(o) == o.at # None /\ OpenedOf(o) # None
Predates(o) == IsAnchored(o) /\ (IsAnchored(o) => o.at < OpenedOf(o) - PREDATE_TOLERANCE)

detectRecordsPredateRequisition(obs) ==
    LET predating == Count(obs, Predates)
    IN  /\ Count(obs, IsAnchored) > 0
        /\ predating >= PREDATE_MIN_RECORDS
        /\ 4 * predating >= Count(obs, IsAnchored)

(* Not asked of a read of one status: that would find what it asked for.   *)
detectAllDefaultStatus(obs) ==
    /\ ~call.filtered
    /\ Len(obs) >= ALL_DEFAULT_MIN_RECORDS
    /\ \A i \in DOMAIN obs : ~isTerminalStatus(obs[i].status)

detectDataProvenance(obs) ==
    LET suspected == detectRecentCreationCluster(obs) \/ detectRecordsPredateRequisition(obs)
    IN  [suspected |-> suspected, advisory |-> ~suspected /\ detectAllDefaultStatus(obs)]

-----------------------------------------------------------------------------
(* A window that is refused, or something else that throws.                *)
errorToDenial(error) ==
    CASE error = "cancelled" -> "CANCELLED"
      [] error = "timeout" -> "TOOL_TIMEOUT"
      [] error = "window" -> "LIMIT_EXCEEDED"
      [] error = "identity" -> "IDENTITY"
      [] OTHER -> "UPSTREAM_ERROR"

Deny ==
    /\ answer = None
    /\ \E error \in {"identity", "cancelled", "timeout", "upstream"}
                    \cup (IF window = None THEN {"window"} ELSE {}) :
          answer' = [kind |-> "denial", code |-> errorToDenial(error)]
    /\ UNCHANGED <<call, now, rows, whole>>

(* What the recipe answers over a read.  Only the pipeline recipe counts   *)
(* times in a stage, and is less than fresh where one is missing.          *)
envelope(read, isWhole) ==
    LET obs == buildObservations(read)
        temporal == buildTemporalView(obs)
        provenance == detectDataProvenance(obs)
        reasons == exclusionReasons(read)
        fresh == ~provenance.suspected
                 /\ (call.recipe = "pipeline" => missingStageTiming(obs) = 0)
    IN  [kind |-> "answer", observed |-> Len(obs), tally |-> Tally(obs),
         rankings |-> Rankings(obs), mix |-> statusMix(obs),
         concentration |-> topStageConcentration(obs), data_quality |-> dataQuality(obs),
         temporal |-> temporal, reliable |-> ~detectRecentCreationCluster(obs),
         volume |-> WeeklyVolume(obs, temporal), provenance |-> provenance,
         completeness |-> buildAnalysisCompleteness(Len(read), Len(obs),
             sumExclusions(reasons), reasons, isWhole, fresh)]

Run ==
    /\ answer = None /\ window # None
    /\ rows' \in Cohorts /\ whole' \in BOOLEAN
    /\ answer' = envelope(rows', whole')
    /\ UNCHANGED <<call, now>>

Next == Deny \/ Run

Spec == Init /\ [][Next]_vars

-----------------------------------------------------------------------------
answered == answer # None /\ answer.kind = "answer"
Inflow == answer.temporal.inflow
Total(f) == MapThenSumSet(LAMBDA k : f[k], DOMAIN f)

TypeOK ==
    /\ call \in Calls /\ now \in Nows /\ whole \in BOOLEAN
    /\ \A i \in DOMAIN rows : DOMAIN rows[i] = ApplicationRow
    /\ answered =>
        /\ answer.completeness.status \in {"complete", "partial", "incomplete"}
        /\ DOMAIN Inflow \subseteq Int

(* Every row that was read is somewhere: analysed or excluded for a named  *)
(* reason, in one group and one status; and of the pipeline recipe's rows  *)
(* each is in a displayed week or counted before the window, after it or   *)
(* without a date, wherever in a week the window begins and ends.  The rows*)
(* said to have no stage are those of the group without one, and no group  *)
(* holds more of the active rows than the one said to hold most.           *)
RecordsAccountedFor ==
    answered =>
        /\ Len(rows) = answer.observed + sumExclusions(answer.completeness.reasons)
        /\ Total(answer.mix) = answer.observed
        /\ call.recipe = "pipeline" =>
            /\ \A n \in DOMAIN answer.tally :
                   MapThenSumSet(LAMBDA k : answer.rankings[k][n], DOMAIN answer.rankings)
                     = answer.tally[n]
            /\ answer.observed =
                   MapThenSumSet(LAMBDA k : Inflow[k].count, DOMAIN Inflow)
                     + answer.temporal.excluded.before + answer.temporal.excluded.after
                     + answer.temporal.missing
            /\ answer.data_quality.missing_stage =
                   IF None \in DOMAIN answer.rankings THEN answer.rankings[None].applications ELSE 0
            /\ answer.concentration.top =
                   Max({0} \cup {answer.rankings[k].active : k \in DOMAIN answer.rankings})

(* Two numbers of one answer agree: the metric of weekly volume and the    *)
(* weekly series beside it.                                                *)
VolumeMatchesInflow ==
    answered /\ call.recipe = "pipeline" /\ answer.volume # None =>
        answer.volume = [week \in DOMAIN Inflow |-> Inflow[week].count]

(* All rows that came in during a week, by their own dates.                *)
CameIn(week) ==
    Count(rows, LAMBDA r : /\ ~r.prospect /\ r.at # None
                           /\ r.at # None => WeekStart(week) <= r.at /\ r.at <= WeekEnd(week))

(* What is shown as a whole week is one: a week not marked, and either     *)
(* week of a comparison, counts every row of its seven days; and a week    *)
(* said to be in progress is the one the question is asked in.             *)
WeeksAreWhole ==
    answered =>
        /\ call.recipe = "pipeline" =>
            /\ \A week \in DOMAIN Inflow :
                   ~Inflow[week].partial => Inflow[week].count = CameIn(week)
            /\ answer.temporal.weekOverWeek # None =>
                   /\ answer.temporal.weekOverWeek.count
                        = CameIn(answer.temporal.weekOverWeek.current)
                   /\ answer.temporal.weekOverWeek.priorCount
                        = CameIn(answer.temporal.weekOverWeek.prior)
        /\ answer.temporal.inProgress # None =>
            Inside(now, [start |-> WeekStart(answer.temporal.inProgress),
                         end |-> WeekEnd(answer.temporal.inProgress)])

(* Among the rows analysed, nine in ten of the dated ones within one window. *)
Bunched(obs) ==
    LET dated == {i \in DOMAIN obs : obs[i].at # None}
    IN  /\ Cardinality(dated) >= CLUSTER_MIN_RECORDS
        /\ \E i \in dated : 10 * Cardinality({k \in dated :
               obs[i].at <= obs[k].at /\ obs[k].at <= obs[i].at + CLUSTER_WINDOW})
                 >= 9 * Cardinality(dated)

(* An answer calls itself complete only over a whole read whose dates do    *)
(* not look like a load; it calls its weekly series reliable exactly when   *)
(* they do not bunch; and rows that are merely all undecided lower nothing. *)
SuspicionIsEarned ==
    answered =>
        LET obs == buildObservations(rows)
        IN  /\ answer.reliable <=> ~Bunched(obs)
            /\ answer.completeness.status = "complete" => whole /\ ~Bunched(obs)
            /\ answer.provenance.advisory =>
                  ~answer.provenance.suspected /\ answer.tally.terminal = 0

(* NOT TRUE of the code (temporal.ts:367, "Velocity over the COMPLETE      *)
(* calendar weeks"): a window that begins in the middle of a week has its  *)
(* first, partial week counted as a complete one.                          *)
VelocityIsOfWholeWeeks ==
    answered /\ call.recipe = "pipeline" /\ answer.temporal.velocity # None =>
        \A week \in answer.temporal.velocity.weeks : isWeekInsideWindow(week, window)
=============================================================================
