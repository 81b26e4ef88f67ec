------------------------------- MODULE Metrics ------------------------------
(***************************************************************************)
(* From the rows of a scoped read to a published number: the fact builders *)
(* (facts.ts), the registered metrics (metrics.ts), the layer that joins   *)
(* several metrics into one verdict (tools/analysis-fact-metrics.ts), and  *)
(* the planner's fact-backed answers, which narrow the facts to a scope    *)
(* and a window first (executePlannedDomain, tools/question-answer.ts).    *)
(*                                                                         *)
(* A row is [ids, job, status, from, to, key]: the identifiers it carries, *)
(* the two dates its metric uses (days since the epoch; None, or Bad when  *)
(* the text is no date) and the field it is grouped by.                    *)
(***************************************************************************)
EXTENDS Integers, FiniteSets, Sequences, SequencesExt, FiniteSetsExt

CONSTANTS
    Rows(_),       \* the rows considered for a fact
    MaxRows,       \* bound on the rows of one read
    Windows,       \* the windows asked for: [from, to], or None
    Scopes,        \* the job scopes asked for: a set of jobs, {} for all
    Now,           \* the day the question is asked
    OVERDUE_DAYS, SLA_DAYS,
    None, Bad

VARIABLES
    metric,   \* the metric asked for
    read,     \* [rows, complete, omitted]: the scoped read behind it
    ask,      \* [scope, window] of a planner question
    answer    \* None, then [metric, facts, layer]

vars == <<metric, read, ask, answer>>

(***************************************************************************)
(* The registry.                                                           *)
(***************************************************************************)
InterviewMetrics ==
    [scorecard_submission_rate              |-> "scorecard_fact",
     scorecard_overdue_rate                 |-> "scorecard_fact",
     interview_feedback_sla_breach_rate     |-> "scorecard_fact",
     availability_to_scheduled_interview_hours |-> "interview_event_fact",
     scheduled_interview_to_feedback_hours  |-> "scorecard_fact"]
PipelineMetrics ==
    [stage_conversion_rate                  |-> "application_stage_transition_fact",
     stage_dwell_days                       |-> "application_stage_transition_fact",
     weekly_application_volume              |-> "application_lifecycle_fact",
     weekly_qualified_pipeline_movement     |-> "application_lifecycle_fact",
     source_quality_by_outcome              |-> "application_lifecycle_fact",
     job_post_exposure_by_post              |-> "job_post_exposure_fact"]
DomainMetrics ==
    [approval_latency                       |-> "approval_flow_fact",
     prospect_pool_movement                 |-> "prospect_state_fact",
     note_activity_volume                   |-> "note_activity_fact",
     opening_fill_status                    |-> "opening_headcount_fact",
     offer_resolution                       |-> "offer_fact",
     hire_count                             |-> "hire_fact",
     rubric_answer_coverage                 |-> "scorecard_question_answer_fact"]
METRIC_REGISTRY == InterviewMetrics @@ PipelineMetrics @@ DomainMetrics
requiredFact(id) == METRIC_REGISTRY[id]

MetricFactName ==
    {"application_lifecycle_fact", "application_stage_transition_fact", "interview_event_fact",
     "scorecard_fact", "source_referrer_attribution_fact", "job_post_exposure_fact",
     "approval_flow_fact", "prospect_state_fact", "note_activity_fact", "opening_headcount_fact",
     "offer_fact", "scorecard_question_answer_fact", "hire_fact"}
MetricCompletenessStatus ==
    {"complete", "failed_endpoint", "incomplete_projection", "failed_missing_fact",
     "incomplete_truncated"}

(* The identifiers a fact builder insists on. *)
requiredIds(fact) ==
    CASE fact \in {"scorecard_fact", "interview_event_fact",
                   "application_stage_transition_fact"} -> {"id", "application_id"}
      [] fact \in {"application_lifecycle_fact", "job_post_exposure_fact",
                   "opening_headcount_fact", "offer_fact", "hire_fact"} -> {"id", "job_id"}
      [] OTHER -> {"id"}

classifyOfferStatus(status) ==
    CASE status = "Accepted"   -> "accepted"
      [] status = "Rejected"   -> "rejected"
      [] status = "Deprecated" -> "superseded"
      [] status = "Created"    -> "outstanding"
      [] OTHER                 -> "unknown"

IsDate(d) == d \notin {None, Bad}

(* The fields of a fact that a metric can tell; all but the identifiers are *)
(* optional.                                                                *)
FactFields == {"ids", "job", "status", "from", "to", "key"}
IsFact(fact, f) == DOMAIN f = FactFields /\ requiredIds(fact) \subseteq f.ids

Built(rows, dropped, omitted) ==
    [facts |-> rows,
     completeness |-> IF dropped > 0 THEN "failed_endpoint"
                      ELSE IF omitted THEN "incomplete_projection" ELSE "complete"]

(* A row without its identifiers is lost, and the fact is not complete. *)
buildFacts(fact, rows, omitted) ==
    LET kept == SelectSeq(rows, LAMBDA r : requiredIds(fact) \subseteq r.ids)
    IN  Built(kept, Len(rows) - Len(kept), omitted)

(* An offer that is not accepted, or has no date at all, is no hire and no loss. *)
buildHireFacts(rows, omitted) ==
    LET kept  == SelectSeq(rows, LAMBDA r : requiredIds("hire_fact") \subseteq r.ids)
        hires == SelectSeq(kept, LAMBDA r : /\ classifyOfferStatus(r.status) = "accepted"
                                            /\ IsDate(r.to) \/ IsDate(r.from))
    IN  Built(hires, Len(rows) - Len(kept), omitted)

FactsOf(fact) ==
    IF fact = "hire_fact" THEN buildHireFacts(read.rows, read.omitted)
                          ELSE buildFacts(fact, read.rows, read.omitted)

(***************************************************************************)
(* The computations.  A result is [completeness, value, numerator,         *)
(* denominator, groups]; groups maps a key to its count.                   *)
(***************************************************************************)
Count(facts, P(_)) == Cardinality({i \in DOMAIN facts : P(facts[i])})
Total(g) == MapThenSumSet(LAMBDA k : g[k], DOMAIN g)
GroupBy(facts, Key(_)) ==
    [k \in {Key(facts[i]) : i \in DOMAIN facts} |-> Count(facts, LAMBDA f : Key(f) = k)]

Result(value, numerator, denominator, groups) ==
    [completeness |-> "complete", value |-> value, numerator |-> numerator,
     denominator |-> denominator, groups |-> groups]

metricReadiness(completeness) ==
    [Result(None, 0, 0, <<>>) EXCEPT !.completeness = completeness]
notImplementedMetric == metricReadiness("failed_missing_fact")

(* value is the pair of the ratio; None stands for a null value. *)
Ratio(n, d) == Result(IF d > 0 THEN <<n, d>> ELSE None, n, d, <<>>)

isScorecardSubmitted(f) == f.to # None \/ f.status \in {"submitted", "complete", "completed"}
ratioMetric(facts) == Ratio(Count(facts, isScorecardSubmitted), Len(facts))

isOverdue(f) == ~isScorecardSubmitted(f) /\ IsDate(f.from) /\ Now - f.from > OVERDUE_DAYS
computeScorecardOverdueRate(facts) ==
    Ratio(Count(facts, isOverdue), Count(facts, LAMBDA f : f.from # None))

HasDuration(f) == IsDate(f.from) /\ IsDate(f.to) /\ f.from <= f.to
computeFeedbackSlaBreachRate(facts) ==
    Ratio(Count(facts, LAMBDA f : HasDuration(f) /\ f.to - f.from > SLA_DAYS),
          Count(facts, HasDuration))

averageDurationMetric(facts) ==
    LET timed == {i \in DOMAIN facts : HasDuration(facts[i])}
    IN  Ratio(MapThenSumSet(LAMBDA i : facts[i].to - facts[i].from, timed), Cardinality(timed))

averageNumberMetric(facts) ==
    LET some == {i \in DOMAIN facts : facts[i].key # None}
    IN  Ratio(MapThenSumSet(LAMBDA i : facts[i].key, some), Cardinality(some))

(* The Monday of the week of a day.  Day 0 was a Thursday. *)
weekKey(d) ==
    LET day == (d + 4) % 7
    IN  d + (IF day = 0 THEN -6 ELSE 1 - day)

weeklyCountMetric(facts) ==
    LET dated == SelectSeq(facts, LAMBDA f : IsDate(f.from))
        weeks == GroupBy(dated, LAMBDA f : weekKey(f.from))
    IN  Result(Total(weeks), 0, 0, weeks)

computeSourceQualityByOutcome(facts) ==
    LET known == SelectSeq(facts, LAMBDA f : f.key # None)
        by    == GroupBy(known, LAMBDA f : f.key)
    IN  Result(Cardinality(DOMAIN by), Count(known, LAMBDA f : f.status = "hired"), Len(known), by)

(* Notes, prospects, rubric answers, tracking links and hires: counted by a key. *)
computeCounted(facts) ==
    LET by == GroupBy(facts, LAMBDA f : f.key) IN Result(Total(by), 0, 0, by)
computeHireCount(facts) ==
    LET by == GroupBy(facts, LAMBDA f : IF IsDate(f.to) THEN "resolved_at" ELSE "sent_on")
    IN  Result(Len(facts), 0, 0, by)

computeOpeningFillStatus(facts) ==
    LET open == Count(facts, LAMBDA f : f.key # "closed" /\ f.to = None)
    IN  Result(open, open, Len(facts), GroupBy(facts, LAMBDA f : f.job))

(* The upper median of the ages of the flows that are still pending. *)
computeApprovalPendingAge(facts) ==
    LET pending == SelectSeq(facts, LAMBDA f : /\ f.status \notin {"approved", "rejected", "complete"}
                                               /\ IsDate(f.from))
        ages    == SortSeq([i \in DOMAIN pending |-> IF Now < pending[i].from THEN 0
                                                     ELSE Now - pending[i].from],
                           LAMBDA a, b : a < b)
    IN  Result(IF ages = <<>> THEN None ELSE ages[Len(ages) \div 2 + 1], 0, 0, <<>>)

UNDATED_GROUP_BY_CLASS(class) ==
    CASE class = "outstanding" -> "outstanding_no_resolved_at"
      [] class = "superseded"  -> "superseded_no_resolved_at"
      [] class = "unknown"     -> "unrecognized_status_no_resolved_at"
      [] OTHER                 -> "resolved_status_no_resolved_at"

(* The offers of the window, and those no window can place, which are counted
   and named apart and never join the rate. *)
computeOfferResolutionMix(facts, undated) ==
    LET class(f)  == classifyOfferStatus(f.status)
        accepted  == Count(facts, LAMBDA f : class(f) = "accepted")
        resolved  == Count(facts, LAMBDA f : class(f) \in {"accepted", "rejected"})
        total     == Len(facts) + Len(undated)
        groups    == GroupBy(facts, LAMBDA f : f.status) @@
                     GroupBy(undated, LAMBDA f : UNDATED_GROUP_BY_CLASS(class(f)))
    IN  Result(IF resolved > 0 THEN <<accepted, resolved>> ELSE total, accepted, resolved, groups)

computeMetric(id, fact, undated) ==
    LET facts == fact.facts IN
    IF id = "stage_conversion_rate" THEN notImplementedMetric
    ELSE IF fact.completeness # "complete" THEN metricReadiness(fact.completeness)
    ELSE CASE id = "scorecard_submission_rate"          -> ratioMetric(facts)
           [] id = "scorecard_overdue_rate"             -> computeScorecardOverdueRate(facts)
           [] id = "interview_feedback_sla_breach_rate" -> computeFeedbackSlaBreachRate(facts)
           [] id \in {"availability_to_scheduled_interview_hours",
                      "scheduled_interview_to_feedback_hours"} -> averageDurationMetric(facts)
           [] id = "stage_dwell_days"                   -> averageNumberMetric(facts)
           [] id = "weekly_application_volume"          -> weeklyCountMetric(facts)
           [] id = "weekly_qualified_pipeline_movement" ->
                weeklyCountMetric(SelectSeq(facts, LAMBDA f : f.status # "rejected"))
           [] id = "source_quality_by_outcome"          -> computeSourceQualityByOutcome(facts)
           [] id = "opening_fill_status"                -> computeOpeningFillStatus(facts)
           [] id = "approval_latency"                   -> computeApprovalPendingAge(facts)
           [] id = "offer_resolution"                   -> computeOfferResolutionMix(facts, undated)
           [] id = "hire_count"                         -> computeHireCount(facts)
           [] OTHER                                     -> computeCounted(facts)

(***************************************************************************)
(* A recipe's layer of metrics, and the verdict over all of them.          *)
(***************************************************************************)
RecipeMetrics ==
    {{"scorecard_submission_rate", "scorecard_overdue_rate"},
     {"interview_feedback_sla_breach_rate", "scheduled_interview_to_feedback_hours",
      "scorecard_submission_rate"},
     {"weekly_application_volume", "weekly_qualified_pipeline_movement",
      "source_quality_by_outcome"},
     {"stage_dwell_days"},
     {"source_quality_by_outcome", "weekly_application_volume"}}

combineMetricCompleteness(statuses) ==
    CASE "failed_missing_fact"   \in statuses -> "failed_missing_fact"
      [] "failed_endpoint"       \in statuses -> "failed_endpoint"
      [] "incomplete_truncated"  \in statuses -> "incomplete_truncated"
      [] "incomplete_projection" \in statuses -> "incomplete_projection"
      [] OTHER                                -> "complete"

buildAnalysisFactMetricLayer(ids) ==
    LET factOf(id) == FactsOf(requiredFact(id))
        results    == [id \in ids |-> computeMetric(id, factOf(id), <<>>)]
    IN  [results |-> results,
         status  |-> combineMetricCompleteness(
                        {results[id].completeness : id \in ids}
                        \cup {factOf(id).completeness : id \in ids}
                        \cup (IF read.complete THEN {} ELSE {"incomplete_truncated"}))]

Recipe ==
    /\ answer = None
    /\ \E ids \in RecipeMetrics :
          /\ metric \in ids
          /\ answer' = [kind |-> "recipe", layer |-> buildAnalysisFactMetricLayer(ids),
                        facts |-> FactsOf(requiredFact(metric)).facts]
    /\ UNCHANGED <<metric, read, ask>>

(***************************************************************************)
(* A question the planner answers from one fact.                           *)
(***************************************************************************)
PLANNED_DOMAIN_BINDINGS ==
    {"approval_latency", "prospect_pool_movement", "availability_to_scheduled_interview_hours",
     "job_post_exposure_by_post", "opening_fill_status", "offer_resolution"}
factJobIdField(id) == id # "prospect_pool_movement"
factWindowField(id) ==
    CASE id = "approval_latency" -> "from"
      [] id \in {"availability_to_scheduled_interview_hours", "offer_resolution"} -> "to"
      [] OTHER -> None
undatedClassField(id) == id = "offer_resolution"

InScope(f) == ask.scope = {} \/ ~factJobIdField(metric) \/ f.job \in ask.scope
Clock(f) == IF factWindowField(metric) = "from" THEN f.from ELSE f.to
Windowed == ask.window # None /\ factWindowField(metric) # None
Undated(f) == ~IsDate(Clock(f))
InWindow(f) == ~Undated(f) /\ ask.window.from <= Clock(f) /\ Clock(f) <= ask.window.to

executePlannedDomain ==
    LET fact    == FactsOf(requiredFact(metric))
        scoped  == SelectSeq(fact.facts, InScope)
        placed  == IF Windowed THEN SelectSeq(scoped, InWindow) ELSE scoped
        undated == IF Windowed /\ undatedClassField(metric) THEN SelectSeq(scoped, Undated) ELSE <<>>
        result  == computeMetric(metric, [fact EXCEPT !.facts = placed], undated)
    IN  [results |-> [id \in {metric} |-> result],
         status  |-> IF read.complete THEN result.completeness ELSE "incomplete_truncated",
         undated |-> undated, facts |-> placed]

Planned ==
    /\ answer = None /\ metric \in PLANNED_DOMAIN_BINDINGS
    /\ answer' = [kind |-> "planned", layer |-> executePlannedDomain,
                  facts |-> executePlannedDomain.facts]
    /\ UNCHANGED <<metric, read, ask>>

(* A metric no recipe and no question asks for by itself. *)
Single ==
    /\ answer = None
    /\ metric \in {"stage_conversion_rate", "note_activity_volume", "hire_count",
                   "rubric_answer_coverage"}
    /\ LET fact == FactsOf(requiredFact(metric))
           result == computeMetric(metric, fact, <<>>)
       IN  answer' = [kind |-> "single", facts |-> fact.facts,
                      layer |-> [results |-> [id \in {metric} |-> result],
                                 status |-> result.completeness]]
    /\ UNCHANGED <<metric, read, ask>>

Init ==
    /\ metric \in DOMAIN METRIC_REGISTRY
    /\ read \in [rows : UNION {[1..n -> Rows(requiredFact(metric))] : n \in 0..MaxRows},
                 complete : BOOLEAN, omitted : BOOLEAN]
    /\ ask \in [scope : Scopes, window : Windows \cup {None}]
    /\ metric \notin PLANNED_DOMAIN_BINDINGS => ask = [scope |-> {}, window |-> None]
    /\ answer = None

Next == Recipe \/ Planned \/ Single
Spec == Init /\ [][Next]_vars

-----------------------------------------------------------------------------
Answered == answer # None
Published == answer.layer.results[metric]

(***************************************************************************)
(* Type correctness: every published number is null or of its unit.        *)
(***************************************************************************)
TypeOK ==
    /\ metric \in DOMAIN METRIC_REGISTRY /\ requiredFact(metric) \in MetricFactName
    /\ Answered => /\ answer.kind \in {"recipe", "planned", "single"}
                   /\ answer.layer.status \in MetricCompletenessStatus
                   /\ \A i \in DOMAIN answer.facts :
                         IsFact(requiredFact(metric), answer.facts[i])
                   /\ \A id \in DOMAIN answer.layer.results :
                         LET r == answer.layer.results[id]
                         IN  /\ r.completeness \in MetricCompletenessStatus \ {"incomplete_truncated"}
                             /\ r.numerator \in Nat /\ r.denominator \in Nat

(***************************************************************************)
(* No row of the population is missing behind an answer called complete:   *)
(* the read ended, no row lacked its identifiers, no field was projected   *)
(* out (metricReadiness, the layer's verdict, the planner's status).       *)
(***************************************************************************)
CompleteMeansWhole ==
    Answered /\ answer.layer.status = "complete" =>
        /\ answer.kind = "single" \/ read.complete
        /\ ~read.omitted
        /\ \A i \in DOMAIN read.rows : requiredIds(requiredFact(metric)) \subseteq read.rows[i].ids

(***************************************************************************)
(* The offer mix accounts for every offer of the scope but those dated     *)
(* outside the window, each in one group, and its rate is over exactly the *)
(* offers whose outcome the window places (computeOfferResolutionMix: 'one *)
(* classifier for the whole answer').                                      *)
(***************************************************************************)
OfferMixAddsUp ==
    (Answered /\ metric = "offer_resolution" /\ Published.completeness = "complete") =>
        LET mine == {i \in DOMAIN read.rows :
                        /\ InScope(read.rows[i])
                        /\ ~Windowed \/ Undated(read.rows[i]) \/ InWindow(read.rows[i])}
            dated == {i \in mine : ~Windowed \/ ~Undated(read.rows[i])}
            of(S, class) == {i \in S : classifyOfferStatus(read.rows[i].status) = class}
        IN  /\ Total(Published.groups) = Cardinality(mine)
            /\ Published.numerator = Cardinality(of(dated, "accepted"))
            /\ Published.denominator = Published.numerator + Cardinality(of(dated, "rejected"))
            /\ Windowed => \A g \in {"outstanding_no_resolved_at"} \cap DOMAIN Published.groups :
                              Published.groups[g] = Cardinality(of(mine \ dated, "outstanding"))

(***************************************************************************)
(* Metrics published side by side agree: no scorecard is both submitted    *)
(* and overdue, breaches are among the durations that are averaged, and    *)
(* the weeks of the pipeline are within the weeks of the inflow.           *)
(***************************************************************************)
NeighboursAgree ==
    Answered /\ answer.kind = "recipe" /\ answer.layer.status = "complete" =>
        LET r == answer.layer.results
            Has(ids) == ids \subseteq DOMAIN r
        IN  /\ Has({"scorecard_submission_rate", "scorecard_overdue_rate"}) =>
                  r.scorecard_submission_rate.numerator + r.scorecard_overdue_rate.numerator
                      <= r.scorecard_submission_rate.denominator
            /\ Has({"interview_feedback_sla_breach_rate", "scheduled_interview_to_feedback_hours"}) =>
                  /\ r.interview_feedback_sla_breach_rate.denominator
                        = r.scheduled_interview_to_feedback_hours.denominator
                  /\ r.interview_feedback_sla_breach_rate.denominator
                        <= r.scorecard_submission_rate.numerator
            /\ Has({"weekly_application_volume", "weekly_qualified_pipeline_movement"}) =>
                  LET all == r.weekly_application_volume.groups
                      some == r.weekly_qualified_pipeline_movement.groups
                  IN  \A w \in DOMAIN some : w \in DOMAIN all /\ some[w] <= all[w]

(***************************************************************************)
(* Weeks tile the calendar: each dated application falls in exactly one    *)
(* week, which starts on the Monday at most six days before it (weekKey).  *)
(***************************************************************************)
WeeksTile ==
    (Answered /\ metric = "weekly_application_volume" /\ Published.completeness = "complete") =>
        /\ \A w \in DOMAIN Published.groups :
              /\ w % 7 = 4
              /\ Published.groups[w] = Count(answer.facts,
                    LAMBDA f : IsDate(f.from) /\ w <= f.from /\ f.from < w + 7)
        /\ Published.value = Count(answer.facts, LAMBDA f : IsDate(f.from))
=============================================================================
