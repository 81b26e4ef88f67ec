------------------------------ MODULE MCAnalysis ------------------------------
(***************************************************************************)
(* What is answered, for TLC: the planner that picks a scope and recipes,  *)
(* the read behind the hires, the facts and metrics, the recipes over      *)
(* scorecards, stages and inflow, the shapes records are returned in, and  *)
(* the log of pipeline stages.  The modules share no state: a behaviour is *)
(* of one of them, which machine names.                                    *)
(***************************************************************************)
EXTENDS Integers, FiniteSets, Sequences, SequencesExt, TLC

CONSTANTS j1, j2, a1, a2, a3, c1, c2, p1, h1, h2, h3, s1, s2, me, All, None,
    Bad, Malformed

\* machine names whose behaviour this is; the slots hold its variables.
VARIABLES machine, v1, v2, v3, v4, v5, v6, v7, v8, v9, v10, v11, v12, v13, v14,
    v15, v16

slots == <<machine, v1, v2, v3, v4, v5, v6, v7, v8, v9, v10, v11, v12, v13,
    v14, v15, v16>>

-----------------------------------------------------------------------------
(* A hire, an offer no clock can date, a superseded version: one chain. *)
Offer(i, j, a, s, d) == [id |-> i, job |-> j, app |-> a, status |-> s, dated |-> d]
Opening(i, j, r, f) == [id |-> i, job |-> j, reason |-> r, filled |-> f]
ChainOffers == {Offer(1, 1, a1, "Accepted", "resolved_at"), Offer(3, 1, a1, "Deprecated", "sent_on"),
                Offer(4, 2, a3, "Accepted", "none")}
FewOffers == {Offer(1, 1, a1, "Accepted", "resolved_at"), Offer(2, 2, a2, "Accepted", "sent_on")}
Chain == INSTANCE HireRead WITH
    Jobs <- {1, 2}, OfferMenu <- ChainOffers, OpeningMenu <- {},
    HireReasons <- {h1}, Reasons <- {h1, h2}, ChunkSize <- 1,
    Scopes <- {{}, {1}, {1, 2}}, Asks <- {{}, {"chain"}}, MaxChanges <- 1,
    Shortfalls <- {"incomplete_timeout"}, offers <- v1, hired <- v2,
    openings <- v3, before <- v4, scope <- v5, asks <- v6, pc <- v7,
    left <- v8, rows <- v9, statuses <- v10, failed <- v11, lost <- v12,
    reads <- v13, outcome <- v14
ASSUME Chain!HireAssumption
OnlyChain == machine = "chain" /\ UNCHANGED <<machine, v15, v16>>

-----------------------------------------------------------------------------
(* The all-time count and the openings, one of them at a time. *)
Hires == INSTANCE HireRead WITH
    Jobs <- {1, 2}, OfferMenu <- FewOffers,
    OpeningMenu <- {Opening(1, 1, h1, TRUE), Opening(2, 2, h3, TRUE)},
    HireReasons <- {h1}, Reasons <- {h1, h2}, ChunkSize <- 1, Scopes <- {All},
    Asks <- {{"allTime"}, {"openings"}}, MaxChanges <- 1,
    Shortfalls <- {"incomplete_timeout"}, offers <- v1, hired <- v2,
    openings <- v3, before <- v4, scope <- v5, asks <- v6, pc <- v7,
    left <- v8, rows <- v9, statuses <- v10, failed <- v11, lost <- v12,
    reads <- v13, outcome <- v14
ASSUME Hires!HireAssumption
OnlyHires == machine = "hires" /\ UNCHANGED <<machine, v15, v16>>

-----------------------------------------------------------------------------
(* What a question is answered over: every text and carrier, asked by a    *)
(* recruiter who owns the first and the third of three jobs; the third is  *)
(* closed, the first two are of one requisition.                           *)
NoRequest ==
    [ids |-> {}, reqs |-> {}, owner |-> {}, auto |-> TRUE, closedToo |-> FALSE,
     names |-> [ids |-> {}, reqs |-> {}], high |-> {}, fair |-> {},
     text |-> FALSE, words |-> FALSE, noise |-> FALSE, broad |-> FALSE, intent |-> FALSE,
     alias |-> FALSE, meanings |-> {}]
Text == [NoRequest EXCEPT !.text = TRUE, !.words = TRUE]

(* A question: the text the resolver sees, its possessive and its open      *)
(* population; the carrier passed with it and the jobs that names; bounds   *)
(* and phrase of a window; the domain and the recipes its words match.      *)
Plain ==
    [blank |-> FALSE, text |-> Text, mine |-> FALSE, open |-> FALSE,
     carrier |-> "none", named |-> {}, bounds |-> "absent", phrase |-> FALSE,
     domain |-> "none", recipes |-> {"stage"}, broad |-> FALSE, max |-> 3]
Texts ==
    {[Text EXCEPT !.intent = TRUE],
     Text,
     [Text EXCEPT !.high = {2}],
     [Text EXCEPT !.high = {2}, !.noise = TRUE],
     [Text EXCEPT !.high = {1, 2}],
     [Text EXCEPT !.fair = {1}, !.broad = TRUE],
     [Text EXCEPT !.names = [ids |-> {}, reqs |-> {"r2"}]],
     [Text EXCEPT !.high = {2}, !.alias = TRUE],
     [Text EXCEPT !.high = {1, 2}, !.meanings = {{1}, {2}}]}
ListCarriers == {"query", "aliases", "role_families"}
Carriers ==
    {[Plain EXCEPT !.carrier = k, !.named = n] :
        k \in {"scope_handle", "job_ids", "greenhouse_job_ids", "requisition_ids"},
        n \in {{}, {1}, {1, 2}, {3}}}
    \cup {[Plain EXCEPT !.carrier = k, !.named = n] : k \in ListCarriers, n \in {{1}, {1, 2}, {3}}}
ScopeQuestions ==
    {[Plain EXCEPT !.text = x, !.open = o] : x \in Texts, o \in BOOLEAN}
    \cup {[Plain EXCEPT !.mine = TRUE], [Plain EXCEPT !.blank = TRUE]}
    \cup Carriers \cup {[x EXCEPT !.mine = TRUE] : x \in Carriers}
    \cup {[x EXCEPT !.domain = "prospects"] : x \in Carriers}
RunQuestions ==
    {[Plain EXCEPT !.bounds = b, !.phrase = p, !.domain = d] :
        b \in {"absent", "usable", "bad"}, p \in BOOLEAN, d \in {"none", "offers", "openings"}}
    \cup {[Plain EXCEPT !.recipes = rs, !.broad = b, !.max = n] :
        rs \in {{}, {"stage"}, {"pipeline", "stage"}}, b \in BOOLEAN, n \in {1, 3}}
Scope == INSTANCE QuestionPlanner WITH
    Jobs <- {1, 2, 3},
    ReqOf <- [j \in {1, 2, 3} |-> IF j = 3 THEN "r2" ELSE "r1"], Closed <- {3},
    Confidential <- {}, OwnerOf <- [x \in {me} |-> {1, 3}],
    HiringOf <- [x \in {me} |-> {}], Me <- me, Admins <- {},
    Questions <- ScopeQuestions, RECIPES <- <<"pipeline", "stage", "drift">>,
    Configured <- 2, MaxChanges <- 1, access <- v1, q <- v2, inv <- v3,
    pc <- v4, scope <- v5, notes <- v6, left <- v7, gone <- v8, todo <- v9,
    analyses <- v10, statuses <- v11, reads <- v12, missed <- v13,
    audits <- v14, result <- v15, changes <- v16
ASSUME Scope!PlannerAssumption
OnlyScope == machine = "scope" /\ UNCHANGED <<machine>>

-----------------------------------------------------------------------------
(* The same asked by a site admin. *)
Admin == INSTANCE QuestionPlanner WITH
    Jobs <- {1, 2, 3},
    ReqOf <- [j \in {1, 2, 3} |-> IF j = 3 THEN "r2" ELSE "r1"], Closed <- {3},
    Confidential <- {}, OwnerOf <- [x \in {me} |-> {1, 3}],
    HiringOf <- [x \in {me} |-> {}], Me <- me, Admins <- {me},
    Questions <- ScopeQuestions, RECIPES <- <<"pipeline", "stage", "drift">>,
    Configured <- 2, MaxChanges <- 1, access <- v1, q <- v2, inv <- v3,
    pc <- v4, scope <- v5, notes <- v6, left <- v7, gone <- v8, todo <- v9,
    analyses <- v10, statuses <- v11, reads <- v12, missed <- v13,
    audits <- v14, result <- v15, changes <- v16
ASSUME Admin!PlannerAssumption
OnlyAdmin == machine = "admin" /\ UNCHANGED <<machine>>

-----------------------------------------------------------------------------
(* Recipes and planned domains under one deadline of three. *)
Plan == INSTANCE QuestionPlanner WITH
    Jobs <- {1, 2, 3},
    ReqOf <- [j \in {1, 2, 3} |-> IF j = 3 THEN "r2" ELSE "r1"], Closed <- {3},
    Confidential <- {}, OwnerOf <- [x \in {me} |-> {1, 3}],
    HiringOf <- [x \in {me} |-> {}], Me <- me, Admins <- {me},
    Questions <- RunQuestions, RECIPES <- <<"pipeline", "stage", "drift">>,
    Configured <- 3, MaxChanges <- 0, access <- v1, q <- v2, inv <- v3,
    pc <- v4, scope <- v5, notes <- v6, left <- v7, gone <- v8, todo <- v9,
    analyses <- v10, statuses <- v11, reads <- v12, missed <- v13,
    audits <- v14, result <- v15, changes <- v16
ASSUME Plan!PlannerAssumption
OnlyPlan == machine = "run" /\ UNCHANGED <<machine>>

-----------------------------------------------------------------------------
(* Every metric over every read of two rows.  Day 18 is a Monday, day 17 a *)
(* Sunday; the question is asked on day 25.                                *)
Ids == {"id", "application_id", "job_id"}
FactRow(ids, j, s, from, to, key) ==
    [ids |-> ids, job |-> j, status |-> s, from |-> from, to |-> to, key |-> key]
OtherRows(statuses, keys) ==
    {FactRow(Ids, j, s, f, x, k) : j \in {j1, j2}, s \in statuses, f \in {None, 16, 18},
                                   x \in {None, 19}, k \in keys}
MetricRows(fact) ==
    {FactRow({}, j1, None, None, None, None)} \cup
    CASE fact = "scorecard_fact" ->
            {FactRow(Ids, None, s, f, x, None) :
                s \in {"draft", "complete"}, f \in {None, Bad, 18, 25}, x \in {None, 17, 19, 24}}
      [] fact \in {"offer_fact", "hire_fact"} ->
            {FactRow(Ids, j, s, 16, x, None) :
                j \in {j1, j2}, s \in {"Created", "Accepted", "Rejected", "Deprecated", "Renamed"},
                x \in {None, 16, 18}}
      [] fact = "application_lifecycle_fact" ->
            {FactRow(Ids, j1, s, f, None, k) :
                s \in {"active", "hired", "rejected"}, f \in {None, Bad, 17, 18, 24}, k \in {None, 1}}
      [] fact = "approval_flow_fact" -> OtherRows({"pending", "approved"}, {None})
      [] fact = "opening_headcount_fact" -> OtherRows({None}, {"open", "closed", None})
      [] OTHER -> OtherRows({None}, {None, 3})
Facts == INSTANCE Metrics WITH
    Rows <- MetricRows, MaxRows <- 2, Windows <- {[from |-> 17, to |-> 20]},
    Scopes <- {{}, {j1}}, Now <- 25, OVERDUE_DAYS <- 2, SLA_DAYS <- 2,
    metric <- v1, read <- v2, ask <- v3, answer <- v4
OnlyFacts == machine = "metrics" /\ UNCHANGED <<machine, v5, v6, v7, v8, v9,
    v10, v11, v12, v13, v14, v15, v16>>

-----------------------------------------------------------------------------
(* Two cards on two applications, one batch each; five days of two ticks. *)
Bounds(s, e) == [start |-> s, end |-> e]
At(x) == [date |-> FALSE, at |-> x]
Day(d) == [date |-> TRUE, at |-> d]
CardBatches == [S \in SUBSET {a1, a2} |->
    CASE S = {a1, a2} -> <<{a1}, {a2}>> [] S = {} -> <<>> [] OTHER -> <<S>>]
Draft(i, u) == [status |-> "draft", interviewed |-> i, submitted |-> None, updated |-> u]
Complete(i, s, u) == [status |-> "complete", interviewed |-> i, submitted |-> s, updated |-> u]
CardWorlds ==
    {[card |-> c1 :> r @@ c2 :> s, job |-> j] :
        r \in {Draft(5, 0), Draft(1, None), Complete(4, 6, 0), Complete(6, 5, 0),
               Complete(None, 4, None), Complete(7, None, 0), Draft(None, 0)},
        s \in {Complete(4, 6, None)},
        j \in {a1 :> j1 @@ a2 :> j1, a1 :> None @@ a2 :> j2}}
CardCalls ==
    {[recipe |-> r, scope |-> s, bounds |-> b] :
        r \in {"drag", "accountability"}, s \in {All, {j1}},
        b \in {Bounds(None, None), Bounds(At(4), Day(3))}}
    \cup {[recipe |-> "drag", scope |-> All, bounds |-> b] :
        b \in {Bounds(At(6), At(4)), Bounds(Malformed, None), Bounds(None, Day(0)),
               Bounds(At(1), At(8))}}
Cards == INSTANCE ScorecardRecipes WITH
    DayTicks <- 2, MaxLookback <- 5, Cards <- {c1, c2}, Apps <- {a1, a2},
    CardApp <- c1 :> a1 @@ c2 :> a2, CardPerson <- c1 :> p1 @@ c2 :> None,
    Worlds <- CardWorlds, Calls <- CardCalls, AppBatches <- CardBatches,
    Now <- 7, Ticks <- {1, 4, 5, 6, 7}, Lookback <- 4, DueTicks <- 1,
    ServerReadsWholeDay <- TRUE, MaxChanges <- 1, MaxFaults <- 1, call <- v1,
    world <- v2, was <- v3, phase <- v4, ids <- v5, bridged <- v6, field <- v7,
    returned <- v8, reads <- v9, whole <- v10, rows <- v11, jobOf <- v12,
    answer <- v13, changes <- v14, faults <- v15
ASSUME Cards!FrameAssumption
OnlyCards == machine = "cards" /\ UNCHANGED <<machine, v16>>

-----------------------------------------------------------------------------
(* Three applications, two to a batch, one stage row to a page. *)
StageBatches == [S \in SUBSET {a1, a2, a3} |->
    CASE S = {a1, a2, a3} -> <<{a1, a2}, {a3}>> [] S = {} -> <<>> [] OTHER -> <<S>>]
StageRow(i, a, e) == [id |-> i, app |-> a, entered |-> e,
                      stage |-> IF i = 2 THEN "onsite" ELSE "phone"]
StageWorlds ==
    {[status |-> s, rows |-> rs, hidden |-> h] :
        s \in {a1 :> "active" @@ a2 :> "in_process" @@ a3 :> "active",
               a1 :> "active" @@ a2 :> "rejected" @@ a3 :> "active"},
        rs \in {{StageRow(1, a1, 1), StageRow(2, a2, 5), StageRow(3, a3, 4)},
                {StageRow(2, a1, 4), StageRow(1, a2, None)},
                {StageRow(1, a1, 7), StageRow(2, a3, 8)}},
        h \in {{}, {a3}}}
StageCall(x, b) == [status |-> None, includeTerminal |-> x, bounds |-> b]
StageCalls ==
    {StageCall(x, b) : x \in BOOLEAN, b \in {Bounds(None, None), Bounds(At(1), At(8))}}
    \cup {StageCall(FALSE, Bounds(Malformed, None)), StageCall(FALSE, Bounds(At(1), At(6))),
          [status |-> "rejected", includeTerminal |-> FALSE, bounds |-> Bounds(None, None)]}
Latency == INSTANCE StageLatency WITH
    DayTicks <- 2, MaxLookback <- 5, Apps <- {a1, a2, a3},
    Stages <- {"phone", "onsite"}, AppJob <- a1 :> j1 @@ a2 :> j2 @@ a3 :> None,
    Worlds <- StageWorlds, Calls <- StageCalls, AppBatches <- StageBatches,
    PerPage <- 1, Now <- 7, Lookback <- 4, MinAge <- 3, MaxChanges <- 1,
    MaxFaults <- 1, call <- v1, world <- v2, was <- v3, phase <- v4,
    contexts <- v5, raw <- v6, seen <- v7, reads <- v8, stageRows <- v9,
    whole <- v10, answer <- v11, changes <- v12, faults <- v13
ASSUME Latency!FrameAssumption
OnlyLatency == machine = "stages" /\ UNCHANGED <<machine, v14, v15, v16>>

-----------------------------------------------------------------------------
(* Both recipes, windows that begin and end in the middle of a week and at *)
(* its ends, over every read of up to three rows of a menu.                *)
Application(g, s, x, y) ==
    [job |-> j1, group |-> g, status |-> s, prospect |-> FALSE, at |-> x, activity |-> y, staged |-> y]
InflowRows ==
    {Application(1, "active", x, 13) : x \in {1, 3, 4, 8, 13, 18}}
    \cup {Application(2, "hired", 8, 9), Application(None, "active", None, None),
          [Application(1, "active", 9, 9) EXCEPT !.prospect = TRUE],
          [Application(2, "in_process", 9, 20) EXCEPT !.job = None],
          [Application(1, "rejected", 4, 4) EXCEPT !.job = j2]}
InflowCohorts == UNION {[1..n -> InflowRows] : n \in 0..3}
InflowCalls ==
    {[recipe |-> r, filtered |-> FALSE, bounds |-> b] :
        r \in {"pipeline", "source"},
        b \in {Bounds(None, None), Bounds(At(3), At(13)), Bounds(At(4), At(15)), Bounds(At(6), At(9))}}
    \cup {[recipe |-> "source", filtered |-> TRUE, bounds |-> Bounds(None, None)]}
    \cup {[recipe |-> "pipeline", filtered |-> FALSE, bounds |-> b] :
        b \in {Bounds(At(0), None), Bounds(Malformed, None), Bounds(At(2), At(15))}}
Weeks == INSTANCE InflowRecipes WITH
    DayTicks <- 1, MaxLookback <- 8, Calls <- InflowCalls,
    Cohorts <- InflowCohorts, Nows <- {14, 17}, Lookback <- 8, WeekTicks <- 4,
    StaleTicks <- 4, DEFAULT_MAX_WEEKS <- 3,
    OpenedAt <- [j \in {j1, j2} |-> IF j = j1 THEN 7 ELSE None],
    CLUSTER_MIN_RECORDS <- 3, CLUSTER_WINDOW <- 1,
    ALL_DEFAULT_MIN_RECORDS <- 2, PREDATE_TOLERANCE <- 1,
    PREDATE_MIN_RECORDS <- 2, call <- v1, now <- v2, rows <- v3, whole <- v4,
    answer <- v5
ASSUME Weeks!FrameAssumption
OnlyWeeks == machine = "inflow" /\ UNCHANGED <<machine, v6, v7, v8, v9, v10,
    v11, v12, v13, v14, v15, v16>>

-----------------------------------------------------------------------------
(* One job: two sweepers, moves at any time, one row per request. *)
Logbook == INSTANCE PipelineLogbook WITH
    Apps <- {a1, a2}, JobOf <- [x \in {a1, a2} |-> 1],
    PageOf <- [x \in {a1, a2} |-> IF x = a1 THEN 1 ELSE 2], Jobs <- {1},
    Stages <- {1, 2}, Pages <- 2, MaxPages <- 2, ChunkRows <- 1,
    Sweepers <- {s1, s2}, MaxWeek <- 2, MaxMoves <- 2, MaxSweeps <- 2,
    where <- v1, moves <- v2, week <- v3, sweeps <- v4, store <- v5,
    sweep <- v6, calm <- v7
ASSUME Logbook!LogbookAssumption
OnlyLogbook == machine = "logbook" /\ UNCHANGED <<machine, v8, v9, v10, v11,
    v12, v13, v14, v15, v16>>

-----------------------------------------------------------------------------
(* Two jobs, rows in chunks of two. *)
JobsLog == INSTANCE PipelineLogbook WITH
    Apps <- {a1, a2, a3},
    JobOf <- [x \in {a1, a2, a3} |-> IF x = a1 THEN 1 ELSE 2],
    PageOf <- [x \in {a1, a2, a3} |-> IF x = a1 THEN 1 ELSE 2], Jobs <- {1, 2},
    Stages <- {1, 2}, Pages <- 2, MaxPages <- 2, ChunkRows <- 2,
    Sweepers <- {s1}, MaxWeek <- 2, MaxMoves <- 1, MaxSweeps <- 3, where <- v1,
    moves <- v2, week <- v3, sweeps <- v4, store <- v5, sweep <- v6, calm <- v7
ASSUME JobsLog!LogbookAssumption
OnlyJobsLog == machine = "jobs" /\ UNCHANGED <<machine, v8, v9, v10, v11, v12,
    v13, v14, v15, v16>>

-----------------------------------------------------------------------------
(* More pages than a sweep reads. *)
Backstop == INSTANCE PipelineLogbook WITH
    Apps <- {a1, a2}, JobOf <- [x \in {a1, a2} |-> 1],
    PageOf <- [x \in {a1, a2} |-> IF x = a1 THEN 1 ELSE 2], Jobs <- {1},
    Stages <- {1, 2}, Pages <- 2, MaxPages <- 1, ChunkRows <- 1,
    Sweepers <- {s1}, MaxWeek <- 1, MaxMoves <- 2, MaxSweeps <- 2, where <- v1,
    moves <- v2, week <- v3, sweeps <- v4, store <- v5, sweep <- v6, calm <- v7
ASSUME Backstop!LogbookAssumption
OnlyBackstop == machine = "backstop" /\ UNCHANGED <<machine, v8, v9, v10, v11,
    v12, v13, v14, v15, v16>>

-----------------------------------------------------------------------------
(* Records of every kind with up to two places filled, rightly or not. *)
Shapes == INSTANCE Projections WITH
    Kinds <- {"application", "note", "offer", "scorecard", "rejection", "candidate"},
    Twins <- {"application", "note", "offer", "candidate"}, MaxPresent <- 2,
    kind <- v1, record <- v2, broad <- v3, urls <- v4, shown <- v5,
    drafted <- v6
OnlyShapes == machine = "projections" /\ UNCHANGED <<machine, v7, v8, v9, v10,
    v11, v12, v13, v14, v15, v16>>

-----------------------------------------------------------------------------
Init ==
    \/ machine = "chain" /\ Chain!Init /\ v15 = None /\ v16 = None
    \/ machine = "hires" /\ Hires!Init /\ v15 = None /\ v16 = None
    \/ machine = "scope" /\ Scope!Init
    \/ machine = "admin" /\ Admin!Init
    \/ machine = "run" /\ Plan!Init
    \/ machine = "metrics" /\ Facts!Init /\ v5 = None /\ v6 = None
        /\ v7 = None /\ v8 = None /\ v9 = None /\ v10 = None /\ v11 = None
        /\ v12 = None /\ v13 = None /\ v14 = None /\ v15 = None /\ v16 = None
    \/ machine = "cards" /\ Cards!Init /\ v16 = None
    \/ machine = "stages" /\ Latency!Init /\ v14 = None /\ v15 = None
        /\ v16 = None
    \/ machine = "inflow" /\ Weeks!Init /\ v6 = None /\ v7 = None /\ v8 = None
        /\ v9 = None /\ v10 = None /\ v11 = None /\ v12 = None /\ v13 = None
        /\ v14 = None /\ v15 = None /\ v16 = None
    \/ machine = "logbook" /\ Logbook!Init /\ v8 = None /\ v9 = None
        /\ v10 = None /\ v11 = None /\ v12 = None /\ v13 = None /\ v14 = None
        /\ v15 = None /\ v16 = None
    \/ machine = "jobs" /\ JobsLog!Init /\ v8 = None /\ v9 = None
        /\ v10 = None /\ v11 = None /\ v12 = None /\ v13 = None /\ v14 = None
        /\ v15 = None /\ v16 = None
    \/ machine = "backstop" /\ Backstop!Init /\ v8 = None /\ v9 = None
        /\ v10 = None /\ v11 = None /\ v12 = None /\ v13 = None /\ v14 = None
        /\ v15 = None /\ v16 = None
    \/ machine = "projections" /\ Shapes!Init /\ v7 = None /\ v8 = None
        /\ v9 = None /\ v10 = None /\ v11 = None /\ v12 = None /\ v13 = None
        /\ v14 = None /\ v15 = None /\ v16 = None

Next ==
    \/ OnlyChain /\ Chain!Next
    \/ OnlyHires /\ Hires!Next
    \/ OnlyScope /\ Scope!Next
    \/ OnlyAdmin /\ Admin!Next
    \/ OnlyPlan /\ Plan!Next
    \/ OnlyFacts /\ Facts!Next
    \/ OnlyCards /\ Cards!Next
    \/ OnlyLatency /\ Latency!Next
    \/ OnlyWeeks /\ Weeks!Next
    \/ OnlyLogbook /\ Logbook!Next
    \/ OnlyJobsLog /\ JobsLog!Next
    \/ OnlyBackstop /\ Backstop!Next
    \/ OnlyShapes /\ Shapes!Next

Spec == Init /\ [][Next]_slots

-----------------------------------------------------------------------------
(* The variables of every module have their types.                         *)
TypeOK ==
    /\ machine = "chain" => Chain!TypeOK
    /\ machine = "hires" => Hires!TypeOK
    /\ machine = "scope" => Scope!TypeOK
    /\ machine = "admin" => Admin!TypeOK
    /\ machine = "run" => Plan!TypeOK
    /\ machine = "metrics" => Facts!TypeOK
    /\ machine = "cards" => Cards!TypeOK
    /\ machine = "stages" => Latency!TypeOK
    /\ machine = "inflow" => Weeks!TypeOK
    /\ machine = "logbook" => Logbook!TypeOK
    /\ machine = "jobs" => JobsLog!TypeOK
    /\ machine = "backstop" => Backstop!TypeOK
    /\ machine = "projections" => Shapes!TypeOK

(* Whatever is called whole, complete, exact or a floor is that: of the    *)
(* hires, of a question answered by several recipes under one deadline, of *)
(* a metric whose rows lost their identifiers, of scorecards and stages    *)
(* that change while they are read, of weeks cut by a window, and of a     *)
(* stage that is swept while people move.                                  *)
WholeMeansWhole ==
    /\ machine = "chain" => /\ Chain!FloorsAreFloors /\ Chain!ExactCountsAreWhole
                            /\ Chain!CompleteIsComplete
    /\ machine = "hires" => /\ Hires!FloorsAreFloors /\ Hires!ExactCountsAreWhole
                            /\ Hires!CompleteIsComplete
    /\ machine = "run" => Plan!OneDeadline /\ Plan!WholeAnswersAreWhole
    /\ machine = "metrics" => Facts!CompleteMeansWhole
    /\ machine = "cards" => Cards!CompleteMissesNothing
    /\ machine = "stages" => Latency!LongestDwellersAreKept
    /\ machine = "inflow" => Weeks!WeeksAreWhole /\ Weeks!SuspicionIsEarned
    /\ machine = "logbook" => Logbook!OccupiedStagesAreRight
    /\ machine = "jobs" => JobsLog!OccupiedStagesAreRight
    /\ machine = "backstop" => Backstop!OccupiedStagesAreRight

(* Every record read is analysed or excluded for a named reason and        *)
(* counted once wherever it is grouped; weeks tile the days; two numbers   *)
(* of one answer that count the same rows agree; and a swept week counts   *)
(* everyone who did not move once.                                         *)
CountsAddUp ==
    /\ machine = "metrics" => /\ Facts!OfferMixAddsUp /\ Facts!NeighboursAgree
                              /\ Facts!WeeksTile
    /\ machine = "cards" => /\ Cards!EveryRowIsAccountedFor /\ Cards!RankingsAddUp
                            /\ Cards!FreshestCopyIsReported
    /\ machine = "stages" => Latency!ExclusionsAreExplained /\ Latency!TablesAgree
    /\ machine = "inflow" => Weeks!RecordsAccountedFor /\ Weeks!VolumeMatchesInflow
    /\ machine = "logbook" => Logbook!SweepsCountTheUnmoved
    /\ machine = "jobs" => JobsLog!SweepsCountTheUnmoved
    /\ machine = "backstop" => Backstop!SweepsCountTheUnmoved

(* A question is answered over the jobs that were named or that are        *)
(* visible, never more, open when it says open, and asked back when        *)
(* several meet it; hires, scorecards and stages outside the scope or the  *)
(* window are in no number; a record shows no field that was not asked     *)
(* for, in either of the places that return it; and nothing is answered to *)
(* a client that has gone, while what was read for one that has not is     *)
(* never thrown away for a later read.                                     *)
AnswersStayInScope ==
    [][/\ machine = "chain" => /\ Chain!ScopeNeverWidens' /\ Chain!HiresSurvive
                               /\ Chain!GoneIsNotAnswered /\ Chain!ReadChunksAreKept
       /\ machine = "hires" => /\ Hires!ScopeNeverWidens' /\ Hires!HiresSurvive
                               /\ Hires!GoneIsNotAnswered /\ Hires!ReadChunksAreKept
       /\ machine = "scope" => Scope!NamedScopesNeverWiden'
       /\ machine = "admin" => /\ Admin!NamedScopesNeverWiden' /\ Admin!OpenMeansOpen'
                               /\ Admin!SeveralAreConfirmed'
       /\ machine = "run" => Plan!GoneIsNotAnswered
       /\ machine = "cards" => Cards!AnalysedBelong'
       /\ machine = "stages" => Latency!ObservedInScope'
       /\ machine = "projections" => Shapes!NothingUnasked' /\ Shapes!TwinsAgree']_slots

(* NOT TRUE of the code (temporal.ts:367, "Velocity over the COMPLETE      *)
(* calendar weeks"): where a window begins in the middle of a week, its    *)
(* first week is counted as a complete one.                                *)
VelocityIsOfWholeWeeks == machine = "inflow" => Weeks!VelocityIsOfWholeWeeks
=============================================================================
