------------------------------- MODULE MCScope --------------------------------
(***************************************************************************)
(* Who may see what, for TLC: the permitted jobs, the scoped reader and    *)
(* its private-candidate gate, the bridges to rows without a job, frozen   *)
(* job scopes, the directory of identities and the projection of evidence. *)
(* The modules share no state: a behaviour is of one of them, which        *)
(* machine names.                                                          *)
(***************************************************************************)
EXTENDS Integers, FiniteSets, Sequences

CONSTANTS j1, j2, c1, c2, a1, a2, a3, p1, p2, rec, adm, s1, s2, u1, u2, a, b,
    None, Bad

\* machine names whose behaviour this is; the slots hold its variables.
VARIABLES machine, v1, v2, v3, v4, v5, v6, v7, v8, v9, v10, v11, v12, v13, v14,
    v15, v16, v17

slots == <<machine, v1, v2, v3, v4, v5, v6, v7, v8, v9, v10, v11, v12, v13,
    v14, v15, v16, v17>>

-----------------------------------------------------------------------------
(* One job, since jobs do not influence one another; one change of a fact. *)
Permission == INSTANCE PermissionScope WITH
    Jobs <- {j1}, TTL <- 1, MaxTicks <- 1, MaxChanges <- 1, facts <- v1,
    since <- v2, changes <- v3, base <- v4, attestation <- v5, memo <- v6,
    pc <- v7, age <- v8, scope <- v9, clean <- v10, answer <- v11
ASSUME Permission!BoundsAssumption
OnlyPermission == machine = "permission" /\ UNCHANGED <<machine, v12, v13, v14,
    v15, v16, v17>>

-----------------------------------------------------------------------------
(* A private and a public candidate, an ordinary job and one that may be   *)
(* confidential, and parents of every shape: with a job or without,        *)
(* unresolvable, deleted.  Rows name them in every combination that a row  *)
(* of their tool can; one endpoint may fail.                               *)
Ids == 1..5
Carriers == {"application", "interview", "scorecard", "answer"}
Endpoints == Carriers \cup {"candidates", "candidateApplications", "permission"}
Plain == [job |-> None, candidate |-> None, carrier |-> [c \in Carriers |-> None],
          embedded |-> None, self |-> None, public |-> TRUE]
Names(c, i) == [Plain EXCEPT !.carrier[c] = i]
App(c, j) == [Plain EXCEPT !.candidate = c, !.job = j]
Parents ==
    [application |-> <<App(c1, j1), App(c2, j2), App(c2, j1), App(c2, Bad), None>>,
     interview   |-> <<Names("application", 1), Names("application", 2), [Plain EXCEPT !.job = j2],
                       Names("application", 5), None>>,
     scorecard   |-> <<Names("application", 1), Names("application", 2),
                       Names("application", 3), Names("application", 5), None>>,
     answer      |-> <<Names("scorecard", 1), Names("scorecard", 2), None, None, None>>]
Some == Ids \cup {None}
OfApplication == {[Names("application", i) EXCEPT !.public = v] : i \in Some, v \in BOOLEAN}
OfRows ==
    [job               |-> {[Plain EXCEPT !.job = j] : j \in {j1, j2, Bad}},
     application       |-> {App(c, j) : c \in {c1, c2, None}, j \in {j1, j2, Bad}},
     stage             |-> OfApplication,
     applicationBacked |-> OfApplication,
     candidate         |-> {[Plain EXCEPT !.self = c1, !.embedded = e] : e \in {None, {}, {1}}}
                             \cup {[Plain EXCEPT !.self = c2, !.embedded = e] :
                                     e \in {None, {}, {2}, {2, 3}, {3, 4}, {4}}},
     candidateBacked   |-> {[Plain EXCEPT !.candidate = c] : c \in {c1, c2, None}},
     note              |-> {[r EXCEPT !.candidate = c] :
                              r \in OfApplication \cup {Names("application", Bad)},
                              c \in {c1, c2, None}},
     attachment        |-> {[Names("application", i) EXCEPT !.candidate = c] :
                              i \in Some \cup {Bad}, c \in {c1, c2, None}},
     offer             |-> {[App(c, j) EXCEPT !.carrier["application"] = i] :
                              i \in {1, 2, None}, c \in {c1, c2, None}, j \in {j1, j2, Bad}},
     interview         |-> {Parents["interview"][i] : i \in 1..4},
     interviewer       |-> {[Names("interview", i) EXCEPT !.carrier["scorecard"] = k] :
                              i \in Some, k \in Some},
     answer            |-> {Names("scorecard", i) : i \in Some}
                             \cup {[Names("answer", i) EXCEPT !.carrier["scorecard"] = i] :
                                     i \in {1, 2}},
     reference         |-> {Plain}]
\* Pages of one row, and of a row beside a good one.
Page(t, single, rows) == [tool |-> t, single |-> single, rows |-> rows]
ReaderPages ==
    UNION {{Page(t, FALSE, <<r>>) : r \in OfRows[t]} : t \in DOMAIN OfRows}
    \cup UNION {{Page(t, TRUE, <<r>>) : r \in OfRows[t]} : t \in {"job", "application", "candidate"}}
    \cup UNION {{Page(t, FALSE, <<r, App(c2, j1)>>) : r \in OfRows[t]} : t \in {"offer", "application"}}
    \cup {Page("application", TRUE, <<>>)}
ReaderScopes ==
    {x \in [kind : {"operator", "all", "jobs"}, attested : BOOLEAN, jobs : SUBSET {j1, j2},
            excluded : {{}, {j2}}, private : {{}, {j1}, {j2}}] :
       /\ x.kind = "jobs" => x.excluded = {} /\ ~x.attested /\ x.private \subseteq x.jobs
       /\ x.kind # "jobs" => x.jobs = {}
       /\ x.kind = "operator" => x.excluded = {} /\ j2 \notin x.private}
ReaderRequests ==
    {[scope |-> x, impostor |-> x.kind = "jobs" /\ im] : x \in ReaderScopes, im \in {FALSE}}
    \cup {[scope |-> x, impostor |-> TRUE] : x \in {y \in ReaderScopes : y.jobs = {j1} /\ y.private = {}}}
Reader == INSTANCE ScopedReader WITH
    Jobs <- {j1, j2}, Candidates <- {c1, c2}, PrivateOnes <- {c1},
    parents <- Parents, Pages <- ReaderPages, Requests <- ReaderRequests,
    FailureSets <- {{}} \cup {{e} : e \in Endpoints}, request <- v1,
    page <- v2, failing <- v3, pc <- v4, kept <- v5, counts <- v6, reply <- v7
ASSUME Reader!WorldAssumption /\ Reader!PageAssumption /\ Reader!ShapeAssumption
OnlyReader == machine = "reader" /\ UNCHANGED <<machine, v8, v9, v10, v11, v12,
    v13, v14, v15, v16, v17>>

-----------------------------------------------------------------------------
(* Two jobs, three applications, one hop, batches of one id and two lanes. *)
Bridge == INSTANCE ScopeBridge WITH
    Jobs <- {j1, j2}, Apps <- {a1, a2, a3}, Paths <- {"bridged", "backed"},
    DeriveHops <- 1, BatchSize <- 1, Lanes <- 2, jobOf <- v1, hidden <- v2,
    path <- v3, scope <- v4, caller <- v5, hop <- v6, batches <- v7,
    next <- v8, lane <- v9, results <- v10, derived <- v11, answer <- v12
ASSUME Bridge!BridgeAssumption
OnlyBridge == machine = "bridge" /\ UNCHANGED <<machine, v13, v14, v15, v16,
    v17>>

-----------------------------------------------------------------------------
(* The same by way of scorecards: two applications, two hops. *)
TwoHops == INSTANCE ScopeBridge WITH
    Jobs <- {j1, j2}, Apps <- {a1, a2}, Paths <- {"bridged", "backed"},
    DeriveHops <- 2, BatchSize <- 1, Lanes <- 2, jobOf <- v1, hidden <- v2,
    path <- v3, scope <- v4, caller <- v5, hop <- v6, batches <- v7,
    next <- v8, lane <- v9, results <- v10, derived <- v11, answer <- v12
ASSUME TwoHops!BridgeAssumption
OnlyTwoHops == machine = "hops" /\ UNCHANGED <<machine, v13, v14, v15, v16, v17>>

-----------------------------------------------------------------------------
(* Two jobs, the second closed; a change of access; the clock outlasts a   *)
(* token, confirmed late, and the handle it gave.                          *)
Requisition == [j \in 1..3 |-> IF j = 2 THEN "r2" ELSE "r1"]
Owned == [s \in {rec, adm} |-> IF s = rec THEN {1, 2} ELSE {2, 3}]
Hiring == [s \in {rec, adm} |-> {1}]
Asks == [ids |-> {}, reqs |-> {}, owner |-> {}, auto |-> TRUE, closedToo |-> FALSE,
         names |-> [ids |-> {}, reqs |-> {}], high |-> {}, fair |-> {},
         text |-> FALSE, words |-> FALSE, noise |-> FALSE, broad |-> FALSE, intent |-> FALSE,
         alias |-> FALSE, meanings |-> {}]
Ask(f) == [f EXCEPT !.text = TRUE, !.words = TRUE]
FewRequests == {[Asks EXCEPT !.ids = {2}], Ask([Asks EXCEPT !.high = {2}])}
ManyRequests ==
    {[Asks EXCEPT !.ids = {1, 3}], [Asks EXCEPT !.reqs = {"r1"}],
     [Asks EXCEPT !.owner = {"owners", "hms"}, !.closedToo = TRUE],
     [Asks EXCEPT !.ids = {3}, !.owner = {"owners"}],
     [Asks EXCEPT !.owner = {"owners"}, !.text = TRUE]}
    \cup {Ask(f) : f \in {Asks, [Asks EXCEPT !.broad = TRUE, !.closedToo = TRUE],
                          [Asks EXCEPT !.intent = TRUE, !.closedToo = TRUE],
                          [Asks EXCEPT !.high = {2}, !.fair = {1}],
                          [Asks EXCEPT !.high = {2}, !.fair = {1}, !.noise = TRUE],
                          [Asks EXCEPT !.high = {2}], [Asks EXCEPT !.high = {1}, !.alias = TRUE],
                          [Asks EXCEPT !.high = {1, 2}, !.meanings = {{1}, {2}}],
                          [Asks EXCEPT !.names = [ids |-> {}, reqs |-> {"r1", "r2"}], !.fair = {1, 2}]}}
Frozen == INSTANCE JobScope WITH
    Jobs <- {1, 2}, ReqOf <- Requisition, Closed <- {2}, Confidential <- {},
    Subjects <- {rec, adm}, Admins <- {adm}, OwnerOf <- Owned,
    HiringOf <- Hiring, Requests <- FewRequests, maxCandidates <- 2,
    MaxArtifactJobs <- 3, TokenTtl <- 1, HandleTtl <- 1, SecretSet <- FALSE,
    MaxNow <- 2, MaxArtifacts <- 2, MaxChanges <- 1, MaxRestarts <- 0,
    access <- v1, now <- v2, key <- v3, artifacts <- v4, reply <- v5,
    changes <- v6
ASSUME Frozen!JobScopeAssumption
OnlyFrozen == machine = "frozen" /\ UNCHANGED <<machine, v7, v8, v9, v10, v11,
    v12, v13, v14, v15, v16, v17>>

-----------------------------------------------------------------------------
(* Every kind of request over three jobs, two of one requisition, the last *)
(* closed and the second confidential; a restart.                          *)
Asked == INSTANCE JobScope WITH
    Jobs <- {1, 2, 3}, ReqOf <- Requisition, Closed <- {3},
    Confidential <- {2}, Subjects <- {rec, adm}, Admins <- {adm},
    OwnerOf <- Owned, HiringOf <- Hiring, Requests <- ManyRequests,
    maxCandidates <- 2, MaxArtifactJobs <- 3, TokenTtl <- 1, HandleTtl <- 2,
    SecretSet <- FALSE, MaxNow <- 0, MaxArtifacts <- 1, MaxChanges <- 0,
    MaxRestarts <- 1, access <- v1, now <- v2, key <- v3, artifacts <- v4,
    reply <- v5, changes <- v6
ASSUME Asked!JobScopeAssumption
OnlyAsked == machine = "requests" /\ UNCHANGED <<machine, v7, v8, v9, v10, v11,
    v12, v13, v14, v15, v16, v17>>

-----------------------------------------------------------------------------
(* Two people, the second with the address of the first too; two sign-ins. *)
Primary == [w \in {u1, u2} |-> IF w = u1 THEN a ELSE b]
Others == [w \in {u1, u2} |-> IF w = u1 THEN {} ELSE {a}]
Enrolments == INSTANCE IdentityDirectory WITH
    Users <- {u1, u2}, Emails <- {a, b}, PrimaryOf <- Primary,
    OthersOf <- Others, SignIns <- {s1, s2}, MaxTime <- 0, MaxRuns <- 0,
    user <- v1, rows <- v2, migrated <- v3, grants <- v4, now <- v5,
    signin <- v6, plan <- v7, boot <- v8, attest <- v9, runs <- v10,
    hand <- v11
ASSUME Enrolments!IdentityAssumption
OnlyEnrolments == machine = "signins" /\ UNCHANGED <<machine, v12, v13, v14,
    v15, v16, v17>>

-----------------------------------------------------------------------------
(* The same two people, a sign-in and a command of any kind. *)
Commands == INSTANCE IdentityDirectory WITH
    Users <- {u1, u2}, Emails <- {a, b}, PrimaryOf <- Primary,
    OthersOf <- Others, SignIns <- {s1}, MaxTime <- 0, MaxRuns <- 1,
    user <- v1, rows <- v2, migrated <- v3, grants <- v4, now <- v5,
    signin <- v6, plan <- v7, boot <- v8, attest <- v9, runs <- v10,
    hand <- v11
ASSUME Commands!IdentityAssumption
OnlyCommands == machine = "commands" /\ UNCHANGED <<machine, v12, v13, v14,
    v15, v16, v17>>

-----------------------------------------------------------------------------
(* One person who leaves and comes back: three commands and a sign-in. *)
Revival == INSTANCE IdentityDirectory WITH
    Users <- {u2}, Emails <- {b}, PrimaryOf <- [w \in {u2} |-> b],
    OthersOf <- [w \in {u2} |-> {}], SignIns <- {s1}, MaxTime <- 1,
    MaxRuns <- 3, user <- v1, rows <- v2, migrated <- v3, grants <- v4,
    now <- v5, signin <- v6, plan <- v7, boot <- v8, attest <- v9, runs <- v10,
    hand <- v11
ASSUME Revival!IdentityAssumption
OnlyRevival == machine = "revival" /\ UNCHANGED <<machine, v12, v13, v14, v15,
    v16, v17>>

-----------------------------------------------------------------------------
(* Rows about two candidates: named on the row, behind a parent, behind    *)
(* two, behind a parent that leads elsewhere, and about nobody; batches of *)
(* one id, two lanes, one change in Greenhouse.                            *)
ParentRow == [p \in {p1, p2} |-> IF p = p1 THEN [candidate |-> c1, parent |-> None]
                                 ELSE [candidate |-> None, parent |-> p1]]
About(c, p) == [candidate |-> c, parent |-> p]
PrimedPages == {<<About(None, p2), About(c2, None)>>,
                <<About(c2, p1), About(None, None), About(c1, p2)>>}
Priming == INSTANCE RowPriming WITH
    Candidates <- {c1, c2}, Parents <- {p1, p2}, Pages <- PrimedPages,
    BatchSize <- 1, Lanes <- 2, MaxChanges <- 1, page <- v1, strict <- v2,
    substance <- v3, flag <- v4, gone <- v5, changes <- v6, pc <- v7,
    depth <- v8, queue <- v9, flight <- v10, answers <- v11, parents <- v12,
    privacy <- v13, row <- v14, verdicts <- v15, reads <- v16, seen <- v17
ASSUME Priming!BatchAssumption
OnlyPriming == machine = "priming" /\ UNCHANGED <<machine>>

-----------------------------------------------------------------------------
(* Rows two levels from their job, in batches of two ids read a record at  *)
(* a time: parents shared, several of one key, on a closed job, on a job   *)
(* told twice and differently, missing; rows of an endpoint that names its *)
(* jobs; a page that fails and a record that moves.                        *)
Link(i, k, refs) == [id |-> i, level |-> 1, key |-> k, refs |-> refs,
                     jobs |-> None, job |-> None, nested |-> None]
Leaf(i, k, j, n) == [id |-> i, level |-> 2, key |-> k, refs |-> {},
                     jobs |-> None, job |-> j, nested |-> n]
Joined(refs, v, m) == [refs |-> refs, jobs |-> None, job |-> None, nested |-> None,
                       visibility |-> v, marked |-> m]
Listed(jobs, j) == [Joined({}, None, FALSE) EXCEPT !.jobs = jobs, !.job = j]
JoinWorlds ==
    {{Link(1, 1, {1}), Link(2, 2, {2}), Link(3, 2, {3}), Leaf(4, 1, j1, None),
      Leaf(5, 2, j2, None), Leaf(6, 3, x, y)} : x \in {j1, j2, None}, y \in {j1, None}}
    \cup {{Link(1, 1, {2}), Link(2, 3, {1, 2}), Leaf(3, 2, j1, j2), Leaf(4, 1, Bad, None)}}
JoinPages ==
    {[kind |-> "join_backed", redact |-> FALSE, rows |-> <<Joined({1, 2}, None, FALSE), r>>] :
        r \in {Joined({2, 3}, "public", TRUE), Joined({1}, "private", FALSE), Joined({}, None, TRUE),
               Joined({3}, None, FALSE)}}
    \cup {[kind |-> "direct", redact |-> d, rows |-> <<Listed({j1, j2}, None), r>>] :
        d \in BOOLEAN, r \in {Listed({j2}, None), Listed({}, None)}}
    \cup {[kind |-> "direct", redact |-> FALSE, rows |-> <<Listed(None, j)>>] : j \in {j1, j2, Bad, None}}
Joins == INSTANCE PolicyJoin WITH
    Jobs <- {j1, j2}, Permitted <- {j1}, Ids <- 1..3, Pages <- JoinPages,
    Worlds <- JoinWorlds, Hops <- 2, BatchSize <- 2, Lanes <- 2, PerPage <- 1,
    MaxChanges <- 1, MaxFaults <- 1, page <- v1, world <- v2, was <- v3,
    states <- v4, level <- v5, queue <- v6, flight <- v7, loaded <- v8,
    incomplete <- v9, reply <- v10, changes <- v11, faults <- v12
ASSUME Joins!JoinAssumption
OnlyJoins == machine = "joins" /\ UNCHANGED <<machine, v13, v14, v15, v16, v17>>

-----------------------------------------------------------------------------
(* Every endpoint with a rule of its own, with every class of field, plain *)
(* and nested, in pages of at most two rows.                               *)
T == [kind |-> "text"]
V(kind) == [kind |-> kind]
Record(fields) == [kind |-> "record", fields |-> fields]
Person == [id |-> T, first_name |-> T, email |-> T]
Custom == Record([cf_open |-> T, cf_secret |-> T])
ApplicationRow == [id |-> T, jobs |-> T, candidate |-> Record(Person),
                   current_stage |-> Record([id |-> T, name |-> T, owner |-> Record(Person)]),
                   custom_fields |-> Custom, invented |-> T]
NoteRows == {[id |-> T, visibility |-> V(v), body |-> x, email_from |-> T] :
               v \in {"public", "admin_only", "private", "odd"}, x \in {T, V("sensitive")}}
            \cup {[id |-> T, body |-> T]}
RowsOf ==
    [search_my_candidates |->
       {[id |-> T, first_name |-> T, email_addresses |-> T, phone |-> T, addresses |-> T,
         custom_fields |-> Custom, applications |-> [kind |-> "list", rows |-> <<ApplicationRow>>]],
        [id |-> T, applications |-> T, user |-> Record(Person)]},
     search_my_applications |-> {ApplicationRow, [id |-> T, current_stage |-> T]},
     search_my_users |-> {[id |-> T, first_name |-> n, primary_email |-> T, phone |-> T] :
                            n \in {T, V("sensitive")}},
     search_my_notes |-> NoteRows,
     search_my_job_notes |-> NoteRows,
     search_my_offers |-> {[id |-> T, starts_on |-> d, custom_fields |-> Custom] :
                             d \in {T, V("sensitive")}},
     search_my_scorecards |-> {[id |-> T, notes |-> T, private_notes |-> T]},
     search_my_interviewers |->
       {[id |-> T, email |-> T, user |-> Record([id |-> T, contact |-> Record(Person),
                                                 custom_fields |-> Custom])]},
     search_my_tracking_links |-> {[id |-> T, token |-> T, url |-> T, answers |-> Record([token |-> T])]},
     search_my_email_templates |-> {[id |-> T, recipients |-> T, body |-> T]},
     search_my_user_emails |-> {[id |-> T, email |-> T]},
     search_my_future_job_permissions |-> {[id |-> T, email |-> T]}]
ProjectedPages ==
    UNION {{[tool |-> t, rows |-> p] : p \in {<<>>} \cup {<<r>> : r \in RowsOf[t]}
                                             \cup (RowsOf[t] \X RowsOf[t])} : t \in DOMAIN RowsOf}
Documented == [e \in {"candidates", "applications", "users", "notes", "job_notes", "offers",
                      "scorecards", "interviewers", "tracking_links", "email_templates",
                      "user_emails", "future_job_permissions"} |->
    {"id", "first_name", "email", "email_addresses", "primary_email", "phone", "candidate", "jobs",
     "current_stage", "custom_fields", "applications", "addresses", "visibility", "body", "subject",
     "email_from", "starts_on", "notes", "private_notes", "token", "url", "recipients", "user",
     "stage", "answers"}]
CustomKeys == {[known |-> FALSE, private |-> {}], [known |-> TRUE, private |-> {}],
               [known |-> TRUE, private |-> {"cf_secret"}]}
Projection == INSTANCE EvidenceProjection WITH
    Requests <- ProjectedPages,
    Scopes <- [kind : {"operator", "all", "jobs"}, siteAdmin : BOOLEAN],
    RequiredFields <- {<<"offers", "starts_on">>, <<"applications", "jobs">>},
    request <- v1, scope <- v2, keys <- v3, pc <- v4, reply <- v5
OnlyProjection == machine = "projection" /\ UNCHANGED <<machine, v6, v7, v8,
    v9, v10, v11, v12, v13, v14, v15, v16, v17>>

-----------------------------------------------------------------------------
Init ==
    \/ machine = "permission" /\ Permission!Init /\ v12 = None /\ v13 = None
        /\ v14 = None /\ v15 = None /\ v16 = None /\ v17 = None
    \/ machine = "reader" /\ Reader!Init /\ v8 = None /\ v9 = None
        /\ v10 = None /\ v11 = None /\ v12 = None /\ v13 = None /\ v14 = None
        /\ v15 = None /\ v16 = None /\ v17 = None
    \/ machine = "bridge" /\ Bridge!Init /\ v13 = None /\ v14 = None
        /\ v15 = None /\ v16 = None /\ v17 = None
    \/ machine = "hops" /\ TwoHops!Init /\ v13 = None /\ v14 = None
        /\ v15 = None /\ v16 = None /\ v17 = None
    \/ machine = "frozen" /\ Frozen!Init /\ v7 = None /\ v8 = None
        /\ v9 = None /\ v10 = None /\ v11 = None /\ v12 = None /\ v13 = None
        /\ v14 = None /\ v15 = None /\ v16 = None /\ v17 = None
    \/ machine = "requests" /\ Asked!Init /\ v7 = None /\ v8 = None
        /\ v9 = None /\ v10 = None /\ v11 = None /\ v12 = None /\ v13 = None
        /\ v14 = None /\ v15 = None /\ v16 = None /\ v17 = None
    \/ machine = "signins" /\ Enrolments!Init /\ v12 = None /\ v13 = None
        /\ v14 = None /\ v15 = None /\ v16 = None /\ v17 = None
    \/ machine = "commands" /\ Commands!Init /\ v12 = None /\ v13 = None
        /\ v14 = None /\ v15 = None /\ v16 = None /\ v17 = None
    \/ machine = "revival" /\ Revival!Init /\ v12 = None /\ v13 = None
        /\ v14 = None /\ v15 = None /\ v16 = None /\ v17 = None
    \/ machine = "priming" /\ Priming!Init
    \/ machine = "joins" /\ Joins!Init /\ v13 = None /\ v14 = None
        /\ v15 = None /\ v16 = None /\ v17 = None
    \/ machine = "projection" /\ Projection!Init /\ v6 = None /\ v7 = None
        /\ v8 = None /\ v9 = None /\ v10 = None /\ v11 = None /\ v12 = None
        /\ v13 = None /\ v14 = None /\ v15 = None /\ v16 = None /\ v17 = None

Next ==
    \/ OnlyPermission /\ Permission!Next
    \/ OnlyReader /\ Reader!Next
    \/ OnlyBridge /\ Bridge!Next
    \/ OnlyTwoHops /\ TwoHops!Next
    \/ OnlyFrozen /\ Frozen!Next
    \/ OnlyAsked /\ Asked!Next
    \/ OnlyEnrolments /\ Enrolments!Next
    \/ OnlyCommands /\ Commands!Next
    \/ OnlyRevival /\ Revival!Next
    \/ OnlyPriming /\ Priming!Next
    \/ OnlyJoins /\ Joins!Next
    \/ OnlyProjection /\ Projection!Next

Spec == Init /\ [][Next]_slots

-----------------------------------------------------------------------------
(* The variables of every module have their types.                         *)
TypeOK ==
    /\ machine = "permission" => Permission!TypeOK
    /\ machine = "reader" => Reader!TypeOK
    /\ machine = "bridge" => Bridge!TypeOK
    /\ machine = "hops" => TwoHops!TypeOK
    /\ machine = "frozen" => Frozen!TypeOK
    /\ machine = "requests" => Asked!TypeOK
    /\ machine = "signins" => Enrolments!TypeOK
    /\ machine = "commands" => Commands!TypeOK
    /\ machine = "revival" => Revival!TypeOK
    /\ machine = "priming" => Priming!TypeOK
    /\ machine = "joins" => Joins!TypeOK

(* Whatever fails, is deleted, cached or changed in between: nobody is     *)
(* answered a job, a private-candidate right or a role that was not given  *)
(* within the horizon; a row that leads to a private candidate, however    *)
(* far, is shown only to who has a right to it, one whose jobs are closed  *)
(* to nobody; and a projection shows no contacts off their own row, no     *)
(* private body and no private custom field.                               *)
NothingWithheldIsShown ==
    /\ machine = "permission" => Permission!AnswersWereTrue
    /\ machine = "reader" => /\ Reader!PrivateRowsNeedARight
                             /\ Reader!ClosedJobsStayClosed
                             /\ Reader!WithheldLooksAbsent
    /\ machine = "priming" => Priming!KeptWasPublic /\ Priming!OneVerdictPerCandidate
    /\ machine = "joins" => Joins!KeptLeadToPermittedJobs
    /\ machine = "projection" => /\ Projection!ContactsStayOnTheirRow
                                 /\ Projection!PrivateBodiesStayPrivate
                                 /\ Projection!PrivateCustomFieldsStayPrivate
                                 /\ Projection!GatedRepliesAreBlind

(* And nothing else is withheld, or not silently: what has been granted    *)
(* for longer than the horizon is in every answer whose reads succeeded;   *)
(* an actor who is merely not attested loses private rows only; every row  *)
(* of a page is counted where it went; a bridge that calls its answer      *)
(* complete has all of it; a row that a failed page of its parents hides   *)
(* is unresolved, never excluded; priming costs no row a read of its own;  *)
(* and the manifest of a projection is true.                               *)
NothingVisibleIsLost ==
    /\ machine = "permission" => Permission!NothingHeldIsLost
    /\ machine = "reader" => Reader!UnattestedLosesOnlyPrivateRows /\ Reader!RowsAreAccountedFor
    /\ machine = "bridge" => /\ Bridge!CompleteMeansAll
                             /\ Bridge!BridgeReportsTheWithheld
                             /\ Bridge!NoReadOutlivesTheAnswer
    /\ machine = "hops" => /\ TwoHops!CompleteMeansAll
                           /\ TwoHops!BridgeReportsTheWithheld
                           /\ TwoHops!NoReadOutlivesTheAnswer
    /\ machine = "priming" => Priming!StrictReadsInBatches /\ Priming!NoReadIsRepeated
    /\ machine = "joins" => Joins!LostRowsAreUnresolved
    /\ machine = "projection" => Projection!ManifestIsTrue

(* Neither the ids that a caller names nor a handle, confirmed late, twice *)
(* or after a restart, widen what its subject saw when the request was     *)
(* resolved; closed and confidential jobs and several at once are asked    *)
(* about first; a truncated read freezes or narrows nothing; and a handle  *)
(* serves its subject alone, and ends.                                     *)
ScopeNeverWidens ==
    /\ machine = "bridge" => Bridge!ScopeNeverWidens
    /\ machine = "hops" => TwoHops!ScopeNeverWidens
    /\ machine = "frozen" => /\ Frozen!NothingRunsUnasked
                             /\ Frozen!ScopesNeverGrow
                             /\ Frozen!AnalysesAreWhole
                             /\ Frozen!HandlesServeTheirSubject
    /\ machine = "requests" => /\ Asked!NothingRunsUnasked
                               /\ Asked!ScopesNeverGrow
                               /\ Asked!TruncationFreezesNothing
                               /\ Asked!AnalysesAreWhole

(* In any order of first sign-ins, bootstraps, reconciliations and         *)
(* attestations: an address names one person, no sign-in reverses what was *)
(* decided, of two tabs the slower is enrolled as well, a roster that      *)
(* misses most people deprovisions nobody unasked, and no attestation      *)
(* outlives the row it was made for.                                       *)
DirectoryIsOneMapping ==
    [][/\ machine = "signins" => /\ Enrolments!EmailsNameOnePerson'
                                 /\ Enrolments!SignInsNeverReverse
                                 /\ Enrolments!TwinsAreEnrolled
       /\ machine = "commands" => /\ Commands!EmailsNameOnePerson'
                                  /\ Commands!SignInsNeverReverse
                                  /\ Commands!AbsenceIsBounded'
                                  /\ Commands!AttestationsAreByHand'
       /\ machine = "revival" => /\ Revival!SignInsNeverReverse
                                 /\ Revival!AbsenceIsBounded'
                                 /\ Revival!AttestationsAreByHand']_slots
=============================================================================
