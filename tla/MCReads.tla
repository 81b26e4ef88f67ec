------------------------------- MODULE MCReads --------------------------------
(***************************************************************************)
(* A question on its way to Greenhouse's records and back, for TLC: the    *)
(* client and its token, the memo, the read cache, the limiter, paging,    *)
(* the date fallback, resumes and their worker, the server's requests and  *)
(* shutdown, the calls and their audit log; and then what must come to an  *)
(* end.  The modules share no state: a behaviour is of one of them, which  *)
(* machine names.                                                          *)
(***************************************************************************)
EXTENDS Integers, Sequences, FiniteSets, SequencesExt, FiniteSetsExt

CONSTANTS r1, r2, t1, t2, t3, c1, c2, c3, k1, k2, k3, s1, s2, q1, q2, q3, First,
    o1, o2, p1, a1, a2, j1, userA, userB, mailA, mailB, sub, All, Unknown, None

\* machine names whose behaviour this is; the slots hold its variables.
VARIABLES machine, v1, v2, v3, v4, v5, v6, v7, v8, v9, v10, v11, v12, v13, v14,
    v15

slots == <<machine, v1, v2, v3, v4, v5, v6, v7, v8, v9, v10, v11, v12, v13,
    v14, v15>>

-----------------------------------------------------------------------------
(* Two reads that share the token, which is lost once. *)
Client == INSTANCE HarvestClient WITH
    Reads <- {r1, r2}, Tokens <- {t1, t2, t3}, MaxRetries <- 1,
    MaxRevocations <- 1, cachedToken <- v1, inFlightToken <- v2, mint <- v3,
    active <- v4, revoked <- v5, pc <- v6, attempt <- v7, authRefreshes <- v8,
    timeoutRetries <- v9, token <- v10, refused <- v11, gets <- v12
ASSUME Client!ClientAssumption
OnlyClient == machine = "client" /\ UNCHANGED <<machine, v13, v14, v15>>

-----------------------------------------------------------------------------
(* Three calls for one key; values expire before and after the entry. *)
Memo == INSTANCE TtlMemo WITH
    Calls <- {c1, c2, c3}, NoEntry <- None, Ttl <- 1, OwnExpiries <- {0, 9},
    MaxTime <- 2, clock <- v1, cached <- v2, entry <- v3, call <- v4
ASSUME Memo!MemoAssumption
OnlyMemo == machine = "memo" /\ UNCHANGED <<machine, v5, v6, v7, v8, v9, v10,
    v11, v12, v13, v14, v15>>

-----------------------------------------------------------------------------
(* Two readers, two ordinary keys for a store of one entry, one attachment. *)
Cache == INSTANCE ReadCache WITH
    Readers <- {r1, r2}, Keys <- {k1, k2, k3}, Attachments <- {k3}, TTL <- 1,
    MaxEntries <- 1, Horizon <- 3, now <- v1, order <- v2, entry <- v3,
    inflight <- v4, pc <- v5, key <- v6, answer <- v7
ASSUME Cache!ReadCacheAssumption
OnlyCache == machine = "cache" /\ UNCHANGED <<machine, v8, v9, v10, v11, v12,
    v13, v14, v15>>

-----------------------------------------------------------------------------
(* Two sign-ins and windows of two ticks. *)
Limiter == INSTANCE RateLimiter WITH
    SignIns <- {s1, s2}, WindowMs <- 2, MaxCalls <- 2, MaxAnalysisCalls <- 1,
    MaxRotations <- 0, tokenId <- v1, bucket <- v2, allowed <- v3,
    refused <- v4
ASSUME Limiter!LimiterAssumption
OnlyLimiter == machine = "limiter" /\ UNCHANGED <<machine, v5, v6, v7, v8, v9,
    v10, v11, v12, v13, v14, v15>>

-----------------------------------------------------------------------------
(* One sign-in, whose access token is rotated in the middle of a window. *)
Rotations == INSTANCE RateLimiter WITH
    SignIns <- {s1}, WindowMs <- 3, MaxCalls <- 3, MaxAnalysisCalls <- 2,
    MaxRotations <- 1, tokenId <- v1, bucket <- v2, allowed <- v3,
    refused <- v4
ASSUME Rotations!LimiterAssumption
OnlyRotations == machine = "rotations" /\ UNCHANGED <<machine, v5, v6, v7, v8,
    v9, v10, v11, v12, v13, v14, v15>>

-----------------------------------------------------------------------------
(* Three cursors that link in every way; a cap cuts the longest chain. *)
Paging == INSTANCE ReadAll WITH
    Cursors <- {q1, q2, q3}, MaxPages <- 3, next <- v1, start <- v2,
    expired <- v3, pc <- v4, cursor <- v5, seen <- v6, read <- v7,
    unresolved <- v8, status <- v9
ASSUME Paging!ReadAllAssumption
OnlyPaging == machine = "paging" /\ UNCHANGED <<machine, v10, v11, v12, v13,
    v14, v15>>

-----------------------------------------------------------------------------
(* All tenants of up to two rows: what becomes of a row depends on it alone. *)
FallbackRows == [{"primary", "fallback"} -> {"none", "garbage", "in", "out"}]
FallbackTenants == UNION {kSubset(i, FallbackRows) : i \in 0..2}
Fallback == INSTANCE DateFallback WITH
    Tenants <- FallbackTenants, tenant <- v1, native <- v2, pc <- v3,
    rows <- v4, added <- v5, returned <- v6, fetched <- v7, missing <- v8,
    unwindowed <- v9, statuses <- v10, outcome <- v11
ASSUME Fallback!FallbackAssumption
OnlyFallback == machine = "fallback" /\ UNCHANGED <<machine, v12, v13, v14,
    v15>>

-----------------------------------------------------------------------------
(* Two calls and one parser slot; two origins, one redirect. *)
Resumes == INSTANCE Resume WITH
    Calls <- {c1, c2}, MaxParsers <- 1, MaxRedirects <- 1, Budget <- 1,
    Origins <- {o1, o2}, Paths <- {p1}, allowed <- v1, pc <- v2, url <- v3,
    refreshed <- v4, visited <- v5, at <- v6, spent <- v7, timer <- v8,
    aborted <- v9, deaf <- v10, swollen <- v11, active <- v12, out <- v13
ASSUME Resumes!ResumeAssumption
OnlyResumes == machine = "resume" /\ UNCHANGED <<machine, v14, v15>>

-----------------------------------------------------------------------------
(* Documents of three streams, archives of two entries, codes of six bytes. *)
Stream(fs, n, d) == [filters |-> fs, sizes |-> [k \in 1..Len(fs) |-> n[k]],
                     raw |-> n[1], dictionary |-> d]
Streams == {Stream(fs, n, TRUE) : fs \in BoundedSeq({"Flate", "DCT", "Crypt", "other"}, 2),
                                  n \in [1..2 -> {0, 4, 6}]}
           \cup {Stream(<<>>, <<1, 1>>, FALSE)}
WorkerDocuments == BoundedSeq(Streams, 2) \cup
                   {<<x, x, y>> : x \in {Stream(<<>>, <<1, 1>>, TRUE)}, y \in Streams}
Entries == [name : {"types", "document", "../up"}, declared : {3, 4, 6}, actual : {3, 4},
            packed : {0, 2}, crc : BOOLEAN, encrypted : {FALSE}]
           \cup [name : {"types"}, declared : {3}, actual : {3}, packed : {2},
                 crc : {TRUE}, encrypted : {TRUE}]
WorkerArchives == BoundedSeq(Entries, 2)
WorkerEncoded == BoundedSeq({"lo", "hi", "z", "w", "end"}, 6)
                 \cup BoundedSeq({"lit1", "lit2", "run2", "run3", "end"}, 5)
Worker == INSTANCE ResumeWorker WITH
    MaxStream <- 5, MaxExpanded <- 6, MaxStreams <- 2, MaxRatio <- 2,
    MaxOutput <- 5, Documents <- WorkerDocuments, Archives <- WorkerArchives,
    Encoded <- WorkerEncoded, Texts <- BoundedSeq(1..4, 4), kind <- v1,
    input <- v2, i <- v3, expanded <- v4, names <- v5, verdict <- v6
OnlyWorker == machine = "worker" /\ UNCHANGED <<machine, v7, v8, v9, v10, v11,
    v12, v13, v14, v15>>

-----------------------------------------------------------------------------
(* A tool and a recipe that overlap; one job, in the scope or not. *)
Runtime == INSTANCE ToolRuntime WITH
    ScopedCalls <- {c1}, AnalysisCalls <- {c2}, ActionCalls <- {}, Jobs <- {1},
    ToolMs <- 1, AnalysisMs <- 1, MaxReads <- 1, pc <- v1, elapsed <- v2,
    left <- v3, known <- v4, orphans <- v5, pages <- v6, scope <- v7,
    answer <- v8, context <- v9, rows <- v10, aborted <- v11, landed <- v12
ASSUME Runtime!RuntimeAssumption
OnlyRuntime == machine = "runtime" /\ UNCHANGED <<machine, v13, v14, v15>>

-----------------------------------------------------------------------------
(* A recipe of two reads, and a write. *)
Recipe == INSTANCE ToolRuntime WITH
    ScopedCalls <- {}, AnalysisCalls <- {c2}, ActionCalls <- {c3}, Jobs <- {1},
    ToolMs <- 2, AnalysisMs <- 3, MaxReads <- 2, pc <- v1, elapsed <- v2,
    left <- v3, known <- v4, orphans <- v5, pages <- v6, scope <- v7,
    answer <- v8, context <- v9, rows <- v10, aborted <- v11, landed <- v12
ASSUME Recipe!RuntimeAssumption
OnlyRecipe == machine = "recipe" /\ UNCHANGED <<machine, v13, v14, v15>>

-----------------------------------------------------------------------------
(* Two MCP requests and a token request; one SIGTERM. *)
Http == INSTANCE HttpLifecycle WITH
    Mcp <- {r1, r2}, Oauth <- {o1}, Grace <- 3, Settle <- 1, KillAt <- 5,
    Terms <- 1, Interrupts <- 0, phase <- v1, conn <- v2, aborted <- v3,
    active <- v4, shutdown <- v5, since <- v6, clock <- v7, sent <- v8,
    pending <- v9, listeners <- v10, proc <- v11, dropped <- v12
ASSUME Http!LifecycleAssumption
OnlyHttp == machine = "http" /\ UNCHANGED <<machine, v13, v14, v15>>

-----------------------------------------------------------------------------
(* One call, digests of two instants, months of three.  Rows meet only in  *)
(* the readers, which take them one by one.                                *)
Audit == INSTANCE AuditTrail WITH
    Calls <- {c1}, Interval <- 2, MonthLength <- 3, Horizon <- 5,
    backend <- v1, kind <- v2, now <- v3, pc <- v4, at <- v5, name <- v6,
    rows <- v7, due <- v8, ticks <- v9, digests <- v10
ASSUME Audit!AuditTrailAssumption
OnlyAudit == machine = "audit" /\ UNCHANGED <<machine, v11, v12, v13, v14,
    v15>>

-----------------------------------------------------------------------------
Init ==
    \/ machine = "client" /\ Client!Init /\ v13 = None /\ v14 = None
        /\ v15 = None
    \/ machine = "memo" /\ Memo!Init /\ v5 = None /\ v6 = None /\ v7 = None
        /\ v8 = None /\ v9 = None /\ v10 = None /\ v11 = None /\ v12 = None
        /\ v13 = None /\ v14 = None /\ v15 = None
    \/ machine = "cache" /\ Cache!Init /\ v8 = None /\ v9 = None /\ v10 = None
        /\ v11 = None /\ v12 = None /\ v13 = None /\ v14 = None /\ v15 = None
    \/ machine = "limiter" /\ Limiter!Init /\ v5 = None /\ v6 = None
        /\ v7 = None /\ v8 = None /\ v9 = None /\ v10 = None /\ v11 = None
        /\ v12 = None /\ v13 = None /\ v14 = None /\ v15 = None
    \/ machine = "rotations" /\ Rotations!Init /\ v5 = None /\ v6 = None
        /\ v7 = None /\ v8 = None /\ v9 = None /\ v10 = None /\ v11 = None
        /\ v12 = None /\ v13 = None /\ v14 = None /\ v15 = None
    \/ machine = "paging" /\ Paging!Init /\ v10 = None /\ v11 = None
        /\ v12 = None /\ v13 = None /\ v14 = None /\ v15 = None
    \/ machine = "fallback" /\ Fallback!Init /\ v12 = None /\ v13 = None
        /\ v14 = None /\ v15 = None
    \/ machine = "resume" /\ Resumes!Init /\ v14 = None /\ v15 = None
    \/ machine = "worker" /\ Worker!Init /\ v7 = None /\ v8 = None
        /\ v9 = None /\ v10 = None /\ v11 = None /\ v12 = None /\ v13 = None
        /\ v14 = None /\ v15 = None
    \/ machine = "runtime" /\ Runtime!Init /\ v13 = None /\ v14 = None
        /\ v15 = None
    \/ machine = "recipe" /\ Recipe!Init /\ v13 = None /\ v14 = None
        /\ v15 = None
    \/ machine = "http" /\ Http!Init /\ v13 = None /\ v14 = None /\ v15 = None
    \/ machine = "audit" /\ Audit!Init /\ v11 = None /\ v12 = None
        /\ v13 = None /\ v14 = None /\ v15 = None

Next ==
    \/ OnlyClient /\ Client!Next
    \/ OnlyMemo /\ Memo!Next
    \/ OnlyCache /\ Cache!Next
    \/ OnlyLimiter /\ Limiter!Next
    \/ OnlyRotations /\ Rotations!Next
    \/ OnlyPaging /\ Paging!Next
    \/ OnlyFallback /\ Fallback!Next
    \/ OnlyResumes /\ Resumes!Next
    \/ OnlyWorker /\ Worker!Next
    \/ OnlyRuntime /\ Runtime!Next
    \/ OnlyRecipe /\ Recipe!Next
    \/ OnlyHttp /\ Http!Next
    \/ OnlyAudit /\ Audit!Next

Spec == Init /\ [][Next]_slots

-----------------------------------------------------------------------------
(* The variables of every module have their types.                         *)
TypeOK ==
    /\ machine = "client" => Client!TypeOK
    /\ machine = "memo" => Memo!TypeOK
    /\ machine = "cache" => Cache!TypeOK
    /\ machine = "limiter" => Limiter!TypeOK
    /\ machine = "rotations" => Rotations!TypeOK
    /\ machine = "paging" => Paging!TypeOK
    /\ machine = "fallback" => Fallback!TypeOK
    /\ machine = "resume" => Resumes!TypeOK
    /\ machine = "worker" => Worker!TypeOK
    /\ machine = "runtime" => Runtime!TypeOK
    /\ machine = "recipe" => Recipe!TypeOK
    /\ machine = "http" => Http!TypeOK
    /\ machine = "audit" => Audit!TypeOK

(* What is limited stays within its limit, whatever the order of calls,    *)
(* failures and retries: requests a read sends, entries the cache holds,   *)
(* calls a sign-in gets in a window (and a refusal is owed to calls that   *)
(* were allowed), parsers at once and the time of a resume, what a worker  *)
(* accepts and returns.                                                    *)
BoundsHold ==
    /\ machine = "client" => Client!RequestsAreBounded
    /\ machine = "cache" => Cache!StoreIsBounded
    /\ machine = "limiter" => Limiter!LessThanTwiceTheLimit /\ Limiter!RefusalsAreEarned
    /\ machine = "rotations" => Rotations!LessThanTwiceTheLimit /\ Rotations!RefusalsAreEarned
    /\ machine = "resume" => Resumes!SlotsAreExact /\ Resumes!OneDeadline
    /\ machine = "worker" => Worker!AcceptedIsBounded /\ Worker!CutAtTheLimit

(* Callers that share a load or a request are counted, the one nobody      *)
(* waits for is aborted, two fresh loads of a key never run together, and  *)
(* a failure is answered to those who waited and to nobody after them.     *)
SharedLoadsAreFair ==
    /\ machine = "memo" => /\ Memo!SubscribersAreCounted
                           /\ Memo!AbandonedLoadsAreCancelled
                           /\ Memo!SingleFlight
                           /\ Memo!FailuresAreNotRemembered
    /\ machine = "cache" => Cache!AbandonedRequestsAreAborted /\ Cache!FailuresAreNotCached

(* No step uses what is out of date or another caller's: a token that was  *)
(* refused, a cached value past its time, a signed URL that was refused, a *)
(* parser for a client that has gone; and who leaves a shared load or      *)
(* request cancels it for nobody else.                                     *)
NothingStaleIsUsed ==
    [][/\ machine = "client" => Client!RefusedTokensAreNotReused
       /\ machine = "memo" => Memo!AnswersAreFresh' /\ Memo!OnlyTheLastCancels
       /\ machine = "cache" => Cache!HitsAreFresh /\ Cache!LeavingHurtsNobody
       /\ machine = "resume" => Resumes!RefreshesAreAuthorized /\ Resumes!NoParserForTheGone]_slots

(* A read that calls itself complete missed nothing, no read has a page    *)
(* twice, one that stopped can be resumed without a gap and keeps its      *)
(* pages; the date fallback returns the population one filter would; a     *)
(* resume is the bytes of the origin that was authorised, all of them.     *)
ReadsAreWhole ==
    /\ machine = "paging" => /\ Paging!CompleteIsComplete /\ Paging!EachPageOnce
                             /\ Paging!ResumeMissesNothing
                             /\ Paging!DeadlineKeepsPages
    /\ machine = "fallback" => /\ Fallback!SamePopulation /\ Fallback!NoRowTwice
                               /\ Fallback!UndatedAreCounted
    /\ machine = "resume" => Resumes!BytesComeFromTheOrigin
    /\ machine = "worker" => Worker!EveryByteIsWritten

(* Data leaves a call only with its row in the audit log, announced before *)
(* it was read, and a call leaves one context and one terminal row at      *)
(* most; and a digest misses no call inside its window and counts none     *)
(* twice, however late its timer fires.                                    *)
EverythingIsRecorded ==
    /\ machine = "runtime" => /\ Runtime!DataLeavesARecord /\ Runtime!ReadsAreAnnounced
                              /\ Runtime!ContextsFollowTheirCalls
                              /\ Runtime!AuditedJobsArePermitted
                              /\ Runtime!PagesAreAccountedFor
    /\ machine = "recipe" => /\ Recipe!DataLeavesARecord /\ Recipe!ReadsAreAnnounced
                             /\ Recipe!ContextsFollowTheirCalls
                             /\ Recipe!AuditedJobsArePermitted
                             /\ Recipe!PagesAreAccountedFor
    /\ machine = "audit" => /\ Audit!ReadsArePaired /\ Audit!UnmatchedStartsGaveNothing
                            /\ Audit!NeverCountedTwice /\ Audit!NothingInsideIsMissed

(* Requests that were admitted are drained, or cut, before the platform    *)
(* kills the process, whatever is in flight is counted until it has ended, *)
(* and no read of a call starts after the call has timed out.              *)
DeadlinesHold ==
    /\ machine = "http" => /\ Http!InFlightIsCounted /\ Http!AdmittedWorkIsDrained
                           /\ Http!ExitsBeforeTheKill
    /\ machine = "runtime" => Runtime!ReadsEndByTheDeadline
    /\ machine = "recipe" => Recipe!ReadsEndByTheDeadline

(* NOT TRUE of the code (ttl-memo.ts:11, "one caller abandoning it must    *)
(* not cancel another's"): a call that did not abort does not fail with a  *)
(* load that was aborted.                                                  *)
NobodyElseCancels == machine = "memo" => Memo!NobodyElseCancels

-----------------------------------------------------------------------------
(***************************************************************************)
(* What must come to an end: calls, reads, resumes, the drain, requests of *)
(* the action mount, and the actions the reconciler takes up, each under   *)
(* the fairness its code gets.                                             *)
(***************************************************************************)

(* Two reads that share the token, which expires. *)
LiveClient == INSTANCE HarvestClient WITH
    Reads <- {r1, r2}, Tokens <- {t1, t2, t3}, MaxRetries <- 0,
    MaxRevocations <- 0, cachedToken <- v1, inFlightToken <- v2, mint <- v3,
    active <- v4, revoked <- v5, pc <- v6, attempt <- v7, authRefreshes <- v8,
    timeoutRetries <- v9, token <- v10, refused <- v11, gets <- v12
ASSUME LiveClient!ClientAssumption
OnlyLiveClient == machine = "live client" /\ UNCHANGED <<machine, v13, v14, v15>>

-----------------------------------------------------------------------------
(* Two calls for one key. *)
LiveMemo == INSTANCE TtlMemo WITH
    Calls <- {c1, c2}, NoEntry <- None, Ttl <- 1, OwnExpiries <- {0, 9},
    MaxTime <- 1, clock <- v1, cached <- v2, entry <- v3, call <- v4
ASSUME LiveMemo!MemoAssumption
OnlyLiveMemo == machine = "live memo" /\ UNCHANGED <<machine, v5, v6, v7, v8, v9, v10,
    v11, v12, v13, v14, v15>>

-----------------------------------------------------------------------------
(* A recipe of two reads; the reader may never answer. *)
Tool == INSTANCE ToolRuntime WITH
    ScopedCalls <- {}, AnalysisCalls <- {a1}, ActionCalls <- {}, Jobs <- {j1},
    ToolMs <- 2, AnalysisMs <- 3, MaxReads <- 2, pc <- v1, elapsed <- v2,
    left <- v3, known <- v4, orphans <- v5, pages <- v6, scope <- v7,
    answer <- v8, context <- v9, rows <- v10, aborted <- v11, landed <- v12
ASSUME Tool!RuntimeAssumption
OnlyTool == machine = "tool" /\ UNCHANGED <<machine, v13, v14, v15>>

-----------------------------------------------------------------------------
(* One call, with redirects and a refreshed URL. *)
LiveResumes == INSTANCE Resume WITH
    Calls <- {c1}, MaxParsers <- 1, MaxRedirects <- 1, Budget <- 2,
    Origins <- {o1, o2}, Paths <- {p1}, allowed <- v1, pc <- v2, url <- v3,
    refreshed <- v4, visited <- v5, at <- v6, spent <- v7, timer <- v8,
    aborted <- v9, deaf <- v10, swollen <- v11, active <- v12, out <- v13
ASSUME LiveResumes!ResumeAssumption
OnlyLiveResumes == machine = "live resume" /\ UNCHANGED <<machine, v14, v15>>

-----------------------------------------------------------------------------
(* An MCP request and a token request; a SIGTERM and a Ctrl-C. *)
LiveHttp == INSTANCE HttpLifecycle WITH
    Mcp <- {r1}, Oauth <- {o1}, Grace <- 3, Settle <- 1, KillAt <- 5,
    Terms <- 1, Interrupts <- 1, phase <- v1, conn <- v2, aborted <- v3,
    active <- v4, shutdown <- v5, since <- v6, clock <- v7, sent <- v8,
    pending <- v9, listeners <- v10, proc <- v11, dropped <- v12
ASSUME LiveHttp!LifecycleAssumption
OnlyLiveHttp == machine = "live http" /\ UNCHANGED <<machine, v13, v14, v15>>

-----------------------------------------------------------------------------
(* One request against the canonical directory, one operator change. *)
Session(subject, of, email, client, token) ==
    [subject |-> [kind |-> subject, of |-> of], email |-> email, client |-> client,
     surface |-> "claude_desktop", token |-> token]
MountSessions == {Session("opaque", sub, mailB, "code", TRUE)}
MountTables == [{userA, userB} -> {[email |-> e, subject |-> o, resolved |-> TRUE] :
                              e \in {mailA, mailB}, o \in {sub, None}}]
Mount == INSTANCE ActionMount WITH
    Users <- {userA, userB}, Emails <- {mailA, mailB}, Opaque <- {sub},
    Sessions <- MountSessions, Tables <- MountTables, Views <- {{}},
    Deploys <- {"off", "broken", "up"}, Custom <- FALSE, Named <- FALSE, TTL <- 2,
    MaxTime <- 0, MaxChanges <- 1, MaxRequests <- 1, MaxAsks <- 0,
    session <- v1, deploy <- v2, table <- v3, view <- v4, hasId <- v5,
    learned <- v6, missed <- v7, grant <- v8, revoked <- v9, now <- v10,
    changes <- v11, changed <- v12, req <- v13, ask <- v14, memo <- v15
ASSUME Mount!MountAssumption
OnlyMount == machine = "mount" /\ UNCHANGED <<machine>>

-----------------------------------------------------------------------------
(* Two rows and passes of one: whatever does not rotate starves the other. *)
Queue == INSTANCE RecoveryQueue WITH
    Actions <- {a1, a2}, Limit <- 1, PreflightLease <- 1, MutationLease <- 1,
    Grace <- 1, ConfirmGap <- 1, row <- v1, order <- v2, todo <- v3,
    step <- v4, seen <- v5, deaf <- v6
ASSUME Queue!QueueAssumption
OnlyQueue == machine = "queue" /\ UNCHANGED <<machine, v7, v8, v9, v10, v11,
    v12, v13, v14, v15>>

-----------------------------------------------------------------------------
LiveInit ==
    \/ machine = "live client" /\ LiveClient!Init /\ v13 = None /\ v14 = None
        /\ v15 = None
    \/ machine = "live memo" /\ LiveMemo!Init /\ v5 = None /\ v6 = None /\ v7 = None
        /\ v8 = None /\ v9 = None /\ v10 = None /\ v11 = None /\ v12 = None
        /\ v13 = None /\ v14 = None /\ v15 = None
    \/ machine = "tool" /\ Tool!Init /\ v13 = None /\ v14 = None /\ v15 = None
    \/ machine = "live resume" /\ LiveResumes!Init /\ v14 = None /\ v15 = None
    \/ machine = "live http" /\ LiveHttp!Init /\ v13 = None /\ v14 = None /\ v15 = None
    \/ machine = "mount" /\ Mount!Init
    \/ machine = "queue" /\ Queue!Init /\ v7 = None /\ v8 = None /\ v9 = None
        /\ v10 = None /\ v11 = None /\ v12 = None /\ v13 = None /\ v14 = None
        /\ v15 = None

LiveNext ==
    \/ OnlyLiveClient /\ LiveClient!Next
    \/ OnlyLiveMemo /\ LiveMemo!Next
    \/ OnlyTool /\ Tool!Next
    \/ OnlyLiveResumes /\ LiveResumes!Next
    \/ OnlyLiveHttp /\ LiveHttp!Next
    \/ OnlyMount /\ Mount!Next
    \/ OnlyQueue /\ Queue!Next

(* The fairness of the modules.  Requests end, by their timeout if nothing *)
(* else, callbacks run, and time goes on; nobody need call, abort or ask.  *)
(* Strong fairness is for an attempt that waits for a name, and for a row  *)
(* of the queue: a store or Greenhouse that is asked for ever answers.  A  *)
(* behaviour is of one machine, so one action here is one of each.         *)
Weak(n) ==
    \/ OnlyLiveClient /\ \/ n \in 1..2 /\ LiveClient!Step(<<r1, r2>>[n])
                         \/ n \in 3..5 /\ LiveClient!Mint(<<t1, t2, t3>>[n - 2])
    \/ OnlyLiveMemo /\ \/ n \in 1..2 /\ LET e == <<c1, c2>>[n] IN LiveMemo!LoadResolves(e) \/ LiveMemo!LoadRejects(e)
                       \/ n \in 3..4 /\ LiveMemo!Deliver(<<c1, c2>>[n - 2])
    \/ OnlyTool /\ \/ n = 1 /\ Tool!Tick
                   \/ n = 2 /\ (Tool!StartWritten(a1) \/ Tool!StartFails(a1))
                   \/ n = 3 /\ Tool!Reads(a1)
                   \/ n = 4 /\ Tool!ReadTimesOut(a1)
                   \/ n = 5 /\ (Tool!TerminalWritten(a1) \/ Tool!TerminalFails(a1))
    \/ OnlyLiveResumes /\ \/ n = 1 /\ LiveResumes!Tick(c1)
                          \/ n = 2 /\ LiveResumes!TimerFires(c1)
                          \/ n = 3 /\ LiveResumes!ParseTimeout(c1)
    \/ OnlyLiveHttp /\ \/ n = 1 /\ LiveHttp!Ticks
                       \/ n = 2 /\ LiveHttp!StopsDraining
                       \/ n = 3 /\ LiveHttp!Settles
                       \/ n \in 4..5 /\ LiveHttp!Receives(<<"TERM", "INT">>[n - 3])
    \/ OnlyMount /\ \/ n = 1 /\ Mount!Handles
                    \/ n = 2 /\ Mount!Answers
    \/ OnlyQueue /\ \/ n = 1 /\ Queue!Tick
                    \/ n = 2 /\ Queue!PassStep

Strong(n) ==
    \/ OnlyLiveClient /\ n \in 1..2 /\ LiveClient!Attempt(<<r1, r2>>[n])
    \/ OnlyQueue /\ \/ n \in 1..2 /\ LET x == <<a1, a2>>[n] IN Queue!PrepareTakesOver(x) \/ Queue!PrepareReads(x)
                    \/ n \in 3..4 /\ Queue!ObserveAnswered(<<a1, a2>>[n - 2])
                    \/ n \in 5..6 /\ Queue!SettleAnswered(<<a1, a2>>[n - 4])

FairSpec ==
    /\ LiveInit /\ [][LiveNext]_slots
    /\ \A n \in 1..5 : WF_slots(Weak(n))
    /\ \A n \in 1..6 : SF_slots(Strong(n))

-----------------------------------------------------------------------------
(* What was asked for, the n-th of its machine.                            *)
Asked(n) ==
    \/ machine = "live client" /\ LiveClient!Started(<<r1, r2>>[n])
    \/ machine = "live memo" /\ LiveMemo!Waiting(<<c1, c2>>[n])
    \/ machine = "tool" /\ n = 1 /\ Tool!Asked(a1)
    \/ machine = "live resume" /\ n = 1 /\ LiveResumes!Asked(c1)
    \/ machine = "live http" /\ n = 1 /\ LiveHttp!draining
    \/ machine = "mount" /\ n = 1 /\ Mount!LetIn
    \/ machine = "queue" /\ Queue!MustBeDecided(<<a1, a2>>[n])

(* Its end.                                                                *)
Answered(n) ==
    \/ machine = "live client" /\ LiveClient!HasEnded(<<r1, r2>>[n])
    \/ machine = "live memo" /\ ~LiveMemo!Waiting(<<c1, c2>>[n])
    \/ machine = "tool" /\ n = 1 /\ Tool!Done(a1)
    \/ machine = "live resume" /\ n = 1 /\ LiveResumes!Done(c1)
    \/ machine = "live http" /\ n = 1 /\ LiveHttp!Ended
    \/ machine = "mount" /\ n = 1 /\ Mount!Served
    \/ machine = "queue" /\ Queue!Decided(<<a1, a2>>[n])

(* Whatever fails, leaves or never answers: a read, a memoised call, a     *)
(* tool call and a resume end; a drain ends the process; a session that    *)
(* was let in is served its reads though the write plane is down; and an   *)
(* action that Greenhouse can answer for is settled or quarantined,        *)
(* however many rows that cannot be decided are in front of it.            *)
EverythingAskedEnds == \A n \in 1..2 : Asked(n) ~> Answered(n)

(* A claim whose owner died does not hold its place for ever, wherever     *)
(* passes break off and though Greenhouse never answers for it.            *)
ClaimsEnd ==
    \A x \in {a1, a2} : (machine = "queue" /\ Queue!IsExecuting(x))
                           ~> (machine = "queue" /\ ~Queue!IsExecuting(x))
=============================================================================
