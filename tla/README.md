# greenhouse-mcp: a TLA+ model

The repository is a set of MCP servers in front of Greenhouse: a read-only
connector for recruiters (`recruiter-mcp`, hosted, with its own OAuth server) and a
write plane (`action-mcp`) that turns an approved change into exactly one Greenhouse
mutation. This directory holds a model of the parts where order, failure and time
matter: TLA+ modules translated from the TypeScript and SQL, the TLC instances that
check them, and TLAPS proofs.

Paths are relative to the repository root, `src/` here standing for it.

## 1. Inventory

### Write plane (`src/packages/action-mcp`)

| Part | State it keeps | Operations | Talks to |
|---|---|---|---|
| Action ledger, `supabase/action-state.sql` | table `greenhouse_action` (one row per action id: status, phase, owner token, lease, not-applied boundary, observation, first original observation, resolution source), partial unique index on the lock key, entitlements, revocations | `claim_greenhouse_action`, `begin_greenhouse_action_mutation`, `finish_greenhouse_action`, `prepare_greenhouse_action_reconciliation`, `reconcile_greenhouse_action_original_observation`, `resolve_greenhouse_action_unknown`, `defer_greenhouse_action_unknown`, `revoke_greenhouse_action_jti` | called by the store client |
| Store client, `src/store.ts` | none | one PostgREST request per operation, with a timeout and no retry | ledger |
| Action service, `src/service.ts` | none between calls | `preview`, `apply` | store, gateway, action definitions |
| Reconciler and operator CLI, `service.ts` `reconcileRecoverableActions`, `src/reconcile-cli.ts` | none | a pass over the recoverable rows; an operator's ruling | store, gateway |
| Gateway, `src/greenhouse.ts` | cached OAuth token | `request`, `mutate` | Greenhouse |
| Action definitions, `src/actions/*` | none | `preparePreview`, `prepareApply`, `mutation`, `observe`, `classifyState` for eleven kinds | gateway |
| Intents, `src/crypto.ts` | none | sign and verify the intent a human approved; fingerprints of state | |
| Access and session CLIs | none | provisioning | store |

**Interaction.** `preview` returns a signed intent that binds the state the human saw.
`apply` verifies it, looks the action up (replay), claims it in the ledger, prepares
it again against the live state, repeats the authorization checks, passes the *fence*
(`begin_…_mutation`), sends one mutation, reads back, and records. Whatever stays open
is finished by a replay of the same call or by the reconciler.

**What is hard.** Every store call can commit and time out. Every Greenhouse request can
time out and take effect later. Processes stall or die between any two awaits; leases
are the only thing that takes a claim from a dead one. Reconciliation decides from
reads of a system others edit, and must not declare "not applied" what may still land.

**Correct when**: one action sends at most one mutation; two mutations of one resource are
never under way together; a recorded failure or "not applied" is final; a recorded
success took place; a conflict waits for a human; a reply never invites a retry of what
may have been written; revocation stops writes within a lease; no ledger function fails
on a constraint of its own table.

### Hosted recruiter server (`src/packages/recruiter-mcp`)

| Part | State it keeps | Operations |
|---|---|---|
| OAuth grants, `supabase/migrations/0006…`, `0007…`, `src/oauth-grant-store.ts`, `src/oauth-token.ts` | grant rows (codes, refresh tokens) in families, dead families, revoked jtis, advisory lock per family | code leg, refresh leg (peek, identity gate, redemption), reuse detection, family sweep |
| Session revocation, `src/session-revocation.ts`, `src/oauth-revocation-cli.ts` | revoked jtis | revoke a jti, a family, an email |
| Sign-in, enrolment, clients, metadata | pending authorization in a cookie | the Google exchange, the callback that inserts a code |
| Identity directory, reconciliation, bootstrap | directory rows | resolve, reconcile, bootstrap |
| TTL memo, `src/ttl-memo.ts` | entries of promises with a reference count | memoized call, abort |
| Read cache, `src/read-cache.ts` | values by key, loads in flight | read, abort, eviction |
| Rate limiter, `src/rate-limit.ts` | fixed-window counters | check |
| Permission chain, `src/scoped-reader.ts`, scoped-core | cached scopes, memoised attestations and answers | look up a user's jobs, role and private-candidate right |
| Harvest client, control-plane `src/client-readonly.ts`, `src/auth.ts` | the shared upstream token, a mint in flight | retried reads, mint, reset after a 401 |
| Job scopes, `src/resolvers/job-scope`, `src/tools/job-scope` | none: signed tokens and handles, kept by the client | resolve, confirm, redeem |
| Evidence reads, `src/read-all.ts`, `src/tools/evidence-*.ts`, `application-job-lookup.ts` | per call | page, fall back on another date, bridge a scope to ids, project |
| Analysis tools, `src/tools/*`, `src/metrics.ts`, `src/facts.ts` | per call | hires, metrics, scorecards, stage latency, inflow, questions |
| Logbook, `src/pipeline-snapshot.ts` | one row per job, stage and week | sweep, week-over-week difference |
| Action plane, entitlement, action session | entitlement memo, learned visibilities | catalog visibility, derived action session |
| Tool runtime and audit, `src/runtime.ts`, `src/audit*.ts` | audit contexts of open calls; file, GCS objects | start and terminal rows, digest, review |
| HTTP server, `src/http-server.ts`, `src/remote.ts` | requests in flight, shutdown | serve, drain, exit |
| Resume parser, `src/tools/resume.ts`, `src/resume-parser-worker.mjs` | parser slots | authorise, download, parse |
| Rollout and readiness tooling, `src/rollout-*.ts`, `distribution-validation.ts` | a directory of reports | record evidence, judge it |

**What is hard.** Two requests with one refresh token, a sweep racing a rotation, writes that
do not take the family lock, answers lost after a commit. In the caches: aborts,
failures, expiry and joins in any order.

**Correct when**: a family has one live token; a reused token, a revoked jti, a departed
recruiter or an operator ends the session for good, access tokens included; only a
vetted request rotates. A memo has one load in flight, an exact reference count, no
stale value and no remembered failure, and answers every caller. Nobody is answered
a row, a job or a right that is not theirs, nothing of theirs is lost unsaid, and a
read or a number that is called complete is complete. What leaves a call has its row in
the audit log, and whatever was asked for ends.

### Other packages

`scoped-core` (the permission filter, the privacy gate and their reads of parent
records), `control-plane` (the read-only HTTP client, the base server with its gates, and
projections), `slack-mcp` (a stateless wrapper). `PROJECT.json` lists every component with what is and is not modelled.

## 2. Modules

What is proved of a module marked * is at its end; of one marked † in a module of proofs:
`ActionServiceProofs` for `ActionLedger` and `ActionService`, `OauthGrantsProofs` for `OauthGrants`,
`ComponentProofs` for all the others.

| Module | Models |
|---|---|
| **Write plane** | |
| `ActionLedger`† | the table of actions and its functions, each one transaction |
| `ActionService`† | concurrent calls of `apply`, reconciler passes, operators, Greenhouse, time; EXTENDS `ActionLedger` |
| `ActionPromise`† | abstract specification: what applying an action promises |
| `RecoveryQueue` | passes of the reconciler over more rows than one lists; progress |
| `ActionGateway`† | mutations and reads that share a cached token; the retry after a 401 |
| `ActionMount`* | how a recruiter's session comes to act, and the cached answer about it |
| `AccessProvisioning`† | the operator command that grants access: bearer files, manifest, rows |
| **Sign-in and identity** | |
| `OauthGrants`† | codes, refresh tokens, families, sweeps, the token endpoint |
| `IdentityDirectory`* | the directory and its four writers |
| **Read path** | |
| `HarvestClient`† | reads that share the upstream token; mint, 401, retry |
| `TtlMemo`† | one key of the memo, its calls, loads and aborts |
| `ReadCache`† | shared reads by key, expiry, eviction |
| `RateLimiter`† | fixed windows per sign-in |
| `ReadAll`† | one read to its end: cursors, cap, deadline, resumption |
| `DateFallback` | a date window over rows dated by one of two fields |
| `Resume`†, `ResumeWorker` | authorise, download and parse one attachment; the child's bounds |
| `ToolRuntime`† | a tool call: start row, reads under a deadline, terminal row, answer |
| `AuditTrail`† | the retained log, the digest of a timer and the review |
| `HttpLifecycle`† | requests, clients that leave, signals, drain, exit |
| **Scope** | |
| `PermissionScope`* | the chain that says which jobs one user may read |
| `ScopedReader`* | which rows of a page are kept, by job and by privacy |
| `PolicyJoin` | rows that lead to their job through parents |
| `RowPriming` | what the privacy gate reads about a page, in batches |
| `ScopeBridge` | a job scope on an endpoint that cannot be filtered by job |
| `JobScope`* | resolve, confirm, freeze and redeem a job scope |
| `EvidenceProjection` | which fields of a scoped row reach the caller |
| `ControlPlane`† | the base server: switches, approval list, profiles, audit line |
| `RolloutGate` | the evidence of a rollout and the gate that judges it |
| **Analysis** | |
| `QuestionPlanner` | a question becomes a scope and recipes under one deadline |
| `HireRead` | the legs of the hire report and what each count claims |
| `Metrics` | from rows to facts to published numbers |
| `AnalysisFrame` | windows and the accounting of records, shared by the recipes |
| `ScorecardRecipes`, `StageLatency`, `InflowRecipes` | the recipes |
| `PipelineLogbook` | sweeps that overlap, the difference of two weeks |
| `Projections` | where each field of a shown record is read from |
| **Proofs** | `ActionServiceProofs`, `OauthGrantsProofs`, `ComponentProofs` |
| **Instances for TLC** | `MCActionService`, `MCReads`, `MCScope`, `MCActions`, `MCAnalysis` |

`ActionService` composes ledger, callers, Greenhouse and operators, and implements
`ActionPromise`. `ScorecardRecipes`, `StageLatency` and `InflowRecipes` share
`AnalysisFrame`. What one module takes from another without composing it is said in its
head comment: `ActionService` relies on `OneExecution` and `RefusalsDidNotExecute` of
`ActionGateway`, `PermissionScope` on the single flight of `TtlMemo`, `DateFallback` on
`ReadAll`, `QuestionPlanner` on `JobScope`.

### ActionLedger

A row is a record with the columns that decide anything. `now` is the database clock.
A function runs under the row lock or the unique index, so it is one action; its guard
is the `where` clause or the early return, and a function that returns `false` or null
without a write is a disabled action (the service models what its caller does then).
`firstOriginal` is `first_original_observed_at`, `notAppliedBefore` the boundary that
`begin` moves with the lease by the difference of the two columns, as the SQL does.
`updated_at` and `defer_…` order the recovery queue and are in `RecoveryQueue`; error codes
and upstream ids inform, and no guard reads them.

`LedgerSpec` lets any caller call any function with any owner token in any order: what
it shows does not depend on the service.

### ActionService

One process per call. Its program counter names the await it is in: `authorize`, `claim`,
`preflight`, `begin`, `send`, `response`, `readback`, `finish` for the owner,
`prepare`, `observe`, `settle` for a replay or a reconciler pass. Between two awaits all
other processes, Greenhouse and the clock may move. A crash is a process that takes no
further step. A store call has three outcomes: it works, it fails unseen
(`StoreFails`, `FinishFails`), it commits and the caller sees an error
(`... \/ Done(p, "error")`). The owner token is a random UUID per call, so the process
stands for it.

`world[k]` is the state of a resource, `flight[a]` what became of the request of action
`a`: `Land` and `Lose` happen before, with or after the response. A rejection
(`ToFinish(p, "failed", ..)` in `Response`) is given only to a request that does not
execute; a timeout, a network error, a 408 and a 5xx are ambiguous. `Edit` is somebody
else changing the resource, `Resolve` an operator's ruling, `Revoke` the withdrawal of
the session or its entitlement.

`Classify` is `classifyState`. An intent carries the state it binds and its expiry.

**TimingAssumption.** No protocol can tell a slow request from one that never comes, so the
"not applied" verdict rests on time: the windows from fence to send, from send to
effect and from a reconciling read to its ledger call must together be shorter than
mutation lease + grace + confirmation gap (120 s + grace + 30 s). Nothing in the code
enforces the first and third window; the constants are chosen with a margin. It is an
`ASSUME` of the module and the guard of `Pass`. The instances take the windows as long
as it admits: 1 + 1 + 1 against 1 + 2 + 1 in `service`, where the lease is no longer than the
window from fence to send, so that a reconciler may take a row over while its mutation is being sent.

### ActionPromise

Verdicts and effects only. An action opens when its resource has no other open action;
its effect is requested at most once; one verdict is given; "failed" and "not applied"
exclude any later effect. `KeepsPromise` in `ActionService` maps a row to its verdict and
`flight` to the effect, and is checked as a PROPERTY: every step of every call is a step
of the promise or a stutter.

### RecoveryQueue

Passes of `reconcileRecoverableActions`, one after another. `order` is the order of
`updated_at`: every function that writes a row moves it to the end (`Write`), and an open
row nothing could be seen of is moved there by `defer` and nothing else. `todo` is what the
pass has left of its list, its head the row at hand; `step` is the await of that row,
`seen` what it observed. A store call that fails ends the pass, before or after it took
effect. `deaf` are actions Greenhouse never answers for; the other answers are arbitrary, so
any row may be confirmed, quarantined or seen in its original state as often as it takes.
Time is relative (what is left of a lease and a boundary, the age of an observation), so
behaviours are infinite without a bound on the clock. The calls of `apply` are one row's
functions here (`Claim`, `Begin`, `Finish`); their races are in `ActionService`.

### OauthGrants

A token is a row; a refresh row also stands for the jti minted with it. The functions of
the migrations run under one advisory lock per family. Two statements do not take it: the
insert of a family's first refresh token and the revocation of one jti. So a redemption is
two steps, `RedeemLocks` (reads and decides) and `RedeemCommits`, and those two may run in
between; functions that hold the lock and read nothing these two write are one step.
`Verdict` is the body of `redeem_oauth_refresh`. Expiry, client and PKCE checks are one bit
of the request, `fits`. `delivered` are the secrets that reached a client, which may be
presented any number of times by anyone; an answer may be lost. `redeems` and `afterKill`
count committed redemptions of a token and rotations after a jti was revoked.

### TtlMemo

One key; entries of different keys share nothing but the Map. Each call is made once, and an
entry is named after the call that created it. A step is one synchronous stretch of
JavaScript: a call (`CallJoins`, `CallLoads`, `CallRefused`), the handler of the load
(`LoadResolves`, `LoadRejects`), the callback of one subscriber (`Deliver`), an abort event
(`Abort`). The load may ignore that it was aborted. `deriveExpiryMs` returns any of
`OwnExpiries`, past or future.

### The other modules

Each begins with a comment that says which files it stands for, what a step is and what is
left out. The conventions are the same: a step is what runs between two awaits; a read, a
lookup or a write of files or rows can fail at every step at which the code handles a
failure; the outside world (facts of a user, records in Greenhouse, the roster, deployments)
changes in steps of its own between those of the program; a process may stop after any step
where its state outlives it.

* `PermissionScope`: `facts` is what is true of the user and `since` for how long, `base`,
  `attestation` and `memo` the three caches, `pc` and `scope` the lookup under way, `answer` the
  one just given. `clean` remembers whether every read behind it succeeded.
* `JobScope`: `artifacts` are the handles and tokens that were ever signed. Nothing is kept by the
  server, so whoever holds one may present it at any time, as often as he likes.
* `IdentityDirectory`: `rows` is the table; `signin`, `plan`, `boot` and `attest` are what the
  writers under way have read of it, stale as soon as another writer moves.
* `ScopedReader`, `PolicyJoin`, `RowPriming`: three views of `scopedRead`. The first decides what
  a page's rows are about with a fixed tenant and every shape of a row, the others follow
  the batched reads of the parents while the tenant changes.
  `ScopedReader` keeps `kept`, the rows that are left, as a function of their places on the page:
  which row a reply holds, not only how many.
* `RateLimiter` remembers, per sign-in and kind, how many calls were allowed at each age up to
  two windows (`allowed`), which is what its promises are about; the buckets of the code know
  nothing of it.
* `ReadAll` follows cursors (`Following`) to the least set closed under them; `ResumeWorker` and
  `ScopeBridge` use recursion or folds where the code loops.
* `Metrics`, `Projections`, `EvidenceProjection`, `InflowRecipes`: pure functions of a page. The
  page is chosen by Init, one step computes the answer, and the properties compare it with
  definitions that do not look at how it was computed.

## 3. Runs

`MCReads`, `MCScope`, `MCActions` and `MCAnalysis` each check many modules in one run. `machine` says
which module a behaviour is of, and the variables of all of them are bound to the same slots
`v1`, `v2`, ...; the modules share no state, so a behaviour is exactly one of one module,
and a property is the conjunction, over the machines, of what that module promises
(`machine = "memo" => Memo!SingleFlight`). It is a suite in the sense of a test suite; nothing is
composed by it. The bounds of each instance are stated above it.

| Run | Question | Properties |
|---|---|---|
| `ledger` | do rows stay consistent, exclusive, final and quarantined, whoever calls? 2 actions on 1 resource, graces 1 and 3, 2 owners, clock to 9 | `ChecksHold`, `OneUnresolvedPerLock`, `NotAppliedIsConfirmed`, `GraceIsKept`, `OutcomesAreFinal`, `ConflictsAreQuarantined` |
| `service` | one mutation, true statuses, honest replies, bounded revocation, and the promise? 1 action, 2 calls, 1 edit, a revocation, clock to 5 | `ServiceTypeOK`, `AtMostOneSend`, `StatusesAreTrue`, `RepliesAreHonest`, `RevocationBoundsSends`, `KeepsPromise` |
| `grants` | one live token, and is an ended session ended? a code and 3 refresh tokens, 1 family, 2 requests | `TypeOK`, `OneLiveTokenPerFamily`, `ReuseEndsTheSession`, `DeathReachesAccessTokens`, `RotationsStop` |
| `reads` | the read path | `TypeOK`, `BoundsHold`, `SharedLoadsAreFair`, `ReadsAreWhole`, `EverythingIsRecorded`, `DeadlinesHold`, `NothingStaleIsUsed` |
| `live` | does everything that was asked for end? | `EverythingAskedEnds`, `ClaimsEnd` |
| `scope` | is nothing withheld shown, nothing visible lost, no scope widened? | `TypeOK`, `NothingWithheldIsShown`, `NothingVisibleIsLost`, `ScopeNeverWidens`, `DirectoryIsOneMapping` |
| `actions` | does nobody write or pass without an authority that is still good? | `TypeOK`, `WritesAreSerialized`, `NothingPassesUnapproved`, `AuthorityCoversSends`, `EverythingIssuedIsListed` |
| `analysis` | is what is called whole whole, and do the numbers add up? | `TypeOK`, `WholeMeansWhole`, `CountsAddUp`, `AnswersStayInScope` |
| `replay_refused` | does a replay return the recorded state? (no) | `ReplayReturnsRecord` |
| `late_first_token` | is every jti of a dead family revoked? (no) | `EveryJtiOfADeadFamilyIsRevoked` |
| `memo_doomed` | can one caller's abort fail another? (yes) | `NobodyElseCancels` |
| `partial_weeks` | is the velocity of whole weeks? (no) | `VelocityIsOfWholeWeeks` |

Machines of the suites:

| Run | Machines |
|---|---|
| `reads` | client (`HarvestClient`), memo, cache, limiter and rotations (`RateLimiter`), paging (`ReadAll`), fallback, resume, worker, runtime and recipe (`ToolRuntime`), http, audit |
| `live` | live client, live memo, tool (`ToolRuntime`), live resume, live http, mount (`ActionMount`), queue (`RecoveryQueue`) |
| `scope` | permission, reader (`ScopedReader`), bridge and hops (`ScopeBridge`), frozen and requests (`JobScope`), signins, commands and revival (`IdentityDirectory`), priming, joins (`PolicyJoin`), projection |
| `actions` | serial (`ActionService`, two actions), gateway, mount and catalog (`ActionMount`), provision, age, redeploy, renew, people and scaffold (`RolloutGate`), control, queue |
| `analysis` | chain and hires (`HireRead`), scope, admin and run (`QuestionPlanner`), metrics, cards (`ScorecardRecipes`), stages, inflow, logbook, jobs and backstop (`PipelineLogbook`), projections |

**Why the bounds are enough.** Rows of different resources share no guard, so one resource
carries every interaction of the ledger; two actions are a holder and a contender. Two calls
of one action, each of which may be an apply, a replay or a reconciler pass, are an owner and
whoever takes over from it. The scaled deadlines keep the code's order (preflight lease <=
mutation lease, boundary after the lease, second observation after the boundary), and the
clock runs past the last of them. Four tokens are a code, its refresh token and two successors,
which is what a reuse needs; families share no row, so one family stands for all but
`RevokeEmail`, which is then a sweep of that one. Three memo calls are the creator of an expired
entry, the creator of its replacement and a third who meets what an unconditional eviction
would leave. In `queue` a pass lists fewer rows than there are, which is what starves a row if
anything does. Elsewhere the rule is the same: as many actors as a race has sides, one change
of the outside world at any moment, one more element than a batch, a page or a cap takes, and
a clock that outlasts the longest lifetime: the catalogue of `ActionMount` remembers for 1 tick of a
clock of 2, so `VisibilityIsBounded` can fail in it; the machine `mount`, where both planes must
resolve one identity, reads the canonical relation as the deployments do (`Custom` is FALSE).
The machines of `RolloutGate` have one client each: with two, the machine `age` alone has more
states than a run can visit. Interleavings of two clients' validations are not covered.
Where a module is proved (section 4) the bounds
matter for finding mistakes, not for the result.

`CHECK_DEADLOCK FALSE` stands where the system stops: bounded clocks, calls that are each made
once, functions of one page. `grants` and `late_first_token` check for deadlock.

Symmetry: in the configurations of `MCActionService` the calls, which are the owner tokens, are
interchangeable; in `grants` tokens and calls. The other runs use none.

**Fairness.** Safety runs assume none. `live` assumes, weakly, that requests are answered or time
out (every fetch has a timeout), that timers fire and callbacks of settled promises run
(the event loop), that a mint ends, that time goes on, that signals are received, and that
passes of the reconciler are started again and go on (the operator runs
`greenhouse-action-reconcile` on a schedule; the repository has none). Strongly: an attempt of
a client that waits for a free name of a token, which is an artefact of naming tokens; and, per
row of the queue, that a store or a Greenhouse which is asked for ever answers some time, because
a pass may break off anywhere. Nobody need call, abort, ask, rule or rotate; actions that
Greenhouse never answers for (`deaf`) are exempt and still may not hold a place for ever
(`ClaimsEnd`).

**Mutants.** Each property of a passing run is violated by at least one plausible bug, kept as
a definition next to the one it replaces ("Plausible bug: ..."): a lock index that forgets
unknown rows, a boundary not moved with the lease, a sweep that spares the jtis, a loop
that ends without a trace, an ambiguous outcome taken for a rejection, a cache entry that ages without end.

## 4. Proofs

Everything here is proved for every value of the constants that satisfies the assumptions
of its module: any number of actions, calls, users, jobs, tokens, any leases, times to live and
bounds. TLC checked each inductive invariant before it was proved.

| Module | Rests on | Theorems |
|---|---|---|
| `ActionServiceProofs` | `LedgerInv` | `TypeCorrectness`, `ChecksAlwaysHold`, `LocksExclude`, `NotAppliedNeedsConfirmation`, `GraceAlwaysKept`, `OutcomesStay`, `ConflictsStay`: every property of run `ledger` |
| `ActionServiceProofs` | `ServiceInv` | `ServiceTypes`, `OneSend`, `StatusesHold`, `RepliesHold`, `RevocationBounds`, `PromiseKept`: every property of run `service`; `WritesSerialize`; `ServiceUsesLedger` |
| `OauthGrantsProofs` | `Inv` | `TypeCorrectness`, `OneLiveToken`, `ReuseIsPunished`, `DeathReaches`, `RotationsEnd`: every property of run `grants` |
| `ScopedReader` | `ReaderInv` | `PrivateRowsAreEarned`, `ClosedJobsAreKept`, `RowsAreCounted`, `WithheldIsAbsent`, `ReaderTypes`, `OnlyPrivateRowsAreLost`: every property of the module |
| `IdentityDirectory` | `IdentityInv` | `EmailsStaySingle`, `TombstonesAreBounded`, `NothingRevivesAnAttestation`, `SignInsReverseNothing` |
| `JobScope` | `ScopeInv` | `HandlesNeverGrow`, `NothingIsFrozenUnasked`, `OnlyNamedJobsSurviveTruncation`, `RedemptionsAreWhole`, `HandlesEnd` |
| `PermissionScope` | `PermissionInv` | `RevocationsReachEveryAnswer`, `GrantsReachEveryAnswer` |
| `ActionMount` | `MountInv` | `WritesHaveOneActor`, `AuthorityEnds`, `VisibilityEnds`, `AbsenceIsLearnedFromAbsence`, `EntitlementsAreOfOneRow` |
| `ComponentProofs`: `TtlMemo` | `MemoInv` | `CountsAreRight`, `AbandonedLoadsStop`, `LoadsAreShared`, `FailuresAreForgotten`, `FreshAnswers`, `OnlyTheLastCallerCancels` |
| ... `ReadCache` | `CacheInv` | `StoreStaysBounded`, `SharedRequestsEnd`, `LeavingIsHarmless`, `HitsStayFresh` |
| ... `HarvestClient` | `HarvestInv` | `RetriesAreBounded`, `RefusedTokensStayAway` |
| ... `RateLimiter` | `LimiterInv` | `BurstsAreBounded`, `RefusalsAreFair` |
| ... `ToolRuntime` | `RuntimeInv` | `CallsAreOnRecord`, `ContextsAreSound`, `RecipesKeepTheirDeadline` |
| ... `AuditTrail` | `AuditInv` | `TrailsArePaired`, `DigestsAreDisjoint`, `DigestsAreComplete` |
| ... `ReadAll` | `PagingInv` | `PagedReadsAreWhole`, `PagedReadsEndOnce` |
| ... `ControlPlane` | `ControlInv` | `AnswersAreAudited`, `BroadReadsAreApproved`, `ConfiguredReadsHold` |
| ... `Resume` | `ResumeInv` | `ParserSlotsAreExact`, `ResumesComeFromTheirOrigin`, `DownloadsAreAuthorised` |
| ... `HttpLifecycle` | `HttpInv` | `RequestsAreCounted`, `ShutdownsAreGraceful` |
| ... `AccessProvisioning` | `AccessInv` | `BearersAreListed`, `CommandsTellTheTruth`, `GrantsAreListed` |
| ... `ActionGateway` | `GatewayInv` | `MutationsExecuteOnce`, `RefusalsAreClean`, `MintsAreShared`, `OneRefreshSuffices` |

The modules below the third row are checked as machines of a suite, whose properties are
conjunctions over all machines; a theorem states conjuncts of its module. In
`ComponentProofs` each module is an instance (`Cache == INSTANCE ReadCache`) whose constants and
variables are those of the same names there; a theorem is about one instance and says nothing of
two together. It cites the assumption of that module, which TLC evaluates for the instances it
checks.

**Ledger.** `LedgerInv` is the types, `OneUnresolvedPerLock` and, for each row, `RowOK`: the CHECK
constraints, the grace and the confirmation. The conjuncts need one another. `begin` sets the
boundary to a difference of two columns, which is a natural number only because the
boundary lies the grace after the lease; `finish` keeps the constraints only because `unknown`
needs the sent phase; exclusion needs that no function leads a terminal row back. `RowWrite` says
that writing one row that is `RowOK`, and is unresolved only if it was or its lock is free,
keeps `LedgerInv`; one lemma per function shows that it writes such a row.

**Service.** `ServiceUsesLedger` shows that every step of the service is a step of the ledger or
leaves it alone, so `LedgerInv` comes for free. `ServiceInv` adds what neither the row nor a call
says by itself. `ActionOK`, per action: what its intent binds, that a request in flight has a row
that passed the fence, when at the latest it was sent, what a verdict excludes, and what the
resource holds. `CallOK`, per call: what its program counter implies of the row it
owns or owned, how long ago it read what it still holds (`WindowOK`, `SeenOK`), and what
its reply rests on. The heart is `ConfirmationIsLate`: when the second original observation is
recorded, `TimingAssumption` has made every request dead. That is the only place where the
assumption is used. `PromiseKept` goes through the actions of
the service one by one: which row they write and what becomes of `flight`.
`StatusesAreTrue` and serialization are stated where an operator has not overruled the ledger on
that resource (`Disturbed`): an operator who settles an action whose request is still in flight
frees its lock, and the next action's write can meet the late one. With one action on a
resource this cannot be seen; the proof attempt for several found it.

**Grants.** `Inv` has the rows (`RowInv`: one live successor per family, jtis of dead families
revoked), the ghosts that count redemptions (`GhostInv`), and the local copies of calls between
their transactions (`CallInv`): what a call decided under the family's lock may have been
overtaken by the two writes that take no lock, and the invariant says by how much.

**Memo.** `MemoInv` adds to the counts what an entry and a call owe each other. `EntryOK`: what the
map holds is running or resolved, a load that runs and has not expired is the one in the map,
and no entry outlives its start by more than the time to live. `CallOK`: a call subscribed to
a load that exists, in its time, and ended as the load did. That two loads never run together
follows because both would be the one in the map.

**Gateway.** `GatewayInv`: while a mint is under way the cache is empty and its waiters hold its
token (`MintOK`); a refused token is not the accepted one (`HoldOK`); a mutation that is not over
was not executed (`ExecutedOK`). For `OneRefreshIsEnough` the history is cut at the losses: before
the first one every token in use is the accepted one (`NoLossOK`); after one, a stale token
is cached only as long as nobody has been refused with it (`OneLossOK`).

**Scoped reader.** `ReaderInv` says which branch a read is on, what has been found out about the
rows that are left, and that kept, excluded and unresolved rows add up to the page. The work is in
the lemmas about a row. `WalkAgrees`: the walk over a row's parents, whatever it could not
read, ends at the one candidate all the parents lead to, or says that it does not know; what it
calls the row's jobs are jobs the row leads to. `GateKeeps` draws the conclusion for the privacy
gate, and a lemma per kind of row (`BackedRows`, `AttachmentRows`, ...) for the job filters. The
walk is a function of the hops that are left, so the lemmas go by induction over them: `UpTo`
derives it from the least element of the set of counterexamples (`LeastNatural`), and `Recursion`
shows that the function exists. Two assumptions: `WorldAssumption`, that
a parent which names its candidate (an application) refers to no further parent, and
`PageAssumption`, which references a row of each tool carries. They are the shapes of the
records the resolver is written for (scoped-core `index.ts:1555-1610`) and its tests feed it, and `MCScope`
enumerates pages and parents of them. Outside is a row that names its candidate and, beside it, an
interview or a scorecard: the job filter never consults the sibling, and a test pins that
(`private-candidate-multihop.test.ts:983`); of such a row the theorems say nothing.
`OnlyPrivateRowsAreLost` needs `ShapeAssumption` too: answers refer to scorecards, scorecards to
interviews or applications, interviews to applications, and an application has a candidate and a
job field. Without it a walk can end at its depth limit, and the branch withholds what it
could not follow.

**Read cache, client, limiter.** In `CacheInv` a request in flight and the readers that wait for it
name each other, the store holds each key once, and an entry expires a time to live after it
arrived. `HarvestInv` bounds the requests a read has sent by its attempts and refreshes, and says
that a refused token is neither minted again nor the cached one. `LimiterInv` compares
the bucket the code keeps with the history it does not keep: what was allowed since the bucket
was opened is in its count, and what was allowed within a window before that is one less than the
limit at the most (`Fits`); with its first call, twice the limit cannot be reached. A refused sign-in
was allowed a call less than two windows ago, not one: calls that the analysis bucket
refused fill the total one (`Earned`).

**Tool runtime and audit trail.** `RuntimeInv` ties each call's place to its rows and to its audit
context: no page before the start row was retained, no answer with data before a
terminal row that says so, a context's pages at least those of the call. `AuditInv` has the
trail (`RowsOK`), the ticks of the timer, no two of them less than an interval apart, whenever
they fire (`TicksOK`), and what a digest counted of what was retained when it ran (`DigestsOK`).

**Paged reads.** `PagingInv`: what was read is among the pages the start leads to
(`Following`, the least set closed under the cursors), the cursor is what the last page answered,
and a read from the first page has met no cursor twice.

**Base read server.** `ControlInv`, a part per place a call can be at: what the gate has let through
(`CallStands`), what an answer was made of (`AnswerStands`), what its line says (`LineStands`).

**Resumes and HTTP.** `ResumeInv` and `HttpInv` each equate a counter with the cardinality of a set,
the calls that hold a parser slot and the MCP requests in flight, for any number of calls, and bound
the time since the start of a call and of a drain.

**Access command.** `AccessInv`: the files of a run are those of its step, staged before they are
written and listed when they are published (`FilesOK`); a row was written by an upsert that was
executed, possibly late (`LandedOK`). An upsert given up after its 8 seconds (`access-cli.ts:442`) is
not stopped: in the model it may be executed at any later time. The theorems hold with such
upserts. `EveryGrantIsListed` and `CleanFailuresLeaveNothing` exempt one kind of row: those of the
runs in the history `strays`, put on by an upsert that was executed after its run had
read back its undo and knew its rows to be off. The code never looks again, so such a row is on and on no list (`access-cli.ts:388`, section 5).

**Directory.** `IdentityInv` takes the properties themselves and what each writer under way has
read or planned: a sign-in that is about to write has a user and an email (`SignInsOK`), a
bootstrap names one user for an email (`BootOK`). That no two resolved rows share an email is the
work of the unique index of migration 0001, so Init assumes it; whatever the writers decided
from what they read, the insert of the slower one is what fails. `TwinsAreEnrolled` holds of
sign-ins alone and stays with TLC: where a bootstrap gave the address of a deactivated row to
somebody else there are two rows of that email, and `oauth-enroll.ts:118-126` takes `byEmail[0]`.

**Job scopes.** `ScopeInv` says how every token and handle came about: from jobs its subject saw, with
times in the order of request, confirmation and end (`TimesOK`); having asked what its jobs
need asking, or in no need of it (`AskedOK`); from a whole inventory or from ids by name
(`WholeOK`); and that a run took all of its handle that is left (`RanOK`). The attempt to prove
`TruncationFreezesNothing` found its exception: where ids and a requisition are both given the
ids win, so a requisition may then be ambiguous.

**Permissions.** A right that ended can survive in the cache of the sweep, in the memoised
attestation and in the memoised answer, and in a lookup that has read it but not yet answered.
`PermissionInv` says of each copy that it is as true as it is old: what it gives was given at some
moment within its age, and what was given throughout its age it gives, if its reads
succeeded. An entry of the first cache counts by its own age, the lookup and the memo by one
time to live more, since they may have been answered from that entry. `Horizon`, two
times to live and two lookups, is what this adds up to; the two theorems say that nothing that
ended before it is answered, and that what began before it is in every answer whose reads
succeeded. Two times to live, where a comment at `scoped-reader.ts:159` has one.

**Mount.** `MountInv` follows the one request and the one question of the catalog. What a write
was refused by before it was asked refuses it again: a session revoked stays revoked, and
a grant that had ended has still ended unless an operator moved something since
(`AskerOK`). What a write has established holds while the directory stands still
(`WriterOK`). A remembered "visible" ends with its row, and a time to live after the row was
switched off at the latest (`MemoOK`). The proofs need that there are finitely many users, since
both planes accept an identity only where exactly one row has it. `WritesHaveOneActor` is stated
where the reads resolve identities over the same rows as the writes (`~Custom`): otherwise they look
in two different tables and nothing makes them agree. The catalog answers at once where a
setting names another table, subject or row-id column (`Named`, `action-entitlement.ts:208-215`);
the mount of the write tools itself has no such fence, since no server calls that function
(`action-plane.ts:141`, section 5), and a static list of identities would pass it.

**What the proofs found in the models.** A mint that failed ended its reads and left their
counts of requests behind (`HarvestClient`). Two guards of a CASE in `ScopedReader`
overlapped, and an org-wide actor without an attestation and without exclusions could be
sent to the branch of either; and the walk asked whether a record has parents before it asked for
the depth limit, where the code does it the other way round (scoped-core `index.ts:1718`). The models now do
what the code does, and TLC has checked them again.

**Model-checked only.** Liveness (`live`): the provers do not handle fairness. The properties of the
suite runs as they stand, which are conjunctions over all machines of a run: where every
machine's conjunct is proved, the theorems say more than the property; the conjuncts of these
modules are only checked: `RecoveryQueue`, `DateFallback`, `ResumeWorker`, `PolicyJoin`,
`RowPriming`, `ScopeBridge`, `EvidenceProjection`, `RolloutGate` and those under
"Analysis". `ResumeWorker`, `ScopeBridge`, `Metrics` and `InflowRecipes` compute with recursion
and folds over data, about which the library states nothing that can be instantiated here.

## 5. What the model says against the documents

Shown by a run:

* `replay_refused`. `src/packages/action-mcp/README.md:79` says that replaying an action id
  returns the recorded state. `apply` checks revocation and the expiry of the intent before
  it looks the action up (`service.ts:131-148`), so a replay after five minutes is refused with
  INTENT_EXPIRED. It still sends no second mutation (`AtMostOneSend`).
* `late_first_token`. The header of migration 0007 says that every jti a revoked family ever
  minted is on the revocation list. The first refresh row is inserted after the code was
  consumed and without the family lock (`oauth-token.ts:165`); a revocation in between sweeps a
  family without rows, and the access token then minted lives out its hour. The family cannot
  rotate (`RotationsStop`).
* `memo_doomed`. The header of `ttl-memo.ts` says that one caller abandoning a load must not
  cancel another's. The last subscriber's abort leaves the entry in the cache until the load has
  rejected, and a call that joins in between fails with that abort. The read cache joins pending
  entries in the same way (`read-cache.ts:97`).
* `partial_weeks`. `resolution/temporal.ts:367` speaks of velocity over complete calendar weeks; the
  first week of a window that begins mid-week counts as complete.

Met while modelling, with the code as it is in the model (paths under
`src/packages/recruiter-mcp/src` unless a package is named):

* Reads. control-plane `client-readonly.ts:474`: a 401 drops a token or a mint another read has just
  made. `tools/read-with-date-fallback.ts:182`: the second leg's rows are not in `rows_returned`.
  `tools/application-job-lookup.ts:302`, `:551`: a withheld count that starts at zero; a
  failed batch behind a truncated one fails the call. `scoped-reader.ts:137`: two times to live.
* Audit and server. `runtime.ts:314`: a write is sent before its only row is kept;
  `runtime.ts:353`: its outcome is one the review rejects. `audit-gcs.ts:344`: a row stamped before a
  tick and named after it is in no digest. `audit-review.ts:348`: a window that cuts a
  call in two fails the review. `http-server.ts:168`, `:287`, `remote.ts:201`: token requests are not
  drained, a second signal ends the drain, a client gone before the listeners is served.
* Scopes. `tools/job-scope/tools.ts:295`: a truncated inventory reads as revocation.
  `resolvers/job-scope/resolver.ts:1307`, `:432`: invisible identifiers are not counted; a site
  admin's match is confirmed at once. `resolution/artifacts.ts:60`: a handle too long to verify.
  `resolution/analysis-context.ts:107`: an analysis without a scope includes confidential jobs.
* Identity. `identity-reconciliation.ts:359`, `:381`, `:445`: a row bootstrapped after the plan is
  tombstoned, an attestation made after it is cleared without a trace, a flip whose sweep
  failed is not swept again. `oauth-enroll.ts:95`, `:118`: primary addresses win over further ones.
* Rollout. `action-plane.ts:141`: the fence of custom identity settings is in a function no server
  calls. action-mcp `access-cli.ts:388`: an upsert executed late undoes the clean-up.
  `rollout-gate.ts:993`, `distribution-validation.ts:391`: a drill may use another person's
  token; tools are read after the version was.
* Analysis. `pipeline-snapshot.ts:125`, `:314`: an emptied stage keeps its count; a sweep over the
  end of a week writes the last one. `tools/hire-facts.ts:497`, `tools/question-answer.ts:1713`,
  `:1590`, `:1731`: deadlines told as upstream failures; truncation told as an empty scope; blank
  carriers ignored; "open" unheeded for recruiters. `limits.ts:516`: a bare end date ends at its
  midnight. `tools/stage-latency.ts:163`: named exclusions can sum to more than the total.
  `tools/evidence-projection.ts:1163`: a field dropped from some rows is not in the manifest.
* Base server. control-plane `tool-gates.ts:228`: an empty approval list approves everybody.
  `offer-letter-context.ts:366`, `:316`, `:458`: an offer asked for and gone is replaced by another;
  statuses are compared in lower case; a rating is read from a field v3 does not send.
  `candidate-stage-snapshot.ts:136`: a batch stopped at its bound counts as fetched.

## 6. Not modelled

Cryptography and encoding (intents, PKCE, tokens and handles are values that cannot be forged); the
validation and the eleven `preparePreview` and `mutation` bodies of the action kinds; the Google
exchange, pages, forms and redirects of the sign-in; rows malformed beyond what their projections
look at; the candidate's stage snapshot and the timer of the daily one; the payload budget of
evidence pages; wording; desktop configuration and delivery; the Slack wrapper; the generated
registry. The expiry of grants and of access tokens is the caller's choice of `fits`; clocks of
the service and the database are one.

## 7. Plan

Proofs next, in this order: the type invariant and the queue order of `RecoveryQueue`; the gate of
`RolloutGate`; the equality of `RowPriming`'s batches with what `ScopedReader` reads;
`PolicyJoin`'s verdicts while the tenant stands still.

Model: evidence paging under its payload budget; the stage snapshot.
