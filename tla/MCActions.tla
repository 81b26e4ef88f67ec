------------------------------ MODULE MCActions -------------------------------
(***************************************************************************)
(* What needs somebody's leave, for TLC: two actions on one resource, the  *)
(* gateway and its token, the mount of the write tools and the cached      *)
(* answer about them, the command that grants access, the gate of a        *)
(* rollout, and the gate of the base read server.  The modules share no    *)
(* state: a behaviour is of one of them, which machine names.              *)
(***************************************************************************)
EXTENDS Integers, FiniteSets, TLC

CONSTANTS a1, a2, p1, p2, lock, plain, d1, d2, m1, m2, page, t1, t2, t3, mailA,
    mailB, sub, userA, userB, r1, r2, k1, k2, off, e, e1, e2, code, prod, staging, b1, b2,
    tk7, tk8x, tkx, None

\* machine names whose behaviour this is; the slots hold its variables.
VARIABLES machine, v1, v2, v3, v4, v5, v6, v7, v8, v9, v10, v11, v12, v13, v14,
    v15

slots == <<machine, v1, v2, v3, v4, v5, v6, v7, v8, v9, v10, v11, v12, v13,
    v14, v15>>

-----------------------------------------------------------------------------
(* Two actions on one resource, two calls; the deadlines as in             *)
(* MCActionService.                                                        *)
Serial == INSTANCE ActionService WITH
    Actions <- {a1, a2}, Owners <- {p1, p2}, NoOwner <- None, Locks <- {lock},
    LockOf <- [x \in {a1, a2} |-> lock], GraceOf <- [x \in {a1, a2} |-> 1],
    PreflightLease <- 1, MutationLease <- 1, ConfirmGap <- 1,
    MaxIntentWindow <- 2, MaxTime <- 3, NoAction <- None,
    Values <- {plain, d1, d2},
    DesiredOf <- [x \in {a1, a2} |-> IF x = a1 THEN d1 ELSE d2],
    IntentTtl <- 2, SendWindow <- 0, LandWindow <- 1, ObserveWindow <- 1,
    MaxEdits <- 0, MayRevoke <- FALSE, ledger <- v1, now <- v2, calls <- v3,
    intents <- v4, world <- v5, flight <- v6, sentAt <- v7, sends <- v8,
    edits <- v9, revokedAt <- v10
ASSUME Serial!OwnerAssumption
ASSUME Serial!LockAssumption
ASSUME Serial!GraceAssumption
ASSUME Serial!LeaseAssumption
ASSUME Serial!ServiceAssumption
ASSUME Serial!TimingAssumption
OnlySerial == machine = "serial" /\ UNCHANGED <<machine, v11, v12, v13, v14,
    v15>>

-----------------------------------------------------------------------------
(* Two mutations and a supporting read; two tokens are lost. *)
Gateway == INSTANCE ActionGateway WITH
    Mutations <- {m1, m2}, Pages <- {page}, Tokens <- {t1, t2, t3},
    MaxLosses <- 2, cache <- v1, inFlight <- v2, mint <- v3, active <- v4,
    losses <- v5, pc <- v6, token <- v7, retried <- v8, executed <- v9
ASSUME Gateway!GatewayAssumption
OnlyGateway == machine = "gateway" /\ UNCHANGED <<machine, v10, v11, v12, v13,
    v14, v15>>

-----------------------------------------------------------------------------
(* A request against the canonical directory, two operator changes; claims *)
(* that agree or not, and a token of an older release.                     *)
Session(subject, of, email, client, surface) ==
    [subject |-> [kind |-> subject, of |-> of], email |-> email, client |-> client,
     surface |-> surface, token |-> TRUE]
MountSessions == {Session("email", mailA, mailA, "desktop", "claude_desktop"),
                  Session("email", mailA, mailB, "code", "claude_desktop"),
                  Session("opaque", sub, mailA, None, "chatgpt_desktop")}
MountTables ==
    {t \in [{userA, userB} -> [email : {mailA, mailB}, subject : {sub, None}, resolved : {TRUE}]] :
       t[userA].email = mailA}
Mount == INSTANCE ActionMount WITH
    Users <- {userA, userB}, Emails <- {mailA, mailB}, Opaque <- {sub},
    Sessions <- MountSessions, Tables <- MountTables, Views <- {{}},
    Deploys <- {"off", "up"}, Custom <- FALSE, Named <- FALSE, TTL <- 2,
    MaxTime <- 1, MaxChanges <- 2, MaxRequests <- 1, MaxAsks <- 0, session <- v1,
    deploy <- v2, table <- v3, view <- v4, hasId <- v5, learned <- v6,
    missed <- v7, grant <- v8, revoked <- v9, now <- v10, changes <- v11,
    changed <- v12, req <- v13, ask <- v14, memo <- v15
ASSUME Mount!MountAssumption
OnlyMount == machine = "mount" /\ UNCHANGED <<machine>>

-----------------------------------------------------------------------------
(* Two catalog questions over rows that are not the canonical ones though  *)
(* no setting names them: a static list, or what the role of the key sees  *)
(* under the canonical name, with or without ids.                          *)
CatalogSessions == {Session("opaque", sub, mailA, "code", "claude_desktop")}
CatalogTables == {[x \in {userA, userB} |-> [email |-> IF x = userA THEN mailA ELSE mailB, subject |-> None,
                                     resolved |-> TRUE]]}
CatalogViews == {{[email |-> mailA, subject |-> o, user |-> userA, id |-> i],
                  [email |-> mailA, subject |-> sub, user |-> x, id |-> userB]} :
                     o \in {sub, None}, x \in {userA, userB}, i \in {userA, userB, None}}
Catalog == INSTANCE ActionMount WITH
    Users <- {userA, userB}, Emails <- {mailA, mailB}, Opaque <- {sub},
    Sessions <- CatalogSessions, Tables <- CatalogTables,
    Views <- CatalogViews, Deploys <- {"up"}, Custom <- TRUE, Named <- FALSE,
    TTL <- 1, MaxTime <- 2, MaxChanges <- 1, MaxRequests <- 0, MaxAsks <- 2,
    session <- v1, deploy <- v2, table <- v3, view <- v4, hasId <- v5,
    learned <- v6, missed <- v7, grant <- v8, revoked <- v9, now <- v10,
    changes <- v11, changed <- v12, req <- v13, ask <- v14, memo <- v15
ASSUME Catalog!MountAssumption
OnlyCatalog == machine = "catalog" /\ UNCHANGED <<machine>>

-----------------------------------------------------------------------------
(* Two commands that grant in one directory, and one that disables; an     *)
(* upsert that was given up may be executed at any time later.             *)
Provision == INSTANCE AccessProvisioning WITH
    Runs <- {r1, r2}, Disables <- {off}, Keys <- {k1, k2},
    Roster <- [r \in {r1, r2} |-> IF r = r1 THEN {k1, k2} ELSE {k1}],
    rows <- v1, late <- v2, manifest <- v3, staged <- v4, bearers <- v5,
    run <- v6, off <- v7, landed <- v8, strays <- v9
ASSUME Provision!ProvisioningAssumption
OnlyProvision == machine = "provision" /\ UNCHANGED <<machine, v10, v11, v12,
    v13, v14, v15>>

-----------------------------------------------------------------------------
(* Reports grow old; each may be taken again. *)
Age == INSTANCE RolloutGate WITH
    Emails <- {e}, Clients <- {code}, Urls <- {prod}, Commits <- {b1},
    Candidate <- prod, MaxAge <- 0, MaxTime <- 1, MaxIssues <- 1,
    MaxDeploys <- 0, FromScaffold <- FALSE, deployed <- v1, deploys <- v2,
    now <- v3, revoked <- v4, issues <- v5, files <- v6, validating <- v7,
    gate <- v8
ASSUME Age!GateAssumption
OnlyAge == machine = "age" /\ UNCHANGED <<machine, v9, v10, v11, v12, v13, v14,
    v15>>

-----------------------------------------------------------------------------
(* Two deployments are deployed again between the drills. *)
Redeploy == INSTANCE RolloutGate WITH
    Emails <- {e}, Clients <- {code}, Urls <- {prod, staging},
    Commits <- {b1, b2}, Candidate <- prod, MaxAge <- 1, MaxTime <- 0,
    MaxIssues <- 1, MaxDeploys <- 2, FromScaffold <- FALSE, deployed <- v1,
    deploys <- v2, now <- v3, revoked <- v4, issues <- v5, files <- v6,
    validating <- v7, gate <- v8
ASSUME Redeploy!GateAssumption
OnlyRedeploy == machine = "redeploy" /\ UNCHANGED <<machine, v9, v10, v11, v12,
    v13, v14, v15>>

-----------------------------------------------------------------------------
(* A credential is issued again after it was tested. *)
Renew == INSTANCE RolloutGate WITH
    Emails <- {e}, Clients <- {code}, Urls <- {prod}, Commits <- {b1},
    Candidate <- prod, MaxAge <- 1, MaxTime <- 0, MaxIssues <- 2,
    MaxDeploys <- 0, FromScaffold <- FALSE, deployed <- v1, deploys <- v2,
    now <- v3, revoked <- v4, issues <- v5, files <- v6, validating <- v7,
    gate <- v8
ASSUME Renew!GateAssumption
OnlyRenew == machine = "renew" /\ UNCHANGED <<machine, v9, v10, v11, v12, v13,
    v14, v15>>

-----------------------------------------------------------------------------
(* Two people. *)
People == INSTANCE RolloutGate WITH
    Emails <- {e1, e2}, Clients <- {code}, Urls <- {prod}, Commits <- {b1},
    Candidate <- prod, MaxAge <- 1, MaxTime <- 0, MaxIssues <- 1,
    MaxDeploys <- 0, FromScaffold <- FALSE, deployed <- v1, deploys <- v2,
    now <- v3, revoked <- v4, issues <- v5, files <- v6, validating <- v7,
    gate <- v8
ASSUME People!GateAssumption
OnlyPeople == machine = "people" /\ UNCHANGED <<machine, v9, v10, v11, v12,
    v13, v14, v15>>

-----------------------------------------------------------------------------
(* A directory of evidence that starts as the scaffold writes it. *)
Scaffold == INSTANCE RolloutGate WITH
    Emails <- {e}, Clients <- {code}, Urls <- {prod}, Commits <- {b1},
    Candidate <- prod, MaxAge <- 1, MaxTime <- 0, MaxIssues <- 1,
    MaxDeploys <- 0, FromScaffold <- TRUE, deployed <- v1, deploys <- v2,
    now <- v3, revoked <- v4, issues <- v5, files <- v6, validating <- v7,
    gate <- v8
ASSUME Scaffold!GateAssumption
OnlyScaffold == machine = "scaffold" /\ UNCHANGED <<machine, v9, v10, v11, v12,
    v13, v14, v15>>

-----------------------------------------------------------------------------
(* Starts with the tools disabled, the switch off, no approval list, one   *)
(* user and one token that is no number, a list of such tokens only; a     *)
(* tool of each projection, and the gated ones with every profile, reason, *)
(* actor and cursor; candidates with signed URLs, and letters that name an *)
(* application, an offer, both or none, with and without notes. Two offers *)
(* differ by their creation only.                                          *)
Start(d, x, i) == [disable |-> d, tier3 |-> x, ids |-> i]
ControlEnvironments ==
    {Start({}, "unset", {}),
     Start({"list_notes", "get_offer_letter_context"}, "unset", {tk7}),
     Start({}, "false", {tk7, tk8x}), Start({}, "true", {tk7, tkx}), Start({}, "unset", {tkx})}

Request(n, broad, y, x, k) ==
    [tool |-> n, broad |-> broad, reason |-> y, actor |-> x, cursor |-> k, urls |-> FALSE,
     application |-> FALSE, offer |-> None, without |-> {}]
ControlRequests ==
    {Request(n, FALSE, FALSE, None, k) :
        n \in {"list_applications", "get_candidate", "list_users"}, k \in {"none", "with_others"}}
    \cup {Request(n, broad, y, x, k) :
            n \in {"list_scorecards", "list_offers", "list_notes", "list_candidates",
                   "list_rejection_details"},
            broad \in BOOLEAN, y \in BOOLEAN, x \in {None, 7, 9}, k \in {"none", "with_others"}}
    \cup {Request(n, FALSE, TRUE, x, "none") :
            n \in {"list_email_templates", "list_interview_kits", "list_user_emails"},
            x \in {7, 9}}
    \cup {[Request("list_candidates", broad, y, None, "none") EXCEPT !.urls = TRUE] :
            broad \in BOOLEAN, y \in BOOLEAN}
    \cup {[Request("get_offer_letter_context", FALSE, TRUE, x, "none") EXCEPT
              !.application = z, !.offer = y, !.without = w] :
            x \in {7, 9}, y \in {None, 1, 2}, z \in BOOLEAN, w \in {{}, {"notes"}}}
Control == INSTANCE ControlPlane WITH
    Environments <- ControlEnvironments,
    ParseInt <- (tk7 :> 7) @@ (tk8x :> 8) @@ (tkx :> 0),
    Requests <- ControlRequests, Offers <- {1, 2, 3},
    StatusOf <- (1 :> "Created") @@ (2 :> "Deprecated") @@ (3 :> "Deprecated"),
    UpdatedAt <- (1 :> 1) @@ (2 :> 2) @@ (3 :> 2),
    CreatedAt <- (1 :> 1) @@ (2 :> 1) @@ (3 :> -1), env <- v1, pc <- v2,
    r <- v3, actor <- v4, failed <- v5, live <- v6, parts <- v7, offers <- v8,
    lines <- v9, reply <- v10
OnlyControl == machine = "control" /\ UNCHANGED <<machine, v11, v12, v13, v14,
    v15>>

-----------------------------------------------------------------------------
(* The queue of open actions, one row a pass. *)
Queue == INSTANCE RecoveryQueue WITH
    Actions <- {a1, a2}, Limit <- 1, PreflightLease <- 1, MutationLease <- 1,
    Grace <- 1, ConfirmGap <- 1, row <- v1, order <- v2, todo <- v3,
    step <- v4, seen <- v5, deaf <- v6
ASSUME Queue!QueueAssumption
OnlyQueue == machine = "queue" /\ UNCHANGED <<machine, v7, v8, v9, v10, v11,
    v12, v13, v14, v15>>

-----------------------------------------------------------------------------
Init ==
    \/ machine = "serial" /\ Serial!ServiceInit /\ v11 = None /\ v12 = None
        /\ v13 = None /\ v14 = None /\ v15 = None
    \/ machine = "gateway" /\ Gateway!Init /\ v10 = None /\ v11 = None
        /\ v12 = None /\ v13 = None /\ v14 = None /\ v15 = None
    \/ machine = "mount" /\ Mount!Init
    \/ machine = "catalog" /\ Catalog!Init
    \/ machine = "provision" /\ Provision!Init /\ v10 = None
        /\ v11 = None /\ v12 = None /\ v13 = None /\ v14 = None /\ v15 = None
    \/ machine = "age" /\ Age!Init /\ v9 = None /\ v10 = None /\ v11 = None
        /\ v12 = None /\ v13 = None /\ v14 = None /\ v15 = None
    \/ machine = "redeploy" /\ Redeploy!Init /\ v9 = None /\ v10 = None
        /\ v11 = None /\ v12 = None /\ v13 = None /\ v14 = None /\ v15 = None
    \/ machine = "renew" /\ Renew!Init /\ v9 = None /\ v10 = None
        /\ v11 = None /\ v12 = None /\ v13 = None /\ v14 = None /\ v15 = None
    \/ machine = "people" /\ People!Init /\ v9 = None /\ v10 = None
        /\ v11 = None /\ v12 = None /\ v13 = None /\ v14 = None /\ v15 = None
    \/ machine = "scaffold" /\ Scaffold!Init /\ v9 = None /\ v10 = None
        /\ v11 = None /\ v12 = None /\ v13 = None /\ v14 = None /\ v15 = None
    \/ machine = "control" /\ Control!Init /\ v11 = None /\ v12 = None
        /\ v13 = None /\ v14 = None /\ v15 = None
    \/ machine = "queue" /\ Queue!Init /\ v7 = None /\ v8 = None /\ v9 = None
        /\ v10 = None /\ v11 = None /\ v12 = None /\ v13 = None /\ v14 = None
        /\ v15 = None

Next ==
    \/ OnlySerial /\ Serial!ServiceNext
    \/ OnlyGateway /\ Gateway!Next
    \/ OnlyMount /\ Mount!Next
    \/ OnlyCatalog /\ Catalog!Next
    \/ OnlyProvision /\ Provision!Next
    \/ OnlyAge /\ Age!Next
    \/ OnlyRedeploy /\ Redeploy!Next
    \/ OnlyRenew /\ Renew!Next
    \/ OnlyPeople /\ People!Next
    \/ OnlyScaffold /\ Scaffold!Next
    \/ OnlyControl /\ Control!Next
    \/ OnlyQueue /\ Queue!Next

Spec == Init /\ [][Next]_slots

-----------------------------------------------------------------------------
(* The variables of every module have their types.                         *)
TypeOK ==
    /\ machine = "serial" => Serial!ServiceTypeOK
    /\ machine = "gateway" => Gateway!TypeOK /\ Gateway!OneMintAtATime
    /\ machine = "mount" => Mount!TypeOK
    /\ machine = "catalog" => Catalog!TypeOK
    /\ machine = "provision" => Provision!TypeOK
    /\ machine = "age" => Age!TypeOK
    /\ machine = "redeploy" => Redeploy!TypeOK
    /\ machine = "renew" => Renew!TypeOK
    /\ machine = "people" => People!TypeOK
    /\ machine = "scaffold" => Scaffold!TypeOK
    /\ machine = "control" => Control!TypeOK
    /\ machine = "queue" => Queue!TypeOK

(* Two actions on one resource never both have a request that may still    *)
(* take effect, though calls crash, leases run out and others reconcile,   *)
(* unless an operator overruled the ledger.                                *)
WritesAreSerialized == machine = "serial" => Serial!WritesAreSerialized

(* A mutation is executed once at most, however its token is lost, and     *)
(* what is reported refused was not executed; a write is made for the      *)
(* person whose reads vetted it, and not once its session or grant had     *)
(* ended; and write tools are shown no longer than a time to live after    *)
(* the grant.                                                              *)
AuthorityCoversSends ==
    [][/\ machine = "gateway" => /\ Gateway!OneExecution'
                                 /\ Gateway!RefusalsDidNotExecute'
                                 /\ Gateway!OneRefreshIsEnough'
       /\ machine = "mount" => Mount!OneActorPerWrite' /\ Mount!EndedAuthoritySendsNothing'
       /\ machine = "catalog" => /\ Catalog!VisibilityIsBounded'
                                 /\ Catalog!LearnedAbsenceWasReal'
                                 /\ Catalog!KeysAreUnanimous]_slots

(* Wherever a grant of access fails or dies: every bearer file and every   *)
(* row that is on is named by a manifest, a run that says that it cleaned  *)
(* up left nothing, one that succeeded wrote everything, a disable that    *)
(* says so was executed, and a published manifest stays.                   *)
EverythingIssuedIsListed ==
    [][machine = "provision" => /\ Provision!EveryBearerIsListed'
                                /\ Provision!EveryGrantIsListed'
                                /\ Provision!CleanFailuresLeaveNothing'
                                /\ Provision!SuccessIsComplete'
                                /\ Provision!DisablesHappened'
                                /\ Provision!ManifestsStay]_slots

(* The rollout gate passes only on evidence that is recent and true, and   *)
(* of the one release, the credentials and the people that were tested;    *)
(* the base read server gives what its gate guards to a user on the list,  *)
(* more than the allowlist to a call that asked and gave a reason, nothing *)
(* that the operator switched off, and nothing without its line.           *)
NothingPassesUnapproved ==
    /\ machine = "age" => Age!EvidenceIsRecentAndTrue
    /\ machine = "redeploy" => Redeploy!OneReleaseWasTested
    /\ machine = "renew" => Renew!WhatWasTestedWasDelivered
    /\ machine = "people" => People!WhatWasTestedWasDelivered
    /\ machine = "scaffold" => Scaffold!WhatWasTestedWasDelivered
    /\ machine = "control" => /\ Control!ApprovedOnly /\ Control!BroadIsAskedFor
                              /\ Control!SwitchesHold /\ Control!NothingLeavesUnaudited
                              /\ Control!LinesAreHonest /\ Control!ContextsAreWhole
=============================================================================
