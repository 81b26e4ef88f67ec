----------------------------- MODULE RolloutGate -----------------------------
(***************************************************************************)
(* The evidence folder of a rollout and the gate that judges it.           *)
(*                                                                         *)
(* Operators run one tool after another, in any order and again: preflight *)
(* the roster, issue sessions, build desktop configs, record their         *)
(* delivery, have each client tested, validate the distribution, revoke a  *)
(* token and drill the revocation, probe, sample for leakage, review the   *)
(* audit log, build the manifest.  Each leaves one report.  Meanwhile the  *)
(* service is redeployed, tokens are issued anew and reports grow old.     *)
(* The gate binds the reports to each other (by token), to the release and *)
(* to the clock, then looks at the live service.                           *)
(*                                                                         *)
(* A token is the recruiter and client it was issued to and the issuance   *)
(* it came from; issuance 0 are the tokens issued apart, for drills.  A    *)
(* report that failed is not modelled: it can only turn the gate red.  The *)
(* gate reads its reports one by one; no tool writes while it does, so     *)
(* they are read in one step.  A redeployment or the clock overtakes the   *)
(* verdict, which is then forgotten.                                       *)
(***************************************************************************)
EXTENDS Naturals, FiniteSets

CONSTANTS Emails, Clients, Urls, Commits,
          Candidate,    \* the URL the rollout is for
          None,
          MaxAge,       \* how old a dated report may be (14 days)
          MaxTime, MaxIssues, MaxDeploys,  \* bounds on the exploration
          FromScaffold  \* whether it starts before anything was collected

GateAssumption ==
    /\ Candidate \in Urls /\ None \notin Commits
    /\ FromScaffold \in BOOLEAN
    /\ {MaxAge, MaxTime, MaxIssues, MaxDeploys} \subseteq Nat

VARIABLES deployed,     \* the commit each URL serves
          deploys,      \* how often a service has been redeployed
          now,
          revoked,      \* the central revocation table
          issues,       \* how often sessions have been issued
          files,        \* the evidence folder
          validating,   \* per client: a distribution validation under way
          gate          \* the gate's progress
world == <<deployed, deploys, now, revoked, issues>>
vars  == <<world, files, validating, gate>>

Token  == [email : Emails, client : Clients, issue : 0..issues]
Of(toks, c) == {t \in toks : t.client = c}
Holder(t)   == <<t.email, t.client>>

\* Evidence folder, as the scaffold leaves it: templates that are red.
Scaffold == [roster   |-> None, sessions |-> None, configs  |-> None, delivery |-> None,
             probe    |-> None, leakage  |-> None, audit    |-> None, manifest |-> None,
             dist     |-> [c \in Clients |-> None], drill |-> [c \in Clients |-> None],
             write    |-> [c \in Clients |-> None], test  |-> [c \in Clients |-> None]]

\* What the tools leave when nothing goes wrong: everyone gets a token of the
\* first issuance, the tokens drilled are the ones issued apart.
Collected(b) ==
    LET given(c) == CHOOSE t \in Of([email : Emails, client : Clients, issue : {1}], c) : TRUE
        drill(c) == [given(c) EXCEPT !.issue = 0]
        all      == [email : Emails, client : Clients, issue : {1}]
    IN [roster   |-> [emails |-> Emails, at |-> 0], sessions |-> all,
        configs  |-> [toks |-> all, url |-> Candidate], delivery |-> [toks |-> all, at |-> 0],
        probe    |-> [tok |-> given(CHOOSE c \in Clients : TRUE), commit |-> b, at |-> 0],
        leakage  |-> [commit |-> b, at |-> 0], audit |-> [at |-> 0],
        manifest |-> [commit |-> b, tok |-> given(CHOOSE c \in Clients : TRUE), at |-> 0],
        dist     |-> [c \in Clients |-> [tok |-> given(c), url |-> Candidate, commit |-> b,
                                        catalog |-> b, at |-> 0]],
        drill    |-> [c \in Clients |-> [active |-> given(c), revoked |-> drill(c),
                                        url |-> Candidate, at |-> 0]],
        write    |-> [c \in Clients |-> [tok |-> drill(c), at |-> 0]],
        test     |-> [c \in Clients |-> [tok |-> given(c), url |-> Candidate, at |-> 0]]]

Idle == [at |-> "idle", started |-> 0, verdict |-> None]

\* The exploration starts from either folder.
Init == /\ \E b \in Commits :
              /\ deployed = [u \in Urls |-> b]
              /\ \/ /\ FromScaffold /\ files = Scaffold
                    /\ revoked = {} /\ issues = 0
                 \/ /\ ~FromScaffold /\ files = Collected(b)
                    /\ revoked = {Collected(b).write[c].tok : c \in Clients} /\ issues = 1
        /\ deploys = 0 /\ now = 0
        /\ validating = [c \in Clients |-> None]
        /\ gate = Idle

-----------------------------------------------------------------------------
(* The world. *)

Touched == gate' = [gate EXCEPT !.verdict = None]

Redeploys ==
    /\ deploys < MaxDeploys
    /\ \E u \in Urls, b \in Commits :
          b # deployed[u] /\ deployed' = [deployed EXCEPT ![u] = b]
    /\ deploys' = deploys + 1
    /\ Touched /\ UNCHANGED <<now, revoked, issues, files, validating>>

TimePasses ==
    /\ now < MaxTime
    /\ now' = now + 1
    /\ Touched /\ UNCHANGED <<deployed, deploys, revoked, issues, files, validating>>

-----------------------------------------------------------------------------
(* The tools.  None of them writes while the gate reads. *)

Writes(name, report) ==
    /\ gate.at = "idle"
    /\ files' = [files EXCEPT ![name] = report]
    /\ Touched

WritesFor(name, c, report) ==
    /\ gate.at = "idle"
    /\ files' = [files EXCEPT ![name][c] = report]
    /\ Touched

PreflightsRoster ==
    /\ \E es \in SUBSET Emails \ {{}} : Writes("roster", [emails |-> es, at |-> now])
    /\ UNCHANGED <<world, validating>>

\* New tokens for everyone on a list; the service keeps accepting the old ones.
IssuesSessions ==
    /\ issues < MaxIssues
    /\ \E es \in SUBSET Emails \ {{}} :
          Writes("sessions", [email : es, client : Clients, issue : {issues + 1}])
    /\ issues' = issues + 1
    /\ UNCHANGED <<deployed, deploys, now, revoked, validating>>

BuildsConfigs ==
    /\ files.sessions # None
    /\ \E u \in Urls : Writes("configs", [toks |-> files.sessions, url |-> u])
    /\ UNCHANGED <<world, validating>>

RecordsDelivery ==
    /\ files.configs # None
    /\ Writes("delivery", [toks |-> files.configs.toks, at |-> now])
    /\ UNCHANGED <<world, validating>>

\* The two manifests must agree on the token the tester holds.
RecordsTest(c) ==
    /\ files.sessions # None /\ files.configs # None
    /\ \E t \in Of(files.sessions \cap files.configs.toks, c), u \in Urls :
          WritesFor("test", c, [tok |-> t, url |-> u, at |-> now])
    /\ UNCHANGED <<world, validating>>

\* Only the token id is written: any token of the client will do.
RevokesSession(c) ==
    /\ \E t \in Of(Token, c) :
          /\ revoked' = revoked \cup {t}
          /\ WritesFor("write", c, [tok |-> t, at |-> now])
    /\ UNCHANGED <<deployed, deploys, now, issues, validating>>

\* The active token is let in, the other one is denied as revoked.
DrillsRevocation(c) ==
    /\ \E a \in Of(Token, c) \ revoked, r \in Of(revoked, c), u \in Urls :
          WritesFor("drill", c, [active |-> a, revoked |-> r, url |-> u, at |-> now])
    /\ UNCHANGED <<world, validating>>

\* Distribution validation asks /version first ...
ObservesVersion(c) ==
    /\ gate.at = "idle" /\ validating[c] = None
    /\ \E t \in Of(Token, c) \ revoked, u \in Urls :
          validating' = [validating EXCEPT ![c] = [tok |-> t, url |-> u, commit |-> deployed[u]]]
    /\ UNCHANGED <<world, files, gate>>

\* ... and then, with the session, initializes and lists the tools.
ListsCatalog(c) ==
    LET v == validating[c] IN
    /\ v # None /\ v.tok \notin revoked
    /\ WritesFor("dist", c, [tok |-> v.tok, url |-> v.url, commit |-> v.commit,
                             catalog |-> deployed[v.url], at |-> now])
    /\ validating' = [validating EXCEPT ![c] = None]
    /\ UNCHANGED world

\* Probe and sample run from a checkout, at the build they were started from.
Probes ==
    /\ \E t \in Token \ revoked, b \in Commits :
          Writes("probe", [tok |-> t, commit |-> b, at |-> now])
    /\ UNCHANGED <<world, validating>>

SamplesLeakage ==
    /\ \E b \in Commits : Writes("leakage", [commit |-> b, at |-> now])
    /\ UNCHANGED <<world, validating>>

ReviewsAudit ==
    /\ Writes("audit", [at |-> now])
    /\ UNCHANGED <<world, validating>>

\* The manifest pins the release and holds the permission checks' outcome,
\* with the token their tester kept across a restart.
BuildsManifest ==
    /\ \E b \in Commits, t \in Token : Writes("manifest", [commit |-> b, tok |-> t, at |-> now])
    /\ UNCHANGED <<world, validating>>

-----------------------------------------------------------------------------
(* The gate. *)

Complete == /\ \A name \in {"roster", "sessions", "configs", "delivery",
                            "probe", "leakage", "audit", "manifest"} : files[name] # None
            /\ \A name \in {"dist", "drill", "write", "test"}, c \in Clients : files[name][c] # None

Fresh(report) == gate.started - report.at <= MaxAge

Dated == {files.roster, files.delivery, files.probe, files.leakage, files.audit, files.manifest}
            \cup UNION {{files.dist[c], files.drill[c], files.write[c], files.test[c]} : c \in Clients}

\* An exact token of the client that both manifests list.
Bound(t, c) == t.client = c /\ t \in files.sessions \cap files.configs.toks

CandidateBinding ==
    \A c \in Clients : files.dist[c].url = Candidate /\ files.dist[c].commit = files.manifest.commit

\* The token that was denied is another than the one that was let in, ...
DrillOK(c) == /\ files.drill[c].active # files.drill[c].revoked
              /\ files.drill[c].url = Candidate

\* ... it is the one that was revoked for this client and for no other, ...
RevocationWritten(c) == files.write[c].tok = files.drill[c].revoked

RevokedAreDistinct ==
    Cardinality({files.drill[c].revoked : c \in Clients}) = Cardinality(Clients)

\* Plausible bug: the token let in need only be the client's.
ActiveIsClients(c) == files.drill[c].active.client = c

\* ... and the one let in was handed out.
ActiveIsIssued(c) == Bound(files.drill[c].active, c)

RevocationOK == /\ RevokedAreDistinct
                /\ \A c \in Clients : DrillOK(c) /\ RevocationWritten(c) /\ ActiveIsIssued(c)

\* Roster, sessions, configs and deliveries name the same recruiters on the
\* same clients with the same tokens, and every config points at the candidate.
SessionsOK   == {Holder(t) : t \in files.sessions} = files.roster.emails \X Clients
ConfigsOK    == files.configs.url = Candidate
Consistent   == files.configs.toks = files.sessions

DeliveriesOK == files.delivery.toks = files.configs.toks
HandoutsOK   == SessionsOK /\ ConfigsOK /\ Consistent /\ DeliveriesOK

ProbeOK      == files.probe.commit = files.manifest.commit /\ files.probe.tok \in files.sessions
LeakageOK    == files.leakage.commit = files.manifest.commit
PermissionOK == Bound(files.manifest.tok, files.manifest.tok.client)
ReleaseOK    == ProbeOK /\ LeakageOK /\ PermissionOK

DistributionsOK == \A c \in Clients : Bound(files.dist[c].tok, c)

\* The tester is on the roster and holds the token; config, validation and
\* tester name one endpoint.
TesterOK(c)   == /\ Bound(files.test[c].tok, c)
                 /\ files.test[c].tok.email \in files.roster.emails
OneEndpoint(c) == files.test[c].url = files.configs.url /\ files.test[c].url = files.dist[c].url
TestsOK == \A c \in Clients : TesterOK(c) /\ OneEndpoint(c)

Starts ==
    /\ gate.at = "idle" /\ files.manifest # None
    /\ gate' = [at |-> "reading", started |-> now, verdict |-> None]
    /\ UNCHANGED <<world, files, validating>>

Rejects == gate' = [gate EXCEPT !.at = "idle", !.verdict = "not_ready"]

ReadsEvidence ==
    /\ gate.at = "reading"
    /\ IF /\ Complete /\ CandidateBinding /\ RevocationOK /\ HandoutsOK
          /\ ReleaseOK /\ DistributionsOK /\ TestsOK
          /\ \A report \in Dated : Fresh(report)
       THEN gate' = [gate EXCEPT !.at = "live"]
       ELSE Rejects
    /\ UNCHANGED <<world, files, validating>>

\* /readyz of the pinned candidate may answer anything; /version is compared
\* with the pinned commit.
ObservesLive ==
    /\ gate.at = "live"
    /\ \/ /\ deployed[Candidate] = files.manifest.commit
          /\ gate' = [gate EXCEPT !.at = "idle", !.verdict = "ready"]
       \/ Rejects
    /\ UNCHANGED <<world, files, validating>>

ClientTools(c) == RecordsTest(c) \/ RevokesSession(c) \/ DrillsRevocation(c)
                  \/ ObservesVersion(c) \/ ListsCatalog(c)

Next == \/ Redeploys \/ TimePasses
        \/ PreflightsRoster \/ IssuesSessions \/ BuildsConfigs \/ RecordsDelivery
        \/ Probes \/ SamplesLeakage \/ ReviewsAudit \/ BuildsManifest
        \/ \E c \in Clients : ClientTools(c)
        \/ Starts \/ ReadsEvidence \/ ObservesLive

Spec == Init /\ [][Next]_vars

-----------------------------------------------------------------------------
TypeOK ==
    /\ deployed \in [Urls -> Commits] /\ revoked \subseteq Token
    /\ gate.at \in {"idle", "reading", "live"} /\ gate.verdict \in {None, "ready", "not_ready"}
    /\ files.sessions # None => files.sessions \subseteq Token
    /\ \A c \in Clients : validating[c] # None => validating[c].tok \in Token

Ready == gate.verdict = "ready"

(***************************************************************************)
(* When the gate says ready, the release in service at the candidate's URL *)
(* is the one that every distribution validation saw there, that the       *)
(* configs point at and that probe and leakage sample were built from,     *)
(* however often the service was redeployed in between.                    *)
(***************************************************************************)
OneReleaseWasTested ==
    Ready => /\ deployed[Candidate] = files.probe.commit
             /\ deployed[Candidate] = files.leakage.commit
             /\ \A c \in Clients : /\ deployed[Candidate] = files.dist[c].commit
                                   /\ files.dist[c].url = files.configs.url
                                   /\ files.test[c].url = files.configs.url

(***************************************************************************)
(* When the gate says ready, every recruiter on the roster was handed one  *)
(* token per client, nobody else was, and the token each client was tested *)
(* with, validated with and kept alive in the drill is one of those.       *)
(***************************************************************************)
WhatWasTestedWasDelivered ==
    Ready => /\ \A e \in files.roster.emails, c \in Clients :
                   Cardinality({t \in files.delivery.toks : Holder(t) = <<e, c>>}) = 1
             /\ \A t \in files.delivery.toks : t.email \in files.roster.emails
             /\ \A c \in Clients :
                   {files.test[c].tok, files.dist[c].tok, files.drill[c].active}
                        \subseteq Of(files.delivery.toks, c)

(***************************************************************************)
(* When the gate says ready, no dated report is older than allowed at the  *)
(* time the gate started, and the drilled tokens are in the service's      *)
(* revocation table.                                                       *)
(***************************************************************************)
EvidenceIsRecentAndTrue ==
    Ready => /\ \A report \in Dated : gate.started - report.at <= MaxAge
             /\ {files.drill[c].revoked : c \in Clients} \subseteq revoked
=============================================================================
