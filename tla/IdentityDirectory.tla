------------------------- MODULE IdentityDirectory -------------------------
(***************************************************************************)
(* The table that maps a work email to a Greenhouse user, and everybody    *)
(* who writes it: first sign-ins (oauth-enroll.ts), the bootstrap command  *)
(* (identity-bootstrap.ts), the reconciliation command                     *)
(* (identity-reconciliation.ts) and the private-candidate attestation      *)
(* (attest-private-candidates-cli.ts), all in                              *)
(* src/packages/recruiter-mcp/src, over migrations 0001 and 0008.          *)
(*                                                                         *)
(* Every request to Greenhouse or to the table is a step.  A command may   *)
(* stop after any of them.  Emails are fixed per user; users come, are     *)
(* deactivated and vanish.                                                 *)
(***************************************************************************)
EXTENDS Naturals, FiniteSets, FiniteSetTheorems, TLAPS

CONSTANTS
    Users, Emails, PrimaryOf, OthersOf,  \* Greenhouse users and their addresses
    SignIns,      \* first sign-ins
    MaxTime, MaxRuns, None

IdentityAssumption ==
    /\ IsFiniteSet(Users)
    /\ PrimaryOf \in [Users -> Emails]
    /\ OthersOf \in [Users -> SUBSET Emails]
    /\ None \notin Users

VARIABLES
    user,      \* Greenhouse: "active", "inactive" or "absent"
    rows,      \* recruiter_identity_directory, by greenhouse_user_id
    migrated,  \* migration 0008 has added the attestation columns
    grants,    \* emails with a live OAuth refresh family
    now,
    signin,    \* first sign-ins under way
    plan,      \* the reconciliation under way
    boot,      \* the bootstrap under way: rows to upsert
    attest,    \* the attestation under way
    runs,      \* commands started
    hand       \* users attested since their row last was made resolved

vars == <<user, rows, migrated, grants, now, signin, plan, boot, attest, runs, hand>>
commands == <<signin, plan, boot, attest, runs>>

NoRow == [status |-> "none", email |-> None, verified |-> 0, attested |-> FALSE,
          prior |-> FALSE]
Row(e) == [status |-> "resolved", email |-> e, verified |-> now, attested |-> FALSE,
           prior |-> FALSE]
Exists(u) == rows[u].status # "none"
Resolved(u) == rows[u].status = "resolved"
Idle == [at |-> "idle", user |-> None, email |-> None, out |-> "none"]
NoPlan == [at |-> "none", revoke |-> {}, tombstone |-> {}, asOf |-> 0, prior |-> {},
           resolved |-> 0, roster |-> {}, confirmed |-> FALSE, sweep |-> None, failed |-> FALSE]

Statuses == {"active", "inactive", "absent"}
Outcomes == {"none", "enrolled", "already", "email_missing", "ambiguous", "deactivated",
             "directory_row_exists", "email_mismatch", "error"}

TypeOK ==
    /\ user \in [Users -> Statuses]
    /\ \A u \in Users :
          /\ rows[u].status \in {"none", "resolved", "deactivated"}
          /\ rows[u].attested => migrated /\ rows[u].status = "resolved"
          /\ rows[u].verified <= now
    /\ grants \subseteq Emails
    /\ hand \subseteq Users
    /\ \A s \in SignIns : signin[s].out \in Outcomes
    /\ plan.revoke \cap plan.tombstone = {}
    /\ boot \subseteq Emails \X Users /\ attest \in Users \cup {None}

Init ==
    /\ user \in [Users -> {"active", "absent"}]
    /\ migrated \in BOOLEAN
    /\ grants = {} /\ now = 0 /\ hand = {}
    /\ \E known \in SUBSET Users :   \* no two of them with one email: migration 0001
          /\ \A u, v \in known : PrimaryOf[u] = PrimaryOf[v] => u = v
          /\ rows = [u \in Users |-> IF u \in known THEN Row(PrimaryOf[u]) ELSE NoRow]
    /\ signin = [s \in SignIns |-> Idle]
    /\ plan = NoPlan /\ boot = {} /\ attest = None /\ runs = 0

-----------------------------------------------------------------------------
(***************************************************************************)
(* Which user an email belongs to, by the rules of the bootstrap: exactly  *)
(* one user among those read, and it is active as the reader saw it.       *)
(***************************************************************************)
Has(u, e) == e = PrimaryOf[u] \/ e \in OthersOf[u]

Decision(e, read, seen) ==
    LET ids == {u \in read : Has(u, e)}
    IN  IF ids = {} THEN "email_missing"
        ELSE IF Cardinality(ids) > 1 THEN "ambiguous"
        ELSE IF \A u \in ids : seen[u] # "active" THEN "deactivated" ELSE "resolved"
Match(e, read) == CHOOSE u \in read : Has(u, e)

OnRoster(seen) == {u \in Users : seen[u] # "absent"}
Roster == OnRoster(user)
\* The cheap read by primary address; only when it finds nobody, the roster.
ReadFor(e) ==
    LET cheap == {u \in Roster : PrimaryOf[u] = e}
    IN  IF cheap = {} THEN Roster ELSE cheap

\* The unique constraints of migration 0001.
Conflicts(u, e) ==
    Exists(u) \/ \E v \in Users : Resolved(v) /\ rows[v].email = e

-----------------------------------------------------------------------------
(***************************************************************************)
(* createOauthEnrollment.enroll, in its three reads and one write.         *)
(***************************************************************************)
SignInEnds(s, out) == signin' = [signin EXCEPT ![s].at = "done", ![s].out = out]

\* A row that is this very mapping is not a decision against the person.
IsMine(u, e) == Resolved(u) /\ rows[u].email = e

SignInReads(s, e) ==
    /\ signin[s].at = "idle"
    /\ LET d == Decision(e, ReadFor(e), user)
       IN IF d # "resolved"
          THEN signin' = [signin EXCEPT ![s] = [Idle EXCEPT !.at = "done", !.out = d]]
          ELSE signin' = [signin EXCEPT ![s] =
                 [Idle EXCEPT !.at = "read", !.user = Match(e, ReadFor(e)), !.email = e]]
    /\ UNCHANGED <<user, rows, migrated, grants, now, plan, boot, attest, runs, hand>>

SignInChecks(s) ==
    /\ signin[s].at = "read"
    /\ LET mine == {v \in Users : Exists(v) /\ rows[v].email = signin[s].email}
       IN IF mine = {} THEN signin' = [signin EXCEPT ![s].at = "insert"]
          ELSE \E v \in mine :
                 IF v = signin[s].user /\ Resolved(v) THEN SignInEnds(s, "already")
                 ELSE SignInEnds(s, "directory_row_exists")
    /\ UNCHANGED <<user, rows, migrated, grants, now, plan, boot, attest, runs, hand>>

\* Plausible bug: the row is merged into the one that is there.
InsertMerges(s) ==
    /\ signin[s].at = "insert"
    /\ rows' = [rows EXCEPT ![signin[s].user] = Row(signin[s].email)]
    /\ hand' = hand \ {signin[s].user}
    /\ SignInEnds(s, "enrolled")
    /\ UNCHANGED <<user, migrated, grants, now, plan, boot, attest, runs>>

\* No on_conflict: a 409 leaves the row alone, to be looked at next.
SignInInserts(s) ==
    /\ signin[s].at = "insert"
    /\ IF Conflicts(signin[s].user, signin[s].email)
       THEN signin' = [signin EXCEPT ![s].at = "conflict"] /\ UNCHANGED <<rows, hand>>
       ELSE /\ rows' = [rows EXCEPT ![signin[s].user] = Row(signin[s].email)]
            /\ hand' = hand \ {signin[s].user}
            /\ SignInEnds(s, "enrolled")
    /\ UNCHANGED <<user, migrated, grants, now, plan, boot, attest, runs>>

SignInDiagnoses(s) ==
    /\ signin[s].at = "conflict"
    /\ LET u == signin[s].user
       IN CASE ~Exists(u) -> SignInEnds(s, "error")
            [] IsMine(u, signin[s].email) -> SignInEnds(s, "already")
            [] Resolved(u) /\ ~IsMine(u, signin[s].email) -> SignInEnds(s, "email_mismatch")
            [] OTHER -> SignInEnds(s, "directory_row_exists")
    /\ UNCHANGED <<user, rows, migrated, grants, now, plan, boot, attest, runs, hand>>

\* Greenhouse or the table cannot be read: an error, and nothing is written.
SignInFails(s) ==
    /\ signin[s].at \in {"read", "insert", "conflict"}
    /\ SignInEnds(s, "error")
    /\ UNCHANGED <<user, rows, migrated, grants, now, plan, boot, attest, runs, hand>>

-----------------------------------------------------------------------------
(***************************************************************************)
(* The bootstrap: a plan from a file of users that the operator exported,  *)
(* some time ago and perhaps not all of them, all resolved or no apply,    *)
(* then one upsert that leaves the attestation columns as they are.        *)
(***************************************************************************)
BootstrapPlans(batch, file) ==
    /\ boot = {} /\ runs < MaxRuns /\ batch # {}
    /\ \A e \in batch : Decision(e, OnRoster(file), file) = "resolved"
    /\ boot' = {<<e, Match(e, OnRoster(file))>> : e \in batch}
    /\ runs' = runs + 1
    /\ UNCHANGED <<user, rows, migrated, grants, now, signin, plan, attest, hand>>

EmailFor(u) == CHOOSE e \in Emails : <<e, u>> \in boot
Booted == {u \in Users : \E e \in Emails : <<e, u>> \in boot}

\* The database refuses a batch that names a user twice, or an email that
\* another user's resolved row has.
BatchFits ==
    /\ Cardinality(Booted) = Cardinality(boot)
    /\ \A u \in Booted, v \in Users \ Booted : ~IsMine(v, EmailFor(u))

BootstrapApplies ==
    /\ boot # {}
    /\ boot' = {}
    /\ \/ /\ BatchFits
          /\ rows' = [u \in Users |-> IF u \notin Booted THEN rows[u]
                                      ELSE [Row(EmailFor(u)) EXCEPT !.attested = rows[u].attested]]
          /\ hand' = hand \ {u \in Booted : ~Resolved(u)}
       \/ UNCHANGED <<rows, hand>>   \* the request fails, or is never made
    /\ UNCHANGED <<user, migrated, grants, now, signin, plan, attest, runs>>

-----------------------------------------------------------------------------
(***************************************************************************)
(* The reconciliation.  The roster is the live one, or a file that misses  *)
(* users; whether it is complete is derived, or asserted by the operator.  *)
(***************************************************************************)
Newer(u, asOf) == rows[u].verified > asOf
Absent(roster, asOf) == {u \in Users : Resolved(u) /\ u \notin roster /\ ~Newer(u, asOf)}

MayTombstone(roster, absent, complete, confirmed) ==
    /\ complete
    /\ roster # {}
    /\ 2 * Cardinality(absent) <= Cardinality({u \in Users : Resolved(u)}) \/ confirmed

\* The roster was read at the time asOf: it may be older than the table.
ReconcilePlans(roster, asOf, complete, confirmed) ==
    /\ plan = NoPlan /\ runs < MaxRuns
    /\ roster \subseteq Roster
    /\ LET absent == Absent(roster, asOf)
       IN plan' = [NoPlan EXCEPT
            !.at = "apply", !.asOf = asOf, !.roster = roster, !.confirmed = confirmed,
            !.resolved = Cardinality({u \in Users : Resolved(u)}),
            !.prior = {u \in Users : rows[u].attested},
            !.revoke = {u \in roster : Resolved(u) /\ user[u] = "inactive"},
            !.tombstone = IF MayTombstone(roster, absent, complete, confirmed)
                          THEN absent ELSE {}]
    /\ runs' = runs + 1
    /\ UNCHANGED <<user, rows, migrated, grants, now, signin, boot, attest, hand>>

Todo == plan.revoke \cup plan.tombstone

\* Against a table without the columns the PATCH is repeated without them.
ClearedAttestation(u) == FALSE

Deprovision(u) ==
    /\ plan.at = "apply" /\ plan.sweep = None /\ u \in Todo
    /\ rows' = [rows EXCEPT ![u] =
         IF @.status = "none" THEN @
         ELSE [status |-> "deactivated", email |-> @.email, verified |-> now,
               attested |-> ClearedAttestation(u), prior |-> u \in plan.prior]]
    /\ plan' = [plan EXCEPT !.revoke = @ \ {u}, !.tombstone = @ \ {u}, !.sweep = u]
    /\ UNCHANGED <<user, migrated, grants, now, signin, boot, attest, runs, hand>>

\* Best effort: a sweep that fails is reported and the next row is done.
Sweep ==
    /\ plan.sweep # None
    /\ \/ /\ grants' = grants \ {rows[plan.sweep].email}
          /\ plan' = [plan EXCEPT !.sweep = None]
       \/ /\ plan' = [plan EXCEPT !.sweep = None, !.failed = TRUE]
          /\ UNCHANGED grants
    /\ UNCHANGED <<user, rows, migrated, now, signin, boot, attest, runs, hand>>

\* All rows are done; or a PATCH throws, or the process dies, at any point.
ReconcileEnds ==
    /\ plan.at = "apply"
    /\ plan' = NoPlan
    /\ UNCHANGED <<user, rows, migrated, grants, now, signin, boot, attest, runs, hand>>

-----------------------------------------------------------------------------
(***************************************************************************)
(* The attestation command: an email names one resolved row, an id any     *)
(* user, with a row or without; the PATCH asks for a resolved row.         *)
(***************************************************************************)
AttestFinds(u) ==
    /\ attest = None /\ runs < MaxRuns
    /\ attest' = u
    /\ runs' = runs + 1
    /\ UNCHANGED <<user, rows, migrated, grants, now, signin, plan, boot, hand>>

AttestTarget(u) == Resolved(u)

AttestWrites(attested) ==
    /\ attest # None
    /\ attest' = None
    /\ IF migrated /\ AttestTarget(attest)
       THEN /\ rows' = [rows EXCEPT ![attest].attested = attested]
            /\ hand' = IF attested /\ Resolved(attest) THEN hand \cup {attest} ELSE hand \ {attest}
       ELSE UNCHANGED <<rows, hand>>
    /\ UNCHANGED <<user, migrated, grants, now, signin, plan, boot, runs>>

-----------------------------------------------------------------------------
\* A sign-in through the directory opens a session (see OauthGrants).
OpenSession(u) ==
    /\ Resolved(u)
    /\ grants' = grants \cup {rows[u].email}
    /\ UNCHANGED <<user, rows, migrated, now, commands, hand>>

Migrate ==
    /\ ~migrated
    /\ migrated' = TRUE
    /\ UNCHANGED <<user, rows, grants, now, commands, hand>>

GreenhouseChanges(u, s) ==
    /\ user' = [user EXCEPT ![u] = s]
    /\ UNCHANGED <<rows, migrated, grants, now, commands, hand>>

Pass ==
    /\ now < MaxTime
    /\ now' = now + 1
    /\ UNCHANGED <<user, rows, migrated, grants, commands, hand>>

Next ==
    \/ \E s \in SignIns : \/ \E e \in Emails : SignInReads(s, e)
                          \/ SignInChecks(s) \/ SignInInserts(s)
                          \/ SignInDiagnoses(s) \/ SignInFails(s)
    \/ (\E b \in SUBSET Emails, file \in [Users -> Statuses] : BootstrapPlans(b, file))
    \/ BootstrapApplies
    \/ \E r \in SUBSET Users, t \in 0..now, complete, confirmed \in BOOLEAN :
          ReconcilePlans(r, t, complete, confirmed)
    \/ (\E u \in Users : Deprovision(u)) \/ Sweep \/ ReconcileEnds
    \/ (\E u \in Users : AttestFinds(u)) \/ (\E a \in BOOLEAN : AttestWrites(a))
    \/ (\E u \in Users : OpenSession(u)) \/ Migrate \/ Pass
    \/ \E u \in Users, s \in Statuses : GreenhouseChanges(u, s)

Spec == Init /\ [][Next]_vars

-----------------------------------------------------------------------------
\* An email resolves to one person at any moment, though sign-ins check,
\* insert and lose races, and the bootstrap upserts by user (migration 0001).
EmailsNameOnePerson ==
    \A u, v \in Users : u # v /\ Resolved(u) /\ Resolved(v) => rows[u].email # rows[v].email

\* No sign-in changes a row that is there: what an operator or the
\* reconciliation decided stays decided (oauth-enroll.ts:23-25).
SignInsNeverReverse ==
    (signin' # signin) => \A u \in Users : Exists(u) => rows'[u] = rows[u]

\* Of two tabs that sign in for the first time, the one that loses the
\* insert is not told that somebody decided against it.  Of sign-ins alone:
\* where a bootstrap gave the address of a deactivated row to somebody else,
\* there are two rows of that email and byEmail[0] may be the older one.
TwinsAreEnrolled ==
    \A s \in SignIns :
       (signin[s].out # "directory_row_exists" /\ signin'[s].out = "directory_row_exists")
       => ~IsMine(signin[s].user, signin[s].email)

\* A roster that is empty deprovisions nobody, and one that misses most
\* people no more than half, unless the operator said so or Greenhouse says
\* of each that they are deactivated.
AbsenceIsBounded ==
    plan.tombstone # {} =>
        /\ plan.roster # {}
        /\ plan.confirmed \/ 2 * Cardinality(plan.tombstone) <= plan.resolved

\* Whoever is attested was attested by hand since the row was last made
\* resolved: neither a sign-in nor a bootstrap of somebody who left and came
\* back, in any order with the deprovisioning, revives an attestation.
AttestationsAreByHand == \A u \in Users : Resolved(u) /\ rows[u].attested => u \in hand

-----------------------------------------------------------------------------
(***************************************************************************)
(* The proofs.  IdentityInv: the rows, and what each command under way has *)
(* read or planned; a bootstrap names one user for an email, so a batch    *)
(* the database takes gives no two users the same one.                     *)
(***************************************************************************)

RowType ==
    [status : {"none", "resolved", "deactivated"}, email : Emails \cup {None},
     verified : Nat, attested : BOOLEAN, prior : BOOLEAN]

SignInType ==
    [at : {"idle", "read", "insert", "conflict", "done"}, user : Users \cup {None},
     email : Emails \cup {None}, out : Outcomes]

PlanType ==
    [at : {"none", "apply"}, revoke : SUBSET Users, tombstone : SUBSET Users, asOf : Nat,
     prior : SUBSET Users, resolved : Nat, roster : SUBSET Users, confirmed : BOOLEAN,
     sweep : Users \cup {None}, failed : BOOLEAN]

Writing == {"read", "insert", "conflict"}

RowsOK ==
    /\ rows \in [Users -> RowType] /\ now \in Nat
    /\ \A u \in Users : Resolved(u) => rows[u].email \in Emails

SignInsOK ==
    /\ signin \in [SignIns -> SignInType]
    /\ \A s \in SignIns : signin[s].at \in Writing =>
          signin[s].user \in Users /\ signin[s].email \in Emails

BootOK == \A p, q \in boot : p[1] = q[1] => p = q

IdentityInv ==
    /\ TypeOK
    /\ RowsOK
    /\ SignInsOK
    /\ plan \in PlanType
    /\ BootOK
    /\ EmailsNameOnePerson
    /\ AbsenceIsBounded
    /\ AttestationsAreByHand

(* Whoever an email resolves to is one of those that were read.            *)
LEMMA MatchIsRead ==
    ASSUME NEW read \in SUBSET Users, NEW seen, NEW e, Decision(e, read, seen) = "resolved"
    PROVE  Match(e, read) \in read
<1>1. {u \in read : Has(u, e)} # {}
  BY DEF Decision
<1> QED
  BY <1>1 DEF Match

LEMMA ReadsAreUsers ==
    ASSUME NEW e
    PROVE  ReadFor(e) \in SUBSET Users /\ \A seen : OnRoster(seen) \in SUBSET Users
BY DEF Roster, OnRoster, ReadFor

LEMMA IdentityStarts ==
    ASSUME IdentityAssumption, Init
    PROVE  IdentityInv
<1> USE DEF IdentityAssumption, Init
<1>1. PICK known \in SUBSET Users :
         /\ \A u, v \in known : PrimaryOf[u] = PrimaryOf[v] => u = v
         /\ rows = [u \in Users |-> IF u \in known THEN Row(PrimaryOf[u]) ELSE NoRow]
  OBVIOUS
<1>2. \A u \in Users : /\ rows[u] = IF u \in known THEN Row(PrimaryOf[u]) ELSE NoRow
                       /\ rows[u] \in RowType /\ ~rows[u].attested /\ rows[u].verified <= now
  BY <1>1 DEF Row, NoRow, RowType
<1>3. RowsOK
  <2>1. \A u \in Users : rows[u].status = "resolved" => rows[u].email \in Emails
    BY <1>2 DEF Row, NoRow
  <2> QED BY <1>1, <1>2, <2>1 DEF RowsOK, Resolved
<1>4. EmailsNameOnePerson
  BY <1>1, <1>2 DEF EmailsNameOnePerson, Resolved, Row, NoRow
<1>5. SignInsOK
  BY DEF SignInsOK, SignInType, Idle, Outcomes, Writing
<1>6. plan \in PlanType /\ BootOK /\ AbsenceIsBounded /\ AttestationsAreByHand
  BY <1>2 DEF PlanType, NoPlan, BootOK, AbsenceIsBounded, AttestationsAreByHand
<1>7. TypeOK
  BY <1>2 DEF TypeOK, NoPlan, Idle, Statuses, Outcomes, RowType
<1> QED
  BY <1>3, <1>4, <1>5, <1>6, <1>7 DEF IdentityInv

(* One row changes.                                                        *)
LEMMA OneRowChanges ==
    ASSUME IdentityInv, NEW u \in Users, NEW r \in RowType,
           r.status = "resolved" => r.email \in Emails,
           rows' = [rows EXCEPT ![u] = r], now' = now
    PROVE  /\ RowsOK'
           /\ \A v \in Users : rows'[v] = IF v = u THEN r ELSE rows[v]
BY DEF IdentityInv, RowsOK, Resolved

(* A sign-in goes on.                                                      *)
LEMMA OneSignInMoves ==
    ASSUME IdentityInv, NEW s \in SignIns, NEW r \in SignInType,
           r.at \in Writing => r.user \in Users /\ r.email \in Emails,
           signin' = [signin EXCEPT ![s] = r]
    PROVE  SignInsOK' /\ (\A t \in SignIns : signin'[t].out \in Outcomes)
BY DEF IdentityInv, SignInsOK, SignInType

LEMMA SignInMoves ==
    ASSUME IdentityInv, NEW s \in SignIns, signin[s].at \in Writing,
           \/ \E out \in Outcomes : SignInEnds(s, out)
           \/ \E at \in Writing : signin' = [signin EXCEPT ![s].at = at]
    PROVE  SignInsOK' /\ (\A t \in SignIns : signin'[t].out \in Outcomes)
<1> USE DEF IdentityInv, SignInsOK
<1>1. CASE \E out \in Outcomes : SignInEnds(s, out)
  <2>1. PICK out \in Outcomes : SignInEnds(s, out)
    BY <1>1
  <2> DEFINE r == [signin[s] EXCEPT !.at = "done", !.out = out]
  <2>2. r \in SignInType /\ r.at \notin Writing /\ signin' = [signin EXCEPT ![s] = r]
    BY <2>1 DEF SignInEnds, SignInType, Writing
  <2> HIDE DEF r
  <2> QED BY <2>2, OneSignInMoves
<1>2. CASE \E at \in Writing : signin' = [signin EXCEPT ![s].at = at]
  <2>1. PICK at \in Writing : signin' = [signin EXCEPT ![s].at = at]
    BY <1>2
  <2> DEFINE r == [signin[s] EXCEPT !.at = at]
  <2>2. r \in SignInType /\ r.user \in Users /\ r.email \in Emails
        /\ signin' = [signin EXCEPT ![s] = r]
    BY <2>1 DEF SignInType, Writing
  <2> HIDE DEF r
  <2> QED BY <2>2, OneSignInMoves
<1> QED
  BY <1>1, <1>2

(* What rests on the rows alone stays while they do.                       *)
LEMMA RowsStand ==
    ASSUME IdentityInv, UNCHANGED <<rows, hand, now>>
    PROVE  RowsOK' /\ EmailsNameOnePerson' /\ AttestationsAreByHand'
           /\ hand' \subseteq Users
BY DEF IdentityInv, TypeOK, RowsOK, EmailsNameOnePerson, Resolved, AttestationsAreByHand

(* The steps of a sign-in: only its insert touches a row.                  *)
LEMMA SignInKeeps ==
    ASSUME IdentityAssumption, IdentityInv, NEW s \in SignIns,
           \/ \E e \in Emails : SignInReads(s, e)
           \/ SignInChecks(s) \/ SignInDiagnoses(s) \/ SignInFails(s)
    PROVE  IdentityInv'
<1>1. UNCHANGED <<user, rows, migrated, grants, now, plan, boot, attest, runs, hand>>
  BY DEF SignInReads, SignInChecks, SignInDiagnoses, SignInFails
<1>2. SignInsOK' /\ (\A t \in SignIns : signin'[t].out \in Outcomes)
  <2>1. CASE \E e \in Emails : SignInReads(s, e)
    <3>1. PICK e \in Emails : SignInReads(s, e)
      BY <2>1
    <3> DEFINE d == Decision(e, ReadFor(e), user)
               r == IF d # "resolved" THEN [Idle EXCEPT !.at = "done", !.out = d]
                    ELSE [Idle EXCEPT !.at = "read", !.user = Match(e, ReadFor(e)), !.email = e]
    <3>2. d \in Outcomes \cup {"resolved"}
      BY DEF Decision, Outcomes
    <3>3. d = "resolved" => Match(e, ReadFor(e)) \in Users
      BY MatchIsRead, ReadsAreUsers
    <3> HIDE DEF d
    <3>4. r \in SignInType /\ (r.at \in Writing => r.user \in Users /\ r.email \in Emails)
      BY <3>2, <3>3 DEF Idle, SignInType, Writing, Outcomes
    <3>5. signin' = [signin EXCEPT ![s] = r]
      BY <3>1 DEF SignInReads, d
    <3> HIDE DEF r
    <3> QED BY <3>4, <3>5, OneSignInMoves
  <2>2. CASE SignInChecks(s)
    BY <2>2, SignInMoves DEF SignInChecks, Writing, Outcomes
  <2>3. CASE SignInDiagnoses(s)
    <3>1. signin[s].at \in Writing
      BY <2>3 DEF SignInDiagnoses, Writing
    <3>2. \/ SignInEnds(s, "error") \/ SignInEnds(s, "already")
          \/ SignInEnds(s, "email_mismatch") \/ SignInEnds(s, "directory_row_exists")
      BY <2>3 DEF SignInDiagnoses
    <3> QED BY <3>1, <3>2, SignInMoves DEF Outcomes
  <2>4. CASE SignInFails(s)
    BY <2>4, SignInMoves DEF SignInFails, Writing, Outcomes
  <2> QED BY <2>1, <2>2, <2>3, <2>4
<1>3. RowsOK' /\ EmailsNameOnePerson' /\ AttestationsAreByHand' /\ hand' \subseteq Users
  BY <1>1, RowsStand
<1>4. TypeOK'
  BY <1>1, <1>2 DEF IdentityInv, TypeOK
<1>5. plan' \in PlanType /\ BootOK' /\ AbsenceIsBounded'
  BY <1>1 DEF IdentityInv, BootOK, AbsenceIsBounded
<1> QED
  BY <1>2, <1>3, <1>4, <1>5 DEF IdentityInv

(* The insert: it takes effect only where no row of the user and no        *)
(* resolved row of the email is there.                                     *)
LEMMA SignInInsertsKeeps ==
    ASSUME IdentityAssumption, IdentityInv, NEW s \in SignIns, SignInInserts(s)
    PROVE  /\ IdentityInv'
           /\ \A u \in Users : Exists(u) => rows'[u] = rows[u]
<1>1. PICK u \in Users, e \in Emails : u = signin[s].user /\ e = signin[s].email
  BY DEF IdentityInv, SignInsOK, SignInInserts, Writing
<1>2. UNCHANGED <<user, migrated, grants, now, plan, boot, attest, runs>>
      /\ signin[s].at \in Writing
  BY DEF SignInInserts, Writing
<1>3. SignInsOK' /\ (\A t \in SignIns : signin'[t].out \in Outcomes)
  BY <1>2, SignInMoves DEF SignInInserts, Writing, Outcomes
<1>4. plan' \in PlanType /\ BootOK' /\ AbsenceIsBounded'
  BY <1>2 DEF IdentityInv, BootOK, AbsenceIsBounded
<1>5. CASE Conflicts(u, e)
  <2>1. UNCHANGED <<rows, hand>>
    BY <1>1, <1>5 DEF SignInInserts
  <2>2. TypeOK'
    BY <1>2, <1>3, <2>1 DEF IdentityInv, TypeOK
  <2>3. RowsOK' /\ EmailsNameOnePerson' /\ AttestationsAreByHand'
    BY <1>2, <2>1, RowsStand
  <2> QED
    BY <1>3, <1>4, <2>1, <2>2, <2>3 DEF IdentityInv
<1>6. CASE ~Conflicts(u, e)
  <2>1. rows' = [rows EXCEPT ![u] = Row(e)] /\ hand' = hand \ {u}
    BY <1>1, <1>6 DEF SignInInserts
  <2>2. /\ Row(e) \in RowType /\ Row(e).status = "resolved" /\ Row(e).email = e
        /\ ~Row(e).attested /\ Row(e).verified = now
    BY DEF Row, RowType, IdentityInv, RowsOK
  <2>3. RowsOK' /\ (\A v \in Users : rows'[v] = IF v = u THEN Row(e) ELSE rows[v])
    BY <1>2, <2>1, <2>2, OneRowChanges
  <2>4. ~Exists(u) /\ (\A v \in Users : Resolved(v) => rows[v].email # e)
    BY <1>6 DEF Conflicts
  <2>5. EmailsNameOnePerson'
    BY <2>2, <2>3, <2>4 DEF IdentityInv, EmailsNameOnePerson, Resolved
  <2>6. AttestationsAreByHand'
    BY <2>1, <2>2, <2>3 DEF IdentityInv, AttestationsAreByHand, Resolved
  <2>7. TypeOK'
    BY <1>2, <1>3, <2>1, <2>2, <2>3 DEF IdentityInv, TypeOK, RowsOK
  <2> QED
    BY <1>3, <1>4, <2>3, <2>4, <2>5, <2>6, <2>7 DEF IdentityInv
<1> QED
  BY <1>5, <1>6

(* The bootstrap plans one user for each email of its batch.               *)
LEMMA BootstrapPlansKeeps ==
    ASSUME IdentityAssumption, IdentityInv, NEW batch \in SUBSET Emails, NEW file,
           BootstrapPlans(batch, file)
    PROVE  IdentityInv'
<1>1. /\ boot' = {<<e, Match(e, OnRoster(file))>> : e \in batch}
      /\ UNCHANGED <<user, rows, migrated, grants, now, signin, plan, attest, hand>>
      /\ \A e \in batch : Match(e, OnRoster(file)) \in Users
  BY MatchIsRead, ReadsAreUsers DEF BootstrapPlans
<1>2. BootOK' /\ boot' \subseteq Emails \X Users
  BY <1>1 DEF BootOK
<1>3. RowsOK' /\ EmailsNameOnePerson' /\ AttestationsAreByHand'
  BY <1>1, RowsStand
<1>4. TypeOK' /\ SignInsOK' /\ plan' \in PlanType /\ AbsenceIsBounded'
  BY <1>1, <1>2 DEF IdentityInv, TypeOK, SignInsOK, AbsenceIsBounded
<1> QED
  BY <1>2, <1>3, <1>4 DEF IdentityInv

LEMMA BootstrapAppliesKeeps ==
    ASSUME IdentityAssumption, IdentityInv, BootstrapApplies
    PROVE  IdentityInv'
<1>1. boot' = {} /\ UNCHANGED <<user, migrated, grants, now, signin, plan, attest, runs>>
  BY DEF BootstrapApplies
<1>2. SignInsOK' /\ plan' \in PlanType /\ BootOK' /\ AbsenceIsBounded'
  BY <1>1 DEF IdentityInv, SignInsOK, BootOK, AbsenceIsBounded
<1>3. CASE UNCHANGED <<rows, hand>>
  <2>1. RowsOK' /\ EmailsNameOnePerson' /\ AttestationsAreByHand'
    BY <1>1, <1>3, RowsStand
  <2>2. TypeOK'
    BY <1>1, <1>3 DEF IdentityInv, TypeOK
  <2> QED
    BY <1>2, <2>1, <2>2 DEF IdentityInv
<1>4. CASE /\ BatchFits
           /\ rows' = [u \in Users |-> IF u \notin Booted THEN rows[u]
                         ELSE [Row(EmailFor(u)) EXCEPT !.attested = rows[u].attested]]
           /\ hand' = hand \ {u \in Booted : ~Resolved(u)}
  <2>1. ASSUME NEW u \in Booted
        PROVE  EmailFor(u) \in Emails /\ <<EmailFor(u), u>> \in boot
    BY DEF Booted, EmailFor
  <2>2. \A u \in Users \ Booted : rows'[u] = rows[u]
    BY <1>4
  <2>3. ASSUME NEW u \in Booted
        PROVE  /\ rows'[u] \in RowType
               /\ rows'[u].status = "resolved" /\ rows'[u].email = EmailFor(u)
               /\ rows'[u].attested = rows[u].attested /\ rows'[u].verified = now
    <3>1. u \in Users /\ EmailFor(u) \in Emails /\ rows[u].attested \in BOOLEAN /\ now \in Nat
      BY <2>1 DEF Booted, IdentityInv, RowsOK, RowType
    <3>2. rows'[u] = [Row(EmailFor(u)) EXCEPT !.attested = rows[u].attested]
      BY <1>4, <3>1
    <3> QED BY <3>1, <3>2 DEF Row, RowType
  <2>4. RowsOK'
    <3>1. \A u \in Users :
            /\ rows'[u] \in RowType
            /\ rows'[u].status = "resolved" => rows'[u].email \in Emails
      BY <2>1, <2>2, <2>3 DEF IdentityInv, RowsOK, Resolved
    <3> QED BY <1>1, <1>4, <3>1 DEF IdentityInv, RowsOK, Resolved
  <2>5. EmailsNameOnePerson'
    <3> SUFFICES ASSUME NEW u \in Users, NEW v \in Users, u # v,
                        rows'[u].status = "resolved", rows'[v].status = "resolved",
                        rows'[u].email = rows'[v].email
                 PROVE  FALSE
      BY DEF EmailsNameOnePerson, Resolved
    <3>1. CASE u \in Booted /\ v \in Booted
      <4>1. EmailFor(u) = EmailFor(v)
        BY <2>3, <3>1
      <4>2. <<EmailFor(u), u>> \in boot /\ <<EmailFor(u), v>> \in boot
        BY <2>1, <3>1, <4>1
      <4> QED BY <4>2 DEF IdentityInv, BootOK
    <3>2. ASSUME NEW x \in Booted, NEW y \in Users \ Booted
          PROVE  ~(rows[y].status = "resolved" /\ rows[y].email = EmailFor(x))
      <4>1. ~IsMine(y, EmailFor(x))
        BY <1>4 DEF BatchFits
      <4> QED BY <4>1 DEF IsMine, Resolved
    <3>3. CASE u \in Booted /\ v \notin Booted
      BY <2>2, <2>3, <3>3, <3>2
    <3>4. CASE u \notin Booted /\ v \in Booted
      BY <2>2, <2>3, <3>4, <3>2
    <3>5. CASE u \notin Booted /\ v \notin Booted
      BY <2>2, <3>5 DEF IdentityInv, EmailsNameOnePerson, Resolved
    <3> QED BY <3>1, <3>3, <3>4, <3>5
  <2>6. \A u \in Booted : rows[u].attested => Resolved(u)
    BY DEF Booted, IdentityInv, TypeOK, Resolved
  <2>7. AttestationsAreByHand'
    BY <1>4, <2>2, <2>3, <2>6 DEF IdentityInv, AttestationsAreByHand, Resolved
  <2>8. TypeOK'
    <3>1. \A u \in Users : /\ rows'[u].status \in {"none", "resolved", "deactivated"}
                           /\ rows'[u].attested => migrated' /\ rows'[u].status = "resolved"
                           /\ rows'[u].verified <= now'
      BY <1>1, <2>2, <2>3 DEF IdentityInv, TypeOK, RowsOK
    <3> QED BY <1>1, <1>4, <3>1 DEF IdentityInv, TypeOK
  <2> QED
    BY <1>2, <2>4, <2>5, <2>7, <2>8 DEF IdentityInv
<1> QED
  BY <1>3, <1>4 DEF BootstrapApplies

(* The plan of a reconciliation.                                           *)
LEMMA ReconcilePlansKeeps ==
    ASSUME IdentityAssumption, IdentityInv, NEW roster \in SUBSET Users, NEW asOf \in 0..now,
           NEW complete \in BOOLEAN, NEW confirmed \in BOOLEAN,
           ReconcilePlans(roster, asOf, complete, confirmed)
    PROVE  IdentityInv'
<1> DEFINE absent == Absent(roster, asOf)
           resolved == Cardinality({u \in Users : Resolved(u)})
           chosen == IF MayTombstone(roster, absent, complete, confirmed) THEN absent ELSE {}
           revoked == {u \in roster : Resolved(u) /\ user[u] = "inactive"}
           prior == {u \in Users : rows[u].attested}
<1>1. absent \in SUBSET (Users \ roster) /\ resolved \in Nat
  BY FS_Subset, FS_CardinalityType DEF Absent, IdentityAssumption
<1>2. plan' = [NoPlan EXCEPT
            !.at = "apply", !.asOf = asOf, !.roster = roster, !.confirmed = confirmed,
            !.resolved = resolved, !.prior = prior, !.revoke = revoked, !.tombstone = chosen]
  BY DEF ReconcilePlans
<1>3. chosen # {} => roster # {} /\ (confirmed \/ 2 * Cardinality(chosen) <= resolved)
  BY DEF MayTombstone
<1>4. chosen \in SUBSET (Users \ roster) /\ revoked \in SUBSET roster /\ prior \in SUBSET Users
      /\ asOf \in Nat
  BY <1>1 DEF IdentityInv, RowsOK
<1> HIDE DEF absent, resolved, chosen, revoked, prior
<1>5. /\ plan' \in PlanType
      /\ plan'.tombstone = chosen /\ plan'.revoke = revoked /\ plan'.roster = roster
      /\ plan'.confirmed = confirmed /\ plan'.resolved = resolved
  BY <1>1, <1>2, <1>4 DEF NoPlan, PlanType
<1>6. AbsenceIsBounded'
  BY <1>3, <1>5 DEF AbsenceIsBounded
<1>7. UNCHANGED <<user, rows, migrated, grants, now, signin, boot, attest, hand>>
  BY DEF ReconcilePlans
<1>8. RowsOK' /\ EmailsNameOnePerson' /\ AttestationsAreByHand'
  BY <1>7, RowsStand
<1>9. TypeOK' /\ SignInsOK' /\ BootOK'
  BY <1>4, <1>5, <1>7 DEF IdentityInv, TypeOK, SignInsOK, BootOK
<1> QED
  BY <1>5, <1>6, <1>8, <1>9 DEF IdentityInv

(* A row is deprovisioned: it names nobody any more and attests nothing.   *)
LEMMA DeprovisionKeeps ==
    ASSUME IdentityAssumption, IdentityInv, NEW u \in Users, Deprovision(u)
    PROVE  IdentityInv'
<1> DEFINE r == IF rows[u].status = "none" THEN rows[u]
                ELSE [status |-> "deactivated", email |-> rows[u].email, verified |-> now,
                      attested |-> ClearedAttestation(u), prior |-> u \in plan.prior]
<1>1. /\ r \in RowType /\ rows' = [rows EXCEPT ![u] = r]
      /\ r.status \in {"none", "deactivated"} /\ r.verified <= now /\ ~r.attested
  BY DEF IdentityInv, TypeOK, RowsOK, RowType, Deprovision, ClearedAttestation
<1>2. UNCHANGED <<user, migrated, grants, now, signin, boot, attest, runs, hand>>
  BY DEF Deprovision
<1> HIDE DEF r
<1>3. RowsOK' /\ (\A v \in Users : rows'[v] = IF v = u THEN r ELSE rows[v])
  BY <1>1, <1>2, OneRowChanges
<1>4. EmailsNameOnePerson' /\ AttestationsAreByHand'
  BY <1>1, <1>2, <1>3 DEF IdentityInv, EmailsNameOnePerson, AttestationsAreByHand, Resolved
<1>5. /\ plan' \in PlanType
      /\ plan'.tombstone = plan.tombstone \ {u} /\ plan'.revoke = plan.revoke \ {u}
      /\ plan'.roster = plan.roster /\ plan'.confirmed = plan.confirmed
      /\ plan'.resolved = plan.resolved
  BY DEF IdentityInv, PlanType, Deprovision
<1>6. AbsenceIsBounded'
  <2>1. IsFiniteSet(plan.tombstone)
    BY FS_Subset DEF IdentityInv, PlanType, IdentityAssumption
  <2>2. /\ Cardinality(plan'.tombstone) <= Cardinality(plan.tombstone)
        /\ Cardinality(plan'.tombstone) \in Nat /\ Cardinality(plan.tombstone) \in Nat
    BY <1>5, <2>1, FS_Subset, FS_CardinalityType
  <2>3. plan.resolved \in Nat
    BY DEF IdentityInv, PlanType
  <2> QED
    BY <1>5, <2>2, <2>3 DEF IdentityInv, AbsenceIsBounded
<1>7. TypeOK'
  BY <1>1, <1>2, <1>3, <1>5 DEF IdentityInv, TypeOK
<1>8. SignInsOK' /\ BootOK'
  BY <1>2 DEF IdentityInv, SignInsOK, BootOK
<1> QED
  BY <1>3, <1>4, <1>5, <1>6, <1>7, <1>8 DEF IdentityInv

LEMMA PlanGoesOnKeeps ==
    ASSUME IdentityAssumption, IdentityInv, Sweep \/ ReconcileEnds
    PROVE  IdentityInv'
<1>1. UNCHANGED <<user, rows, migrated, now, signin, boot, attest, runs, hand>>
      /\ grants' \subseteq Emails
  BY DEF Sweep, ReconcileEnds, IdentityInv, TypeOK
<1>2. \/ plan' = NoPlan
      \/ /\ plan' \in PlanType
         /\ plan'.tombstone = plan.tombstone /\ plan'.revoke = plan.revoke
         /\ plan'.roster = plan.roster /\ plan'.confirmed = plan.confirmed
         /\ plan'.resolved = plan.resolved
  BY DEF Sweep, ReconcileEnds, IdentityInv, PlanType
<1>3. plan' \in PlanType /\ AbsenceIsBounded' /\ plan'.revoke \cap plan'.tombstone = {}
  <2>1. CASE plan' = NoPlan
    BY <2>1 DEF NoPlan, PlanType, AbsenceIsBounded
  <2>2. CASE plan' # NoPlan
    BY <1>2, <2>2 DEF IdentityInv, TypeOK, AbsenceIsBounded
  <2> QED BY <2>1, <2>2
<1>4. RowsOK' /\ EmailsNameOnePerson' /\ AttestationsAreByHand'
  BY <1>1, RowsStand
<1>5. TypeOK' /\ SignInsOK' /\ BootOK'
  BY <1>1, <1>3 DEF IdentityInv, TypeOK, SignInsOK, BootOK
<1> QED
  BY <1>3, <1>4, <1>5 DEF IdentityInv

(* The attestation command.                                                *)
LEMMA AttestKeeps ==
    ASSUME IdentityAssumption, IdentityInv,
           (\E u \in Users : AttestFinds(u)) \/ (\E a \in BOOLEAN : AttestWrites(a))
    PROVE  IdentityInv'
<1>1. UNCHANGED <<user, migrated, grants, now, signin, plan, boot>>
  BY DEF AttestFinds, AttestWrites
<1>2. SignInsOK' /\ plan' \in PlanType /\ BootOK' /\ AbsenceIsBounded'
  BY <1>1 DEF IdentityInv, SignInsOK, BootOK, AbsenceIsBounded
<1>3. CASE UNCHANGED <<rows, hand>>
  <2>1. RowsOK' /\ EmailsNameOnePerson' /\ AttestationsAreByHand'
    BY <1>1, <1>3, RowsStand
  <2>2. attest' \in Users \cup {None}
    BY DEF AttestFinds, AttestWrites
  <2>3. TypeOK'
    BY <1>1, <1>3, <2>2 DEF IdentityInv, TypeOK
  <2> QED
    BY <1>2, <2>1, <2>3 DEF IdentityInv
<1>4. CASE ~UNCHANGED <<rows, hand>>
  <2>1. PICK a \in BOOLEAN : AttestWrites(a) /\ migrated /\ AttestTarget(attest) /\ attest # None
    BY <1>4 DEF AttestFinds, AttestWrites
  <2>2. PICK u \in Users : u = attest
    BY <2>1 DEF IdentityInv, TypeOK
  <2> DEFINE r == [rows[u] EXCEPT !.attested = a]
  <2>3. /\ r \in RowType /\ rows' = [rows EXCEPT ![u] = r]
        /\ r.status = "resolved" /\ r.email = rows[u].email /\ r.attested = a
        /\ r.email \in Emails
        /\ r.verified = rows[u].verified
    BY <2>1, <2>2 DEF AttestWrites, AttestTarget, Resolved, IdentityInv, RowsOK, RowType
  <2> HIDE DEF r
  <2>4. RowsOK' /\ (\A v \in Users : rows'[v] = IF v = u THEN r ELSE rows[v])
    BY <1>1, <2>3, OneRowChanges
  <2>5. hand' = IF a THEN hand \cup {u} ELSE hand \ {u}
    BY <2>1, <2>2 DEF AttestWrites, AttestTarget
  <2>6. Resolved(u) /\ attest' = None
    BY <2>1, <2>2 DEF AttestWrites, AttestTarget
  <2>7. EmailsNameOnePerson'
    BY <2>3, <2>4, <2>6 DEF IdentityInv, EmailsNameOnePerson, Resolved
  <2>8. AttestationsAreByHand'
    BY <2>3, <2>4, <2>5 DEF IdentityInv, AttestationsAreByHand, Resolved
  <2>9. TypeOK'
    <3>1. hand' \subseteq Users
      BY <2>5 DEF IdentityInv, TypeOK
    <3> QED BY <1>1, <2>1, <2>3, <2>4, <2>6, <3>1 DEF IdentityInv, TypeOK
  <2> QED
    BY <1>2, <2>4, <2>7, <2>8, <2>9 DEF IdentityInv
<1> QED
  BY <1>3, <1>4

(* The world around: sessions, the migration, the clock, Greenhouse.       *)
LEMMA SurroundingsKeep ==
    ASSUME IdentityAssumption, IdentityInv,
           \/ \E u \in Users : OpenSession(u)
           \/ Migrate \/ Pass
           \/ \E u \in Users, s \in Statuses : GreenhouseChanges(u, s)
    PROVE  IdentityInv'
<1>1. UNCHANGED <<rows, signin, plan, boot, attest, runs, hand>>
  BY DEF OpenSession, Migrate, Pass, GreenhouseChanges, commands
<1>2. now' \in Nat /\ now <= now' /\ (migrated => migrated')
  BY DEF OpenSession, Migrate, Pass, GreenhouseChanges, commands, IdentityInv, RowsOK
<1>3. grants' \subseteq Emails
  <2>1. CASE \E u \in Users : OpenSession(u)
    <3>1. PICK u \in Users : OpenSession(u)
      BY <2>1
    <3> QED BY <3>1 DEF OpenSession, IdentityInv, TypeOK, RowsOK
  <2>2. CASE ~\E u \in Users : OpenSession(u)
    BY <2>2 DEF Migrate, Pass, GreenhouseChanges, IdentityInv, TypeOK
  <2> QED BY <2>1, <2>2
<1>4. user' \in [Users -> Statuses]
  BY DEF OpenSession, Migrate, Pass, GreenhouseChanges, IdentityInv, TypeOK
<1>5. RowsOK' /\ EmailsNameOnePerson' /\ AttestationsAreByHand'
  BY <1>1, <1>2 DEF IdentityInv, RowsOK, EmailsNameOnePerson, AttestationsAreByHand, Resolved
<1>6. TypeOK'
  BY <1>1, <1>2, <1>3, <1>4 DEF IdentityInv, TypeOK, RowsOK, RowType
<1>7. SignInsOK' /\ plan' \in PlanType /\ BootOK' /\ AbsenceIsBounded'
  BY <1>1 DEF IdentityInv, SignInsOK, BootOK, AbsenceIsBounded
<1> QED
  BY <1>5, <1>6, <1>7 DEF IdentityInv

(* The invariant of the identity directory, for any people, addresses,     *)
(* sign-ins and commands.                                                  *)
THEOREM IdentityInvariance ==
    ASSUME IdentityAssumption
    PROVE  Spec => []IdentityInv
<1>1. Init => IdentityInv
  BY IdentityStarts
<1>2. IdentityInv /\ [Next]_vars => IdentityInv'
  <2> SUFFICES ASSUME IdentityInv, [Next]_vars PROVE IdentityInv'
    OBVIOUS
  <2>1. ASSUME NEW s \in SignIns,
               \/ \E e \in Emails : SignInReads(s, e)
               \/ SignInChecks(s) \/ SignInDiagnoses(s) \/ SignInFails(s)
        PROVE  IdentityInv'
    BY <2>1, SignInKeeps
  <2>2. ASSUME NEW s \in SignIns, SignInInserts(s) PROVE IdentityInv'
    BY <2>2, SignInInsertsKeeps
  <2>3. ASSUME NEW b \in SUBSET Emails, NEW file \in [Users -> Statuses], BootstrapPlans(b, file) PROVE IdentityInv'
    BY <2>3, BootstrapPlansKeeps
  <2>4. CASE BootstrapApplies
    BY <2>4, BootstrapAppliesKeeps
  <2>5. ASSUME NEW r \in SUBSET Users, NEW t \in 0..now, NEW complete \in BOOLEAN,
               NEW confirmed \in BOOLEAN, ReconcilePlans(r, t, complete, confirmed)
        PROVE  IdentityInv'
    BY <2>5, ReconcilePlansKeeps
  <2>6. ASSUME NEW u \in Users, Deprovision(u) PROVE IdentityInv'
    BY <2>6, DeprovisionKeeps
  <2>7. CASE Sweep \/ ReconcileEnds
    BY <2>7, PlanGoesOnKeeps
  <2>8. CASE (\E u \in Users : AttestFinds(u)) \/ (\E a \in BOOLEAN : AttestWrites(a))
    BY <2>8, AttestKeeps
  <2>9. CASE \/ \E u \in Users : OpenSession(u)
             \/ Migrate \/ Pass
             \/ \E u \in Users, s \in Statuses : GreenhouseChanges(u, s)
    BY <2>9, SurroundingsKeep
  <2>10. CASE UNCHANGED vars
    BY <2>10 DEF vars, IdentityInv, TypeOK, RowsOK, SignInsOK, BootOK, EmailsNameOnePerson,
                 AbsenceIsBounded, AttestationsAreByHand, Resolved
  <2> QED
    BY <2>1, <2>2, <2>3, <2>4, <2>5, <2>6, <2>7, <2>8, <2>9, <2>10 DEF Next
<1> QED
  BY <1>1, <1>2, PTL DEF Spec

(* An email resolves to one person at any moment, whatever sign-ins and    *)
(* bootstraps race (the unique indexes of migration 0001 at work).         *)
THEOREM EmailsStaySingle ==
    ASSUME IdentityAssumption
    PROVE  Spec => []EmailsNameOnePerson
<1>1. IdentityInv => EmailsNameOnePerson
  BY DEF IdentityInv
<1> QED
  BY <1>1, IdentityInvariance, PTL

(* An incomplete roster never deprovisions more people than it may.        *)
THEOREM TombstonesAreBounded ==
    ASSUME IdentityAssumption
    PROVE  Spec => []AbsenceIsBounded
<1>1. IdentityInv => AbsenceIsBounded
  BY DEF IdentityInv
<1> QED
  BY <1>1, IdentityInvariance, PTL

(* Nobody is attested but by hand since the row last was made resolved.    *)
THEOREM NothingRevivesAnAttestation ==
    ASSUME IdentityAssumption
    PROVE  Spec => []AttestationsAreByHand
<1>1. IdentityInv => AttestationsAreByHand
  BY DEF IdentityInv
<1> QED
  BY <1>1, IdentityInvariance, PTL

(* No step of a sign-in changes a row that is there (oauth-enroll.ts).     *)
THEOREM SignInsReverseNothing ==
    ASSUME IdentityAssumption
    PROVE  Spec => [][SignInsNeverReverse]_vars
<1>1. IdentityInv /\ [Next]_vars => [SignInsNeverReverse]_vars
  <2> SUFFICES ASSUME IdentityInv, Next, signin' # signin
               PROVE  \A u \in Users : Exists(u) => rows'[u] = rows[u]
    BY DEF SignInsNeverReverse
  <2>1. PICK s \in SignIns :
           \/ \E e \in Emails : SignInReads(s, e)
           \/ SignInChecks(s) \/ SignInInserts(s) \/ SignInDiagnoses(s) \/ SignInFails(s)
    BY DEF Next, BootstrapPlans, BootstrapApplies, ReconcilePlans, Deprovision, Sweep,
           ReconcileEnds, AttestFinds, AttestWrites, OpenSession, Migrate, Pass,
           GreenhouseChanges, commands
  <2>2. CASE SignInInserts(s)
    BY <2>2, SignInInsertsKeeps
  <2>3. CASE ~SignInInserts(s)
    BY <2>1, <2>3 DEF SignInReads, SignInChecks, SignInDiagnoses, SignInFails
  <2> QED
    BY <2>2, <2>3
<1> QED
  BY <1>1, IdentityInvariance, PTL DEF Spec
=============================================================================
