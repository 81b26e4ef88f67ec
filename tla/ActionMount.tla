---------------------------- MODULE ActionMount ----------------------------
(***************************************************************************)
(* How a recruiter's session comes to act: ingress (auth.ts), the bridge   *)
(* to an action session (action-session.ts), the mount of the write tools  *)
(* (action-plane.ts), and for one write the authorisation of the action    *)
(* service and the visibility probe that runs the session's own read       *)
(* (action-visibility.ts).  Beside it the cached catalog answer of         *)
(* action-entitlement.ts.                                                  *)
(*                                                                         *)
(* Two planes resolve one session: the read plane by email and by subject, *)
(* over a relation and columns that the environment may name               *)
(* (identity.ts); the action plane by subject alone, over the canonical    *)
(* table (store.ts).  Users have one canonical row each, and its uuid is   *)
(* the user itself.  Every lookup is a step.                               *)
(***************************************************************************)
EXTENDS Naturals, FiniteSets, FiniteSetTheorems, TLAPS

CONSTANTS
    Users, Emails, Opaque,     \* Greenhouse users, addresses, Google subjects
    Sessions, Tables, Views,   \* sessions, directories and custom relations to start from
    Deploys,                   \* states of the write plane to start from
    Custom,                    \* reads resolve over other rows: a static list, a custom relation
    Named,                     \* a table, subject or row-id setting names a relation
    TTL,                       \* of the cached catalog answers
    MaxTime, MaxChanges,       \* of the clock; operator changes
    MaxRequests, MaxAsks,
    None

MountAssumption ==
    /\ TTL \in Nat \ {0} /\ MaxTime \in Nat /\ MaxChanges \in Nat
    /\ Custom \in BOOLEAN /\ Named \in BOOLEAN /\ Deploys \subseteq {"off", "broken", "up"} /\ None \notin Users \cup Emails \cup Opaque
    /\ IsFiniteSet(Users) /\ \A s \in Sessions : s.subject.kind \in {"email", "opaque"}
    /\ \A V \in Views : \A r \in V : r.user \in Users /\ r.id \in Users \cup {None}

VARIABLES
    session,   \* what the signed token says
    deploy,    \* the write plane: "off", "broken" or "up"
    table,     \* canonical directory: [Users -> email, subject, resolved]
    view,      \* rows of the custom relation
    hasId,     \* the relation that is read has the row-id column
    learned,   \* this process knows that it has not
    missed,    \* (history) it once had not
    grant,     \* [Users -> live, until] of this session's client
    revoked,   \* "parent" and "derived" ids that are revoked
    now, changes, changed,   \* changed: time of the last change of the grant
    req,       \* the request in flight
    ask,       \* the catalog question in flight
    memo       \* the cached catalog answer of one key

vars == <<session, deploy, table, view, hasId, learned, missed, grant, revoked, now, changes,
          changed, req, ask, memo>>
world == <<session, deploy, table, view, hasId, missed, grant, revoked, now, changes, changed>>

Idle == [at |-> "idle", n |-> 0, actor |-> None, reader |-> None, stable |-> TRUE,
         dead |-> FALSE, lapsed |-> FALSE]
NoMemo == [user |-> None, until |-> 0, visible |-> FALSE]
NoAsk == [at |-> "idle", n |-> 0, user |-> None, visible |-> FALSE]

-----------------------------------------------------------------------------
(***************************************************************************)
(* Sessions.  A subject is [kind |-> "email" or "opaque", of |-> ...].     *)
(***************************************************************************)

NamesOneActor(s) == s.subject.kind = "opaque" \/ (s.email # None /\ s.subject.of = s.email)

Compatible(client, surface) ==
    \/ client \in {"desktop", "code"} /\ surface = "claude_desktop"
    \/ client = "codex" /\ surface = "chatgpt_desktop"

TokenAccepted(s) ==
    /\ NamesOneActor(s)
    /\ s.client # None => Compatible(s.client, s.surface)

\* The signed client; of a legacy token, the one that its surface implies.
DerivedClient(s) ==
    IF s.client # None THEN s.client
    ELSE IF s.surface = "claude_desktop" THEN "desktop"
    ELSE IF s.surface = "chatgpt_desktop" THEN "codex" ELSE None

-----------------------------------------------------------------------------
(***************************************************************************)
(* The read plane's resolution: the rows of the email and the rows of the  *)
(* subject must name one user; one row id, and no row without one, or the  *)
(* answer has none.                                                        *)
(***************************************************************************)
Canonical == {[email |-> table[u].email, subject |-> table[u].subject, user |-> u, id |-> u] :
              u \in {v \in Users : table[v].resolved}}
Relation == IF Custom THEN view ELSE Canonical

Matched(s) == {r \in Relation : \/ s.email # None /\ r.email = s.email
                                \/ s.subject.kind = "opaque" /\ r.subject = s.subject.of}

ReadsAs(s) ==
    LET ids == {r.user : r \in Matched(s)}
    IN  IF ids = {} THEN [status |-> "unresolved", user |-> None]
        ELSE IF Cardinality(ids) > 1 THEN [status |-> "ambiguous", user |-> None]
        ELSE [status |-> "resolved", user |-> CHOOSE u \in ids : TRUE]

SoleId(s, withId) ==
    LET ids == IF withId THEN {r.id : r \in Matched(s)} ELSE {None}
    IN  IF Cardinality(ids) = 1 THEN CHOOSE i \in ids : TRUE ELSE None

\* The action plane's resolution: exactly one canonical row, by the subject.
ActsAs(s) ==
    LET rows == {u \in Users : /\ table[u].resolved
                               /\ IF s.subject.kind = "email" THEN table[u].email = s.subject.of
                                  ELSE table[u].subject = s.subject.of}
    IN  IF Cardinality(rows) = 1 THEN CHOOSE u \in rows : TRUE ELSE None

Live(u) == grant[u].on /\ now < grant[u].until

-----------------------------------------------------------------------------
Rows == [email : Emails \cup {None}, subject : Opaque \cup {None}, resolved : BOOLEAN]
\* The unique indexes of migration 0001.
Unique(t) == \A u, v \in Users : (u # v /\ t[u].resolved /\ t[v].resolved) =>
                /\ t[u].email # t[v].email
                /\ t[u].subject # None => t[u].subject # t[v].subject

TypeOK ==
    /\ session \in Sessions
    /\ table \in [Users -> Rows] /\ Unique(table)
    /\ req.actor \in Users \cup {None} /\ req.reader \in Users \cup {None}
    /\ req.at \in {"sent", "probe"} => req.actor # None
    /\ memo.user \in Users \cup {None} /\ memo.until <= now + TTL
    /\ learned \in BOOLEAN /\ revoked \subseteq {"parent", "derived"}

Init ==
    /\ session \in Sessions
    /\ deploy \in Deploys
    /\ table \in {t \in Tables : Unique(t)}
    /\ view \in Views
    /\ hasId \in (IF Custom THEN BOOLEAN ELSE {TRUE})
    /\ learned = FALSE /\ missed = ~hasId
    /\ grant \in [Users -> [on : BOOLEAN, until : {MaxTime, MaxTime + 1}]]
    /\ revoked = {} /\ now = 0 /\ changes = 0 /\ changed = [u \in Users |-> 0]
    /\ req = Idle /\ ask = NoAsk /\ memo = NoMemo

-----------------------------------------------------------------------------
(***************************************************************************)
(* A request: ingress, mount, one write.                                   *)
(***************************************************************************)
Serving(r) == req' = r /\ UNCHANGED <<world, learned, ask, memo>>

\* A revocation that cannot be looked up refuses the session.
Ingress ==
    /\ req.at \in {"idle", "done", "refused"} /\ req.n < MaxRequests
    /\ \/ /\ TokenAccepted(session) /\ session.token /\ "parent" \notin revoked
          /\ Serving([Idle EXCEPT !.at = "valid", !.n = req.n + 1])
       \/ Serving([Idle EXCEPT !.at = "refused", !.n = req.n + 1])

\* Whatever fails, the session is left with its reads.
MountBridges ==
    /\ req.at = "valid"
    /\ Serving([req EXCEPT !.at =
         IF deploy = "up" /\ DerivedClient(session) # None THEN "bridged" ELSE "reads"])

MountChecks ==
    /\ req.at = "bridged"
    /\ \/ Serving([req EXCEPT !.at =
             IF ActsAs(session) # None /\ Live(ActsAs(session)) THEN "mounted" ELSE "reads"])
       \/ Serving([req EXCEPT !.at = "reads"])      \* the store is down

Finish == req.at \in {"reads", "mounted", "denied", "sent"} /\ Serving([req EXCEPT !.at = "done"])

\* From here on: assertNotRevoked, identity, entitlement, probe, send.
WriteAsks ==
    /\ req.at = "mounted"
    /\ Serving([req EXCEPT !.at = "asked", !.stable = TRUE,
                           !.dead = revoked # {},
                           !.lapsed = ActsAs(session) # None /\ ~Live(ActsAs(session))])

SessionRevoked == revoked # {}

NotRevoked ==
    /\ req.at = "asked"
    /\ Serving([req EXCEPT !.at = IF SessionRevoked THEN "denied" ELSE "vetted"])

WriterResolves ==
    /\ req.at = "vetted"
    /\ Serving(IF ActsAs(session) = None THEN [req EXCEPT !.at = "denied"]
               ELSE [req EXCEPT !.at = "known", !.actor = ActsAs(session)])

GrantRead(u) == Live(u)

WriterEntitled ==
    /\ req.at = "known"
    /\ Serving([req EXCEPT !.at = IF GrantRead(req.actor) THEN "probe" ELSE "denied"])

\* The target may be hidden from the reader, or the read or its audit fail.
Probe ==
    /\ req.at = "probe"
    /\ \/ /\ ReadsAs(session).status = "resolved"
          /\ Serving([req EXCEPT !.at = "sent", !.reader = ReadsAs(session).user])
       \/ Serving([req EXCEPT !.at = "denied"])

AnyLookupFails == req.at \in {"asked", "vetted", "known"} /\ Serving([req EXCEPT !.at = "denied"])

-----------------------------------------------------------------------------
(***************************************************************************)
(* resolveActionCatalogVisibility, for callers that ask: the fence of the  *)
(* settings that name another relation, identity with its row id, then the *)
(* memo, then the entitlement row.                                         *)
(***************************************************************************)
Asking(a) == ask' = a /\ UNCHANGED <<world, req>>
NotVisible == [ask EXCEPT !.at = "answered", !.visible = FALSE]

AskStarts ==
    /\ ask.at \in {"idle", "answered"} /\ ask.n < MaxAsks
    /\ UNCHANGED <<learned, memo>>
    /\ Asking([NoAsk EXCEPT !.n = ask.n + 1, !.at =
         IF ~NamesOneActor(session) \/ session.client = None
            \/ ~Compatible(session.client, session.surface) \/ Named THEN "answered" ELSE "lookup"])

Identified(withId) ==
    IF ReadsAs(session).status = "resolved" /\ SoleId(session, withId) # None
    THEN [ask EXCEPT !.at = "entitlement", !.user = SoleId(session, withId)]
    ELSE NotVisible

\* Asks for the row id unless the process knows better.
AskLooksUp ==
    /\ ask.at = "lookup"
    /\ UNCHANGED <<learned, memo>>
    /\ \/ Asking(IF learned THEN Identified(FALSE)
                 ELSE IF hasId THEN Identified(TRUE) ELSE [ask EXCEPT !.at = "retry"])
       \/ Asking(NotVisible)                       \* lookup failed

LearnsIfRead(ok) == learned' = (learned \/ ok)

\* The same select without the row id; only its success teaches.
AskRetries ==
    /\ ask.at = "retry"
    /\ UNCHANGED memo
    /\ \/ LearnsIfRead(TRUE) /\ Asking(Identified(FALSE))
       \/ LearnsIfRead(FALSE) /\ Asking(NotVisible)

KeptUntil(u) == IF Live(u) /\ grant[u].until < now + TTL THEN grant[u].until ELSE now + TTL

AskEntitlement ==
    /\ ask.at = "entitlement"
    /\ UNCHANGED learned
    /\ LET u == ask.user
           done(v) == [ask EXCEPT !.at = "answered", !.visible = v]
       IN IF memo.user = u /\ now < memo.until
          THEN Asking(done(memo.visible)) /\ UNCHANGED memo
          ELSE \/ /\ memo' = [user |-> u, until |-> KeptUntil(u), visible |-> Live(u)]
                  /\ Asking(done(Live(u)))
               \/ Asking(NotVisible) /\ UNCHANGED memo     \* a failure is not cached

-----------------------------------------------------------------------------
(***************************************************************************)
(* Operators, the column and the clock.                                    *)
(***************************************************************************)
Change == changes < MaxChanges /\ changes' = changes + 1
kept == <<learned, ask, memo>>

GrantChanges(u, on) ==
    /\ Change /\ grant' = [grant EXCEPT ![u].on = on]
    /\ changed' = [changed EXCEPT ![u] = now]
    /\ req' = IF on THEN [req EXCEPT !.stable = FALSE] ELSE req
    /\ UNCHANGED <<session, deploy, table, view, hasId, missed, revoked, now, kept>>

Revoke(id) ==
    /\ Change /\ id \notin revoked /\ revoked' = revoked \cup {id}
    /\ UNCHANGED <<session, deploy, table, view, hasId, missed, grant, now, changed, req, kept>>

DirectoryChanges(u, row) ==
    /\ Change /\ row # table[u] /\ Unique([table EXCEPT ![u] = row]) /\ row.email # None
    /\ table' = [table EXCEPT ![u] = row]
    /\ req' = [req EXCEPT !.stable = FALSE]
    /\ UNCHANGED <<session, deploy, view, hasId, missed, grant, revoked, now, changed, kept>>

ColumnChanges ==
    /\ Custom /\ Change /\ hasId' = ~hasId /\ missed' = (missed \/ hasId)
    /\ UNCHANGED <<session, deploy, table, view, grant, revoked, now, changed, req, kept>>

Tick ==
    /\ now < MaxTime /\ now' = now + 1
    /\ UNCHANGED <<session, deploy, table, view, hasId, missed, grant, revoked, changes, changed,
                   req, kept>>

Handles == MountBridges \/ MountChecks \/ NotRevoked \/ WriterResolves \/ WriterEntitled \/ Probe
           \/ AnyLookupFails
Answers == AskLooksUp \/ AskRetries \/ AskEntitlement

Next == \/ Ingress \/ Handles \/ Finish \/ WriteAsks \/ AskStarts \/ Answers \/ Tick
        \/ \E u \in Users, on \in BOOLEAN : GrantChanges(u, on)
        \/ \E id \in {"parent", "derived"} : Revoke(id)
        \/ (\E u \in Users, row \in Rows : DirectoryChanges(u, row)) \/ ColumnChanges

Spec == Init /\ [][Next]_vars

-----------------------------------------------------------------------------
\* The person a write is made for is the person whose reads vetted it: the
\* two planes resolve one session alike while the directory stands still.
OneActorPerWrite == (req.at = "sent" /\ req.stable) => req.actor = req.reader

\* A write that was asked for after its session was revoked, by the
\* recruiter's token or the derived one, does not go out; nor one that was
\* asked for after its grant had ended, whatever the mount had seen, unless
\* an operator granted it again meanwhile or moved the directory.
EndedAuthoritySendsNothing ==
    req.at = "sent" => ~req.dead /\ (req.lapsed => ~req.stable)

\* Nothing of the write plane, down or misconfigured, costs a session that
\* was let in its reads.
LetIn == req.at = "valid"
Served == req.at \in {"reads", "mounted", "done"}

\* Tools are shown only on a grant that is live, or was changed by an
\* operator less than a time to live ago; never past the row's own expiry.
VisibilityIsBounded ==
    (ask.at = "entitlement" /\ memo.user = ask.user /\ now < memo.until /\ memo.visible) =>
        \/ Live(ask.user)
        \/ changed[ask.user] + TTL >= now /\ now < grant[ask.user].until

\* The entitlement is asked for the row that every matching row agrees on.
KeysAreUnanimous ==
    (ask.at = "lookup" /\ ask'.at = "entitlement") =>
       \A r \in Matched(session) : r.id = ask'.user

\* The process believes that a column is missing only if it once was.
LearnedAbsenceWasReal == learned => missed

-----------------------------------------------------------------------------
(***************************************************************************)
(* The proofs.  MountInv: what a write under way has established is still  *)
(* so while the directory stands still; what it was refused by before it   *)
(* asked, it is refused by; and what the memo shows was live when kept.    *)
(***************************************************************************)
Steps == {"idle", "refused", "valid", "bridged", "mounted", "reads", "asked", "vetted",
          "known", "probe", "sent", "denied", "done"}

TypesOK ==
    /\ session \in Sessions /\ view \in Views /\ hasId \in BOOLEAN /\ learned \in BOOLEAN /\ missed \in BOOLEAN
    /\ now \in Nat /\ changed \in [Users -> Nat]
    /\ grant \in [Users -> [on : BOOLEAN, until : Nat]]
    /\ req \in [at : Steps, n : Nat, actor : Users \cup {None}, reader : Users \cup {None},
                stable : BOOLEAN, dead : BOOLEAN, lapsed : BOOLEAN]
    /\ ask \in [at : {"idle", "lookup", "retry", "entitlement", "answered"}, n : Nat,
                user : Users \cup {None}, visible : BOOLEAN]
    /\ ask.at = "entitlement" => ask.user # None
    /\ memo \in [user : Users \cup {None}, until : Nat, visible : BOOLEAN]

\* Who was let in named one actor, and whose grant had ended when it asked
\* is on its way to a refusal.
AskerOK ==
    /\ req.at \notin {"idle", "refused", "done"} => NamesOneActor(session)
    /\ req.at = "asked" /\ req.dead => SessionRevoked
    /\ req.at \in {"vetted", "known", "probe", "sent"} => ~req.dead
    /\ req.at \in {"asked", "vetted", "known"} /\ req.lapsed /\ req.stable =>
          ActsAs(session) # None /\ ~Live(ActsAs(session))
    /\ req.at \in {"probe", "sent"} /\ req.lapsed => ~req.stable

WriterOK ==
    /\ req.at \in {"known", "probe", "sent"} => req.actor # None
    /\ req.at \in {"known", "probe"} /\ req.stable => req.actor = ActsAs(session)
    /\ ~Custom => OneActorPerWrite

\* A visible answer ends with its row, and a time to live after the row was
\* switched off at the latest.
MemoOK ==
    memo.visible =>
        /\ memo.user \in Users
        /\ memo.until <= grant[memo.user].until /\ memo.until <= now + TTL
        /\ grant[memo.user].on \/ memo.until <= changed[memo.user] + TTL

ColumnOK ==
    /\ ~hasId \/ ask.at = "retry" => missed
    /\ LearnedAbsenceWasReal

MountInv == TypesOK /\ AskerOK /\ WriterOK /\ MemoOK /\ ColumnOK

(* A set of one is what CHOOSE says it is.                                 *)
LEMMA SoleMember ==
    ASSUME NEW S, IsFiniteSet(S), S # {}, ~(Cardinality(S) > 1)
    PROVE  /\ Cardinality(S) = 1
           /\ \E x \in S : S = {x}
           /\ (CHOOSE x \in S : TRUE) \in S /\ S = {CHOOSE x \in S : TRUE}
<1>1. Cardinality(S) \in Nat
  BY FS_CardinalityType
<1>2. Cardinality(S) # 0
  BY FS_EmptySet
<1>3. Cardinality(S) = 1
  BY <1>1, <1>2
<1>4. PICK x : S = {x}
  BY <1>3, FS_Singleton
<1>5. (CHOOSE y \in S : TRUE) = x
  BY <1>4
<1> QED
  BY <1>3, <1>4, <1>5

(* The users and row ids that a session matches are finitely many.         *)
LEMMA MatchesAreFinite ==
    ASSUME MountAssumption, view \in Views
    PROVE  /\ IsFiniteSet({r.user : r \in Matched(session)})
           /\ IsFiniteSet({r.id : r \in Matched(session)})
           /\ \A r \in Matched(session) : r.user \in Users /\ r.id \in Users \cup {None}
<1>1. \A r \in Relation : r.user \in Users /\ r.id \in Users \cup {None}
  BY DEF Relation, Canonical, MountAssumption
<1>2. IsFiniteSet(Users \cup {None})
  BY FS_AddElement DEF MountAssumption
<1>3. \A r \in Matched(session) : r.user \in Users /\ r.id \in Users \cup {None}
  BY <1>1 DEF Matched
<1>4. {r.user : r \in Matched(session)} \subseteq Users
  BY <1>3
<1>5. {r.id : r \in Matched(session)} \subseteq Users \cup {None}
  BY <1>3
<1> QED
  BY <1>2, <1>3, <1>4, <1>5, FS_Subset DEF MountAssumption

(* The reader is a user, and when the row id was asked for, the answer is  *)
(* the id of every row.                                                    *)
LEMMA ReaderIsUser ==
    ASSUME MountAssumption, view \in Views
    PROVE  ReadsAs(session).user \in Users \cup {None}
<1> DEFINE ids == {r.user : r \in Matched(session)}
<1>1. IsFiniteSet(ids) /\ ids \subseteq Users
  BY MatchesAreFinite
<1>2. CASE ids = {} \/ Cardinality(ids) > 1
  BY <1>2 DEF ReadsAs
<1>3. CASE ids # {} /\ ~(Cardinality(ids) > 1)
  <2>1. (CHOOSE u \in ids : TRUE) \in ids
    BY <1>3
  <2> HIDE DEF ids
  <2>2. (CHOOSE u \in ids : TRUE) \in Users
    BY <1>1, <2>1
  <2> USE DEF ids
  <2> QED
    BY <1>3, <2>2 DEF ReadsAs
<1> QED
  BY <1>2, <1>3

LEMMA SoleIdIsEveryones ==
    ASSUME MountAssumption, view \in Views
    PROVE  /\ \A b \in BOOLEAN : SoleId(session, b) \in Users \cup {None}
           /\ SoleId(session, FALSE) = None
           /\ SoleId(session, TRUE) # None =>
                 \A r \in Matched(session) : r.id = SoleId(session, TRUE)
<1> DEFINE ids == {r.id : r \in Matched(session)}
<1>1. IsFiniteSet(ids) /\ ids \subseteq Users \cup {None}
  BY MatchesAreFinite
<1>2. (CHOOSE i \in {None} : TRUE) = None
  OBVIOUS
<1>3. SoleId(session, FALSE) = None
  BY <1>2 DEF SoleId
<1>4. CASE Cardinality(ids) = 1
  <2>1. PICK x : ids = {x}
    BY <1>1, <1>4, FS_Singleton
  <2>2. (CHOOSE i \in ids : TRUE) = x
    BY <2>1
  <2>3. SoleId(session, TRUE) = x
    BY <1>4, <2>2 DEF SoleId
  <2>4. \A r \in Matched(session) : r.id \in ids
    OBVIOUS
  <2> QED
    BY <1>1, <1>3, <2>1, <2>3, <2>4
<1>5. CASE Cardinality(ids) # 1
  BY <1>3, <1>5 DEF SoleId
<1> QED
  BY <1>4, <1>5

(* The actor is a user with a resolved row of the session's subject.       *)
LEMMA ActorIsUser ==
    ASSUME MountAssumption, ActsAs(session) # None
    PROVE  /\ ActsAs(session) \in Users /\ table[ActsAs(session)].resolved
           /\ IF session.subject.kind = "email"
              THEN table[ActsAs(session)].email = session.subject.of
              ELSE table[ActsAs(session)].subject = session.subject.of
<1> DEFINE rows == {u \in Users : /\ table[u].resolved
                                  /\ IF session.subject.kind = "email"
                                     THEN table[u].email = session.subject.of
                                     ELSE table[u].subject = session.subject.of}
<1>1. IsFiniteSet(rows)
  BY FS_Subset DEF MountAssumption
<1>2. ActsAs(session) = IF Cardinality(rows) = 1 THEN CHOOSE u \in rows : TRUE ELSE None
  BY DEF ActsAs
<1>3. Cardinality(rows) = 1
  BY <1>2
<1>4. PICK x : rows = {x}
  BY <1>1, <1>3, FS_Singleton
<1>5. (CHOOSE u \in rows : TRUE) \in rows
  BY <1>4
<1>6. ActsAs(session) \in rows
  BY <1>2, <1>3, <1>5
<1> QED
  BY <1>6

(* While the read plane reads the canonical table, whoever it resolves a   *)
(* session to is who the action plane does.                                *)
LEMMA PlanesAgree ==
    ASSUME MountAssumption, session \in Sessions, view \in Views, ~Custom, NamesOneActor(session),
           ActsAs(session) # None, ReadsAs(session).status = "resolved"
    PROVE  ReadsAs(session).user = ActsAs(session)
<1> DEFINE a == ActsAs(session)
<1> DEFINE r == [email |-> table[a].email, subject |-> table[a].subject, user |-> a, id |-> a]
<1> DEFINE ids == {m.user : m \in Matched(session)}
<1>1. a \in Users /\ table[a].resolved
  BY ActorIsUser
<1>2. r \in Relation
  BY <1>1 DEF Relation, Canonical
<1>3. r \in Matched(session)
  <2>1. \/ session.email # None /\ r.email = session.email
        \/ session.subject.kind = "opaque" /\ r.subject = session.subject.of
    BY ActorIsUser DEF NamesOneActor, MountAssumption
  <2> HIDE DEF r
  <2> QED
    BY <1>2, <2>1 DEF Matched
<1>4. a \in ids
  BY <1>3
<1>5. IsFiniteSet(ids)
  BY MatchesAreFinite
<1>6. ids # {} /\ ~(Cardinality(ids) > 1)
  BY DEF ReadsAs
<1>7. ids = {CHOOSE u \in ids : TRUE}
  BY <1>5, <1>6, SoleMember
<1>8. ReadsAs(session).user = CHOOSE u \in ids : TRUE
  BY <1>6 DEF ReadsAs
<1> QED
  BY <1>4, <1>7, <1>8

-----------------------------------------------------------------------------
LEMMA MountStarts ==
    ASSUME MountAssumption
    PROVE  Init => MountInv
<1> SUFFICES ASSUME Init PROVE MountInv
  OBVIOUS
<1>1. TypesOK
  <2>1. hasId \in BOOLEAN /\ missed \in BOOLEAN /\ learned \in BOOLEAN
    BY DEF Init
  <2>2. grant \in [Users -> [on : BOOLEAN, until : Nat]] /\ changed \in [Users -> Nat]
    BY DEF Init, MountAssumption
  <2>3. /\ Idle \in [at : Steps, n : Nat, actor : Users \cup {None}, reader : Users \cup {None},
                     stable : BOOLEAN, dead : BOOLEAN, lapsed : BOOLEAN]
        /\ NoAsk \in [at : {"idle", "lookup", "retry", "entitlement", "answered"}, n : Nat,
                      user : Users \cup {None}, visible : BOOLEAN]
        /\ NoMemo \in [user : Users \cup {None}, until : Nat, visible : BOOLEAN]
    BY DEF Idle, NoAsk, NoMemo, Steps
  <2> QED
    BY <2>1, <2>2, <2>3 DEF Init, TypesOK, NoAsk
<1>2. AskerOK /\ WriterOK
  BY DEF Init, AskerOK, WriterOK, OneActorPerWrite, Idle
<1>3. MemoOK /\ ColumnOK
  BY DEF Init, MemoOK, ColumnOK, NoMemo, NoAsk, LearnedAbsenceWasReal
<1> QED
  BY <1>1, <1>2, <1>3 DEF MountInv

(* A request moves, and nothing around it.                                 *)
LEMMA RequestMoves ==
    ASSUME MountAssumption, MountInv, Ingress \/ Handles \/ Finish \/ WriteAsks
    PROVE  MountInv'
<1>1. UNCHANGED <<world, learned, ask, memo>>
  BY DEF Ingress, Handles, Finish, WriteAsks, Serving, MountBridges, MountChecks, NotRevoked,
         WriterResolves, WriterEntitled, Probe, AnyLookupFails
<1>2. ActsAs(session)' = ActsAs(session) /\ (NamesOneActor(session)' <=> NamesOneActor(session))
  BY <1>1 DEF world, ActsAs, NamesOneActor
<1>3. \A u : Live(u)' <=> Live(u)
  BY <1>1 DEF world, Live
<1>4. MemoOK' /\ ColumnOK'
  BY <1>1 DEF MountInv, MemoOK, ColumnOK, world, LearnedAbsenceWasReal
<1>5. ActsAs(session) \in Users \cup {None}
  BY ActorIsUser
<1>6. ReadsAs(session).user \in Users \cup {None}
  BY ReaderIsUser DEF MountInv, TypesOK
<1>7. TypesOK'
  <2>1. req' \in [at : Steps, n : Nat, actor : Users \cup {None}, reader : Users \cup {None},
                  stable : BOOLEAN, dead : BOOLEAN, lapsed : BOOLEAN]
    <3>1. CASE Ingress
      <4>1. Idle \in [at : Steps, n : Nat, actor : Users \cup {None}, reader : Users \cup {None},
                      stable : BOOLEAN, dead : BOOLEAN, lapsed : BOOLEAN]
        BY DEF Idle, Steps
      <4>2. req.n + 1 \in Nat
        BY DEF MountInv, TypesOK
      <4>3. req' = [Idle EXCEPT !.at = "valid", !.n = req.n + 1]
            \/ req' = [Idle EXCEPT !.at = "refused", !.n = req.n + 1]
        BY <3>1 DEF Ingress, Serving
      <4> HIDE DEF Idle
      <4> QED
        BY <4>1, <4>2, <4>3 DEF Steps
    <3>2. CASE Finish \/ MountBridges \/ MountChecks \/ AnyLookupFails \/ NotRevoked \/ WriterEntitled
      BY <3>2 DEF MountInv, TypesOK, Steps, Finish, MountBridges, MountChecks, AnyLookupFails,
         NotRevoked, WriterEntitled, Serving
    <3>3. CASE WriteAsks
      BY <3>3 DEF MountInv, TypesOK, Steps, WriteAsks, Serving
    <3>4. CASE WriterResolves \/ Probe
      BY <1>5, <1>6, <3>4 DEF MountInv, TypesOK, Steps, WriterResolves, Probe, Serving
    <3> QED
      BY <3>1, <3>2, <3>3, <3>4 DEF Handles
  <2> QED
    BY <1>1, <2>1 DEF MountInv, TypesOK, world
<1>8. AskerOK' /\ WriterOK'
  <2>1. CASE Ingress \/ Finish \/ MountBridges \/ MountChecks \/ AnyLookupFails
    BY <1>1, <1>2, <1>3, <2>1
       DEF MountInv, TypesOK, AskerOK, WriterOK, OneActorPerWrite, Ingress, TokenAccepted, Idle,
           Finish, MountBridges, MountChecks, AnyLookupFails, Serving
  <2>2. CASE WriteAsks
    BY <1>1, <1>2, <2>2
       DEF MountInv, TypesOK, AskerOK, WriterOK, OneActorPerWrite, WriteAsks, Serving, Live, world,
           SessionRevoked
  <2>3. CASE NotRevoked
    BY <1>1, <1>2, <2>3
       DEF MountInv, TypesOK, AskerOK, WriterOK, OneActorPerWrite, NotRevoked, Serving, Live, world,
           SessionRevoked
  <2>4. CASE WriterResolves
    BY <1>1, <1>2, <2>4
       DEF MountInv, TypesOK, AskerOK, WriterOK, OneActorPerWrite, WriterResolves, Serving, Live,
           world, SessionRevoked
  <2>5. CASE WriterEntitled
    BY <1>1, <1>2, <2>5
       DEF MountInv, TypesOK, AskerOK, WriterOK, OneActorPerWrite, WriterEntitled, GrantRead,
           Serving, Live, world, SessionRevoked
  <2>6. CASE Probe
    <3>1. CASE req'.at = "denied"
      BY <1>1, <1>2, <2>6, <3>1
         DEF MountInv, TypesOK, AskerOK, WriterOK, OneActorPerWrite, Probe, Serving
    <3>2. CASE req'.at = "sent"
      <4>1. /\ req.at = "probe" /\ ReadsAs(session).status = "resolved"
            /\ req' = [req EXCEPT !.at = "sent", !.reader = ReadsAs(session).user]
        BY <2>6, <3>2 DEF Probe, Serving, MountInv, TypesOK
      <4>2. ~Custom /\ req.stable => ReadsAs(session).user = req.actor
        BY <4>1, PlanesAgree DEF MountInv, TypesOK, AskerOK, WriterOK
      <4> QED
        BY <1>1, <1>2, <4>1, <4>2 DEF MountInv, TypesOK, AskerOK, WriterOK, OneActorPerWrite
    <3> QED
      BY <2>6, <3>1, <3>2 DEF Probe, Serving, MountInv, TypesOK
  <2> QED
    BY <2>1, <2>2, <2>3, <2>4, <2>5, <2>6 DEF Handles
<1> QED
  BY <1>4, <1>7, <1>8 DEF MountInv

(* A catalog question moves, and nothing but what the process learnt.      *)
LEMMA QuestionMoves ==
    ASSUME MountAssumption, MountInv, AskStarts \/ Answers
    PROVE  MountInv'
<1>1. UNCHANGED <<world, req>>
  BY DEF AskStarts, Answers, Asking, AskLooksUp, AskRetries, AskEntitlement
<1>2. ActsAs(session)' = ActsAs(session) /\ (NamesOneActor(session)' <=> NamesOneActor(session))
  BY <1>1 DEF world, ActsAs, NamesOneActor
<1>3. AskerOK' /\ WriterOK'
  BY <1>1, <1>2 DEF MountInv, AskerOK, WriterOK, OneActorPerWrite, Live, world, SessionRevoked
<1>4. \A b \in BOOLEAN : SoleId(session, b) \in Users \cup {None}
  BY SoleIdIsEveryones DEF MountInv, TypesOK
<1>5. \A b \in BOOLEAN :
         Identified(b) \in [at : {"answered", "entitlement"}, n : Nat, user : Users \cup {None},
                            visible : BOOLEAN]
         /\ (Identified(b).at = "entitlement" => Identified(b).user # None)
  BY <1>4 DEF Identified, NotVisible, MountInv, TypesOK
<1> DEFINE Asks == [at : {"idle", "lookup", "retry", "entitlement", "answered"}, n : Nat,
                   user : Users \cup {None}, visible : BOOLEAN]
<1>10. ask \in Asks /\ memo \in [user : Users \cup {None}, until : Nat, visible : BOOLEAN]
  BY DEF MountInv, TypesOK
<1>11. /\ ask' \in Asks /\ (ask'.at = "entitlement" => ask'.user # None)
       /\ learned' \in BOOLEAN /\ memo' = memo
       => TypesOK'
  BY <1>1 DEF MountInv, TypesOK, world
<1>12. memo' = memo => MemoOK'
  BY <1>1 DEF MountInv, MemoOK, world
<1>6. CASE AskStarts
  <2>1. NoAsk \in Asks /\ ask.n + 1 \in Nat
    BY <1>10 DEF NoAsk
  <2>2. \E at \in {"answered", "lookup"} : ask' = [NoAsk EXCEPT !.n = ask.n + 1, !.at = at]
    BY <1>6 DEF AskStarts, Asking
  <2>3. ask' \in Asks /\ ask'.at \in {"answered", "lookup"} /\ UNCHANGED <<learned, memo>>
    BY <1>6, <2>1, <2>2 DEF AskStarts
  <2> QED
    BY <1>1, <1>3, <1>11, <1>12, <2>3
       DEF MountInv, TypesOK, ColumnOK, LearnedAbsenceWasReal, world
<1>7. CASE AskLooksUp
  <2>1. /\ ask' \in Asks /\ UNCHANGED <<learned, memo>>
        /\ ask'.at = "entitlement" => ask'.user # None
    <3>1. \/ \E b \in BOOLEAN : ask' = Identified(b)
          \/ ask' = NotVisible \/ ask' = [ask EXCEPT !.at = "retry"]
      BY <1>7 DEF AskLooksUp, Asking
    <3>2. CASE \E b \in BOOLEAN : ask' = Identified(b)
      BY <1>5, <1>7, <3>2 DEF AskLooksUp
    <3>3. CASE ask' = NotVisible \/ ask' = [ask EXCEPT !.at = "retry"]
      BY <1>7, <1>10, <3>3 DEF AskLooksUp, NotVisible
    <3> QED
      BY <3>1, <3>2, <3>3
  <2>2. ask'.at = "retry" => ~hasId
    BY <1>5, <1>7, <1>10 DEF AskLooksUp, Asking, NotVisible, MountInv, TypesOK
  <2> QED
    BY <1>1, <1>3, <1>11, <1>12, <2>1, <2>2
       DEF MountInv, TypesOK, ColumnOK, LearnedAbsenceWasReal, world
<1>8. CASE AskRetries
  <2>1. /\ ask' \in Asks /\ ask'.at # "retry" /\ ask.at = "retry" /\ memo' = memo
        /\ ask'.at = "entitlement" => ask'.user # None
    BY <1>5, <1>8, <1>10 DEF AskRetries, Asking, NotVisible
  <2>2. learned' \in BOOLEAN
    BY <1>8 DEF AskRetries, LearnsIfRead, MountInv, TypesOK
  <2> QED
    BY <1>1, <1>3, <1>11, <1>12, <2>1, <2>2
       DEF MountInv, TypesOK, ColumnOK, LearnedAbsenceWasReal, world
<1>9. CASE AskEntitlement
  <2> DEFINE u == ask.user
  <2>1. ask.at = "entitlement" /\ u \in Users /\ Live(u) \in BOOLEAN /\ learned' = learned
    BY <1>9, <1>10 DEF AskEntitlement, MountInv, TypesOK, Live
  <2>2. \E v \in BOOLEAN : ask' = [ask EXCEPT !.at = "answered", !.visible = v]
    BY <1>9, <1>10, <2>1 DEF AskEntitlement, Asking, NotVisible
  <2>3. ask' \in Asks /\ ask'.at = "answered"
    BY <1>10, <2>2
  <2>4. CASE memo' = memo
    BY <1>1, <1>3, <1>11, <1>12, <2>1, <2>3, <2>4
       DEF MountInv, TypesOK, ColumnOK, LearnedAbsenceWasReal, world
  <2>5. CASE memo' = [user |-> u, until |-> KeptUntil(u), visible |-> Live(u)]
    <3>1. /\ now \in Nat /\ TTL \in Nat /\ grant[u] \in [on : BOOLEAN, until : Nat]
          /\ UNCHANGED <<now, grant, changed>>
      BY <1>1, <2>1 DEF MountInv, TypesOK, MountAssumption, world
    <3>2. KeptUntil(u) \in Nat
      BY <3>1 DEF KeptUntil
    <3>3. Live(u) => grant[u].on /\ KeptUntil(u) <= grant[u].until /\ KeptUntil(u) <= now + TTL
      BY <3>1 DEF KeptUntil, Live
    <3>4. MemoOK'
      BY <2>1, <2>5, <3>1, <3>3 DEF MemoOK
    <3>5. TypesOK'
      BY <1>1, <2>1, <2>3, <2>5, <3>2 DEF MountInv, TypesOK, world
    <3> QED
      BY <1>1, <1>3, <2>1, <2>3, <3>4, <3>5 DEF MountInv, ColumnOK, LearnedAbsenceWasReal, world
  <2> QED
    BY <1>9, <2>4, <2>5 DEF AskEntitlement
<1> QED
  BY <1>6, <1>7, <1>8, <1>9 DEF Answers

(* Operators and the clock move, and neither request nor question, but     *)
(* what the request may still count on.                                    *)
LEMMA WorldMoves ==
    ASSUME MountAssumption, MountInv,
           \/ \E u \in Users, on \in BOOLEAN : GrantChanges(u, on)
           \/ \E id \in {"parent", "derived"} : Revoke(id)
           \/ \E u \in Users, row \in Rows : DirectoryChanges(u, row)
           \/ ColumnChanges \/ Tick
    PROVE  MountInv'
<1>1. CASE \E u \in Users, on \in BOOLEAN : GrantChanges(u, on)
  <2> PICK u \in Users, on \in BOOLEAN : GrantChanges(u, on)
    BY <1>1
  <2>1. /\ grant' = [grant EXCEPT ![u].on = on] /\ changed' = [changed EXCEPT ![u] = now]
        /\ req' = IF on THEN [req EXCEPT !.stable = FALSE] ELSE req
        /\ UNCHANGED <<session, table, view, hasId, missed, revoked, now, kept>>
    BY DEF GrantChanges
  <2>2. ActsAs(session)' = ActsAs(session) /\ (NamesOneActor(session)' <=> NamesOneActor(session))
    BY <2>1 DEF ActsAs, NamesOneActor
  <2>3. ActsAs(session) \in Users \cup {None}
    BY ActorIsUser
  <2>4. TypesOK'
    <3>1. grant' \in [Users -> [on : BOOLEAN, until : Nat]] /\ changed' \in [Users -> Nat]
      BY <2>1 DEF MountInv, TypesOK
    <3>2. CASE on
      BY <2>1, <3>1, <3>2 DEF MountInv, TypesOK, kept
    <3>3. CASE ~on
      BY <2>1, <3>1, <3>3 DEF MountInv, TypesOK, kept
    <3> QED
      BY <3>2, <3>3
  <2>5. AskerOK'
    BY <2>1, <2>2, <2>3 DEF MountInv, TypesOK, AskerOK, Live, SessionRevoked
  <2>6. WriterOK'
    BY <2>1, <2>2 DEF MountInv, TypesOK, WriterOK, OneActorPerWrite
  <2>7. MemoOK'
    BY <2>1 DEF MountInv, TypesOK, MemoOK, kept, MountAssumption
  <2>8. ColumnOK'
    BY <2>1 DEF MountInv, ColumnOK, LearnedAbsenceWasReal, kept
  <2> QED
    BY <2>4, <2>5, <2>6, <2>7, <2>8 DEF MountInv
<1>2. CASE \E id \in {"parent", "derived"} : Revoke(id)
  <2>1. /\ revoked \subseteq revoked'
        /\ UNCHANGED <<session, table, view, hasId, missed, grant, now, changed, req, kept>>
    BY <1>2 DEF Revoke
  <2>2. ActsAs(session)' = ActsAs(session) /\ (NamesOneActor(session)' <=> NamesOneActor(session))
    BY <2>1 DEF ActsAs, NamesOneActor
  <2>3. TypesOK' /\ WriterOK' /\ MemoOK' /\ ColumnOK'
    BY <2>1, <2>2 DEF MountInv, TypesOK, WriterOK, MemoOK, ColumnOK, OneActorPerWrite,
       LearnedAbsenceWasReal, kept
  <2>4. AskerOK'
    <3>1. SessionRevoked => SessionRevoked'
      BY <2>1 DEF SessionRevoked
    <3> QED
      BY <2>1, <2>2, <3>1 DEF MountInv, AskerOK, Live, kept
  <2> QED
    BY <2>3, <2>4 DEF MountInv
<1>3. CASE \E u \in Users, row \in Rows : DirectoryChanges(u, row)
  <2>1. /\ req' = [req EXCEPT !.stable = FALSE]
        /\ UNCHANGED <<session, view, hasId, missed, grant, revoked, now, changed, kept>>
    BY <1>3 DEF DirectoryChanges
  <2>2. NamesOneActor(session)' <=> NamesOneActor(session)
    BY <2>1 DEF NamesOneActor
  <2>3. req \in [at : Steps, n : Nat, actor : Users \cup {None}, reader : Users \cup {None},
                 stable : BOOLEAN, dead : BOOLEAN, lapsed : BOOLEAN]
    BY DEF MountInv, TypesOK
  <2>4. ~req'.stable /\ \A f \in {"at", "actor", "reader", "dead", "lapsed", "n"} : req'[f] = req[f]
    BY <2>1, <2>3
  <2>5. TypesOK' /\ MemoOK' /\ ColumnOK'
    BY <2>1 DEF MountInv, TypesOK, MemoOK, ColumnOK, LearnedAbsenceWasReal, kept
  <2>6. AskerOK'
    BY <2>1, <2>2, <2>3, <2>4 DEF MountInv, AskerOK, SessionRevoked
  <2>7. WriterOK'
    BY <2>3, <2>4 DEF MountInv, WriterOK, OneActorPerWrite
  <2> QED
    BY <2>5, <2>6, <2>7 DEF MountInv
<1>4. CASE ColumnChanges
  <2>1. /\ hasId' = ~hasId /\ missed' = (missed \/ hasId)
        /\ UNCHANGED <<session, table, view, grant, revoked, now, changed, req, kept>>
    BY <1>4 DEF ColumnChanges
  <2>2. ActsAs(session)' = ActsAs(session) /\ (NamesOneActor(session)' <=> NamesOneActor(session))
    BY <2>1 DEF ActsAs, NamesOneActor
  <2>3. hasId' \in BOOLEAN /\ missed' \in BOOLEAN
    BY <2>1 DEF MountInv, TypesOK
  <2>4. ColumnOK'
    BY <2>1 DEF MountInv, ColumnOK, LearnedAbsenceWasReal, kept
  <2> QED
    BY <2>1, <2>2, <2>3, <2>4 DEF MountInv, TypesOK, AskerOK, WriterOK, MemoOK, OneActorPerWrite,
       Live, SessionRevoked, kept
<1>5. CASE Tick
  <2>1. /\ now' = now + 1
        /\ UNCHANGED <<session, table, view, hasId, missed, grant, revoked, changed, req, kept>>
    BY <1>5 DEF Tick
  <2>2. ActsAs(session)' = ActsAs(session) /\ (NamesOneActor(session)' <=> NamesOneActor(session))
    BY <2>1 DEF ActsAs, NamesOneActor
  <2>3. ActsAs(session) \in Users \cup {None}
    BY ActorIsUser
  <2>4. TypesOK' /\ WriterOK' /\ ColumnOK'
    BY <2>1, <2>2 DEF MountInv, TypesOK, WriterOK, ColumnOK, OneActorPerWrite, LearnedAbsenceWasReal, kept
  <2>5. AskerOK'
    BY <2>1, <2>2, <2>3 DEF MountInv, TypesOK, AskerOK, Live, SessionRevoked
  <2>6. MemoOK'
    BY <2>1 DEF MountInv, TypesOK, MemoOK, kept, MountAssumption
  <2> QED
    BY <2>4, <2>5, <2>6 DEF MountInv
<1> QED
  BY <1>1, <1>2, <1>3, <1>4, <1>5

(* Where every session, request, question and directory stand: MountInv.   *)
THEOREM MountInvariance ==
    ASSUME MountAssumption
    PROVE  Spec => []MountInv
<1>1. Init => MountInv
  BY MountStarts
<1>2. MountInv /\ [Next]_vars => MountInv'
  <2> SUFFICES ASSUME MountInv, [Next]_vars PROVE MountInv'
    OBVIOUS
  <2>1. CASE UNCHANGED vars
    <3>1. ActsAs(session)' = ActsAs(session) /\ (NamesOneActor(session)' <=> NamesOneActor(session))
      BY <2>1 DEF vars, ActsAs, NamesOneActor
    <3> QED
      BY <2>1, <3>1 DEF vars, MountInv, TypesOK, AskerOK, WriterOK, MemoOK, ColumnOK,
         OneActorPerWrite, LearnedAbsenceWasReal, Live, SessionRevoked
  <2>2. CASE Ingress \/ Handles \/ Finish \/ WriteAsks
    BY <2>2, RequestMoves
  <2>3. CASE AskStarts \/ Answers
    BY <2>3, QuestionMoves
  <2> QED
    BY <2>1, <2>2, <2>3, WorldMoves DEF Next
<1> QED
  BY <1>1, <1>2, PTL DEF Spec

(* A write is made for the person whose reads vetted it, as long as both   *)
(* planes read the canonical table (the probe of action-visibility.ts and  *)
(* the store's identity; a custom relation is action-plane.ts:141).        *)
THEOREM WritesHaveOneActor ==
    ASSUME MountAssumption, ~Custom
    PROVE  Spec => []OneActorPerWrite
<1>1. MountInv => OneActorPerWrite
  BY DEF MountInv, WriterOK
<1> QED
  BY <1>1, MountInvariance, PTL

(* No write goes out that was asked for after its session or its grant had *)
(* ended, wherever the mount saw it live (assertNotRevoked and the         *)
(* entitlement are looked up again for every write).                       *)
THEOREM AuthorityEnds ==
    ASSUME MountAssumption
    PROVE  Spec => []EndedAuthoritySendsNothing
<1>1. MountInv => EndedAuthoritySendsNothing
  BY DEF MountInv, AskerOK, EndedAuthoritySendsNothing
<1> QED
  BY <1>1, MountInvariance, PTL

(* The cached catalog answer shows write tools a time to live too long at  *)
(* most, and never past the end of the grant's row.                        *)
THEOREM VisibilityEnds ==
    ASSUME MountAssumption
    PROVE  Spec => []VisibilityIsBounded
<1>1. MountInv => VisibilityIsBounded
  BY DEF MountInv, TypesOK, MemoOK, VisibilityIsBounded, Live, MountAssumption
<1> QED
  BY <1>1, MountInvariance, PTL

(* The process gives up asking for the row id only if the column was once  *)
(* missing, whatever failed.                                               *)
THEOREM AbsenceIsLearnedFromAbsence ==
    ASSUME MountAssumption
    PROVE  Spec => []LearnedAbsenceWasReal
<1>1. MountInv => LearnedAbsenceWasReal
  BY DEF MountInv, ColumnOK
<1> QED
  BY <1>1, MountInvariance, PTL

(* An entitlement is asked for the one row id that all matching rows have. *)
THEOREM EntitlementsAreOfOneRow ==
    ASSUME MountAssumption
    PROVE  Spec => [][KeysAreUnanimous]_vars
<1>1. MountInv /\ [Next]_vars => [KeysAreUnanimous]_vars
  <2> SUFFICES ASSUME MountInv, Next, ask.at = "lookup", ask'.at = "entitlement"
               PROVE  \A r \in Matched(session) : r.id = ask'.user
    BY DEF KeysAreUnanimous
  <2>1. ask' # ask
    OBVIOUS
  <2>2. AskStarts \/ Answers
    BY <2>1 DEF Next, Ingress, Handles, Finish, WriteAsks, Serving, MountBridges, MountChecks,
       NotRevoked, WriterResolves, WriterEntitled, Probe, AnyLookupFails, GrantChanges, Revoke,
       DirectoryChanges, ColumnChanges, Tick, kept
  <2>3. AskLooksUp
    BY <2>2 DEF AskStarts, Answers, AskRetries, AskEntitlement
  <2>4. \/ \E b \in BOOLEAN : ask' = Identified(b)
        \/ ask' = NotVisible \/ ask' = [ask EXCEPT !.at = "retry"]
    BY <2>3 DEF AskLooksUp, Asking
  <2>5. PICK b \in BOOLEAN : ask' = Identified(b)
    BY <2>4 DEF NotVisible, MountInv, TypesOK
  <2>6. ask'.user = SoleId(session, b) /\ SoleId(session, b) # None
    BY <2>5 DEF Identified, NotVisible, MountInv, TypesOK
  <2>7. b = TRUE
    BY <2>6, SoleIdIsEveryones DEF MountInv, TypesOK
  <2> QED
    BY <2>6, <2>7, SoleIdIsEveryones DEF MountInv, TypesOK
<1> QED
  BY <1>1, MountInvariance, PTL DEF Spec
=============================================================================
