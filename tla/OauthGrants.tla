------------------------------ MODULE OauthGrants ------------------------------
(***************************************************************************)
(* Sign-in grants of the hosted recruiter connector: authorization codes   *)
(* and rotating refresh tokens, in families, and the three things that end *)
(* a session: a reused refresh token, an operator, and the identity gate   *)
(* of the token endpoint.                                                  *)
(*                                                                         *)
(* The database functions of migrations 0006 and 0007 run under one        *)
(* advisory lock per family.  Two statements do not take it: the insert of *)
(* a family's first refresh token (oauth-token.ts) and the revocation of a *)
(* single access-token jti (session-revocation.ts).  So a redemption is    *)
(* two steps here, between which those two can run; everything that takes  *)
(* the lock and reads nothing the two write is one step.                   *)
(*                                                                         *)
(* A token is the secret of its row, and for a refresh row also the jti of *)
(* the access token minted with it.  Expiry, client and PKCE checks are    *)
(* one bit of the request, `fits`: the caller fixes the time they use.     *)
(***************************************************************************)
EXTENDS Naturals, FiniteSets, TLC

CONSTANTS
    Tokens,      \* code and refresh secrets
    Families,    \* grant families, one per sign-in
    Calls,       \* HTTP requests in progress
    NoToken, NoFamily, NoCall

ASSUME GrantAssumption ==
    /\ NoToken \notin Tokens
    /\ NoFamily \notin Families
    /\ NoCall \notin Calls

\* For TLC: secrets and requests are interchangeable.
Symmetry == Permutations(Tokens) \cup Permutations(Calls)

VARIABLES
    grants,      \* recruiter_mcp_oauth_grants
    dead,        \* recruiter_mcp_oauth_revoked_families: why a family died
    killed,      \* recruiter_mcp_session_revocation: revoked jtis
    lock,        \* holder of a family's advisory lock across two steps
    enrolled,    \* does the directory resolve the recruiter?
    calls,       \* program counters and locals of the requests
    delivered,   \* secrets that reached a client
    redeems,     \* ghost: committed redemptions of a refresh token
    afterKill    \* ghost: rotations of a family one of whose jtis was revoked

vars == <<grants, dead, killed, lock, enrolled, calls, delivered, redeems, afterKill>>
durable == <<grants, dead, killed>>
ghosts == <<redeems, afterKill>>

NoGrant == [kind |-> "none", family |-> NoFamily, parent |-> NoToken,
            consumed |-> FALSE, revoked |-> FALSE]

\* parent is the token a row was rotated from; the table does not keep it.
Grant(kind, f, parent) == [kind |-> kind, family |-> f, parent |-> parent,
                           consumed |-> FALSE, revoked |-> FALSE]

Idle == [at |-> "idle", token |-> NoToken, fits |-> FALSE, vetted |-> FALSE,
         verdict |-> "none"]

Unused == {t \in Tokens : grants[t].kind = "none"}
RowsOf(f) == {t \in Tokens : grants[t].family = f}
RefreshOf(f) == {t \in RowsOf(f) : grants[t].kind = "refresh"}
IsDead(f) == dead[f] # "no"
LockIsFree(f) == lock[f] = NoCall

\* The counters matter up to two.
Bump(n) == IF n < 2 THEN n + 1 ELSE n

Init ==
    /\ grants = [t \in Tokens |-> NoGrant]
    /\ dead = [f \in Families |-> "no"]
    /\ killed = {}
    /\ lock = [f \in Families |-> NoCall]
    /\ enrolled = TRUE
    /\ calls = [c \in Calls |-> Idle]
    /\ delivered = {}
    /\ redeems = [t \in Tokens |-> 0]
    /\ afterKill = [f \in Families |-> 0]

At(c, step) == calls[c].at = step
Goto(c, step) == calls' = [calls EXCEPT ![c].at = step]
Finish(c) == calls' = [calls EXCEPT ![c] = Idle]
Deliver(secrets) == \E got \in BOOLEAN :
    delivered' = IF got THEN delivered \cup secrets ELSE delivered

-----------------------------------------------------------------------------
(***************************************************************************)
(* revoke_oauth_family_locked: revoke every row, mark the family dead and  *)
(* put every jti it minted on the revocation list.                         *)
(***************************************************************************)
\* Plausible bug: the sweep marks the rows and leaves the jtis alone.
SweepSparesJtis(fs, reason) ==
    /\ grants' = [t \in Tokens |-> IF grants[t].family \in fs
                                   THEN [grants[t] EXCEPT !.revoked = TRUE] ELSE grants[t]]
    /\ dead' = [f \in Families |-> IF f \in fs /\ ~IsDead(f) THEN reason ELSE dead[f]]
    /\ killed' = killed

Sweep(fs, reason) ==
    /\ grants' = [t \in Tokens |-> IF grants[t].family \in fs
                                   THEN [grants[t] EXCEPT !.revoked = TRUE] ELSE grants[t]]
    /\ dead' = [f \in Families |-> IF f \in fs /\ ~IsDead(f) THEN reason ELSE dead[f]]
    /\ killed' = killed \cup UNION {RefreshOf(f) : f \in fs}

-----------------------------------------------------------------------------
(***************************************************************************)
(* Sign-in: the authorization callback resolves the identity and then      *)
(* inserts a code in a fresh family.                                       *)
(***************************************************************************)
StartSignIn(c) ==
    /\ At(c, "idle") /\ enrolled
    /\ Goto(c, "sign_in")
    /\ UNCHANGED <<durable, lock, enrolled, delivered, ghosts>>

IssueCode(c) ==
    /\ At(c, "sign_in")
    /\ \E t \in Unused, f \in Families :
         /\ RowsOf(f) = {}
         /\ grants' = [grants EXCEPT ![t] = Grant("code", f, NoToken)]
         /\ Deliver({t})
    /\ Finish(c)
    /\ UNCHANGED <<dead, killed, lock, enrolled, ghosts>>

-----------------------------------------------------------------------------
(***************************************************************************)
(* The code leg: consume the code (redeem_oauth_code), judge it, and only  *)
(* then insert the family's first refresh token, outside the lock.  Any    *)
(* secret may be presented; the function burns it before looking at it.    *)
(***************************************************************************)
PresentCode(c) ==
    /\ At(c, "idle")
    /\ \E t \in delivered, fits \in BOOLEAN :
         calls' = [calls EXCEPT ![c] = [Idle EXCEPT !.at = "consume", !.token = t, !.fits = fits]]
    /\ UNCHANGED <<durable, lock, enrolled, delivered, ghosts>>

Consumable(t) ==
    ~grants[t].consumed /\ ~grants[t].revoked /\ ~IsDead(grants[t].family)

\* Plausible bug: the row is read before the lock and trusted after it.
ConsumeCodeTwice(c) ==
    LET t == calls[c].token IN
    /\ At(c, "consume") /\ LockIsFree(grants[t].family)
    /\ grants' = [grants EXCEPT ![t].consumed = TRUE]
    /\ \/ calls[c].fits /\ grants[t].kind = "code" /\ Goto(c, "seat")
       \/ Finish(c)
    /\ UNCHANGED <<dead, killed, lock, enrolled, delivered, ghosts>>

ConsumeCode(c) ==
    LET t == calls[c].token IN
    /\ At(c, "consume") /\ LockIsFree(grants[t].family)
    /\ \/ /\ Consumable(t)
          /\ grants' = [grants EXCEPT ![t].consumed = TRUE]
          /\ \/ calls[c].fits /\ grants[t].kind = "code" /\ Goto(c, "seat")
             \/ Finish(c)                              \* judged unfit, or no answer
       \/ ~Consumable(t) /\ Finish(c) /\ UNCHANGED grants
    /\ UNCHANGED <<dead, killed, lock, enrolled, delivered, ghosts>>

SeatFirst(c) ==
    /\ At(c, "seat")
    /\ \E t \in Unused :
         /\ grants' = [grants EXCEPT ![t] = Grant("refresh", grants[calls[c].token].family, NoToken)]
         /\ Deliver({t})
    /\ Finish(c)
    /\ UNCHANGED <<dead, killed, lock, enrolled, ghosts>>

\* A request that ends without its write: the insert, the consumption or a
\* transaction before its commit fails.
Abandon(c) ==
    /\ calls[c].at \in {"sign_in", "consume", "seat", "gate_revoke", "redeem"}
    /\ Finish(c)
    /\ UNCHANGED <<durable, lock, enrolled, delivered, ghosts>>

-----------------------------------------------------------------------------
(***************************************************************************)
(* The refresh leg: look at the row without the lock, ask the directory    *)
(* about its owner, and rotate.                                            *)
(***************************************************************************)
PresentRefresh(c) ==
    /\ At(c, "idle")
    /\ \E t \in delivered, fits \in BOOLEAN :
         calls' = [calls EXCEPT ![c] = [Idle EXCEPT !.at = "peek", !.token = t, !.fits = fits]]
    /\ UNCHANGED <<durable, lock, enrolled, delivered, ghosts>>

NeedsGate(t) == grants[t].kind = "refresh" /\ ~grants[t].consumed /\ ~grants[t].revoked

Peek(c) ==
    /\ At(c, "peek")
    /\ \/ Goto(c, IF NeedsGate(calls[c].token) THEN "gate" ELSE "redeem")
       \/ Finish(c)                                    \* 503, nothing consumed
    /\ UNCHANGED <<durable, lock, enrolled, delivered, ghosts>>

Gate(c) ==
    /\ At(c, "gate")
    /\ \/ enrolled /\ calls' = [calls EXCEPT ![c].at = "redeem", ![c].vetted = TRUE]
       \/ ~enrolled /\ Goto(c, "gate_revoke")
       \/ Finish(c)                                    \* directory outage: 503
    /\ UNCHANGED <<durable, lock, enrolled, delivered, ghosts>>

GateRevokes(c) ==
    LET f == grants[calls[c].token].family IN
    /\ At(c, "gate_revoke") /\ LockIsFree(f)
    /\ Sweep({f}, "identity")
    /\ Finish(c)
    /\ UNCHANGED <<lock, enrolled, delivered, ghosts>>

(***************************************************************************)
(* redeem_oauth_refresh up to its decision, all of it under the lock.      *)
(***************************************************************************)
HasKilledJti(f) == RefreshOf(f) \cap killed # {}

VerdictForgivesReuse(t, fits) ==
    LET f == grants[t].family IN
    IF ~IsDead(f) /\ HasKilledJti(f) THEN "sweep"
    ELSE IF Consumable(t)
    THEN IF grants[t].kind = "refresh" /\ fits THEN "rotate" ELSE "burn"
    ELSE "refuse"

Verdict(t, fits) ==
    LET f == grants[t].family IN
    IF ~IsDead(f) /\ HasKilledJti(f) THEN "sweep"
    ELSE IF Consumable(t)
    THEN IF grants[t].kind = "refresh" /\ fits THEN "rotate" ELSE "burn"
    ELSE IF grants[t].kind = "refresh" /\ grants[t].consumed /\ ~IsDead(f) THEN "reuse"
    ELSE "refuse"

RedeemLocks(c) ==
    LET t == calls[c].token  f == grants[t].family IN
    /\ At(c, "redeem") /\ LockIsFree(f)
    /\ lock' = [lock EXCEPT ![f] = c]
    /\ calls' = [calls EXCEPT ![c].at = "commit", ![c].verdict = Verdict(t, calls[c].fits)]
    /\ UNCHANGED <<durable, enrolled, delivered, ghosts>>

(***************************************************************************)
(* ... and its writes, at the commit that gives the lock back.  The answer *)
(* may be lost after it.                                                   *)
(***************************************************************************)
Rotate(t) ==
    \E s \in Unused :
        /\ grants' = [grants EXCEPT ![t].consumed = TRUE,
                                    ![s] = Grant("refresh", grants[t].family, t)]
        /\ Deliver({s})
        /\ UNCHANGED <<dead, killed>>

Burn(t) == grants' = [grants EXCEPT ![t].consumed = TRUE] /\ UNCHANGED <<dead, killed, delivered>>

RedeemCommits(c) ==
    LET t == calls[c].token
        f == grants[t].family
        verdict == calls[c].verdict
    IN
    /\ At(c, "commit")
    /\ \/ verdict = "rotate" /\ Rotate(t)
       \/ verdict = "burn" /\ Burn(t)
       \/ verdict = "sweep" /\ Sweep({f}, "session") /\ UNCHANGED delivered
       \/ verdict = "reuse" /\ Sweep({f}, "reuse") /\ UNCHANGED delivered
       \/ verdict = "refuse" /\ UNCHANGED <<durable, delivered>>
    /\ lock' = [lock EXCEPT ![f] = NoCall]
    /\ redeems' = IF grants[t].kind = "refresh" THEN [redeems EXCEPT ![t] = Bump(@)] ELSE redeems
    /\ afterKill' = IF verdict = "rotate" /\ HasKilledJti(f)
                    THEN [afterKill EXCEPT ![f] = Bump(@)] ELSE afterKill
    /\ Finish(c)
    /\ UNCHANGED enrolled

RedeemRollsBack(c) ==
    /\ At(c, "commit")
    /\ lock' = [lock EXCEPT ![grants[calls[c].token].family] = NoCall]
    /\ Finish(c)
    /\ UNCHANGED <<durable, enrolled, delivered, ghosts>>

-----------------------------------------------------------------------------
(***************************************************************************)
(* Operators and the directory.                                            *)
(***************************************************************************)
\* Plausible bug: the sweep without the family lock.
RevokeFamilyUnlocked(f) ==
    /\ RowsOf(f) # {}
    /\ Sweep({f}, "operator")
    /\ UNCHANGED <<lock, enrolled, calls, delivered, ghosts>>

RevokeFamily(f) ==
    /\ LockIsFree(f)
    /\ RowsOf(f) # {}
    /\ Sweep({f}, "operator")
    /\ UNCHANGED <<lock, enrolled, calls, delivered, ghosts>>

\* Every family of the one recruiter that still holds an unrevoked row.
RevokeEmail ==
    LET fs == {f \in Families : \E t \in RowsOf(f) : ~grants[t].revoked} IN
    /\ fs # {}
    /\ \A f \in fs : LockIsFree(f)
    /\ Sweep(fs, "operator")
    /\ UNCHANGED <<lock, enrolled, calls, delivered, ghosts>>

\* Plausible bug: the jti of the row before is revoked instead.
RevokeSessionOfParent(t) ==
    /\ grants[t].kind = "refresh"
    /\ killed' = killed \cup {grants[t].parent}
    /\ UNCHANGED <<grants, dead, lock, enrolled, calls, delivered, ghosts>>

\* recordSessionRevocation: one jti, no lock.
RevokeSession(t) ==
    /\ grants[t].kind = "refresh"
    /\ killed' = killed \cup {t}
    /\ UNCHANGED <<grants, dead, lock, enrolled, calls, delivered, ghosts>>

Enroll == enrolled' = ~enrolled /\ UNCHANGED <<durable, lock, calls, delivered, ghosts>>

-----------------------------------------------------------------------------
CallStep(c) ==
    \/ StartSignIn(c) \/ IssueCode(c)
    \/ PresentCode(c) \/ ConsumeCode(c) \/ SeatFirst(c) \/ Abandon(c)
    \/ PresentRefresh(c) \/ Peek(c) \/ Gate(c) \/ GateRevokes(c)
    \/ RedeemLocks(c) \/ RedeemCommits(c) \/ RedeemRollsBack(c)

Next ==
    \/ \E c \in Calls : CallStep(c)
    \/ \E f \in Families : RevokeFamily(f)
    \/ RevokeEmail
    \/ \E t \in Tokens : RevokeSession(t)
    \/ Enroll

Spec == Init /\ [][Next]_vars

-----------------------------------------------------------------------------
Reasons == {"no", "reuse", "session", "identity", "operator"}
Steps == {"idle", "sign_in", "consume", "seat", "peek", "gate", "gate_revoke",
          "redeem", "commit"}
Verdicts == {"none", "rotate", "burn", "sweep", "reuse", "refuse"}

TypeOK ==
    /\ grants \in [Tokens -> [kind: {"none", "code", "refresh"},
                              family: Families \cup {NoFamily},
                              parent: Tokens \cup {NoToken},
                              consumed: BOOLEAN, revoked: BOOLEAN]]
    /\ dead \in [Families -> Reasons]
    /\ killed \subseteq Tokens
    /\ lock \in [Families -> Calls \cup {NoCall}]
    /\ enrolled \in BOOLEAN
    /\ calls \in [Calls -> [at: Steps, token: Tokens \cup {NoToken}, fits: BOOLEAN,
                            vetted: BOOLEAN, verdict: Verdicts]]
    /\ delivered \subseteq Tokens
    /\ redeems \in [Tokens -> 0..2]
    /\ afterKill \in [Families -> 0..2]

(***************************************************************************)
(* A sign-in is one session: whatever requests race, are lost or repeated, *)
(* a family never has two refresh tokens that could still be rotated.      *)
(***************************************************************************)
OneLiveTokenPerFamily ==
    \A f \in Families : \A s, t \in RefreshOf(f) :
        Consumable(s) /\ Consumable(t) => s = t

(***************************************************************************)
(* A dead family never seats another successor, though a redemption may    *)
(* have decided to rotate before the family died.                          *)
(***************************************************************************)
DeadFamiliesNeverRotate ==
    [][\A t \in Tokens :
         grants[t].kind = "none" /\ grants'[t].parent # NoToken
         => ~IsDead(grants'[t].family)]_vars

(***************************************************************************)
(* A refresh token presented twice for redemption costs the session: once  *)
(* two redemptions of it have committed, its family is dead.               *)
(***************************************************************************)
ReuseEndsTheSession ==
    \A t \in Tokens : redeems[t] = 2 => IsDead(grants[t].family)

(***************************************************************************)
(* The kill switch reaches the access tokens too: every jti a family ever  *)
(* minted is revoked once a reuse, a revoked session or the identity gate  *)
(* killed it; and when an operator did, every jti minted by a rotation.    *)
(***************************************************************************)
DeathReachesAccessTokens ==
    \A f \in Families : IsDead(f) =>
        \A t \in RefreshOf(f) :
            dead[f] # "operator" \/ grants[t].parent # NoToken
            => t \in killed /\ grants[t].revoked

(***************************************************************************)
(* Revoking one jti of a session lets at most the rotation in flight       *)
(* through, never a second one.                                            *)
(***************************************************************************)
KillSwitchStopsRotation == \A f \in Families : afterKill[f] <= 1

(***************************************************************************)
(* Only a request the directory vouched for rotates a token: a token that  *)
(* was not live at the peek, and so skipped the gate, cannot be live at    *)
(* the redemption.                                                         *)
(***************************************************************************)
RotationsAreVetted ==
    \A c \in Calls : At(c, "commit") /\ calls[c].verdict = "rotate" => calls[c].vetted

(***************************************************************************)
(* Once a session may no longer rotate it does not: the three parts above. *)
(***************************************************************************)
RotationsStop == [](KillSwitchStopsRotation /\ RotationsAreVetted) /\ DeadFamiliesNeverRotate

(***************************************************************************)
(* Migration 0007, lines 10-12: once an operator revokes the family, every *)
(* jti it ever minted is on the revocation list.                           *)
(***************************************************************************)
EveryJtiOfADeadFamilyIsRevoked ==
    \A f \in Families : IsDead(f) => RefreshOf(f) \subseteq killed
=============================================================================
