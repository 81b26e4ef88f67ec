--------------------------- MODULE OauthGrantsProofs ---------------------------
(***************************************************************************)
(* What the grant tables promise for any number of secrets, families and   *)
(* requests.                                                               *)
(*                                                                         *)
(* The invariant has two halves: what the rows owe each other (RowInv and  *)
(* GhostInv), and what a request in progress may still believe about them  *)
(* (CallInv).  Every write only advances the rows (Advance), so a request  *)
(* that stands by while another one writes keeps what it believes, unless  *)
(* the write seats a refresh token in the family it is about to seat one   *)
(* in, or touches the family whose lock it holds: StandsBy.                *)
(***************************************************************************)
EXTENDS OauthGrants, TLAPS

USE GrantAssumption

Used(t) == t \in Tokens /\ grants[t].kind # "none"
Live(t) == ~grants[t].consumed /\ ~grants[t].revoked
FamilyOf(c) == grants[calls[c].token].family
Holding == {"consume", "seat", "peek", "gate", "gate_revoke", "redeem", "commit"}

-----------------------------------------------------------------------------
(* The rows. *)
RowsAreWhole ==
    \A t \in Tokens :
        /\ grants[t].kind = "none" => grants[t] = NoGrant
        /\ grants[t].kind # "none" => grants[t].family \in Families

SecretsAreUsed ==
    /\ \A t \in delivered : Used(t)
    /\ \A t \in killed : grants[t].kind = "refresh"

RevokedAreDead == \A t \in Tokens : grants[t].revoked => IsDead(grants[t].family)

OneCodePerFamily ==
    \A s, t \in Tokens :
        grants[s].kind = "code" /\ grants[t].kind = "code"
        /\ grants[s].family = grants[t].family => s = t

\* A family has refresh rows only after its code was consumed.
CodesComeFirst ==
    \A s, t \in Tokens :
        /\ grants[s].kind = "code" /\ grants[t].kind = "refresh"
        /\ grants[s].family = grants[t].family
        => grants[s].consumed

\* Stronger than OneLiveTokenPerFamily: dead families are not excepted.
OneLiveRow ==
    \A s, t \in Tokens :
        /\ grants[s].kind = "refresh" /\ grants[t].kind = "refresh"
        /\ grants[s].family = grants[t].family
        /\ Live(s) /\ Live(t)
        => s = t

\* Only an operator ends a session that has not begun.
DeadHadRefresh ==
    \A f \in Families : dead[f] \notin {"no", "operator"} => RefreshOf(f) # {}

RowInv ==
    /\ RowsAreWhole
    /\ SecretsAreUsed
    /\ RevokedAreDead
    /\ OneCodePerFamily
    /\ CodesComeFirst
    /\ OneLiveRow
    /\ DeadHadRefresh
    /\ DeathReachesAccessTokens

(* What the ghosts remember of them. *)
RedeemedIsSpent ==
    \A t \in Tokens :
        /\ redeems[t] # 0 => /\ grants[t].kind # "none"
                             /\ grants[t].consumed \/ IsDead(grants[t].family)
        /\ redeems[t] = 2 => IsDead(grants[t].family)

KillIsSeen ==
    \A f \in Families :
        /\ afterKill[f] <= 1
        /\ afterKill[f] # 0 => HasKilledJti(f)

GhostInv == RedeemedIsSpent /\ KillIsSeen

(* The requests. *)
SeatOK(c) ==
    At(c, "seat") =>
        /\ grants[calls[c].token].kind = "code"
        /\ grants[calls[c].token].consumed
        /\ RefreshOf(FamilyOf(c)) = {}

\* A refresh row that was not seen live by the gate is not live later.
GateOK(c) ==
    /\ calls[c].at \in {"gate", "gate_revoke"} => grants[calls[c].token].kind = "refresh"
    /\ calls[c].at \in {"redeem", "commit"} /\ ~calls[c].vetted
       => grants[calls[c].token].kind # "refresh" \/ ~Live(calls[c].token)

\* What was decided under the lock is still so at the commit.
VerdictOK(c) ==
    LET t == calls[c].token
        verdict == calls[c].verdict
    IN  At(c, "commit") =>
        /\ lock[FamilyOf(c)] = c
        /\ verdict # "none"
        /\ verdict = "rotate" => grants[t].kind = "refresh" /\ afterKill[FamilyOf(c)] = 0
        /\ verdict \in {"rotate", "burn"} => Consumable(t)
        /\ verdict = "sweep" => HasKilledJti(FamilyOf(c))
        /\ verdict = "reuse" => grants[t].kind = "refresh"
        /\ verdict = "refuse" /\ grants[t].kind = "refresh" => IsDead(FamilyOf(c))

CallOK(c) ==
    /\ calls[c].at \in Holding => Used(calls[c].token)
    /\ SeatOK(c)
    /\ GateOK(c)
    /\ VerdictOK(c)

OneSeat ==
    \A c, d \in Calls :
        At(c, "seat") /\ At(d, "seat") /\ calls[c].token = calls[d].token => c = d

CallInv == OneSeat /\ \A c \in Calls : CallOK(c)

Inv == TypeOK /\ RowInv /\ GhostInv /\ CallInv

-----------------------------------------------------------------------------
(***************************************************************************)
(* What every write of the rows has in common.                             *)
(***************************************************************************)
Advance ==
    /\ \A t \in Tokens :
         grants[t].kind # "none" =>
            /\ grants'[t].kind = grants[t].kind
            /\ grants'[t].family = grants[t].family
            /\ grants'[t].parent = grants[t].parent
            /\ grants[t].consumed => grants'[t].consumed
            /\ grants[t].revoked => grants'[t].revoked
    /\ \A f \in Families : IsDead(f) => dead'[f] = dead[f]
    /\ killed \subseteq killed'

LEMMA KilledStaysKilled ==
  ASSUME Inv, Advance, NEW f \in Families, HasKilledJti(f)
  PROVE  HasKilledJti(f)'
<1>1. PICK t \in Tokens : /\ grants[t].family = f
                          /\ grants[t].kind = "refresh"
                          /\ t \in killed
  BY DEF HasKilledJti, RefreshOf, RowsOf
<1> QED
  BY <1>1 DEF Advance, HasKilledJti, RefreshOf, RowsOf

(* Nothing that the request d relies on is written. *)
Undisturbed(d) ==
    /\ calls'[d] = calls[d]
    /\ At(d, "seat") => \A t \in Tokens :
         grants[t].kind = "none" /\ grants'[t].kind = "refresh"
         => grants'[t].family # FamilyOf(d)
    /\ At(d, "commit") =>
         /\ lock'[FamilyOf(d)] = lock[FamilyOf(d)]
         /\ dead'[FamilyOf(d)] = dead[FamilyOf(d)]
         /\ afterKill'[FamilyOf(d)] = afterKill[FamilyOf(d)]
         /\ grants'[calls[d].token] = grants[calls[d].token]

\* A request that waits while another step writes still believes the truth.
LEMMA StandsBy ==
  ASSUME Inv, Advance, NEW d \in Calls, Undisturbed(d)
  PROVE  CallOK(d)'
<1> DEFINE t == calls[d].token
<1> USE DEF Undisturbed
<1>1. CallOK(d)
  BY DEF Inv, CallInv
<1>2. calls[d].at \in Holding => Used(t)'
  BY <1>1 DEF CallOK, Used, Advance
<1>3. calls[d].at \in Holding =>
        /\ grants'[t].kind = grants[t].kind
        /\ grants'[t].family = grants[t].family
        /\ grants[t].family \in Families
        /\ grants[t].consumed => grants'[t].consumed
        /\ Live(t)' => Live(t)
  BY <1>1 DEF CallOK, Used, Advance, Live, Inv, RowInv, RowsAreWhole
<1>4. SeatOK(d)'
  <2> SUFFICES ASSUME At(d, "seat")
               PROVE  SeatOK(d)'
    BY DEF SeatOK, At
  <2>1. RefreshOf(FamilyOf(d)) = {} /\ grants[t].kind = "code" /\ grants[t].consumed
    BY <1>1 DEF CallOK, SeatOK
  <2>2. FamilyOf(d)' = FamilyOf(d)
    BY <1>3 DEF FamilyOf, At, Holding
  <2>3. \A s \in Tokens : ~(grants'[s].kind = "refresh" /\ grants'[s].family = FamilyOf(d))
    BY <2>1 DEF Advance, RefreshOf, RowsOf
  <2> QED
    BY <1>3, <2>1, <2>2, <2>3 DEF SeatOK, RefreshOf, RowsOf, At, Holding
<1>5. GateOK(d)'
  BY <1>1, <1>3 DEF CallOK, GateOK, Holding
<1>6. VerdictOK(d)'
  <2> SUFFICES ASSUME At(d, "commit")
               PROVE  VerdictOK(d)'
    BY DEF VerdictOK, At
  <2>1. VerdictOK(d)
    BY <1>1 DEF CallOK
  <2>2. /\ FamilyOf(d)' = FamilyOf(d)
        /\ FamilyOf(d) \in Families
        /\ grants'[t] = grants[t]
    BY <1>3 DEF FamilyOf, At, Holding
  <2>3. HasKilledJti(FamilyOf(d)) => HasKilledJti(FamilyOf(d))'
    BY <2>2, KilledStaysKilled DEF HasKilledJti, RefreshOf, RowsOf
  <2>4. Consumable(t) => Consumable(t)'
    BY <2>2 DEF Consumable, IsDead, FamilyOf
  <2>5. IsDead(FamilyOf(d)) => IsDead(FamilyOf(d))'
    BY <2>2 DEF IsDead
  <2> QED
    BY <2>1, <2>2, <2>3, <2>4, <2>5 DEF VerdictOK, At
<1> QED
  BY <1>2, <1>4, <1>5, <1>6 DEF CallOK

\* So a step keeps the invariant if its own request, c, comes out right.
LEMMA CallWrite ==
  ASSUME Inv, Advance, TypeOK', RowInv', GhostInv',
         NEW c \in Calls, CallOK(c)',
         \A d \in Calls \ {c} : Undisturbed(d),
         At(c, "seat")' => \A d \in Calls \ {c} :
             ~(At(d, "seat") /\ calls[d].token = calls'[c].token)
  PROVE  Inv'
<1>1. \A d \in Calls : CallOK(d)'
  BY StandsBy
<1>2. OneSeat'
  BY DEF OneSeat, Inv, CallInv, Undisturbed, At
<1> QED
  BY <1>1, <1>2 DEF Inv, CallInv

LEMMA OtherWrite ==
  ASSUME Inv, Advance, TypeOK', RowInv', GhostInv', \A d \in Calls : Undisturbed(d)
  PROVE  Inv'
<1>1. \A d \in Calls : CallOK(d)'
  BY StandsBy
<1>2. OneSeat'
  BY DEF OneSeat, Inv, CallInv, Undisturbed, At
<1> QED
  BY <1>1, <1>2 DEF Inv, CallInv

-----------------------------------------------------------------------------
(***************************************************************************)
(* Steps that write no row.                                                *)
(***************************************************************************)
LEMMA RowsStand ==
  ASSUME Inv, UNCHANGED <<durable, delivered, ghosts>>
  PROVE  Advance /\ RowInv' /\ GhostInv'
<1> USE DEF durable, ghosts
<1>1. Advance
  BY DEF Advance, IsDead
<1>2. RowInv'
  BY DEF Inv, RowInv, RowsAreWhole, SecretsAreUsed, Used, RevokedAreDead, OneCodePerFamily,
         CodesComeFirst, OneLiveRow, Live, DeadHadRefresh,
         DeathReachesAccessTokens, IsDead, RefreshOf, RowsOf
<1>3. GhostInv'
  BY DEF Inv, GhostInv, RedeemedIsSpent, KillIsSeen, IsDead, HasKilledJti, RefreshOf, RowsOf
<1> QED
  BY <1>1, <1>2, <1>3

CallRow == [at: Steps, token: Tokens \cup {NoToken}, fits: BOOLEAN,
            vetted: BOOLEAN, verdict: Verdicts]

\* ... other than of the one request.
LEMMA RequestStep ==
  ASSUME Inv, NEW c \in Calls, NEW r \in CallRow,
         calls' = [calls EXCEPT ![c] = r],
         UNCHANGED <<durable, delivered, ghosts>>,
         enrolled' \in BOOLEAN,
         lock' \in [Families -> Calls \cup {NoCall}],
         \A d \in Calls \ {c} : At(d, "commit") => lock'[FamilyOf(d)] = lock[FamilyOf(d)],
         r.at # "seat",
         CallOK(c)'
  PROVE  Inv'
<1>1. TypeOK'
  BY DEF Inv, TypeOK, CallRow, durable, ghosts
<1>2. calls'[c] = r /\ \A d \in Calls \ {c} : calls'[d] = calls[d]
  BY DEF Inv, TypeOK
<1>3. \A d \in Calls \ {c} : Undisturbed(d)
  BY <1>2 DEF Undisturbed, durable, ghosts
<1> QED
  BY <1>1, <1>2, <1>3, RowsStand, CallWrite DEF At

LEMMA CallTyped ==
  ASSUME Inv, NEW c \in Calls
  PROVE  /\ calls[c] \in CallRow
         /\ CallOK(c)
         /\ calls[c].at \in Holding =>
               /\ calls[c].token \in Tokens
               /\ grants[calls[c].token].kind # "none"
               /\ FamilyOf(c) \in Families
BY DEF Inv, TypeOK, CallRow, CallInv, CallOK, Used, RowInv, RowsAreWhole, FamilyOf

LEMMA IdleIsOK ==
  ASSUME Inv, NEW c \in Calls, calls' = [calls EXCEPT ![c] = Idle]
  PROVE  CallOK(c)' /\ ~At(c, "seat")' /\ Idle \in CallRow
BY DEF Inv, TypeOK, CallOK, SeatOK, GateOK, VerdictOK, At, Idle, Holding, CallRow, Steps, Verdicts

LEMMA RequestEnds ==
  ASSUME Inv, NEW c \in Calls, Finish(c),
         UNCHANGED <<durable, lock, enrolled, delivered, ghosts>>
  PROVE  Inv'
<1>1. CallOK(c)' /\ Idle \in CallRow
  BY IdleIsOK DEF Finish
<1>2. enrolled \in BOOLEAN /\ lock \in [Families -> Calls \cup {NoCall}]
  BY DEF Inv, TypeOK
<1> QED
  BY <1>1, <1>2, RequestStep DEF Finish, Idle

LEMMA StartSignInKeepsInv ==
  ASSUME Inv, NEW c \in Calls, StartSignIn(c)
  PROVE  Inv'
<1> DEFINE r == [calls[c] EXCEPT !.at = "sign_in"]
<1>1. r \in CallRow /\ r.at = "sign_in"
  BY CallTyped DEF CallRow, Steps
<1>2. calls' = [calls EXCEPT ![c] = r]
  BY DEF StartSignIn, Goto
<1>3. enrolled \in BOOLEAN /\ lock \in [Families -> Calls \cup {NoCall}]
  BY DEF Inv, TypeOK
<1>4. calls'[c] = r
  BY <1>2 DEF Inv, TypeOK
<1>5. CallOK(c)'
  BY <1>1, <1>4 DEF CallOK, SeatOK, GateOK, VerdictOK, At, Holding
<1> QED
  BY <1>1, <1>2, <1>3, <1>5, RequestStep DEF StartSignIn

LEMMA PresentKeepsInv ==
  ASSUME Inv, NEW c \in Calls, PresentCode(c) \/ PresentRefresh(c)
  PROVE  Inv'
<1>1. PICK t \in delivered, fits \in BOOLEAN, at \in {"consume", "peek"} :
        calls' = [calls EXCEPT ![c] = [Idle EXCEPT !.at = at, !.token = t, !.fits = fits]]
  BY DEF PresentCode, PresentRefresh
<1> DEFINE r == [Idle EXCEPT !.at = at, !.token = t, !.fits = fits]
<1>2. Used(t)
  BY DEF Inv, RowInv, SecretsAreUsed
<1>3. r \in CallRow /\ r.at = at /\ r.token = t
  BY <1>2 DEF CallRow, Idle, Steps, Verdicts, Used
<1>4. UNCHANGED <<durable, lock, enrolled, delivered, ghosts>>
  BY DEF PresentCode, PresentRefresh
<1>5. enrolled \in BOOLEAN /\ lock \in [Families -> Calls \cup {NoCall}]
  BY DEF Inv, TypeOK
<1>6. calls'[c] = r
  BY <1>1 DEF Inv, TypeOK
<1>7. CallOK(c)'
  BY <1>2, <1>3, <1>4, <1>6 DEF CallOK, SeatOK, GateOK, VerdictOK, At, Used, durable
<1> QED
  BY <1>1, <1>3, <1>4, <1>5, <1>7, RequestStep

LEMMA PeekKeepsInv ==
  ASSUME Inv, NEW c \in Calls, Peek(c)
  PROVE  Inv'
<1>1. CASE Finish(c)
  BY <1>1, RequestEnds DEF Peek
<1>2. CASE Goto(c, IF NeedsGate(calls[c].token) THEN "gate" ELSE "redeem")
  <2> DEFINE t == calls[c].token
  <2>1. PICK at \in {"gate", "redeem"} :
          /\ calls' = [calls EXCEPT ![c].at = at]
          /\ at = "gate" => NeedsGate(t)
          /\ at = "redeem" => ~NeedsGate(t)
    BY <1>2 DEF Goto
  <2> DEFINE r == [calls[c] EXCEPT !.at = at]
  <2>2. r \in CallRow /\ r.at = at /\ r.token = t
    BY CallTyped DEF CallRow, Steps
  <2>3. UNCHANGED <<durable, lock, enrolled, delivered, ghosts>>
    BY DEF Peek
  <2>4. enrolled \in BOOLEAN /\ lock \in [Families -> Calls \cup {NoCall}]
    BY DEF Inv, TypeOK
  <2>5. calls' = [calls EXCEPT ![c] = r] /\ calls'[c] = r
    BY <2>1 DEF Inv, TypeOK
  <2>6. Used(t)
    BY CallTyped DEF Peek, At, Holding, Used
  <2> HIDE DEF r
  <2>7. CallOK(c)'
    BY <2>1, <2>2, <2>3, <2>5, <2>6
    DEF CallOK, SeatOK, GateOK, VerdictOK, At, Used, Live, NeedsGate, durable
  <2> QED
    BY <2>2, <2>3, <2>4, <2>5, <2>7, RequestStep
<1> QED
  BY <1>1, <1>2 DEF Peek

LEMMA GateKeepsInv ==
  ASSUME Inv, NEW c \in Calls, Gate(c)
  PROVE  Inv'
<1>1. CASE Finish(c)
  BY <1>1, RequestEnds DEF Gate
<1>2. CASE ~Finish(c)
  <2>1. PICK at \in {"redeem", "gate_revoke"}, vetted \in BOOLEAN :
          /\ calls' = [calls EXCEPT ![c] = [calls[c] EXCEPT !.at = at, !.vetted = vetted]]
          /\ at = "redeem" => vetted
    <3>1. CASE calls' = [calls EXCEPT ![c].at = "redeem", ![c].vetted = TRUE]
      <4>1. calls' = [calls EXCEPT ![c] = [calls[c] EXCEPT !.at = "redeem", !.vetted = TRUE]]
        BY <3>1 DEF Inv, TypeOK
      <4> QED
        BY <4>1
    <3>2. CASE Goto(c, "gate_revoke")
      <4>1. calls[c].vetted \in BOOLEAN
        BY CallTyped DEF CallRow
      <4>2. calls' = [calls EXCEPT ![c] = [calls[c] EXCEPT !.at = "gate_revoke",
                                                          !.vetted = calls[c].vetted]]
        BY <3>2, CallTyped DEF Goto, CallRow, Inv, TypeOK
      <4> QED
        BY <4>1, <4>2
    <3> QED
      BY <1>2, <3>1, <3>2 DEF Gate
  <2> DEFINE r == [calls[c] EXCEPT !.at = at, !.vetted = vetted]
  <2>2. /\ r \in CallRow /\ r.at = at /\ r.vetted = vetted
        /\ r.token = calls[c].token
    BY CallTyped DEF CallRow, Steps
  <2>3. UNCHANGED <<durable, lock, enrolled, delivered, ghosts>>
    BY DEF Gate
  <2>4. enrolled \in BOOLEAN /\ lock \in [Families -> Calls \cup {NoCall}]
    BY DEF Inv, TypeOK
  <2>5. calls'[c] = r
    BY <2>1 DEF Inv, TypeOK
  <2>6. Used(calls[c].token) /\ grants[calls[c].token].kind = "refresh"
    BY CallTyped DEF Gate, At, Holding, Used, CallOK, GateOK
  <2>7. CallOK(c)'
    BY <2>1, <2>2, <2>3, <2>5, <2>6
    DEF CallOK, SeatOK, GateOK, VerdictOK, At, Used, durable
  <2> QED
    BY <2>1, <2>2, <2>3, <2>4, <2>7, RequestStep
<1> QED
  BY <1>1, <1>2

\* The verdict is read off the rows the lock protects.
LEMMA RedeemLocksKeepsInv ==
  ASSUME Inv, NEW c \in Calls, RedeemLocks(c)
  PROVE  Inv'
<1> DEFINE t == calls[c].token
           f == FamilyOf(c)
           v == Verdict(t, calls[c].fits)
           r == [calls[c] EXCEPT !.at = "commit", !.verdict = v]
<1>1. /\ calls[c] \in CallRow /\ CallOK(c)
      /\ Used(t) /\ f \in Families
  BY CallTyped DEF RedeemLocks, At, Holding, Used
<1>2. v \in Verdicts
  BY DEF Verdict, Verdicts
<1>3. /\ r \in CallRow /\ r.at = "commit" /\ r.verdict = v
      /\ r.token = t /\ r.vetted = calls[c].vetted
  BY <1>1, <1>2 DEF CallRow, Steps
<1>4. /\ calls' = [calls EXCEPT ![c] = r]
      /\ lock' = [lock EXCEPT ![f] = c]
      /\ lock[f] = NoCall
      /\ UNCHANGED <<durable, enrolled, delivered, ghosts>>
      /\ calls[c].at = "redeem"
  BY DEF RedeemLocks, LockIsFree, FamilyOf, At
<1>5. lock \in [Families -> Calls \cup {NoCall}] /\ enrolled \in BOOLEAN
  BY DEF Inv, TypeOK
<1>6. \A d \in Calls \ {c} : At(d, "commit") => lock'[FamilyOf(d)] = lock[FamilyOf(d)]
  <2>1. \A d \in Calls : At(d, "commit") => lock[FamilyOf(d)] = d /\ d # NoCall
    BY DEF Inv, CallInv, CallOK, VerdictOK
  <2> QED
    BY <1>4, <1>5, <2>1
<1>7. CallOK(c)'
  <2>1. calls'[c] = r /\ FamilyOf(c)' = f /\ lock'[f] = c
    BY <1>1, <1>3, <1>4, <1>5 DEF Inv, TypeOK, FamilyOf, durable
  <2>2. Used(t)'
    BY <1>1, <1>4 DEF Used, durable
  <2>3. GateOK(c)'
    BY <1>1, <1>3, <1>4, <2>1 DEF CallOK, GateOK, Live, durable
  <2>4. /\ v # "none"
        /\ v = "rotate" => grants[t].kind = "refresh" /\ Consumable(t) /\ ~HasKilledJti(f)
        /\ v = "burn" => Consumable(t)
        /\ v = "sweep" => HasKilledJti(f)
        /\ v = "reuse" => grants[t].kind = "refresh"
    BY DEF Verdict, FamilyOf, Consumable
  <2>5. v = "refuse" /\ grants[t].kind = "refresh" => IsDead(f)
    BY <1>1 DEF Verdict, FamilyOf, Consumable, Inv, RowInv, RevokedAreDead, Used
  <2>6. ~HasKilledJti(f) => afterKill[f] = 0
    BY <1>1 DEF Inv, GhostInv, KillIsSeen
  <2>7. VerdictOK(c)'
    <3>1. /\ HasKilledJti(f) => HasKilledJti(f)'
          /\ Consumable(t) => Consumable(t)'
          /\ IsDead(f) => IsDead(f)'
      BY <1>3, <1>4, <2>1 DEF HasKilledJti, RefreshOf, RowsOf, Consumable, IsDead, durable
    <3>2. grants'[t] = grants[t] /\ afterKill' = afterKill
      BY <1>4 DEF durable, ghosts
    <3> HIDE DEF v
    <3> QED
      BY <1>3, <2>1, <2>4, <2>5, <2>6, <3>1, <3>2 DEF VerdictOK
  <2> HIDE DEF v
  <2> QED
    BY <1>3, <2>1, <2>2, <2>3, <2>7 DEF CallOK, SeatOK, At
<1>8. lock' \in [Families -> Calls \cup {NoCall}] /\ enrolled' \in BOOLEAN
  BY <1>4, <1>5
<1> HIDE DEF r
<1> QED
  BY <1>3, <1>4, <1>6, <1>7, <1>8, RequestStep

LEMMA RedeemRollsBackKeepsInv ==
  ASSUME Inv, NEW c \in Calls, RedeemRollsBack(c)
  PROVE  Inv'
<1> DEFINE f == FamilyOf(c)
<1>1. f \in Families /\ lock[f] = c
  BY CallTyped DEF RedeemRollsBack, At, Holding, CallOK, VerdictOK
<1>2. /\ calls' = [calls EXCEPT ![c] = Idle]
      /\ lock' = [lock EXCEPT ![f] = NoCall]
      /\ UNCHANGED <<durable, enrolled, delivered, ghosts>>
  BY DEF RedeemRollsBack, Finish, FamilyOf
<1>3. lock \in [Families -> Calls \cup {NoCall}] /\ enrolled \in BOOLEAN
  BY DEF Inv, TypeOK
<1>4. \A d \in Calls \ {c} : At(d, "commit") => lock'[FamilyOf(d)] = lock[FamilyOf(d)]
  BY <1>1, <1>2, <1>3 DEF Inv, CallInv, CallOK, VerdictOK
<1>5. CallOK(c)' /\ Idle \in CallRow
  BY <1>2, IdleIsOK
<1> QED
  BY <1>2, <1>3, <1>4, <1>5, RequestStep DEF Idle

-----------------------------------------------------------------------------
(***************************************************************************)
(* Steps that write rows.                                                  *)
(***************************************************************************)
GrantRow == [kind: {"none", "code", "refresh"},
             family: Families \cup {NoFamily},
             parent: Tokens \cup {NoToken},
             consumed: BOOLEAN, revoked: BOOLEAN]

LEMMA RowsTyped ==
  ASSUME Inv
  PROVE  /\ grants \in [Tokens -> GrantRow]
         /\ dead \in [Families -> Reasons]
         /\ killed \subseteq Tokens
         /\ lock \in [Families -> Calls \cup {NoCall}]
         /\ enrolled \in BOOLEAN
         /\ calls \in [Calls -> CallRow]
         /\ delivered \subseteq Tokens
         /\ redeems \in [Tokens -> 0..2]
         /\ afterKill \in [Families -> 0..2]
BY DEF Inv, TypeOK, GrantRow, CallRow

LEMMA TypedIs ==
  ASSUME grants' \in [Tokens -> GrantRow],
         dead' \in [Families -> Reasons],
         killed' \subseteq Tokens,
         lock' \in [Families -> Calls \cup {NoCall}],
         enrolled' \in BOOLEAN,
         calls' \in [Calls -> CallRow],
         delivered' \subseteq Tokens,
         redeems' \in [Tokens -> 0..2],
         afterKill' \in [Families -> 0..2]
  PROVE  TypeOK'
BY DEF TypeOK, GrantRow, CallRow

LEMMA IssueCodeKeepsInv ==
  ASSUME Inv, NEW c \in Calls, IssueCode(c)
  PROVE  Inv'
<1>1. PICK t \in Unused, f \in Families :
        /\ RowsOf(f) = {}
        /\ grants' = [grants EXCEPT ![t] = Grant("code", f, NoToken)]
        /\ Deliver({t})
  BY DEF IssueCode
<1> DEFINE r == Grant("code", f, NoToken)
<1>2. /\ r \in GrantRow /\ r.kind = "code" /\ r.family = f
      /\ ~r.consumed /\ ~r.revoked
  BY DEF Grant, GrantRow
<1>3. t \in Tokens /\ grants[t].kind = "none"
  BY DEF Unused
<1>4. /\ grants' = [grants EXCEPT ![t] = r]
      /\ \A s \in Tokens : grants'[s] = IF s = t THEN r ELSE grants[s]
  BY <1>1, RowsTyped
<1>5. \A s \in Tokens : grants[s].family # f
  BY <1>1 DEF RowsOf
<1>6. delivered' \subseteq delivered \cup {t}
  BY <1>1 DEF Deliver
<1>7. UNCHANGED <<dead, killed, lock, enrolled, redeems, afterKill>>
  BY DEF IssueCode, ghosts
<1>8. calls' = [calls EXCEPT ![c] = Idle]
  BY DEF IssueCode, Finish
<1>9. CallOK(c)' /\ ~At(c, "seat")' /\ Idle \in CallRow
  BY <1>8, IdleIsOK
<1> HIDE DEF r
<1>10. TypeOK'
  <2>1. grants' \in [Tokens -> GrantRow]
    BY <1>2, <1>3, <1>4, RowsTyped
  <2>2. calls' \in [Calls -> CallRow]
    BY <1>8, <1>9, RowsTyped
  <2>3. delivered' \subseteq Tokens
    BY <1>3, <1>6, RowsTyped
  <2> QED
    BY <1>7, <2>1, <2>2, <2>3, RowsTyped, TypedIs
<1>11. Advance
  BY <1>3, <1>4, <1>7 DEF Advance, IsDead
<1>12. \A s \in Tokens : (grants[s].kind = "refresh")' => grants'[s] = grants[s]
  BY <1>2, <1>4
<1>13. \A g \in Families : RefreshOf(g)' = RefreshOf(g)
  BY <1>2, <1>3, <1>4, <1>5 DEF RefreshOf, RowsOf
<1>14. RowInv'
  <2> USE DEF Inv, RowInv
  <2>1. RowsAreWhole'
    BY <1>2, <1>4, <1>7 DEF RowsAreWhole, NoGrant
  <2>2. SecretsAreUsed'
    BY <1>2, <1>3, <1>4, <1>6, <1>7, RowsTyped DEF SecretsAreUsed, Used
  <2>3. RevokedAreDead'
    BY <1>2, <1>4, <1>7 DEF RevokedAreDead, IsDead
  <2>4. OneCodePerFamily'
    BY <1>2, <1>3, <1>4, <1>5 DEF OneCodePerFamily
  <2>5. CodesComeFirst'
    BY <1>2, <1>3, <1>4, <1>5 DEF CodesComeFirst
  <2>6. OneLiveRow'
    BY <1>2, <1>4 DEF OneLiveRow, Live
  <2>7. DeadHadRefresh'
    BY <1>7, <1>13 DEF DeadHadRefresh
  <2>8. DeathReachesAccessTokens'
    BY <1>7, <1>12, <1>13 DEF DeathReachesAccessTokens, IsDead, RefreshOf, RowsOf
  <2> QED
    BY <2>1, <2>2, <2>3, <2>4, <2>5, <2>6, <2>7, <2>8
<1>15. GhostInv'
  BY <1>3, <1>4, <1>7, <1>13 DEF Inv, GhostInv, RedeemedIsSpent, KillIsSeen, HasKilledJti, IsDead
<1>16. \A d \in Calls \ {c} : Undisturbed(d)
  BY <1>2, <1>3, <1>4, <1>7, <1>8, CallTyped, RowsTyped DEF Undisturbed, At, Holding
<1> QED
  BY <1>9, <1>10, <1>11, <1>14, <1>15, <1>16, CallWrite

LEMMA SeatFirstKeepsInv ==
  ASSUME Inv, NEW c \in Calls, SeatFirst(c)
  PROVE  Inv'
<1>1. PICK f \in Families : f = FamilyOf(c)
  BY CallTyped DEF SeatFirst, At, Holding
<1> DEFINE r == Grant("refresh", f, NoToken)
<1>2. PICK t \in Unused : grants' = [grants EXCEPT ![t] = r] /\ Deliver({t})
  BY <1>1 DEF SeatFirst, FamilyOf
<1>3. /\ r \in GrantRow /\ r.kind = "refresh" /\ r.family = f /\ r.parent = NoToken
      /\ ~r.consumed /\ ~r.revoked
  BY <1>1 DEF Grant, GrantRow
<1>4. /\ t \in Tokens /\ grants[t].kind = "none"
      /\ t \notin killed
  BY RowsTyped DEF Unused, Inv, RowInv, SecretsAreUsed
<1>5. \A s \in Tokens : grants'[s] = IF s = t THEN r ELSE grants[s]
  BY <1>2, RowsTyped
<1>6. \A s \in Tokens : ~(grants[s].family = f /\ grants[s].kind = "refresh")
  BY <1>1, CallTyped DEF SeatFirst, CallOK, SeatOK, RefreshOf, RowsOf, At
<1>7. delivered' \subseteq delivered \cup {t}
  BY <1>2 DEF Deliver
<1>8. UNCHANGED <<dead, killed, lock, enrolled, redeems, afterKill>>
  BY DEF SeatFirst, ghosts
<1>9. calls' = [calls EXCEPT ![c] = Idle]
  BY DEF SeatFirst, Finish
<1>10. CallOK(c)' /\ ~At(c, "seat")' /\ Idle \in CallRow
  BY <1>9, IdleIsOK
<1> HIDE DEF r
<1>11. TypeOK'
  <2>1. grants' \in [Tokens -> GrantRow]
    BY <1>2, <1>3, <1>4, RowsTyped
  <2>2. calls' \in [Calls -> CallRow]
    BY <1>9, <1>10, RowsTyped
  <2>3. delivered' \subseteq Tokens
    BY <1>4, <1>7, RowsTyped
  <2> QED
    BY <1>8, <2>1, <2>2, <2>3, RowsTyped, TypedIs
<1>12. Advance
  BY <1>4, <1>5, <1>8 DEF Advance, IsDead
<1>13. \A g \in Families : g # f => RefreshOf(g)' = RefreshOf(g)
  BY <1>3, <1>4, <1>5 DEF RefreshOf, RowsOf
<1>14. t \in RefreshOf(f)'
  BY <1>3, <1>4, <1>5 DEF RefreshOf, RowsOf
<1>15. RefreshOf(f) = {}
  BY <1>6 DEF RefreshOf, RowsOf
<1>16. RowInv'
  <2> USE DEF Inv, RowInv
  <2>1. RowsAreWhole'
    BY <1>1, <1>3, <1>5 DEF RowsAreWhole, NoGrant
  <2>2. SecretsAreUsed'
    BY <1>3, <1>4, <1>5, <1>7, <1>8, RowsTyped DEF SecretsAreUsed, Used
  <2>3. RevokedAreDead'
    BY <1>3, <1>5, <1>8 DEF RevokedAreDead, IsDead
  <2>4. OneCodePerFamily'
    BY <1>3, <1>4, <1>5 DEF OneCodePerFamily
  <2>5. CodesComeFirst'
    \* the code of the family is the request's own, and it was consumed
    <3>1. /\ calls[c].token \in Tokens
          /\ grants[calls[c].token].kind = "code"
          /\ grants[calls[c].token].consumed
      BY CallTyped DEF SeatFirst, CallOK, SeatOK, At, Holding
    <3> QED
      BY <1>1, <1>3, <1>4, <1>5, <3>1 DEF CodesComeFirst, OneCodePerFamily, FamilyOf
  <2>6. OneLiveRow'
    BY <1>3, <1>5, <1>6 DEF OneLiveRow, Live
  <2>7. DeadHadRefresh'
    BY <1>8, <1>13, <1>14 DEF DeadHadRefresh
  <2>8. DeathReachesAccessTokens'
    <3> SUFFICES ASSUME NEW g \in Families, dead[g] # "no", NEW s \in RefreshOf(g)',
                        dead[g] # "operator" \/ (grants[s].parent # NoToken)'
                 PROVE  (s \in killed /\ grants[s].revoked)'
      BY <1>8 DEF DeathReachesAccessTokens, IsDead
    <3>1. CASE g = f
      <4>1. s = t
        BY <1>5, <1>6, <3>1 DEF RefreshOf, RowsOf
      <4>2. dead[f] = "operator"
        BY <1>1, <1>15, <3>1 DEF DeadHadRefresh
      <4> QED
        BY <1>3, <1>5, <1>4, <3>1, <4>1, <4>2
    <3>2. CASE g # f
      <4>1. s \in RefreshOf(g) /\ grants'[s] = grants[s]
        BY <1>3, <1>5, <1>13, <3>2 DEF RefreshOf, RowsOf
      <4> QED
        BY <1>8, <4>1 DEF DeathReachesAccessTokens, IsDead
    <3> QED
      BY <3>1, <3>2
  <2> QED
    BY <2>1, <2>2, <2>3, <2>4, <2>5, <2>6, <2>7, <2>8
<1>17. GhostInv'
  BY <1>4, <1>5, <1>8, <1>13, <1>15
  DEF Inv, GhostInv, RedeemedIsSpent, KillIsSeen, HasKilledJti, IsDead
<1>18. \A d \in Calls \ {c} : Undisturbed(d)
  <2> SUFFICES ASSUME NEW d \in Calls \ {c}
               PROVE  Undisturbed(d)
    OBVIOUS
  <2>1. calls'[d] = calls[d]
    BY <1>9, RowsTyped
  <2>2. At(d, "seat") => FamilyOf(d) # f
    \* else it would hold the same code, and one request only does
    <3>1. At(d, "seat") => calls[d].token \in Tokens /\ grants[calls[d].token].kind = "code"
      BY CallTyped DEF CallOK, SeatOK, At, Holding
    <3>2. At(c, "seat") /\ calls[c].token \in Tokens /\ grants[calls[c].token].kind = "code"
      BY CallTyped DEF SeatFirst, CallOK, SeatOK, At, Holding
    <3> QED
      BY <1>1, <3>1, <3>2 DEF Inv, RowInv, OneCodePerFamily, CallInv, OneSeat, FamilyOf
  <2>3. At(d, "commit") => grants'[calls[d].token] = grants[calls[d].token]
    BY <1>4, <1>5, CallTyped DEF At, Holding
  <2> QED
    BY <1>3, <1>5, <1>8, <2>1, <2>2, <2>3 DEF Undisturbed
<1> QED
  BY <1>10, <1>11, <1>12, <1>16, <1>17, <1>18, CallWrite

LEMMA SpendRow ==
  ASSUME Inv, NEW t \in Tokens, grants[t].kind # "none",
         grants' = [grants EXCEPT ![t].consumed = TRUE],
         UNCHANGED <<dead, killed, delivered>>
  PROVE  /\ Advance /\ RowInv'
         /\ grants' \in [Tokens -> GrantRow]
         /\ \A s \in Tokens : s # t => grants'[s] = grants[s]
         /\ grants'[t].consumed
         /\ \A f \in Families : RefreshOf(f)' = RefreshOf(f)
<1> DEFINE r == [grants[t] EXCEPT !.consumed = TRUE]
<1>1. /\ r \in GrantRow /\ r.consumed
      /\ r.kind = grants[t].kind /\ r.family = grants[t].family
      /\ r.parent = grants[t].parent /\ r.revoked = grants[t].revoked
  <2>1. grants[t] \in GrantRow
    BY RowsTyped
  <2> QED
    BY <2>1 DEF GrantRow
<1>2. \A s \in Tokens : grants'[s] = IF s = t THEN r ELSE grants[s]
  BY RowsTyped
<1>3. grants' \in [Tokens -> GrantRow]
  BY <1>1, RowsTyped
<1> HIDE DEF r
<1>4. Advance
  BY <1>1, <1>2 DEF Advance, IsDead
<1>5. \A f \in Families : RefreshOf(f)' = RefreshOf(f)
  BY <1>1, <1>2 DEF RefreshOf, RowsOf
<1>6. RowInv'
  <2> USE DEF Inv, RowInv
  <2>1. RowsAreWhole'
    BY <1>1, <1>2 DEF RowsAreWhole
  <2>2. SecretsAreUsed'
    BY <1>1, <1>2, RowsTyped DEF SecretsAreUsed, Used
  <2>3. RevokedAreDead'
    BY <1>1, <1>2 DEF RevokedAreDead, IsDead
  <2>4. OneCodePerFamily'
    BY <1>1, <1>2 DEF OneCodePerFamily
  <2>5. CodesComeFirst'
    BY <1>1, <1>2 DEF CodesComeFirst
  <2>6. OneLiveRow'
    BY <1>1, <1>2 DEF OneLiveRow, Live
  <2>7. DeadHadRefresh'
    BY <1>5 DEF DeadHadRefresh
  <2>8. DeathReachesAccessTokens'
    BY <1>1, <1>2, <1>5 DEF DeathReachesAccessTokens, IsDead, RefreshOf, RowsOf
  <2> QED
    BY <2>1, <2>2, <2>3, <2>4, <2>5, <2>6, <2>7, <2>8
<1> QED
  BY <1>1, <1>2, <1>3, <1>4, <1>5, <1>6

LEMMA ConsumeCodeKeepsInv ==
  ASSUME Inv, NEW c \in Calls, ConsumeCode(c)
  PROVE  Inv'
<1> DEFINE t == calls[c].token
<1>1. /\ At(c, "consume") /\ LockIsFree(grants[t].family)
      /\ UNCHANGED <<dead, killed, lock, enrolled, delivered, ghosts>>
  BY DEF ConsumeCode
<1>2. CASE ~Consumable(t)
  BY <1>1, <1>2, RequestEnds DEF ConsumeCode, durable
<1>3. CASE Consumable(t)
  <2>1. PICK u \in Tokens : /\ u = t
                            /\ grants[u].kind # "none"
                            /\ grants[u].family \in Families
    BY <1>1, CallTyped DEF At, Holding, FamilyOf
  <2>2. grants' = [grants EXCEPT ![u].consumed = TRUE]
    BY <1>3, <2>1 DEF ConsumeCode
  <2>3. /\ Advance /\ RowInv'
        /\ grants' \in [Tokens -> GrantRow]
        /\ \A s \in Tokens : s # u => grants'[s] = grants[s]
        /\ grants'[u].consumed
        /\ \A f \in Families : RefreshOf(f)' = RefreshOf(f)
    BY <1>1, <2>1, <2>2, SpendRow
  <2>4. PICK r \in CallRow :
          /\ calls' = [calls EXCEPT ![c] = r]
          /\ \/ r.at = "seat" /\ r.token = u /\ grants[u].kind = "code"
             \/ r = Idle
    <3>1. CASE Finish(c)
      BY <3>1, IdleIsOK DEF Finish
    <3>2. CASE grants[t].kind = "code" /\ Goto(c, "seat")
      <4> DEFINE q == [calls[c] EXCEPT !.at = "seat"]
      <4>1. q \in CallRow /\ q.at = "seat" /\ q.token = u
        BY <2>1, CallTyped DEF CallRow, Steps
      <4>2. calls' = [calls EXCEPT ![c] = q]
        BY <3>2 DEF Goto
      <4> QED
        BY <2>1, <3>2, <4>1, <4>2
    <3> QED
      BY <1>3, <3>1, <3>2 DEF ConsumeCode
  <2>5. calls'[c] = r /\ \A d \in Calls \ {c} : calls'[d] = calls[d]
    BY <2>4, RowsTyped
  <2>6. TypeOK'
    BY <1>1, <2>3, <2>4, RowsTyped, TypedIs DEF ghosts
  <2>7. GhostInv'
    BY <1>1, <2>1, <2>3
    DEF Inv, GhostInv, RedeemedIsSpent, KillIsSeen, HasKilledJti, IsDead, Advance, ghosts
  <2>8. CallOK(c)'
    <3>1. CASE r = Idle
      BY <2>4, <3>1, IdleIsOK
    <3>2. CASE r.at = "seat" /\ r.token = u /\ grants[u].kind = "code"
      <4>1. ~grants[u].consumed
        BY <1>3, <2>1 DEF Consumable
      <4>2. RefreshOf(grants[u].family) = {}
        BY <2>1, <3>2, <4>1 DEF Inv, RowInv, CodesComeFirst, RefreshOf, RowsOf
      <4>3. /\ grants'[u].kind = "code"
            /\ grants'[u].family = grants[u].family
        BY <2>1, <2>3, <3>2 DEF Advance
      <4>4. SeatOK(c)'
        BY <2>1, <2>3, <2>5, <3>2, <4>2, <4>3 DEF SeatOK, FamilyOf, At
      <4> QED
        BY <2>1, <2>3, <2>5, <3>2, <4>3, <4>4
        DEF CallOK, GateOK, VerdictOK, Used, At
    <3> QED
      BY <2>4, <3>1, <3>2
  <2>9. \A d \in Calls \ {c} : Undisturbed(d)
    <3> SUFFICES ASSUME NEW d \in Calls \ {c}
                 PROVE  Undisturbed(d)
      OBVIOUS
    <3>1. At(d, "commit") => calls[d].token \in Tokens /\ calls[d].token # u
      \* it holds the lock of its family, and the lock of u's is free
      BY <1>1, <2>1, CallTyped DEF At, Holding, CallOK, VerdictOK, LockIsFree, FamilyOf
    <3>2. \A s \in Tokens : grants[s].kind = "none" => grants'[s] = grants[s]
      BY <2>1, <2>3
    <3> QED
      BY <1>1, <2>3, <2>5, <3>1, <3>2 DEF Undisturbed, ghosts
  <2>10. At(c, "seat")' => \A d \in Calls \ {c} :
            ~(At(d, "seat") /\ calls[d].token = calls'[c].token)
    BY <1>3, <2>1, <2>4, <2>5, CallTyped DEF At, CallOK, SeatOK, Consumable, Idle
  <2> QED
    BY <2>3, <2>6, <2>7, <2>8, <2>9, <2>10, CallWrite
<1> QED
  BY <1>2, <1>3

LEMMA SweepRows ==
  ASSUME Inv, NEW fs \in SUBSET Families, NEW reason \in Reasons \ {"no"},
         Sweep(fs, reason), UNCHANGED delivered,
         reason # "operator" => \A f \in fs : RefreshOf(f) # {}
  PROVE  /\ Advance /\ RowInv'
         /\ grants' \in [Tokens -> GrantRow]
         /\ dead' \in [Families -> Reasons]
         /\ killed' \subseteq Tokens
         /\ \A s \in Tokens : grants[s].family \notin fs => grants'[s] = grants[s]
         /\ \A s \in Tokens : grants'[s].kind = grants[s].kind
         /\ \A f \in fs : dead'[f] # "no"
         /\ \A f \in Families \ fs : dead'[f] = dead[f]
<1>1. \A s \in Tokens :
        /\ grants'[s] \in GrantRow
        /\ grants'[s].kind = grants[s].kind
        /\ grants'[s].family = grants[s].family
        /\ grants'[s].parent = grants[s].parent
        /\ grants'[s].consumed = grants[s].consumed
        /\ grants'[s].revoked <=> grants[s].revoked \/ grants[s].family \in fs
        /\ grants[s].family \notin fs => grants'[s] = grants[s]
  <2> TAKE s \in Tokens
  <2> DEFINE r == [grants[s] EXCEPT !.revoked = TRUE]
  <2>1. grants[s] \in GrantRow
    BY RowsTyped
  <2>2. grants'[s] = IF grants[s].family \in fs THEN r ELSE grants[s]
    BY DEF Sweep
  <2>3. /\ r \in GrantRow /\ r.revoked
        /\ r.kind = grants[s].kind /\ r.family = grants[s].family
        /\ r.parent = grants[s].parent /\ r.consumed = grants[s].consumed
    BY <2>1 DEF GrantRow
  <2> HIDE DEF r
  <2> QED
    BY <2>1, <2>2, <2>3 DEF GrantRow
<1>2. grants' \in [Tokens -> GrantRow]
  BY <1>1 DEF Sweep
<1>3. \A f \in Families :
        /\ dead'[f] \in Reasons
        /\ f \in fs => dead'[f] # "no"
        /\ f \notin fs \/ dead[f] # "no" => dead'[f] = dead[f]
        /\ f \in fs /\ dead[f] = "no" => dead'[f] = reason
  BY RowsTyped DEF Sweep, IsDead
<1>4. dead' \in [Families -> Reasons]
  BY <1>3 DEF Sweep
<1>5. /\ killed \subseteq killed'
      /\ \A f \in fs : RefreshOf(f) \subseteq killed'
      /\ \A s \in killed' : s \in killed \/ (s \in Tokens /\ grants[s].kind = "refresh")
  <2>1. killed' = killed \cup UNION {RefreshOf(f) : f \in fs}
    BY DEF Sweep
  <2>2. \A f \in fs : RefreshOf(f) \subseteq killed'
    BY <2>1
  <2>3. \A f \in fs : \A s \in RefreshOf(f) : s \in Tokens /\ grants[s].kind = "refresh"
    BY DEF RefreshOf, RowsOf
  <2>4. \A s \in killed' : s \in killed \/ \E f \in fs : s \in RefreshOf(f)
    BY <2>1
  <2>5. killed \subseteq killed'
    BY <2>1
  <2>6. \A s \in killed' : s \in killed \/ (s \in Tokens /\ grants[s].kind = "refresh")
    BY <2>3, <2>4
  <2> QED
    BY <2>2, <2>5, <2>6
<1>6. \A f \in Families : RefreshOf(f)' = RefreshOf(f)
  BY <1>1 DEF RefreshOf, RowsOf
<1>7. Advance
  BY <1>1, <1>3, <1>5 DEF Advance, IsDead
<1>8. RowInv'
  <2> USE DEF Inv, RowInv
  <2>1. RowsAreWhole'
    <3>1. \A s \in Tokens : grants[s].kind = "none" => grants[s].family \notin fs
      BY DEF RowsAreWhole, NoGrant
    <3> QED
      BY <1>1, <3>1 DEF RowsAreWhole
  <2>2. SecretsAreUsed'
    BY <1>1, <1>5, RowsTyped DEF SecretsAreUsed, Used
  <2>3. RevokedAreDead'
    <3> SUFFICES ASSUME NEW s \in Tokens, grants'[s].revoked
                 PROVE  dead'[grants[s].family] # "no"
      BY <1>1 DEF RevokedAreDead, IsDead
    <3>1. grants[s].family \in fs \/ grants[s].revoked
      BY <1>1
    <3>2. grants[s].revoked => grants[s].family \in Families /\ dead[grants[s].family] # "no"
      BY DEF RowsAreWhole, NoGrant, RevokedAreDead, IsDead
    <3> QED
      BY <1>3, <3>1, <3>2
  <2>4. OneCodePerFamily'
    BY <1>1 DEF OneCodePerFamily
  <2>5. CodesComeFirst'
    BY <1>1 DEF CodesComeFirst
  <2>6. OneLiveRow'
    BY <1>1 DEF OneLiveRow, Live
  <2>7. DeadHadRefresh'
    BY <1>3, <1>6 DEF DeadHadRefresh
  <2>8. DeathReachesAccessTokens'
    BY <1>1, <1>3, <1>5, <1>6 DEF DeathReachesAccessTokens, IsDead, RefreshOf, RowsOf
  <2> QED
    BY <2>1, <2>2, <2>3, <2>4, <2>5, <2>6, <2>7, <2>8
<1> QED
  BY <1>1, <1>2, <1>3, <1>4, <1>5, <1>7, <1>8, RowsTyped

LEMMA SweepIsSeen ==
  ASSUME Inv, Advance, redeems' = redeems, afterKill' = afterKill,
         \A s \in Tokens : grants'[s].kind = grants[s].kind
  PROVE  GhostInv'
<1>1. \A f \in Families : HasKilledJti(f) => HasKilledJti(f)'
  BY KilledStaysKilled
<1>2. KillIsSeen'
  BY <1>1 DEF Inv, GhostInv, KillIsSeen
<1>3. RedeemedIsSpent'
  BY DEF Inv, RowInv, RowsAreWhole, GhostInv, RedeemedIsSpent, Advance, IsDead
<1> QED
  BY <1>2, <1>3 DEF GhostInv

\* Only the family's own lock could be needed by a request in progress.
LEMMA SweepDisturbsNobody ==
  ASSUME Inv, NEW d \in Calls, calls'[d] = calls[d],
         NEW fs \in SUBSET Families,
         At(d, "commit") => FamilyOf(d) \notin fs,
         \A s \in Tokens : grants[s].family \notin fs => grants'[s] = grants[s],
         \A s \in Tokens : grants'[s].kind = grants[s].kind,
         \A f \in Families \ fs : dead'[f] = dead[f],
         At(d, "commit") => lock'[FamilyOf(d)] = lock[FamilyOf(d)],
         At(d, "commit") => afterKill'[FamilyOf(d)] = afterKill[FamilyOf(d)]
  PROVE  Undisturbed(d)
BY CallTyped DEF Undisturbed, At, Holding, FamilyOf

LEMMA OperatorSweepKeepsInv ==
  ASSUME Inv, NEW fs \in SUBSET Families, Sweep(fs, "operator"),
         \A f \in fs : LockIsFree(f),
         UNCHANGED <<lock, enrolled, calls, delivered, ghosts>>
  PROVE  Inv'
<1>1. /\ Advance /\ RowInv'
      /\ grants' \in [Tokens -> GrantRow]
      /\ dead' \in [Families -> Reasons]
      /\ killed' \subseteq Tokens
      /\ \A s \in Tokens : grants[s].family \notin fs => grants'[s] = grants[s]
      /\ \A s \in Tokens : grants'[s].kind = grants[s].kind
      /\ \A f \in Families \ fs : dead'[f] = dead[f]
  BY SweepRows DEF Reasons
<1>2. TypeOK'
  BY <1>1, RowsTyped, TypedIs DEF ghosts
<1>3. GhostInv'
  BY <1>1, SweepIsSeen DEF ghosts
<1>4. \A d \in Calls : At(d, "commit") => FamilyOf(d) \notin fs
  BY CallTyped DEF CallOK, VerdictOK, LockIsFree
<1>5. \A d \in Calls : Undisturbed(d)
  BY <1>1, <1>4, SweepDisturbsNobody DEF ghosts
<1> QED
  BY <1>1, <1>2, <1>3, <1>5, OtherWrite

LEMMA GateRevokesKeepsInv ==
  ASSUME Inv, NEW c \in Calls, GateRevokes(c)
  PROVE  Inv'
<1>1. PICK f \in Families : f = FamilyOf(c) /\ RefreshOf(f) # {}
  <2>1. /\ calls[c].token \in RefreshOf(FamilyOf(c))
        /\ FamilyOf(c) \in Families
    BY CallTyped DEF GateRevokes, At, Holding, CallOK, GateOK, FamilyOf, RefreshOf, RowsOf
  <2> QED
    BY <2>1
<1>2. /\ Sweep({f}, "identity") /\ LockIsFree(f)
      /\ calls' = [calls EXCEPT ![c] = Idle]
      /\ UNCHANGED <<lock, enrolled, delivered, ghosts>>
  BY <1>1 DEF GateRevokes, FamilyOf, Finish
<1>3. /\ Advance /\ RowInv'
      /\ grants' \in [Tokens -> GrantRow]
      /\ dead' \in [Families -> Reasons]
      /\ killed' \subseteq Tokens
      /\ \A s \in Tokens : grants[s].family \notin {f} => grants'[s] = grants[s]
      /\ \A s \in Tokens : grants'[s].kind = grants[s].kind
      /\ \A g \in Families \ {f} : dead'[g] = dead[g]
  BY <1>1, <1>2, SweepRows DEF Reasons
<1>4. CallOK(c)' /\ ~At(c, "seat")' /\ Idle \in CallRow
  BY <1>2, IdleIsOK
<1>5. TypeOK'
  BY <1>2, <1>3, <1>4, RowsTyped, TypedIs DEF ghosts
<1>6. GhostInv'
  BY <1>2, <1>3, SweepIsSeen DEF ghosts
<1>7. \A d \in Calls \ {c} : At(d, "commit") => FamilyOf(d) \notin {f}
  BY <1>2, CallTyped DEF CallOK, VerdictOK, LockIsFree
<1>8. \A d \in Calls \ {c} : calls'[d] = calls[d]
  BY <1>2, RowsTyped
<1>9. \A d \in Calls \ {c} : Undisturbed(d)
  BY <1>2, <1>3, <1>7, <1>8, SweepDisturbsNobody DEF ghosts
<1> QED
  BY <1>3, <1>4, <1>5, <1>6, <1>9, CallWrite

\* One jti, and no lock: nothing but killed changes.
LEMMA RevokeSessionKeepsInv ==
  ASSUME Inv, NEW t \in Tokens, RevokeSession(t)
  PROVE  Inv'
<1>1. /\ killed' = killed \cup {t} /\ grants[t].kind = "refresh"
      /\ UNCHANGED <<grants, dead, lock, enrolled, calls, delivered, redeems, afterKill>>
  BY DEF RevokeSession, ghosts
<1>2. Advance
  BY <1>1 DEF Advance, IsDead
<1>3. TypeOK'
  BY <1>1, RowsTyped, TypedIs
<1>4. RowInv'
  BY <1>1, RowsTyped
  DEF Inv, RowInv, RowsAreWhole, SecretsAreUsed, Used, RevokedAreDead, OneCodePerFamily,
      CodesComeFirst, OneLiveRow, Live, DeadHadRefresh, DeathReachesAccessTokens, IsDead,
      RefreshOf, RowsOf
<1>5. GhostInv'
  BY <1>1, <1>2, SweepIsSeen
<1>6. \A d \in Calls : Undisturbed(d)
  BY <1>1 DEF Undisturbed
<1> QED
  BY <1>2, <1>3, <1>4, <1>5, <1>6, OtherWrite

-----------------------------------------------------------------------------
(***************************************************************************)
(* The commit of a redemption.  CommitKeepsInv asks of the write only what *)
(* it does to the family whose lock the request holds; one lemma for each  *)
(* verdict shows that.                                                     *)
(***************************************************************************)
LEMMA CommitKeepsInv ==
  ASSUME Inv, NEW c \in Calls, NEW t \in Tokens, NEW f \in Families,
         At(c, "commit"), t = calls[c].token, f = FamilyOf(c),
         Advance, RowInv',
         grants' \in [Tokens -> GrantRow],
         dead' \in [Families -> Reasons],
         killed' \subseteq Tokens,
         delivered' \subseteq Tokens,
         \A s \in Tokens : grants[s].kind # "none" /\ grants[s].family # f
                          => grants'[s] = grants[s],
         \A s \in Tokens : grants[s].kind = "none" /\ grants'[s].kind # "none"
                          => grants'[s].family = f /\ grants[t].kind = "refresh",
         \A g \in Families \ {f} : dead'[g] = dead[g],
         grants[t].kind = "refresh" =>
             /\ grants'[t].consumed \/ dead'[f] # "no"
             /\ redeems[t] # 0 => dead'[f] # "no",
         lock' = [lock EXCEPT ![f] = NoCall],
         redeems' = IF grants[t].kind = "refresh"
                    THEN [redeems EXCEPT ![t] = Bump(@)] ELSE redeems,
         \/ afterKill' = afterKill
         \/ /\ afterKill' = [afterKill EXCEPT ![f] = Bump(@)]
            /\ afterKill[f] = 0
            /\ HasKilledJti(f),
         calls' = [calls EXCEPT ![c] = Idle],
         enrolled' = enrolled
  PROVE  Inv'
<1>1. grants[t].kind # "none" /\ grants[t].family = f
  BY CallTyped DEF At, Holding, FamilyOf
<1>2. CallOK(c)' /\ ~At(c, "seat")' /\ Idle \in CallRow
  BY IdleIsOK
<1>3. redeems' \in [Tokens -> 0..2] /\ \A s \in Tokens \ {t} : redeems'[s] = redeems[s]
  BY RowsTyped DEF Bump
<1>4. /\ afterKill' \in [Families -> 0..2]
      /\ \A g \in Families \ {f} : afterKill'[g] = afterKill[g]
      /\ afterKill'[f] = afterKill[f] \/ (afterKill'[f] = 1 /\ HasKilledJti(f))
  BY RowsTyped DEF Bump
<1>5. lock' \in [Families -> Calls \cup {NoCall}] /\ \A g \in Families \ {f} : lock'[g] = lock[g]
  BY RowsTyped
<1>6. calls' \in [Calls -> CallRow] /\ \A d \in Calls \ {c} : calls'[d] = calls[d]
  BY <1>2, RowsTyped
<1>7. TypeOK'
  BY <1>3, <1>4, <1>5, <1>6, RowsTyped, TypedIs
<1>8. KillIsSeen'
  <2>1. \A g \in Families : HasKilledJti(g) => HasKilledJti(g)'
    BY KilledStaysKilled
  <2> QED
    BY <1>4, <2>1 DEF KillIsSeen, Inv, GhostInv
<1>9. RedeemedIsSpent'
  <2> SUFFICES ASSUME NEW s \in Tokens
               PROVE  /\ redeems'[s] # 0 =>
                            /\ grants'[s].kind # "none"
                            /\ grants'[s].consumed \/ dead'[grants'[s].family] # "no"
                      /\ redeems'[s] = 2 => dead'[grants'[s].family] # "no"
    BY DEF RedeemedIsSpent, IsDead
  <2>1. CASE s = t
    <3>1. grants'[t].kind # "none" /\ grants'[t].family = f
      BY <1>1 DEF Advance
    <3>2. grants[t].kind # "refresh" => redeems'[t] = redeems[t] /\ (grants[t].consumed => grants'[t].consumed)
      BY <1>1 DEF Advance
    <3>3. grants[t].kind = "refresh" => (redeems'[t] = 2 => redeems[t] # 0)
      BY RowsTyped DEF Bump
    <3>4. /\ redeems[t] # 0 => grants[t].consumed \/ dead[f] # "no"
          /\ redeems[t] = 2 => dead[f] # "no"
      BY <1>1 DEF Inv, GhostInv, RedeemedIsSpent, IsDead
    <3>5. dead[f] # "no" => dead'[f] # "no"
      BY DEF Advance, IsDead
    <3> QED
      BY <2>1, <3>1, <3>2, <3>3, <3>4, <3>5
  <2>2. CASE s # t
    BY <1>3, <2>2 DEF Inv, RowInv, RowsAreWhole, GhostInv, RedeemedIsSpent, Advance, IsDead
  <2> QED
    BY <2>1, <2>2
<1>10. \A d \in Calls \ {c} : Undisturbed(d)
  <2> SUFFICES ASSUME NEW d \in Calls \ {c}
               PROVE  Undisturbed(d)
    OBVIOUS
  <2>1. At(d, "commit") => FamilyOf(d) \in Families \ {f}
    \* one lock, one holder
    BY CallTyped DEF At, Holding, CallOK, VerdictOK
  <2>2. At(d, "seat") /\ grants[t].kind = "refresh" => FamilyOf(d) # f
    BY <1>1, CallTyped DEF At, Holding, CallOK, SeatOK, RefreshOf, RowsOf
  <2>3. At(d, "commit") => grants'[calls[d].token] = grants[calls[d].token]
    BY <2>1, CallTyped DEF At, Holding, FamilyOf
  <2>4. At(d, "seat") => \A s \in Tokens :
           grants[s].kind = "none" /\ grants'[s].kind = "refresh" => grants'[s].family # FamilyOf(d)
    BY <2>2
  <2> QED
    BY <1>4, <1>5, <1>6, <2>1, <2>3, <2>4 DEF Undisturbed
<1> QED
  BY <1>2, <1>7, <1>8, <1>9, <1>10, CallWrite DEF GhostInv

LEMMA RotateRows ==
  ASSUME Inv, NEW t \in Tokens, NEW f \in Families, grants[t].family = f,
         grants[t].kind = "refresh", Consumable(t), Rotate(t)
  PROVE  /\ Advance /\ RowInv'
         /\ grants' \in [Tokens -> GrantRow]
         /\ delivered' \subseteq Tokens
         /\ \A s \in Tokens : grants[s].kind # "none" /\ s # t => grants'[s] = grants[s]
         /\ \A s \in Tokens : grants[s].kind = "none" /\ grants'[s].kind # "none"
                              => grants'[s].family = f
         /\ grants'[t].consumed
         /\ UNCHANGED <<dead, killed>>
<1>1. PICK n \in Unused :
        /\ grants' = [grants EXCEPT ![t].consumed = TRUE, ![n] = Grant("refresh", f, t)]
        /\ Deliver({n})
        /\ UNCHANGED <<dead, killed>>
  BY DEF Rotate
<1> DEFINE q == [grants[t] EXCEPT !.consumed = TRUE]
           r == Grant("refresh", f, t)
<1>2. /\ n \in Tokens /\ grants[n].kind = "none" /\ n # t
      /\ n \notin killed
  BY DEF Unused, Inv, RowInv, SecretsAreUsed
<1>3. \A s \in Tokens : grants'[s] = IF s = n THEN r ELSE IF s = t THEN q ELSE grants[s]
  BY <1>1, <1>2, RowsTyped
<1>4. /\ q \in GrantRow /\ q.consumed
      /\ q.kind = "refresh" /\ q.family = f
      /\ q.parent = grants[t].parent /\ q.revoked = grants[t].revoked
  <2>1. grants[t] \in GrantRow
    BY RowsTyped
  <2> QED
    BY <2>1 DEF GrantRow
<1>5. /\ r \in GrantRow /\ r.kind = "refresh" /\ r.family = f /\ r.parent = t
      /\ ~r.consumed /\ ~r.revoked
  BY DEF Grant, GrantRow
<1> HIDE DEF q, r
<1>6. grants' \in [Tokens -> GrantRow]
  <2>1. DOMAIN grants' = Tokens /\ grants' = [s \in Tokens |-> grants'[s]]
    BY <1>1, RowsTyped
  <2>2. \A s \in Tokens : grants'[s] \in GrantRow
    BY <1>3, <1>4, <1>5, RowsTyped
  <2> QED
    BY <2>1, <2>2
<1>7. Advance
  BY <1>1, <1>2, <1>3, <1>4 DEF Advance, IsDead
<1>8. delivered' \subseteq delivered \cup {n}
  BY <1>1 DEF Deliver
<1>9. dead[f] = "no" /\ Live(t)
  BY DEF Consumable, IsDead, Live
<1>10. \A g \in Families : g # f => RefreshOf(g)' = RefreshOf(g)
  BY <1>2, <1>3, <1>4, <1>5 DEF RefreshOf, RowsOf
<1>11. RowInv'
  <2> USE DEF Inv, RowInv
  <2>1. RowsAreWhole'
    BY <1>3, <1>4, <1>5 DEF RowsAreWhole
  <2>2. SecretsAreUsed'
    BY <1>1, <1>2, <1>3, <1>4, <1>5, <1>8, RowsTyped DEF SecretsAreUsed, Used
  <2>3. RevokedAreDead'
    <3> SUFFICES ASSUME NEW s \in Tokens, grants'[s].revoked
                 PROVE  dead'[grants'[s].family] # "no"
      BY DEF RevokedAreDead, IsDead
    <3>1. s # n /\ s # t
      BY <1>3, <1>4, <1>5, <1>9 DEF Live
    <3>2. grants'[s] = grants[s]
      BY <1>3, <3>1
    <3>3. dead[grants[s].family] # "no"
      BY <3>2 DEF RevokedAreDead, IsDead
    <3> QED
      BY <1>1, <3>2, <3>3
  <2>4. OneCodePerFamily'
    BY <1>3, <1>4, <1>5 DEF OneCodePerFamily
  <2>5. CodesComeFirst'
    BY <1>3, <1>4, <1>5 DEF CodesComeFirst
  <2>6. OneLiveRow'
    \* the one live row of the family was t
    BY <1>3, <1>4, <1>5, <1>9 DEF OneLiveRow, Live
  <2>7. DeadHadRefresh'
    BY <1>1, <1>9, <1>10 DEF DeadHadRefresh
  <2>8. DeathReachesAccessTokens'
    <3> SUFFICES ASSUME NEW g \in Families, dead[g] # "no", NEW s \in RefreshOf(g)',
                        dead[g] # "operator" \/ grants'[s].parent # NoToken
                 PROVE  s \in killed /\ grants'[s].revoked
      BY <1>1 DEF DeathReachesAccessTokens, IsDead
    <3>1. g # f /\ s \in RefreshOf(g)
      BY <1>9, <1>10
    <3>2. grants'[s] = grants[s]
      BY <1>2, <1>3, <3>1 DEF RefreshOf, RowsOf
    <3> QED
      BY <3>1, <3>2 DEF DeathReachesAccessTokens, IsDead
  <2> QED
    BY <2>1, <2>2, <2>3, <2>4, <2>5, <2>6, <2>7, <2>8
<1> QED
  BY <1>1, <1>2, <1>3, <1>4, <1>5, <1>6, <1>7, <1>8, <1>11, RowsTyped

LEMMA RedeemCommitsKeepsInv ==
  ASSUME Inv, NEW c \in Calls, RedeemCommits(c)
  PROVE  Inv'
<1>1. PICK t \in Tokens, f \in Families :
        /\ t = calls[c].token /\ f = FamilyOf(c) /\ f = grants[t].family
        /\ grants[t].kind # "none"
  BY CallTyped DEF RedeemCommits, At, Holding, FamilyOf
<1> DEFINE verdict == calls[c].verdict
<1>2. /\ At(c, "commit")
      /\ lock' = [lock EXCEPT ![f] = NoCall]
      /\ redeems' = IF grants[t].kind = "refresh" THEN [redeems EXCEPT ![t] = Bump(@)] ELSE redeems
      /\ afterKill' = IF verdict = "rotate" /\ HasKilledJti(f)
                      THEN [afterKill EXCEPT ![f] = Bump(@)] ELSE afterKill
      /\ calls' = [calls EXCEPT ![c] = Idle]
      /\ enrolled' = enrolled
  BY <1>1 DEF RedeemCommits, Finish, FamilyOf
<1>3. VerdictOK(c)
  BY CallTyped DEF CallOK
<1>4. CASE verdict = "rotate" /\ Rotate(t)
  <2>1. /\ grants[t].kind = "refresh" /\ Consumable(t)
        /\ afterKill[f] = 0
    BY <1>1, <1>2, <1>3, <1>4 DEF VerdictOK
  <2>2. /\ Advance /\ RowInv'
        /\ grants' \in [Tokens -> GrantRow]
        /\ delivered' \subseteq Tokens
        /\ \A s \in Tokens : grants[s].kind # "none" /\ s # t => grants'[s] = grants[s]
        /\ \A s \in Tokens : grants[s].kind = "none" /\ grants'[s].kind # "none"
                             => grants'[s].family = f
        /\ grants'[t].consumed
        /\ UNCHANGED <<dead, killed>>
    BY <1>1, <1>4, <2>1, RotateRows
  <2>3. redeems[t] # 0 => FALSE
    BY <1>1, <2>1 DEF Inv, GhostInv, RedeemedIsSpent, Consumable
  <2>4. \/ afterKill' = afterKill
        \/ /\ afterKill' = [afterKill EXCEPT ![f] = Bump(@)]
           /\ afterKill[f] = 0
           /\ HasKilledJti(f)
    BY <1>2, <2>1
  <2>5. /\ \A s \in Tokens : grants[s].kind # "none" /\ grants[s].family # f
                           => grants'[s] = grants[s]
        /\ \A s \in Tokens : grants[s].kind = "none" /\ grants'[s].kind # "none"
                           => grants'[s].family = f /\ grants[t].kind = "refresh"
        /\ \A g \in Families \ {f} : dead'[g] = dead[g]
        /\ grants[t].kind = "refresh" =>
              /\ grants'[t].consumed \/ dead'[f] # "no"
              /\ redeems[t] # 0 => dead'[f] # "no"
    BY <1>1, <2>1, <2>2, <2>3
  <2>6. dead' \in [Families -> Reasons] /\ killed' \subseteq Tokens
    BY <2>2, RowsTyped
  <2> QED
    BY <1>1, <1>2, <2>2, <2>4, <2>5, <2>6, CommitKeepsInv
<1>5. CASE verdict = "burn" /\ Burn(t)
  <2>1. Consumable(t)
    BY <1>1, <1>2, <1>3, <1>5 DEF VerdictOK
  <2>2. /\ Advance /\ RowInv'
        /\ grants' \in [Tokens -> GrantRow]
        /\ \A s \in Tokens : s # t => grants'[s] = grants[s]
        /\ grants'[t].consumed
        /\ UNCHANGED <<dead, killed, delivered>>
    BY <1>1, <1>5, SpendRow DEF Burn
  <2>3. redeems[t] # 0 => FALSE
    BY <1>1, <2>1 DEF Inv, GhostInv, RedeemedIsSpent, Consumable
  <2>4. afterKill' = afterKill
    BY <1>2, <1>5
  <2>5. /\ \A s \in Tokens : grants[s].kind # "none" /\ grants[s].family # f
                           => grants'[s] = grants[s]
        /\ \A s \in Tokens : grants[s].kind = "none" /\ grants'[s].kind # "none"
                           => grants'[s].family = f /\ grants[t].kind = "refresh"
        /\ \A g \in Families \ {f} : dead'[g] = dead[g]
        /\ grants[t].kind = "refresh" =>
              /\ grants'[t].consumed \/ dead'[f] # "no"
              /\ redeems[t] # 0 => dead'[f] # "no"
    BY <1>1, <2>2, <2>3
  <2>6. dead' \in [Families -> Reasons] /\ killed' \subseteq Tokens /\ delivered' \subseteq Tokens
    BY <2>2, RowsTyped
  <2> QED
    BY <1>1, <1>2, <2>2, <2>4, <2>5, <2>6, CommitKeepsInv
<1>6. CASE /\ verdict \in {"sweep", "reuse"} /\ UNCHANGED delivered
           /\ \E reason \in {"session", "reuse"} : Sweep({f}, reason)
  <2>1. PICK reason \in {"session", "reuse"} : Sweep({f}, reason)
    BY <1>6
  <2>2. RefreshOf(f) # {}
    BY <1>1, <1>2, <1>3, <1>6 DEF VerdictOK, HasKilledJti, RefreshOf, RowsOf
  <2>3. /\ Advance /\ RowInv'
        /\ grants' \in [Tokens -> GrantRow]
        /\ dead' \in [Families -> Reasons]
        /\ killed' \subseteq Tokens
        /\ \A s \in Tokens : grants[s].family \notin {f} => grants'[s] = grants[s]
        /\ \A s \in Tokens : grants'[s].kind = grants[s].kind
        /\ \A g \in {f} : dead'[g] # "no"
        /\ \A g \in Families \ {f} : dead'[g] = dead[g]
    BY <1>6, <2>1, <2>2, SweepRows DEF Reasons
  <2>4. afterKill' = afterKill
    BY <1>2, <1>6
  <2>5. /\ \A s \in Tokens : grants[s].kind # "none" /\ grants[s].family # f
                           => grants'[s] = grants[s]
        /\ \A s \in Tokens : grants[s].kind = "none" /\ grants'[s].kind # "none"
                           => grants'[s].family = f /\ grants[t].kind = "refresh"
        /\ \A g \in Families \ {f} : dead'[g] = dead[g]
        /\ grants[t].kind = "refresh" =>
              /\ grants'[t].consumed \/ dead'[f] # "no"
              /\ redeems[t] # 0 => dead'[f] # "no"
    BY <1>1, <2>3
  <2>6. delivered' \subseteq Tokens
    BY <1>6, RowsTyped
  <2> QED
    BY <1>1, <1>2, <2>3, <2>4, <2>5, <2>6, CommitKeepsInv
<1>7. CASE verdict = "refuse" /\ UNCHANGED <<durable, delivered>>
  <2>1. Advance /\ UNCHANGED <<grants, dead, killed, delivered>>
    BY <1>7 DEF Advance, IsDead, durable
  <2>2. RowInv'
    BY <2>1
    DEF Inv, RowInv, RowsAreWhole, SecretsAreUsed, Used, RevokedAreDead, OneCodePerFamily,
        CodesComeFirst, OneLiveRow, Live, DeadHadRefresh, DeathReachesAccessTokens, IsDead,
        RefreshOf, RowsOf
  <2>3. grants[t].kind = "refresh" => dead[f] # "no"
    BY <1>1, <1>2, <1>3, <1>7 DEF VerdictOK, IsDead
  <2> QED
    BY <1>1, <1>2, <1>7, <2>1, <2>2, <2>3, CommitKeepsInv, RowsTyped
<1> QED
  <2>1. \/ verdict = "rotate" /\ Rotate(t)
        \/ verdict = "burn" /\ Burn(t)
        \/ verdict = "sweep" /\ Sweep({f}, "session") /\ UNCHANGED delivered
        \/ verdict = "reuse" /\ Sweep({f}, "reuse") /\ UNCHANGED delivered
        \/ verdict = "refuse" /\ UNCHANGED <<durable, delivered>>
    BY <1>1 DEF RedeemCommits
  <2> QED
    BY <1>4, <1>5, <1>6, <1>7, <2>1

-----------------------------------------------------------------------------
LEMMA InitOK == Init => Inv
<1> SUFFICES ASSUME Init PROVE Inv
  OBVIOUS
<1> USE DEF Init
<1>1. \A t \in Tokens : /\ grants[t] = NoGrant /\ NoGrant.kind = "none"
                         /\ NoGrant.family = NoFamily /\ ~NoGrant.revoked
  BY DEF NoGrant
<1>2. TypeOK
  BY DEF TypeOK, NoGrant, Idle, Reasons, Steps, Verdicts
<1>3. RowInv
  BY <1>1 DEF RowInv, RowsAreWhole, SecretsAreUsed, RevokedAreDead, OneCodePerFamily,
     CodesComeFirst, OneLiveRow, DeadHadRefresh, DeathReachesAccessTokens, IsDead
<1>4. GhostInv
  BY DEF GhostInv, RedeemedIsSpent, KillIsSeen
<1>5. CallInv
  BY DEF CallInv, OneSeat, CallOK, SeatOK, GateOK, VerdictOK, Idle, At, Holding
<1> QED
  BY <1>2, <1>3, <1>4, <1>5 DEF Inv

LEMMA OtherStepsKeepInv ==
  ASSUME Inv, \/ \E f \in Families : RevokeFamily(f)
              \/ RevokeEmail
              \/ \E t \in Tokens : RevokeSession(t)
              \/ Enroll
              \/ UNCHANGED vars
  PROVE  Inv'
<1>1. CASE \E f \in Families : RevokeFamily(f)
  BY <1>1, OperatorSweepKeepsInv DEF RevokeFamily
<1>2. CASE RevokeEmail
  <2> DEFINE fs == {f \in Families : \E t \in RowsOf(f) : ~grants[t].revoked}
  <2>1. fs \in SUBSET Families
    OBVIOUS
  <2>2. /\ Sweep(fs, "operator") /\ \A f \in fs : LockIsFree(f)
        /\ UNCHANGED <<lock, enrolled, calls, delivered, ghosts>>
    BY <1>2 DEF RevokeEmail
  <2> HIDE DEF fs
  <2> QED
    BY <2>1, <2>2, OperatorSweepKeepsInv
<1>3. CASE \E t \in Tokens : RevokeSession(t)
  BY <1>3, RevokeSessionKeepsInv
<1>4. CASE Enroll \/ UNCHANGED vars
  <2>1. /\ UNCHANGED <<durable, lock, calls, delivered, ghosts>>
        /\ enrolled' \in BOOLEAN
    BY <1>4, RowsTyped DEF Enroll, vars, durable, ghosts
  <2>2. Advance /\ RowInv' /\ GhostInv'
    BY <2>1, RowsStand
  <2>3. TypeOK'
    BY <2>1, RowsTyped, TypedIs DEF durable, ghosts
  <2>4. \A d \in Calls : Undisturbed(d)
    BY <2>1 DEF Undisturbed, durable, ghosts
  <2> QED
    BY <2>2, <2>3, <2>4, OtherWrite
<1> QED
  BY <1>1, <1>2, <1>3, <1>4

LEMMA StepsKeepInv == Inv /\ [Next]_vars => Inv'
<1> SUFFICES ASSUME Inv, [Next]_vars PROVE Inv'
  OBVIOUS
<1>1. ASSUME NEW c \in Calls, CallStep(c) PROVE Inv'
  <2>1. CASE StartSignIn(c)
    BY <2>1, StartSignInKeepsInv
  <2>2. CASE IssueCode(c)
    BY <2>2, IssueCodeKeepsInv
  <2>3. CASE PresentCode(c) \/ PresentRefresh(c)
    BY <2>3, PresentKeepsInv
  <2>4. CASE ConsumeCode(c)
    BY <2>4, ConsumeCodeKeepsInv
  <2>5. CASE SeatFirst(c)
    BY <2>5, SeatFirstKeepsInv
  <2>6. CASE Abandon(c)
    BY <2>6, RequestEnds DEF Abandon
  <2>7. CASE Peek(c)
    BY <2>7, PeekKeepsInv
  <2>8. CASE Gate(c)
    BY <2>8, GateKeepsInv
  <2>9. CASE GateRevokes(c)
    BY <2>9, GateRevokesKeepsInv
  <2>10. CASE RedeemLocks(c)
    BY <2>10, RedeemLocksKeepsInv
  <2>11. CASE RedeemCommits(c)
    BY <2>11, RedeemCommitsKeepsInv
  <2>12. CASE RedeemRollsBack(c)
    BY <2>12, RedeemRollsBackKeepsInv
  <2> QED
    BY <1>1, <2>1, <2>2, <2>3, <2>4, <2>5, <2>6, <2>7, <2>8, <2>9, <2>10, <2>11, <2>12
    DEF CallStep
<1>2. CASE ~\E c \in Calls : CallStep(c)
  BY <1>2, OtherStepsKeepInv DEF Next
<1> QED
  BY <1>1, <1>2

\* The inductive invariant: the types, what the rows owe each other, and what
\* every request in progress still believes of them.
THEOREM Invariant == Spec => []Inv
BY InitOK, StepsKeepInv, PTL DEF Spec

\* Every variable keeps to its type.
THEOREM TypeCorrectness == Spec => []TypeOK
<1>1. Inv => TypeOK
  BY DEF Inv
<1> QED
  BY <1>1, Invariant, PTL

\* However many requests race, are lost or repeated, a session has one
\* refresh token that could still be rotated (redeem_oauth_refresh).
THEOREM OneLiveToken == Spec => []OneLiveTokenPerFamily
<1>1. Inv => OneLiveTokenPerFamily
  BY DEF Inv, RowInv, OneLiveRow, Live, OneLiveTokenPerFamily, RefreshOf, RowsOf, Consumable
<1> QED
  BY <1>1, Invariant, PTL

\* A refresh token presented twice costs the session.
THEOREM ReuseIsPunished == Spec => []ReuseEndsTheSession
<1>1. Inv => ReuseEndsTheSession
  BY DEF Inv, GhostInv, RedeemedIsSpent, ReuseEndsTheSession
<1> QED
  BY <1>1, Invariant, PTL

\* The end of a session reaches the access tokens minted for it.
THEOREM DeathReaches == Spec => []DeathReachesAccessTokens
<1>1. Inv => DeathReachesAccessTokens
  BY DEF Inv, RowInv
<1> QED
  BY <1>1, Invariant, PTL

\* Apart from a rotation, a step leaves the parent of every row alone.
LEMMA ParentsStand ==
  ASSUME Inv, NEW t \in Tokens, grants[t].kind = "none",
         \/ UNCHANGED grants
         \/ \E n \in Tokens, kind \in {"code", "refresh"}, f \in Families :
                grants' = [grants EXCEPT ![n] = Grant(kind, f, NoToken)]
         \/ \E n \in Tokens : grants' = [grants EXCEPT ![n].consumed = TRUE]
         \/ \E fs, reason : Sweep(fs, reason)
  PROVE  grants'[t].parent = NoToken
<1>1. grants[t] \in GrantRow /\ grants[t].parent = NoToken
  <2>1. grants[t] = NoGrant
    BY DEF Inv, RowInv, RowsAreWhole
  <2>2. NoGrant.parent = NoToken
    BY DEF NoGrant
  <2>3. grants[t] \in GrantRow
    BY RowsTyped
  <2> QED
    BY <2>1, <2>2, <2>3
<1>2. CASE UNCHANGED grants
  BY <1>1, <1>2
<1>3. CASE \E n \in Tokens, kind \in {"code", "refresh"}, f \in Families :
             grants' = [grants EXCEPT ![n] = Grant(kind, f, NoToken)]
  BY <1>1, <1>3, RowsTyped DEF Grant
<1>4. CASE \E n \in Tokens : grants' = [grants EXCEPT ![n].consumed = TRUE]
  <2>1. [grants[t] EXCEPT !.consumed = TRUE].parent = NoToken
    BY <1>1 DEF GrantRow
  <2> QED
    BY <1>1, <1>4, <2>1, RowsTyped
<1>5. CASE \E fs, reason : Sweep(fs, reason)
  <2>1. [grants[t] EXCEPT !.revoked = TRUE].parent = NoToken
    BY <1>1 DEF GrantRow
  <2> QED
    BY <1>1, <1>5, <2>1 DEF Sweep
<1> QED
  BY <1>2, <1>3, <1>4, <1>5

LEMMA OnlyLiveFamiliesRotate ==
  ASSUME Inv, [Next]_vars, NEW t \in Tokens, grants[t].kind = "none",
         grants'[t].parent # NoToken
  PROVE  ~IsDead(grants'[t].family)
<1>1. PICK c \in Calls : RedeemCommits(c) /\ calls[c].verdict = "rotate"
                        /\ Rotate(calls[c].token)
  <2>1. ASSUME NEW c \in Calls, CallStep(c), ~RedeemCommits(c)
        PROVE  FALSE
    <3>1. CASE UNCHANGED grants
      BY <3>1, ParentsStand
    <3>2. CASE IssueCode(c)
      BY <3>2, ParentsStand DEF IssueCode, Unused
    <3>3. CASE ConsumeCode(c)
      BY <3>3, ParentsStand, CallTyped DEF ConsumeCode, At, Holding
    <3>4. CASE SeatFirst(c)
      BY <3>4, ParentsStand, CallTyped DEF SeatFirst, Unused, At, Holding, FamilyOf
    <3>5. CASE GateRevokes(c)
      BY <3>5, ParentsStand DEF GateRevokes
    <3> QED
      BY <2>1, <3>1, <3>2, <3>3, <3>4, <3>5
      DEF CallStep, StartSignIn, PresentCode, Abandon, PresentRefresh, Peek, Gate,
          RedeemLocks, RedeemRollsBack, durable
  <2>2. ASSUME NEW c \in Calls, RedeemCommits(c)
        PROVE  calls[c].verdict = "rotate" /\ Rotate(calls[c].token)
    BY <2>2, ParentsStand, CallTyped DEF RedeemCommits, Burn, durable, At, Holding
  <2>3. \E c \in Calls : CallStep(c)
    <3>1. CASE \E f \in Families : RevokeFamily(f)
      BY <3>1, ParentsStand DEF RevokeFamily
    <3>2. CASE RevokeEmail
      BY <3>2, ParentsStand DEF RevokeEmail
    <3>3. CASE (\E s \in Tokens : RevokeSession(s)) \/ Enroll \/ UNCHANGED vars
      BY <3>3, ParentsStand DEF RevokeSession, Enroll, vars, durable
    <3> QED
      BY <3>1, <3>2, <3>3 DEF Next
  <2> QED
    BY <2>1, <2>2, <2>3
<1>2. PICK u \in Tokens, f \in Families :
        /\ u = calls[c].token /\ f = grants[u].family
        /\ grants[u].kind = "refresh" /\ Consumable(u)
  BY <1>1, CallTyped DEF RedeemCommits, At, Holding, FamilyOf, CallOK, VerdictOK
<1>3. grants'[t].family = f
  <2>1. grants'[t].kind # "none"
    BY <1>1, <1>2, RotateRows DEF RowInv, RowsAreWhole, NoGrant
  <2> QED
    BY <1>1, <1>2, <2>1, RotateRows
<1> QED
  BY <1>2, <1>3 DEF Consumable

\* A session that ended rotates no more: at most the one rotation decided
\* before the revocation of a jti gets through, none after the family died,
\* and none without the identity gate.
THEOREM RotationsEnd == Spec => RotationsStop
<1>1. Inv => KillSwitchStopsRotation
  BY DEF Inv, GhostInv, KillIsSeen, KillSwitchStopsRotation
<1>2. Inv => RotationsAreVetted
  <2> SUFFICES ASSUME Inv, NEW c \in Calls, At(c, "commit"), calls[c].verdict = "rotate"
               PROVE  calls[c].vetted
    BY DEF RotationsAreVetted
  <2> QED
    BY CallTyped DEF CallOK, GateOK, VerdictOK, At, Consumable, Live
<1>3. Inv /\ [Next]_vars =>
        [\A t \in Tokens :
           grants[t].kind = "none" /\ grants'[t].parent # NoToken
           => ~IsDead(grants'[t].family)]_vars
  BY OnlyLiveFamiliesRotate
<1> QED
  BY <1>1, <1>2, <1>3, Invariant, PTL DEF Spec, RotationsStop, DeadFamiliesNeverRotate
=============================================================================
