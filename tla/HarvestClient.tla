---------------------------- MODULE HarvestClient ----------------------------
(***************************************************************************)
(* Concurrent reads of Greenhouse by one process of the connector: the     *)
(* OAuth token they share (control-plane/src/auth.ts) and the retry loop   *)
(* each of them runs (withRetry of client-readonly.ts).                    *)
(*                                                                         *)
(* Greenhouse keeps one active token per client: a mint revokes the token  *)
(* before it, and so may a peer on the same credentials.  A token is       *)
(* named by the mint that asked for it; a name is used again when nothing  *)
(* refers to it any more, so behaviours are infinite and states finite.    *)
(* A read that ended may be made again.                                    *)
(***************************************************************************)
EXTENDS Integers, FiniteSets

CONSTANTS
    Reads,
    Tokens,          \* bound: names of tokens in use at once
    None,
    MaxRetries,      \* MAX_RETRIES: 3 in the code
    MaxRevocations   \* bound: tokens lost to a peer or to their expiry

MaxAuthRefreshes == 1
MaxTimeoutRetries == 1

ClientAssumption ==
    /\ IsFiniteSet(Tokens) /\ IsFiniteSet(Reads)
    /\ None \notin Tokens
    /\ MaxRetries \in Nat
    /\ MaxRevocations \in Nat

VARIABLES
    cachedToken, inFlightToken,   \* of auth.ts; a token or None
    mint,       \* the token requests: "none", "asked" or "issued"
    active,     \* the token Greenhouse accepts
    revoked,    \* how often a peer or the clock took it away
    pc, attempt, authRefreshes, timeoutRetries,   \* of each read
    token,      \* the token a read waits for or sends
    refused,    \* the token its last 401 was about
    gets        \* how many requests it sent

auth == <<cachedToken, inFlightToken>>
upstream == <<mint, active, revoked>>
context == <<attempt, authRefreshes, timeoutRetries>>
vars == <<auth, upstream, pc, context, token, refused, gets>>

Ended == {"ok", "failed", "rate_limited", "auth_revoked", "aborted"}

Init ==
    /\ cachedToken = None /\ inFlightToken = None
    /\ mint = [t \in Tokens |-> "none"]
    /\ active = None /\ revoked = 0
    /\ pc = [r \in Reads |-> "start"]
    /\ attempt = [r \in Reads |-> 0]
    /\ authRefreshes = [r \in Reads |-> 0]
    /\ timeoutRetries = [r \in Reads |-> 0]
    /\ token = [r \in Reads |-> None]
    /\ refused = [r \in Reads |-> None]
    /\ gets = [r \in Reads |-> 0]

Goto(r, l) == pc' = [pc EXCEPT ![r] = l]

-----------------------------------------------------------------------------
(* getAccessToken, at the start of every attempt.                          *)

Unused == {t \in Tokens : /\ mint[t] = "none"
                          /\ t \notin {cachedToken, active}
                          /\ \A r \in Reads : t \notin {token[r], refused[r]}}

Send(r, t) ==
    /\ token' = [token EXCEPT ![r] = t]
    /\ gets' = [gets EXCEPT ![r] = @ + 1]
    /\ Goto(r, "get")

UsesCache(r) ==
    /\ pc[r] = "start" /\ cachedToken # None
    /\ Send(r, cachedToken)
    /\ UNCHANGED <<auth, upstream, context, refused>>

Joins(r) ==
    /\ pc[r] = "start" /\ cachedToken = None /\ inFlightToken # None
    /\ token' = [token EXCEPT ![r] = inFlightToken]
    /\ Goto(r, "mint")
    /\ UNCHANGED <<auth, upstream, context, refused, gets>>

Mints(r) ==
    /\ pc[r] = "start" /\ cachedToken = None /\ inFlightToken = None
    /\ \E t \in Unused :
         /\ mint' = [mint EXCEPT ![t] = "asked"]
         /\ inFlightToken' = t
         /\ token' = [token EXCEPT ![r] = t]
    /\ Goto(r, "mint")
    /\ UNCHANGED <<cachedToken, active, revoked, context, refused, gets>>

(* Greenhouse issues a token; the answer is on its way.                    *)
Issue(t) ==
    /\ mint[t] = "asked"
    /\ mint' = [mint EXCEPT ![t] = "issued"]
    /\ active' = t
    /\ UNCHANGED <<auth, revoked, pc, context, token, refused, gets>>

WaitsFor(r, t) == pc[r] = "mint" /\ token[r] = t

(* Plausible bug: readers that joined are not served.                      *)
AnswerServesOne(t) ==
    /\ mint[t] = "issued"
    /\ mint' = [mint EXCEPT ![t] = "none"]
    /\ cachedToken' = t /\ inFlightToken' = None
    /\ \E r \in Reads : WaitsFor(r, t) /\ Send(r, t)
    /\ UNCHANGED <<active, revoked, context, refused>>

(* The answer fills the cache, clears inFlightToken, whatever it holds by  *)
(* now, and every read that waited sends its request.                      *)
MintAnswers(t) ==
    /\ mint[t] = "issued"
    /\ mint' = [mint EXCEPT ![t] = "none"]
    /\ cachedToken' = t /\ inFlightToken' = None
    /\ pc' = [r \in Reads |-> IF WaitsFor(r, t) THEN "get" ELSE pc[r]]
    /\ gets' = [r \in Reads |-> IF WaitsFor(r, t) THEN gets[r] + 1 ELSE gets[r]]
    /\ UNCHANGED <<active, revoked, context, token, refused>>

ForAll(f, t, v) == f' = [r \in Reads |-> IF WaitsFor(r, t) THEN v ELSE f[r]]

(* It fails or times out, before or after Greenhouse issued the token, and *)
(* the reads that waited are over, with what they kept.                    *)
MintFails(t) ==
    /\ mint[t] # "none"
    /\ mint' = [mint EXCEPT ![t] = "none"]
    /\ inFlightToken' = None
    /\ ForAll(pc, t, "failed") /\ ForAll(token, t, None) /\ ForAll(refused, t, None)
    /\ ForAll(attempt, t, 0) /\ ForAll(authRefreshes, t, 0) /\ ForAll(timeoutRetries, t, 0)
    /\ ForAll(gets, t, 0)
    /\ UNCHANGED <<cachedToken, active, revoked>>

-----------------------------------------------------------------------------
(* The request and withRetry.                                              *)

Forget(f, r, v) == f' = [f EXCEPT ![r] = v]

(* The read is over, and what it kept is gone.                             *)
Ends(r, outcome) ==
    /\ Goto(r, outcome)
    /\ Forget(attempt, r, 0) /\ Forget(authRefreshes, r, 0) /\ Forget(timeoutRetries, r, 0)
    /\ Forget(token, r, None) /\ Forget(refused, r, None) /\ Forget(gets, r, 0)
    /\ UNCHANGED upstream

Succeeds(r) == pc[r] = "get" /\ token[r] = active /\ Ends(r, "ok") /\ UNCHANGED auth
Fails(r) == pc[r] = "get" /\ Ends(r, "failed") /\ UNCHANGED auth

Retry(r, l) ==
    /\ attempt[r] < MaxRetries
    /\ attempt' = [attempt EXCEPT ![r] = @ + 1]
    /\ Goto(r, l)
    /\ Forget(token, r, None)
    /\ UNCHANGED <<auth, upstream, authRefreshes, refused, gets>>

RateLimited(r) ==
    /\ pc[r] = "get"
    /\ \/ Retry(r, "sleep") /\ UNCHANGED timeoutRetries
       \/ attempt[r] = MaxRetries /\ Ends(r, "rate_limited") /\ UNCHANGED auth

TimesOut(r) ==
    /\ pc[r] = "get"
    /\ \/ /\ timeoutRetries[r] < MaxTimeoutRetries
          /\ Retry(r, "start")
          /\ timeoutRetries' = [timeoutRetries EXCEPT ![r] = @ + 1]
       \/ /\ timeoutRetries[r] = MaxTimeoutRetries \/ attempt[r] = MaxRetries
          /\ Ends(r, "failed") /\ UNCHANGED auth

Wakes(r) ==
    /\ pc[r] = "sleep"
    /\ Goto(r, "start")
    /\ UNCHANGED <<auth, upstream, context, token, refused, gets>>

(* Greenhouse refuses the token; the 401 is on its way.                    *)
Refuses(r) ==
    /\ pc[r] = "get" /\ token[r] # active
    /\ Goto(r, "refused")
    /\ refused' = [refused EXCEPT ![r] = token[r]]
    /\ UNCHANGED <<auth, upstream, context, token, gets>>

(* Plausible bug: the 401 leaves the cache as it is.                       *)
KeepAuthState == UNCHANGED auth

ResetAuthState == cachedToken' = None /\ inFlightToken' = None

(* The 401 arrives: the cache is dropped, whatever it holds by now; one    *)
(* more attempt is made, which no attempt is spent on.                     *)
Handles401(r) ==
    /\ pc[r] = "refused"
    /\ ResetAuthState
    /\ \/ /\ authRefreshes[r] < MaxAuthRefreshes
          /\ authRefreshes' = [authRefreshes EXCEPT ![r] = @ + 1]
          /\ Goto(r, "start")
          /\ Forget(token, r, None)
          /\ UNCHANGED <<upstream, attempt, timeoutRetries, refused, gets>>
       \/ authRefreshes[r] = MaxAuthRefreshes /\ Ends(r, "auth_revoked")
       \/ Ends(r, "aborted")

(* The caller leaves.  A shared mint goes on.                              *)
Abort(r) ==
    /\ pc[r] \in {"start", "mint", "get", "sleep"}
    /\ Ends(r, "aborted")
    /\ UNCHANGED auth

Again(r) ==
    /\ pc[r] \in Ended
    /\ Goto(r, "start")
    /\ UNCHANGED <<auth, upstream, context, token, refused, gets>>

-----------------------------------------------------------------------------
(* A peer mints with the same credentials, or an operator revokes.         *)
Revoke ==
    /\ active # None /\ revoked < MaxRevocations
    /\ active' = None
    /\ revoked' = revoked + 1
    /\ UNCHANGED <<auth, mint, pc, context, token, refused, gets>>

(* The cached token comes within a minute of its expiry: a cache miss.     *)
Expire ==
    /\ cachedToken # None /\ revoked < MaxRevocations
    /\ cachedToken' = None
    /\ revoked' = revoked + 1
    /\ UNCHANGED <<inFlightToken, mint, active, pc, context, token, refused, gets>>

Attempt(r) == UsesCache(r) \/ Joins(r) \/ Mints(r)
Response(r) == Succeeds(r) \/ Fails(r) \/ RateLimited(r) \/ TimesOut(r) \/ Refuses(r)
Mint(t) == MintAnswers(t) \/ MintFails(t)
Step(r) == Attempt(r) \/ Response(r) \/ Wakes(r) \/ Handles401(r)

Next ==
    \/ \E r \in Reads : Step(r) \/ Abort(r) \/ Again(r)
    \/ \E t \in Tokens : Issue(t) \/ Mint(t)
    \/ Revoke \/ Expire

Spec == Init /\ [][Next]_vars

-----------------------------------------------------------------------------
(* Types; who waits for a mint waits for one that is under way; and the    *)
(* mint new reads join is one (inFlightToken of auth.ts).                  *)
TypeOK ==
    /\ {cachedToken, inFlightToken, active} \subseteq Tokens \cup {None}
    /\ mint \in [Tokens -> {"none", "asked", "issued"}]
    /\ revoked \in 0..MaxRevocations
    /\ pc \in [Reads -> Ended \cup {"start", "mint", "get", "refused", "sleep"}]
    /\ attempt \in [Reads -> 0..MaxRetries]
    /\ authRefreshes \in [Reads -> 0..MaxAuthRefreshes]
    /\ timeoutRetries \in [Reads -> 0..MaxTimeoutRetries]
    /\ token \in [Reads -> Tokens \cup {None}]
    /\ refused \in [Reads -> Tokens \cup {None}]
    /\ \A r \in Reads : pc[r] = "mint" => mint[token[r]] # "none"
    /\ inFlightToken # None => mint[inFlightToken] # "none"

(* However 401s, 429s and timeouts mix, a read sends at most one request   *)
(* per attempt and one more after a refresh (withRetry).                   *)
RequestsAreBounded == \A r \in Reads : gets[r] <= MaxRetries + 1 + MaxAuthRefreshes

(* A read never sends again the token it was refused with, though other    *)
(* reads fill and drop the shared cache in between.                        *)
RefusedTokensAreNotReused ==
    \A r \in Reads : gets'[r] > gets[r] => token'[r] # refused[r]

(* Every read ends, whatever Greenhouse and its peers do.                  *)
Started(r) == pc[r] = "start"
HasEnded(r) == pc[r] \in Ended
=============================================================================
