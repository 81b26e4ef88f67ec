---------------------------- MODULE ActionGateway ----------------------------
(***************************************************************************)
(* The write plane's door to Greenhouse (action-mcp/src/greenhouse.ts):    *)
(* mutations and supporting reads that share a cached token, the one retry *)
(* after a 401, and what the caller is told.                               *)
(*                                                                         *)
(* One key of the token cache: the service user, or one human.  A token is *)
(* named by the mint that asked for it, as in HarvestClient; a mint makes  *)
(* Greenhouse forget the token before it.  A request is a mutation or one  *)
(* page of a list.  ActionService builds on what is shown here: see        *)
(* OneExecution and RefusalsDidNotExecute.                                 *)
(***************************************************************************)
EXTENDS Integers, FiniteSets

CONSTANTS
    Mutations, Pages,   \* the calls
    Tokens, None,
    MaxLosses           \* bound: tokens lost to a peer or to their expiry

Calls == Mutations \cup Pages

GatewayAssumption ==
    /\ IsFiniteSet(Calls) /\ Mutations \cap Pages = {}
    /\ None \notin Tokens
    /\ MaxLosses \in Nat

VARIABLES
    cache, inFlight,      \* a token or None
    mint, active, losses, \* Greenhouse's side, as in HarvestClient
    pc,                   \* of each call
    token,                \* the token it waits for or sends
    retried,              \* whether it had its one retry
    executed              \* how often Greenhouse executed its request

local == <<cache, inFlight>>
upstream == <<mint, active, losses>>
vars == <<local, upstream, pc, token, retried, executed>>

Ended == {"ok", "refused", "ambiguous", "unauthorized", "failed"}

Init ==
    /\ cache = None /\ inFlight = None
    /\ mint = [t \in Tokens |-> "none"] /\ active = None /\ losses = 0
    /\ pc = [c \in Calls |-> "start"]
    /\ token = [c \in Calls |-> None]
    /\ retried = [c \in Calls |-> FALSE]
    /\ executed = [c \in Calls |-> 0]

Goto(c, l) == pc' = [pc EXCEPT ![c] = l]
Take(c, t) == token' = [token EXCEPT ![c] = t]

-----------------------------------------------------------------------------
(* tokenFor and mintToken.                                                 *)

Unused == {t \in Tokens : mint[t] = "none" /\ t \notin {cache, active}
                          /\ \A c \in Calls : token[c] # t}

UsesCache(c) ==
    /\ pc[c] = "start" /\ cache # None
    /\ Take(c, cache) /\ Goto(c, "request")
    /\ UNCHANGED <<local, upstream, retried, executed>>

Joins(c) ==
    /\ pc[c] = "start" /\ cache = None /\ inFlight # None
    /\ Take(c, inFlight) /\ Goto(c, "mint")
    /\ UNCHANGED <<local, upstream, retried, executed>>

Mints(c) ==
    /\ pc[c] = "start" /\ cache = None /\ inFlight = None
    /\ \E t \in Unused :
         /\ mint' = [mint EXCEPT ![t] = "asked"]
         /\ inFlight' = t
         /\ Take(c, t)
    /\ Goto(c, "mint")
    /\ UNCHANGED <<cache, active, losses, retried, executed>>

Issue(t) ==
    /\ mint[t] = "asked"
    /\ mint' = [mint EXCEPT ![t] = "issued"]
    /\ active' = t
    /\ UNCHANGED <<local, losses, pc, token, retried, executed>>

WaitsFor(c, t) == pc[c] = "mint" /\ token[c] = t

MintEnds(t, cached, l) ==
    /\ mint' = [mint EXCEPT ![t] = "none"]
    /\ cache' = cached
    /\ inFlight' = None
    /\ pc' = [c \in Calls |-> IF WaitsFor(c, t) THEN l ELSE pc[c]]
    /\ UNCHANGED <<active, losses, token, retried, executed>>

MintAnswers(t) == mint[t] = "issued" /\ MintEnds(t, t, "request")

(* An error, a timeout or an invalid answer, whatever Greenhouse did.      *)
MintFails(t) == mint[t] # "none" /\ MintEnds(t, cache, "failed")

-----------------------------------------------------------------------------
(* mutate and requestList: the request, and withAuthRefresh around it.     *)

Ends(c, outcome) ==
    /\ Goto(c, outcome) /\ Take(c, None)
    /\ UNCHANGED <<local, upstream, retried>>

Executes(c) == executed' = [executed EXCEPT ![c] = @ + 1]

(* A 2xx, also one whose body cannot be parsed as JSON.                    *)
Succeeds(c) ==
    /\ pc[c] = "request" /\ token[c] = active
    /\ Executes(c) /\ Ends(c, "ok")

(* Plausible bug: a broken request is sent once more.                      *)
BreaksAndRetries(c) ==
    /\ pc[c] = "request" /\ ~retried[c]
    /\ \/ token[c] = active /\ Executes(c)
       \/ UNCHANGED executed
    /\ Goto(c, "start") /\ Take(c, None)
    /\ retried' = [retried EXCEPT ![c] = TRUE]
    /\ UNCHANGED <<local, upstream>>

(* A timeout, a network error, a 408 or a 5xx; the request may have been   *)
(* executed.  A page that could not be read has simply failed.             *)
Breaks(c) ==
    /\ pc[c] = "request"
    /\ \/ token[c] = active /\ Executes(c)
       \/ UNCHANGED executed
    /\ Ends(c, IF c \in Mutations THEN "ambiguous" ELSE "failed")

(* Any other 4xx: not executed.                                            *)
Refused(c) ==
    /\ pc[c] = "request" /\ token[c] = active
    /\ Ends(c, IF c \in Mutations THEN "refused" ELSE "failed")
    /\ UNCHANGED executed

(* The token is refused before anything is executed; the 401 is on its way. *)
Unauthorized(c) ==
    /\ pc[c] = "request" /\ token[c] # active
    /\ Goto(c, "401")
    /\ UNCHANGED <<local, upstream, token, retried, executed>>

(* Plausible bug: whatever is cached is dropped, and the mint under way as *)
(* well, as the control plane does.                                        *)
DropBoth(c) == cache' = None /\ inFlight' = None

Drop(c) ==
    /\ cache' = IF cache = token[c] THEN None ELSE cache
    /\ UNCHANGED inFlight

Handles401(c) ==
    /\ pc[c] = "401"
    /\ \/ /\ ~retried[c]
          /\ Drop(c)
          /\ Goto(c, "start") /\ Take(c, None)
          /\ retried' = [retried EXCEPT ![c] = TRUE]
          /\ UNCHANGED upstream
       \/ retried[c] /\ Ends(c, "unauthorized")
    /\ UNCHANGED executed

-----------------------------------------------------------------------------
Lose == losses < MaxLosses /\ losses' = losses + 1

(* A peer mints or an operator revokes; or a mint given up on is issued.   *)
Revoke ==
    /\ Lose /\ active # None /\ active' = None
    /\ UNCHANGED <<local, mint, pc, token, retried, executed>>

(* The cached token comes within a minute of its expiry.                   *)
Expire ==
    /\ Lose /\ cache # None /\ cache' = None
    /\ UNCHANGED <<inFlight, mint, active, pc, token, retried, executed>>

Next ==
    \/ \E c \in Calls :
         \/ UsesCache(c) \/ Joins(c) \/ Mints(c)
         \/ Succeeds(c) \/ Breaks(c) \/ Refused(c) \/ Unauthorized(c) \/ Handles401(c)
    \/ \E t \in Tokens : Issue(t) \/ MintAnswers(t) \/ MintFails(t)
    \/ Revoke \/ Expire

Spec == Init /\ [][Next]_vars

-----------------------------------------------------------------------------
TypeOK ==
    /\ {cache, inFlight, active} \subseteq Tokens \cup {None}
    /\ mint \in [Tokens -> {"none", "asked", "issued"}]
    /\ losses \in 0..MaxLosses
    /\ pc \in [Calls -> Ended \cup {"start", "mint", "request", "401"}]
    /\ token \in [Calls -> Tokens \cup {None}]
    /\ retried \in [Calls -> BOOLEAN]
    /\ executed \in [Calls -> Nat]
    /\ \A c \in Calls : pc[c] = "mint" => token[c] = inFlight

(* One mint at a time, and it is the one inFlight holds: calls do not      *)
(* revoke each other's tokens.                                             *)
OneMintAtATime == \A t \in Tokens : mint[t] # "none" => t = inFlight

(* However often its token is lost, a mutation is executed once at most:   *)
(* only a request that was refused for its token is sent again.            *)
OneExecution == \A c \in Mutations : executed[c] <= 1

(* A mutation reported as refused, unauthorized or failed was not          *)
(* executed: the service records it as failed on that ground.              *)
RefusalsDidNotExecute ==
    \A c \in Mutations :
        pc[c] \in {"refused", "unauthorized", "failed"} => executed[c] = 0

(* A call is refused twice only if two tokens were lost: the 401 of one    *)
(* call does not cost another its fresh token.                             *)
OneRefreshIsEnough == (\E c \in Calls : pc[c] = "unauthorized") => losses > 1
=============================================================================
