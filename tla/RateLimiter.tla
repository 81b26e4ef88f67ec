----------------------------- MODULE RateLimiter -----------------------------
(***************************************************************************)
(* The limiter of tool calls (recruiter-mcp/src/rate-limit.ts): fixed      *)
(* windows that start with a call, one bucket for all calls of a principal *)
(* and one for its analysis calls.  A principal is a sign-in (sid), which  *)
(* keeps its name while its access tokens are rotated.                     *)
(*                                                                         *)
(* Time is kept as ages, so no clock is needed: a bucket knows how long    *)
(* ago its window started (now - windowStart, WindowMs or more being the   *)
(* same), and the history how long ago calls were allowed.                 *)
(***************************************************************************)
EXTENDS Integers

CONSTANTS
    SignIns,
    WindowMs, MaxCalls, MaxAnalysisCalls,  \* RateLimiterConfig
    MaxRotations                           \* bound

LimiterAssumption ==
    /\ {WindowMs, MaxCalls, MaxAnalysisCalls} \subseteq Nat \ {0}
    /\ MaxRotations \in Nat

Kinds == {"total", "analysis"}
Keys == SignIns \X (0..MaxRotations)
Limit(kind) == IF kind = "total" THEN MaxCalls ELSE MaxAnalysisCalls

Ages == 0..2 * WindowMs - 1

VARIABLES
    tokenId,  \* of each sign-in
    bucket,   \* [Kinds -> [Keys -> age and count]]; count 0 is absence
    allowed,  \* history: calls a sign-in was allowed at each age, by kind
    refused   \* history: whether a sign-in's last call was refused just now

vars == <<tokenId, bucket, allowed, refused>>

Init ==
    /\ tokenId = [s \in SignIns |-> 0]
    /\ bucket = [kind \in Kinds |-> [k \in Keys |-> [age |-> 0, count |-> 0]]]
    /\ allowed = [kind \in Kinds |-> [s \in SignIns |-> [a \in Ages |-> 0]]]
    /\ refused = [s \in SignIns |-> FALSE]

rateLimitPrincipalKey(s) == <<s, 0>>

(* checkBucket: the window that holds now.                                 *)
Current(kind, s) ==
    LET b == bucket[kind][rateLimitPrincipalKey(s)] IN
    IF b.count = 0 \/ b.age >= WindowMs
    THEN [age |-> 0, count |-> 0] ELSE b

Full(kind, s) == Current(kind, s).count >= Limit(kind)

Set(kind, s, b) == [bucket[kind] EXCEPT ![rateLimitPrincipalKey(s)] = b]

Charge(kinds, s) ==
    bucket' = [kind \in Kinds |->
        IF kind \in kinds
        THEN Set(kind, s, [Current(kind, s) EXCEPT !.count = @ + 1]) ELSE bucket[kind]]

Refuse(s) == refused' = [refused EXCEPT ![s] = TRUE] /\ UNCHANGED allowed

Allow(kinds, s) ==
    /\ Charge(kinds, s)
    /\ allowed' = [kind \in Kinds |->
           IF kind \in kinds THEN [allowed[kind] EXCEPT ![s][0] = @ + 1] ELSE allowed[kind]]
    /\ refused' = [refused EXCEPT ![s] = FALSE]

(* An analysis call that its own bucket refuses has been charged to the    *)
(* total one already.                                                      *)
check(kinds, s) ==
    /\ \/ Full("total", s) /\ Refuse(s) /\ UNCHANGED bucket
       \/ /\ ~Full("total", s) /\ "analysis" \in kinds /\ Full("analysis", s)
          /\ Refuse(s) /\ Charge({"total"}, s)
       \/ /\ \A kind \in kinds : ~Full(kind, s)
          /\ Allow(kinds, s)
    /\ UNCHANGED tokenId

(* The sign-in exchanges its refresh token: a new access token, same sid.  *)
Rotate(s) ==
    /\ tokenId[s] < MaxRotations
    /\ tokenId' = [tokenId EXCEPT ![s] = @ + 1]
    /\ UNCHANGED <<bucket, allowed, refused>>

Tick ==
    /\ bucket' = [kind \in Kinds |-> [k \in Keys |->
           IF bucket[kind][k].age < WindowMs /\ bucket[kind][k].count > 0
           THEN [bucket[kind][k] EXCEPT !.age = @ + 1] ELSE bucket[kind][k]]]
    /\ allowed' = [kind \in Kinds |-> [s \in SignIns |-> [a \in Ages |->
           IF a = 0 THEN 0 ELSE allowed[kind][s][a - 1]]]]
    /\ refused' = [s \in SignIns |-> FALSE]
    /\ UNCHANGED tokenId

Next ==
    \/ \E s \in SignIns : check({"total"}, s) \/ check(Kinds, s) \/ Rotate(s)
    \/ Tick

Spec == Init /\ [][Next]_vars

-----------------------------------------------------------------------------
TypeOK ==
    /\ tokenId \in [SignIns -> 0..MaxRotations]
    /\ \A kind \in Kinds :
         bucket[kind] \in [Keys -> [age : 0..WindowMs, count : 0..Limit(kind)]]
    /\ allowed \in [Kinds -> [SignIns -> [Ages -> Nat]]]
    /\ refused \in [SignIns -> BOOLEAN]

(* How many calls f has at ages below n.                                   *)
Below(f) ==
    LET sum[n \in 0..2 * WindowMs] == IF n = 0 THEN 0 ELSE sum[n - 1] + f[n - 1]
    IN  sum

(* Calls of a kind a sign-in was allowed in the last WindowMs.             *)
Recent(kind, s) == Below(allowed[kind][s])[WindowMs]

(* The boundary of two fixed windows: whatever the calls and rotations, no *)
(* sign-in gets twice its limit into one stretch of WindowMs.  It may get  *)
(* one call less than that, which is all the limit promises.               *)
LessThanTwiceTheLimit ==
    \A kind \in Kinds, s \in SignIns : Recent(kind, s) < 2 * Limit(kind)

(* Nobody is locked out by the calls of others or by insisting: who is     *)
(* refused was allowed a call less than two windows ago.  (Not one: calls  *)
(* the analysis bucket refused fill the total one.)                        *)
RefusalsAreEarned ==
    \A s \in SignIns : refused[s] =>
        \E a \in Ages : allowed["total"][s][a] > 0
=============================================================================
