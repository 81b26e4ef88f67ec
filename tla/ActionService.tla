----------------------------- MODULE ActionService -----------------------------
(***************************************************************************)
(* Calls of GreenhouseActionService.apply, passes of the reconciler and    *)
(* operators, running concurrently over one ledger and one Greenhouse.     *)
(*                                                                         *)
(* A call is a process that serves one request and ends.  Its owner token  *)
(* is fresh (randomUUID), so the call itself stands for the token: Owners  *)
(* is the set of calls.  Between two awaits of a call anything else may    *)
(* happen, and a call that crashes is one that takes no further step.      *)
(* Every call of the store may fail before the database saw it, or commit  *)
(* there while the caller only sees a timeout.                             *)
(*                                                                         *)
(* Greenhouse is external: world is the state of each locked resource,     *)
(* flight what became of the mutation request an action sent.  A request   *)
(* may take effect before or after its response, late, or never.           *)
(***************************************************************************)
EXTENDS ActionLedger

CONSTANTS
    NoAction,      \* the action of a call that has not started
    Values,        \* states a resource can be in
    DesiredOf,     \* the state an action writes
    IntentTtl,     \* 5 minutes: life of a signed intent
    SendWindow,    \* longest time from the send fence to the request leaving
    LandWindow,    \* longest time from the request leaving to its effect
    ObserveWindow, \* longest time from a reconciling read to its ledger call
    MaxEdits,      \* bound on edits others make to one resource in Greenhouse
    MayRevoke      \* whether the session is ever revoked or disentitled

ASSUME ServiceAssumption ==
    /\ NoAction \notin Actions
    /\ DesiredOf \in [Actions -> Values]
    /\ IntentTtl \in 1..MaxIntentWindow
    /\ SendWindow \in Nat /\ LandWindow \in Nat /\ ObserveWindow \in Nat
    /\ MaxEdits \in Nat
    /\ MayRevoke \in BOOLEAN

(***************************************************************************)
(* What the automatic "not applied" verdict rests on.  Nothing in the code *)
(* enforces the three windows once a call is past the fence; the leases,   *)
(* the grace and the gap are chosen so that this holds with a margin.      *)
(***************************************************************************)
ASSUME TimingAssumption ==
    \A a \in Actions :
        SendWindow + LandWindow + ObserveWindow
            < MutationLease + GraceOf[a] + ConfirmGap

VARIABLES
    calls,      \* the processes
    intents,    \* signed intents handed out by preview
    world,      \* Greenhouse: the state of each resource
    flight,     \* Greenhouse: what became of each action's request
    sentAt,     \* when it left
    sends,      \* how many mutation requests each action sent
    edits,      \* edits others made to each resource so far
    revokedAt   \* when the session or its entitlement was withdrawn

serviceVars == <<calls, intents, world, flight, sentAt, sends, edits, revokedAt, ledgerVars>>
upstreamVars == <<world, flight, sentAt, sends, edits>>

Replies == {"none", "denied", "no_write_sent", "error", "in_progress"}
              \cup Unresolved \cup Terminal

Call == [pc: {"idle", "authorize", "claim", "preflight", "begin",
              "send", "response", "readback", "finish",
              "prepare", "observe", "settle", "done"},
         action: Actions \cup {NoAction},
         status: Unresolved \cup Terminal,               \* outcome to record
         seen: Observations \cup {"unavailable"},        \* last observation
         since: Nat,                                     \* start of the open window
         mayHaveWritten: BOOLEAN,                        \* what finishResult is told
         reply: Replies]

IdleCall == [pc |-> "idle", action |-> NoAction, status |-> "failed",
             seen |-> "none", since |-> 0, mayHaveWritten |-> FALSE, reply |-> "none"]

NoIntent == [issued |-> FALSE, original |-> CHOOSE v \in Values : TRUE, expires |-> 0]
Intent == [issued: BOOLEAN, original: Values, expires: Nat]

ServiceInit ==
    /\ LedgerInit
    /\ calls = [p \in Owners |-> IdleCall]
    /\ intents = [a \in Actions |-> NoIntent]
    /\ world \in [Locks -> Values \ {DesiredOf[a] : a \in Actions}]
    /\ flight = [a \in Actions |-> "none"]
    /\ sentAt = [a \in Actions |-> 0]
    /\ sends = [a \in Actions |-> 0]
    /\ edits = [k \in Locks |-> 0]
    /\ revokedAt = NoTime

Authorized == revokedAt = NoTime
At(p, pc) == calls[p].pc = pc
ActionOf(p) == calls[p].action
RowOf(p) == ledger[ActionOf(p)]

Goto(p, pc) == calls' = [calls EXCEPT ![p].pc = pc]

\* The call ends: the client is told `reply`.
Done(p, reply) ==
    calls' = [calls EXCEPT ![p] = [IdleCall EXCEPT !.pc = "done", !.action = ActionOf(p),
                                                   !.reply = reply]]

-----------------------------------------------------------------------------
(***************************************************************************)
(* preview: a signed intent binds the state the human saw (the fingerprint *)
(* of the current state) and the change, and expires.  No intent is issued *)
(* when nothing would change.                                              *)
(***************************************************************************)
Preview(a) ==
    /\ ~intents[a].issued
    /\ Authorized
    /\ world[LockOf[a]] # DesiredOf[a]
    /\ intents' = [intents EXCEPT ![a] = [issued |-> TRUE, original |-> world[LockOf[a]],
                                          expires |-> now + IntentTtl]]
    /\ UNCHANGED <<calls, upstreamVars, revokedAt, ledgerVars>>

(***************************************************************************)
(* apply, up to the claim: the session and the expiry are checked, then    *)
(* the recorded row is looked up and replayed if there is one; only a call *)
(* without one is authorized afresh and claims.                            *)
(***************************************************************************)
\* replayOrReconcile answers a terminal row at once.
Replay(p, a) ==
    calls' = [calls EXCEPT ![p] =
        IF ledger[a].status \in Terminal
        THEN [IdleCall EXCEPT !.pc = "done", !.action = a, !.reply = ledger[a].status]
        ELSE [@ EXCEPT !.pc = "prepare", !.action = a]]

Admitted(a) == Authorized /\ now < intents[a].expires

StartApply(p, a) ==
    /\ At(p, "idle")
    /\ intents[a].issued
    /\ Admitted(a)
    /\ IF ledger[a].status = "absent"
       THEN calls' = [calls EXCEPT ![p] = [@ EXCEPT !.pc = "authorize", !.action = a]]
       ELSE Replay(p, a)
    /\ UNCHANGED <<intents, upstreamVars, revokedAt, ledgerVars>>

RefuseApply(p, a) ==
    /\ At(p, "idle")
    /\ intents[a].issued
    /\ ~Admitted(a)
    /\ calls' = [calls EXCEPT ![p] = [@ EXCEPT !.pc = "done", !.action = a, !.reply = "denied"]]
    /\ UNCHANGED <<intents, upstreamVars, revokedAt, ledgerVars>>

Authorize(p) ==
    /\ At(p, "authorize")
    /\ IF Authorized THEN Goto(p, "claim") ELSE Done(p, "denied")
    /\ UNCHANGED <<intents, upstreamVars, revokedAt, ledgerVars>>

ClaimWins(p) ==
    /\ At(p, "claim")
    /\ ClaimOwned(ActionOf(p), p, intents[ActionOf(p)].expires)
    /\ Goto(p, "preflight") \/ Done(p, "error")
    /\ UNCHANGED <<intents, upstreamVars, revokedAt, now>>

ClaimLoses(p) ==
    /\ At(p, "claim")
    /\ \/ RowOf(p).status # "absent" /\ Replay(p, ActionOf(p))
       \/ /\ RowOf(p).status = "absent"
          /\ IF ~ClaimWindowOpen(intents[ActionOf(p)].expires) THEN Done(p, "error")
             ELSE ~LockFree(LockOf[ActionOf(p)]) /\ Done(p, "denied")
    /\ UNCHANGED <<intents, upstreamVars, revokedAt, ledgerVars>>

\* A call to the store fails and the database never saw it.
StoreFails(p) ==
    /\ calls[p].pc \in {"authorize", "claim", "begin", "prepare", "settle"}
    /\ Done(p, "error")
    /\ UNCHANGED <<intents, upstreamVars, revokedAt, ledgerVars>>

-----------------------------------------------------------------------------
(***************************************************************************)
(* apply, the owner: fresh preparation against the live state, the checks  *)
(* again, the fence, the mutation, the readback, the record.               *)
(***************************************************************************)
ToFinish(p, status, seen) ==
    calls' = [calls EXCEPT ![p] = [@ EXCEPT !.pc = "finish", !.status = status, !.seen = seen]]

\* Plausible bug: the checks are not repeated after the claim.
PreflightTrustsClaim(p) ==
    /\ At(p, "preflight")
    /\ \/ /\ world[LockOf[ActionOf(p)]] = intents[ActionOf(p)].original
          /\ Goto(p, "begin")
       \/ ToFinish(p, "failed", "none")
    /\ UNCHANGED <<intents, upstreamVars, revokedAt, ledgerVars>>

\* prepareApply reads the live state, assertPreparedMatches compares it with
\* the intent, then session, entitlement and expiry are checked again.  Any
\* of the reads may fail, which fails the action like a failed check.
Preflight(p) ==
    /\ At(p, "preflight")
    /\ \/ /\ world[LockOf[ActionOf(p)]] = intents[ActionOf(p)].original
          /\ Admitted(ActionOf(p))
          /\ Goto(p, "begin")
       \/ ToFinish(p, "failed", "none")
    /\ UNCHANGED <<intents, upstreamVars, revokedAt, ledgerVars>>

Begin(p) ==
    /\ At(p, "begin")
    /\ BeginMutation(ActionOf(p), p)
    /\ \/ calls' = [calls EXCEPT ![p] = [@ EXCEPT !.pc = "send", !.since = now]]
       \/ Done(p, "error")
    /\ UNCHANGED <<intents, upstreamVars, revokedAt, now>>

BeginRefused(p) ==
    /\ At(p, "begin")
    /\ ~MayBegin(ActionOf(p), p)
    /\ Done(p, "no_write_sent")
    /\ UNCHANGED <<intents, upstreamVars, revokedAt, ledgerVars>>

\* definition.mutation builds the request, or throws; then greenhouse.mutate
\* gets a token, without which nothing leaves, and sends the request.
Send(p) ==
    /\ At(p, "send")
    /\ \/ /\ \E tried \in BOOLEAN :
                calls' = [calls EXCEPT ![p] = [@ EXCEPT !.pc = "finish",
                                                       !.mayHaveWritten = tried]]
          /\ UNCHANGED upstreamVars
       \/ /\ calls' = [calls EXCEPT ![p] = [@ EXCEPT !.pc = "response", !.mayHaveWritten = TRUE]]
          /\ flight' = [flight EXCEPT ![ActionOf(p)] = "sent"]
          /\ sentAt' = [sentAt EXCEPT ![ActionOf(p)] = now]
          /\ sends' = [sends EXCEPT ![ActionOf(p)] = @ + 1]
          /\ UNCHANGED <<world, edits>>
    /\ UNCHANGED <<intents, revokedAt, ledgerVars>>

\* Plausible bugs: an ambiguous outcome is retried; it is taken for a rejection.
ResponseRetries(p) ==
    /\ At(p, "response")
    /\ \/ flight[ActionOf(p)] = "lost" /\ ToFinish(p, "failed", "none")
       \/ Goto(p, "send")
       \/ calls' = [calls EXCEPT ![p] = [@ EXCEPT !.pc = "readback", !.status = "succeeded"]]
    /\ UNCHANGED <<intents, upstreamVars, revokedAt, ledgerVars>>

ResponseRejectsAmbiguous(p) ==
    /\ At(p, "response")
    /\ \/ ToFinish(p, "failed", "none")
       \/ calls' = [calls EXCEPT ![p] = [@ EXCEPT !.pc = "readback", !.status = "succeeded"]]
    /\ UNCHANGED <<intents, upstreamVars, revokedAt, ledgerVars>>

(***************************************************************************)
(* The response: a 2xx (the effect may still be to come), an ambiguous     *)
(* outcome (timeout, network, 408, 5xx), or a rejection, which Greenhouse  *)
(* gives only to a request it does not execute.  status holds what will be *)
(* recorded if the readback sees the desired state.                        *)
(***************************************************************************)
Response(p) ==
    /\ At(p, "response")
    /\ \/ /\ flight[ActionOf(p)] = "lost"
          /\ ToFinish(p, "failed", "none")
       \/ \E status \in {"succeeded", "reconciled"} :
            calls' = [calls EXCEPT ![p] = [@ EXCEPT !.pc = "readback", !.status = status]]
    /\ UNCHANGED <<intents, upstreamVars, revokedAt, ledgerVars>>

\* classifyState.  observeWithDelays takes up to three reads and answers
\* not_observed only if the last of them saw the original state.
Classify(a) ==
    CASE world[LockOf[a]] = DesiredOf[a] -> "desired_observed"
      [] world[LockOf[a]] = intents[a].original -> "not_observed"
      [] OTHER -> "conflict"

ReadbackRecordsUnavailable(p) ==
    /\ At(p, "readback")
    /\ \E seen \in {Classify(ActionOf(p)), "unavailable"} :
         IF seen = "desired_observed" THEN ToFinish(p, calls[p].status, seen)
         ELSE ToFinish(p, "unknown", seen)
    /\ UNCHANGED <<intents, upstreamVars, revokedAt, ledgerVars>>

Readback(p) ==
    /\ At(p, "readback")
    /\ \E seen \in {Classify(ActionOf(p)), "unavailable"} :
         IF seen = "desired_observed" THEN ToFinish(p, calls[p].status, seen)
         ELSE ToFinish(p, "unknown", IF seen = "unavailable" THEN "none" ELSE seen)
    /\ UNCHANGED <<intents, upstreamVars, revokedAt, ledgerVars>>

\* Plausible bug: an outcome that could not be recorded reads as still running.
UnrecordedInProgress(p) == "in_progress"

\* What finishResult answers when the row could not be written: a call that
\* may have written upstream never reports a state that invites a retry.
Unrecorded(p) ==
    IF calls[p].mayHaveWritten THEN "unknown" ELSE "in_progress"

FinishCall(p) ==
    /\ At(p, "finish")
    /\ Finish(ActionOf(p), p, calls[p].status, calls[p].seen)
    /\ Done(p, calls[p].status) \/ Done(p, Unrecorded(p))
    /\ UNCHANGED <<intents, upstreamVars, revokedAt, now>>

FinishFails(p) ==
    /\ At(p, "finish")
    /\ Done(p, Unrecorded(p))
    /\ UNCHANGED <<intents, upstreamVars, revokedAt, ledgerVars>>

-----------------------------------------------------------------------------
(***************************************************************************)
(* Reconciliation, shared by the replay of an open action and by the       *)
(* reconciler, whose list of recoverable rows may be stale when it acts.   *)
(***************************************************************************)
Recoverable(a) == IsUnresolved(a) /\ ledger[a].observation # "conflict"

StartReconcile(p, a) ==
    /\ At(p, "idle")
    /\ Recoverable(a)
    /\ calls' = [calls EXCEPT ![p] = [@ EXCEPT !.pc = "prepare", !.action = a]]
    /\ UNCHANGED <<intents, upstreamVars, revokedAt, ledgerVars>>

PrepareTakesOver(p) ==
    /\ At(p, "prepare")
    /\ TakeOver(ActionOf(p))
    /\ \/ IF ledger'[ActionOf(p)].status = "unknown"
          THEN Goto(p, "observe") ELSE Done(p, ledger'[ActionOf(p)].status)
       \/ Done(p, "error")
    /\ UNCHANGED <<intents, upstreamVars, revokedAt, now>>

PrepareReads(p) ==
    /\ At(p, "prepare")
    /\ ~LeaseExpired(ActionOf(p))
    /\ CASE RowOf(p).status = "executing" -> Done(p, "in_progress")
         [] IsOpenUnknown(ActionOf(p)) -> Goto(p, "observe")
         [] OTHER -> Done(p, RowOf(p).status)
    /\ UNCHANGED <<intents, upstreamVars, revokedAt, ledgerVars>>

Observe(p) ==
    /\ At(p, "observe")
    /\ \E seen \in {Classify(ActionOf(p)), "unavailable"} :
         calls' = [calls EXCEPT ![p] = [@ EXCEPT !.pc = "settle", !.seen = seen, !.since = now]]
    /\ UNCHANGED <<intents, upstreamVars, revokedAt, ledgerVars>>

SettleWrite(p) ==
    \/ calls[p].seen = "desired_observed" /\ ResolveDesired(ActionOf(p))
    \/ calls[p].seen = "conflict" /\ ResolveConflict(ActionOf(p))
    \/ calls[p].seen = "not_observed" /\ ReconcileOriginal(ActionOf(p))

Settle(p) ==
    /\ At(p, "settle")
    /\ SettleWrite(p)
    /\ Done(p, ledger'[ActionOf(p)].status) \/ Done(p, "error")
    /\ UNCHANGED <<intents, upstreamVars, revokedAt, now>>

\* deferUnknown, or a row settled meanwhile: reconcileOriginalObservation
\* returns the row, the others null, and then the row as prepared is reported.
SettleIdle(p) ==
    /\ At(p, "settle")
    /\ calls[p].seen = "unavailable" \/ ~IsOpenUnknown(ActionOf(p))
    /\ Done(p, IF calls[p].seen = "not_observed" THEN RowOf(p).status ELSE "unknown")
    /\ UNCHANGED <<intents, upstreamVars, revokedAt, ledgerVars>>

\* greenhouse-action-reconcile --resolve-action
Resolve(a, observation) ==
    /\ OperatorResolve(a, observation)
    /\ UNCHANGED <<calls, intents, upstreamVars, revokedAt, now>>

-----------------------------------------------------------------------------
(***************************************************************************)
(* The environment: Greenhouse, people working in it, revocation, time.    *)
(***************************************************************************)
Land(a) ==
    /\ flight[a] = "sent"
    /\ flight' = [flight EXCEPT ![a] = "landed"]
    /\ world' = [world EXCEPT ![LockOf[a]] = DesiredOf[a]]
    /\ UNCHANGED <<calls, intents, sentAt, sends, edits, revokedAt, ledgerVars>>

Lose(a) ==
    /\ flight[a] = "sent"
    /\ flight' = [flight EXCEPT ![a] = "lost"]
    /\ UNCHANGED <<calls, intents, world, sentAt, sends, edits, revokedAt, ledgerVars>>

Edit(k, v) ==
    /\ edits[k] < MaxEdits
    /\ world[k] # v
    /\ edits' = [edits EXCEPT ![k] = @ + 1]
    /\ world' = [world EXCEPT ![k] = v]
    /\ UNCHANGED <<calls, intents, flight, sentAt, sends, revokedAt, ledgerVars>>

Revoke ==
    /\ MayRevoke
    /\ Authorized
    /\ revokedAt' = now
    /\ UNCHANGED <<calls, intents, upstreamVars, ledgerVars>>

\* Time passes; the three windows of TimingAssumption run out no sooner.
WindowsOpen ==
    /\ \A p \in Owners :
         /\ calls[p].pc = "send" => now < calls[p].since + SendWindow
         /\ calls[p].pc = "settle" => now < calls[p].since + ObserveWindow
    /\ \A a \in Actions : flight[a] = "sent" => now < sentAt[a] + LandWindow

Pass ==
    /\ WindowsOpen
    /\ Tick
    /\ UNCHANGED <<calls, intents, upstreamVars, revokedAt>>

CallNext(p) ==
    \/ \E a \in Actions : StartApply(p, a) \/ RefuseApply(p, a) \/ StartReconcile(p, a)
    \/ Authorize(p) \/ ClaimWins(p) \/ ClaimLoses(p) \/ StoreFails(p)
    \/ Preflight(p) \/ Begin(p) \/ BeginRefused(p)
    \/ Send(p) \/ Response(p) \/ Readback(p) \/ FinishCall(p) \/ FinishFails(p)
    \/ PrepareTakesOver(p) \/ PrepareReads(p) \/ Observe(p) \/ Settle(p) \/ SettleIdle(p)

EnvironmentNext ==
    \/ \E a \in Actions : Preview(a) \/ Land(a) \/ Lose(a)
    \/ \E a \in Actions, ob \in {"desired_observed", "not_observed"} : Resolve(a, ob)
    \/ \E k \in Locks, v \in Values : Edit(k, v)
    \/ Revoke
    \/ Pass

ServiceNext == (\E p \in Owners : CallNext(p)) \/ EnvironmentNext

ServiceSpec == ServiceInit /\ [][ServiceNext]_serviceVars

-----------------------------------------------------------------------------
ServiceTypeOK ==
    /\ LedgerTypeOK
    /\ calls \in [Owners -> Call]
    /\ intents \in [Actions -> Intent]
    /\ world \in [Locks -> Values]
    /\ flight \in [Actions -> {"none", "sent", "landed", "lost"}]
    /\ sentAt \in [Actions -> Nat]
    /\ sends \in [Actions -> Nat]
    /\ edits \in [Locks -> 0..MaxEdits]
    /\ revokedAt \in Nat \cup {NoTime}

(***************************************************************************)
(* However often a client repeats a call, and whatever the reconciler and  *)
(* a lost response do in between, one action sends one mutation at most.   *)
(***************************************************************************)
AtMostOneSend == \A a \in Actions : sends[a] <= 1

(***************************************************************************)
(* A recorded failure means that nothing was, or will be, written upstream:*)
(* no request of a failed action is under way, took effect, or may still   *)
(* leave a call that passed the fence.                                     *)
(***************************************************************************)
MaySend(p, a) == ActionOf(p) = a /\ calls[p].pc = "send"
CanStillLand(a) == flight[a] = "sent" \/ \E p \in Owners : MaySend(p, a)

FailedNeverLands ==
    \A a \in Actions :
        ledger[a].status = "failed" => ~CanStillLand(a) /\ flight[a] # "landed"

(***************************************************************************)
(* What the code cannot see through: somebody else edits the resource, or  *)
(* an operator settles an action on it whose request is still under way.   *)
(***************************************************************************)
Disturbed(k) ==
    \/ edits[k] > 0
    \/ \E a \in Actions : LockOf[a] = k /\ ledger[a].source = "operator"

(***************************************************************************)
(* The automatic verdict "not applied" is final: the request can no longer *)
(* take effect, and it did not, unless the resource was disturbed.         *)
(***************************************************************************)
NotAppliedIsFinal ==
    \A a \in Actions :
        /\ ledger[a].status = "reconciled"
        /\ ledger[a].observation = "not_observed"
        /\ ledger[a].source = "automatic"
        => /\ ~CanStillLand(a)
           /\ flight[a] = "landed" => Disturbed(LockOf[a])

(***************************************************************************)
(* A success, found at once or by reconciliation, is one: on a resource    *)
(* nobody disturbed, the request of that very action has taken effect.     *)
(***************************************************************************)
FoundApplied(a) ==
    \/ ledger[a].status = "succeeded"
    \/ /\ ledger[a].status = "reconciled"
       /\ ledger[a].observation = "desired_observed"
       /\ ledger[a].source = "automatic"

SuccessHasLanded ==
    \A a \in Actions :
        FoundApplied(a) => flight[a] = "landed" \/ Disturbed(LockOf[a])

(***************************************************************************)
(* A recorded status is true of Greenhouse: of the three parts above.      *)
(***************************************************************************)
StatusesAreTrue == FailedNeverLands /\ NotAppliedIsFinal /\ SuccessHasLanded

(***************************************************************************)
(* Writes to one resource are serialized: while a mutation may still take  *)
(* effect no other may on that resource, unless the resource was disturbed.*)
(***************************************************************************)
WritesAreSerialized ==
    \A a, b \in Actions :
        /\ a # b /\ LockOf[a] = LockOf[b]
        /\ CanStillLand(a) /\ CanStillLand(b)
        => Disturbed(LockOf[a])

(***************************************************************************)
(* What a client is told holds: a final state is the one recorded, for     *)
(* good; "no write was sent" is true; and the call that sent the request   *)
(* never ends in an answer that invites another attempt.                   *)
(***************************************************************************)
RepliesAreHonest ==
    \A p \in Owners :
        LET reply == calls[p].reply IN
        /\ reply \in Terminal => RowOf(p).status = reply
        /\ reply = "no_write_sent" => flight[ActionOf(p)] = "none"
        /\ reply # "none" /\ RowOf(p).owner = p /\ flight[ActionOf(p)] # "none"
              => reply \in {"unknown"} \cup Terminal

(***************************************************************************)
(* Withdrawing a session or an entitlement stops its writes within one     *)
(* preflight lease, however slow the calls that were already under way.    *)
(***************************************************************************)
FenceTime(a) == ledger[a].lease - MutationLease

RevocationBoundsSends ==
    \A a \in Actions :
        ledger[a].phase = "mutation_sent" /\ revokedAt # NoTime
        => FenceTime(a) < revokedAt + PreflightLease

(***************************************************************************)
(* The README promises that replaying an action id returns the recorded    *)
(* state.  The code checks the session and the expiry of the intent before *)
(* it looks the action up, so a replay after either is refused instead.    *)
(***************************************************************************)
ReplayReturnsRecord ==
    [][\A p \in Owners :
         At(p, "idle") /\ calls'[p].reply = "denied"
         => ledger[calls'[p].action].status = "absent"]_serviceVars

-----------------------------------------------------------------------------
(***************************************************************************)
(* The service implements the promise: the ledger row of an action is its  *)
(* verdict, and every step of every call is a step of the promise or       *)
(* changes neither verdict nor effect.                                     *)
(***************************************************************************)
VerdictOf(r) ==
    CASE r.status = "absent" -> "new"
      [] r.status \in Unresolved -> "open"
      [] r.status = "succeeded" -> "applied"
      [] r.status = "failed" -> "failed"
      [] OTHER -> IF r.source = "operator" THEN "ruled"
                  ELSE IF r.observation = "not_observed" THEN "not_applied" ELSE "applied"

Promise == INSTANCE ActionPromise WITH
              verdict <- [a \in Actions |-> VerdictOf(ledger[a])],
              effect <- flight

KeepsPromise == Promise!PromiseSpec
=============================================================================
