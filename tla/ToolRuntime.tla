----------------------------- MODULE ToolRuntime -----------------------------
(***************************************************************************)
(* The life of a tool call of the recruiter server (recruiter-mcp/src/     *)
(* runtime.ts): the start row of the audit, the rate limit, reads under a  *)
(* timer and a deadline, the terminal row, the answer.  Calls of one       *)
(* runtime overlap (a planner calls recipes, a client sends a batch), and  *)
(* what a read learns is noted in the audit context of every open call.    *)
(*                                                                         *)
(* Time is kept as what has passed (a call) and what is left (a timer).    *)
(***************************************************************************)
EXTENDS Integers, FiniteSets, FiniteSetsExt

CONSTANTS
    ScopedCalls,    \* runScopedTool: one read
    AnalysisCalls,  \* a recipe: several reads under one deadline
    ActionCalls,    \* runActionTool: a write, no read
    Jobs,
    ToolMs,         \* clampedToolTimeoutMs
    AnalysisMs,     \* createToolDeadline
    MaxReads,       \* bound: the reads of a recipe
    None, Unknown, All

Calls == ScopedCalls \cup AnalysisCalls \cup ActionCalls
Scopes == {All} \cup SUBSET Jobs
Contexts == [scope : Scopes \cup {Unknown}, explicit : BOOLEAN,
             resolved : {None} \cup SUBSET Jobs, pages : Nat]
Rows == [outcome : {"success", "cancelled", "failed", "denied"}, scope : Scopes \cup {Unknown},
         jobs : {None} \cup SUBSET Jobs, pages : Nat]

RuntimeAssumption ==
    /\ {ToolMs, AnalysisMs, MaxReads} \subseteq Nat \ {0}
    /\ (\A J \in SUBSET Jobs : J # None) /\ None \notin Contexts /\ None \notin {"writing", "kept"} \X Rows
Failures == {"TOOL_TIMEOUT", "CANCELLED", "UPSTREAM_ERROR", "ACTOR_DENIED"}
Codes == Failures \cup {"TOOL_DISABLED", "RATE_LIMITED", "AUDIT_UNAVAILABLE"}

VARIABLES
    pc,       \* where a call is
    elapsed,  \* of a recipe: time since its start, up to one more than its deadline
    left,     \* of the timer of the read in flight
    known,    \* whether that read has reported the permission scope
    orphans,  \* calls with an abandoned read that may still report it
    pages,    \* pages the call's own reads returned
    scope,    \* the permission scope its answer carries
    answer,   \* "data", a code or None
    context,  \* auditCallContexts; None: not active
    rows,     \* the retained rows of each call
    aborted,  \* the client request has ended
    landed    \* action calls that have written to Greenhouse

call == <<pc, elapsed, left, known, pages, scope, answer>>
vars == <<call, orphans, context, rows, aborted, landed>>

Init ==
    /\ pc = [c \in Calls |-> "idle"]
    /\ elapsed = [c \in Calls |-> 0]
    /\ left = [c \in Calls |-> 0]
    /\ known = [c \in Calls |-> FALSE]
    /\ pages = [c \in Calls |-> 0]
    /\ scope = [c \in Calls |-> Unknown]
    /\ answer = [c \in Calls |-> None]
    /\ orphans = {}
    /\ context = [c \in Calls |-> None]
    /\ rows = [c \in Calls |-> [start |-> FALSE, terminal |-> None]]
    /\ aborted = FALSE
    /\ landed = {}

-----------------------------------------------------------------------------
(* The audit contexts.                                                     *)
NewContext == [scope |-> Unknown, explicit |-> FALSE, resolved |-> None, pages |-> 0]

Active == {c \in Calls : context[c] # None}

Note(F(_)) == [c \in Calls |-> IF context[c] = None THEN None ELSE F(context[c])]

recordAuditPermissionScope(x, s) ==
    [x EXCEPT !.scope = s,
              !.resolved = IF s = All THEN IF x.explicit THEN @ ELSE None
                           ELSE IF x.explicit THEN @ \cap s ELSE s]

recordExplicitAuditJobIds(x, ids) ==
    LET merged == IF x.explicit THEN x.resolved \cup ids ELSE ids IN
    [x EXCEPT !.explicit = TRUE,
              !.resolved = IF x.scope \in {Unknown, All} THEN merged ELSE merged \cap x.scope]

recordAuditReadMetrics(x) == [x EXCEPT !.pages = @ + 1]

-----------------------------------------------------------------------------
Outcome(a) ==
    CASE a = "data" -> "success"
      [] a \in {"TOOL_TIMEOUT", "CANCELLED"} -> "cancelled"
      [] a \in {"UPSTREAM_ERROR", "AUDIT_UNAVAILABLE"} -> "failed"
      [] OTHER -> "denied"

(* The terminal row is made up when its writing starts.                    *)
Row(c, a, own, x) ==
    [outcome |-> Outcome(a),
     scope |-> IF a = "data" /\ own # Unknown THEN own ELSE x.scope,
     jobs |-> IF x.resolved = None /\ x.scope \notin {Unknown, All} THEN x.scope ELSE x.resolved,
     pages |-> x.pages]

(* The call has its result and starts to write its terminal row.           *)
Close(c, a, contexts, own) ==
    /\ pc' = [pc EXCEPT ![c] = "closing"]
    /\ answer' = [answer EXCEPT ![c] = a]
    /\ scope' = [scope EXCEPT ![c] = own]
    /\ context' = contexts
    /\ rows' = [rows EXCEPT ![c].terminal = <<"writing", Row(c, a, own, contexts[c])>>]

(* The tool may be disabled, which is audited like any other call.         *)
Begin(c) ==
    /\ c \notin ActionCalls
    /\ pc[c] = "idle"
    /\ pc' = [pc EXCEPT ![c] = "starting"]
    /\ context' = [context EXCEPT ![c] = NewContext]
    /\ \E a \in {None, "TOOL_DISABLED"} : answer' = [answer EXCEPT ![c] = a]
    /\ UNCHANGED <<elapsed, left, known, pages, scope, orphans, rows, aborted, landed>>

(* enforceUsageBudget, once the start row is retained: the limiter decides. *)
StartWritten(c) ==
    /\ pc[c] = "starting"
    /\ \/ /\ answer[c] = None
          /\ pc' = [pc EXCEPT ![c] = "ready"]
          /\ rows' = [rows EXCEPT ![c].start = TRUE]
          /\ UNCHANGED answer
       \/ LET a == IF answer[c] = None THEN "RATE_LIMITED" ELSE answer[c] IN
          /\ pc' = [pc EXCEPT ![c] = "closing"]
          /\ answer' = [answer EXCEPT ![c] = a]
          /\ rows' = [rows EXCEPT ![c] =
                 [start |-> TRUE, terminal |-> <<"writing", Row(c, a, Unknown, context[c])>>]]
    /\ UNCHANGED <<elapsed, left, known, pages, scope, orphans, context, aborted, landed>>

StartFails(c) ==
    /\ pc[c] = "starting"
    /\ pc' = [pc EXCEPT ![c] = "done"]
    /\ answer' = [answer EXCEPT ![c] = "AUDIT_UNAVAILABLE"]
    /\ context' = [context EXCEPT ![c] = None]
    /\ UNCHANGED <<elapsed, left, known, pages, scope, orphans, rows, aborted, landed>>

-----------------------------------------------------------------------------
Budget(c) == AnalysisMs - elapsed[c]

remainingTimeoutMs(c) ==
    IF c \in AnalysisCalls THEN Min({ToolMs, Budget(c)}) ELSE ToolMs

(* scopedReadWithTimeout: the job ids of the parameters are noted before   *)
(* the deadline and the signal are looked at.                              *)
StartRead(c) ==
    /\ pc[c] = "ready"
    /\ pages[c] < IF c \in AnalysisCalls THEN MaxReads ELSE 1
    /\ \E ids \in SUBSET Jobs :
         LET contexts == IF ids = {} THEN context
                         ELSE Note(LAMBDA x : recordExplicitAuditJobIds(x, ids))
         IN CASE c \in AnalysisCalls /\ Budget(c) <= 0 ->
                   Close(c, "TOOL_TIMEOUT", contexts, scope[c]) /\ UNCHANGED <<left, known>>
              [] ~(c \in AnalysisCalls /\ Budget(c) <= 0) /\ aborted ->
                   Close(c, "CANCELLED", contexts, scope[c]) /\ UNCHANGED <<left, known>>
              [] OTHER ->
                   /\ pc' = [pc EXCEPT ![c] = "waiting"]
                   /\ left' = [left EXCEPT ![c] = remainingTimeoutMs(c)]
                   /\ known' = [known EXCEPT ![c] = FALSE]
                   /\ context' = contexts
                   /\ UNCHANGED <<answer, scope, rows>>
    /\ UNCHANGED <<elapsed, pages, orphans, aborted, landed>>

(* onPermissionScopeResolved, of a read in flight or of an abandoned one.  *)
ScopeResolved(c) ==
    /\ \/ /\ pc[c] = "waiting" /\ ~known[c]
          /\ known' = [known EXCEPT ![c] = TRUE]
          /\ UNCHANGED orphans
       \/ /\ c \in orphans
          /\ orphans' = orphans \ {c}
          /\ UNCHANGED known
    /\ \E s \in Scopes :
         /\ context' = Note(LAMBDA x : recordAuditPermissionScope(x, s))
         /\ scope' = IF pc[c] = "waiting" THEN [scope EXCEPT ![c] = s] ELSE scope
    /\ UNCHANGED <<pc, elapsed, left, pages, answer, rows, aborted, landed>>

(* The read returns a page: a tool has its data, a recipe goes on.         *)
ReadReturns(c) ==
    /\ pc[c] = "waiting" /\ known[c]
    /\ LET contexts == Note(LAMBDA x : recordAuditReadMetrics(x)) IN
       IF c \in ScopedCalls THEN Close(c, "data", contexts, scope[c])
       ELSE /\ pc' = [pc EXCEPT ![c] = "ready"]
            /\ context' = contexts
            /\ UNCHANGED <<answer, scope, rows>>
    /\ pages' = [pages EXCEPT ![c] = @ + 1]
    /\ UNCHANGED <<elapsed, left, known, orphans, aborted, landed>>

(* The read is denied or throws; the error of a cancelled request is       *)
(* called by its cause.                                                    *)
ReadFails(c) ==
    /\ pc[c] = "waiting"
    /\ \E a \in {"UPSTREAM_ERROR", "ACTOR_DENIED"} :
         Close(c, IF aborted /\ a = "UPSTREAM_ERROR" THEN "CANCELLED" ELSE a, context, Unknown)
    /\ UNCHANGED <<elapsed, left, known, pages, orphans, aborted, landed>>

Abandon(c) == orphans' = IF known[c] THEN orphans ELSE orphans \cup {c}

(* The timer fires.  read-all keeps the pages a recipe has (ReadAll).      *)
ReadTimesOut(c) ==
    /\ pc[c] = "waiting" /\ left[c] = 0
    /\ Abandon(c)
    /\ \/ Close(c, "TOOL_TIMEOUT", context, Unknown)
       \/ /\ c \in AnalysisCalls /\ pages[c] > 0
          /\ pc' = [pc EXCEPT ![c] = "ready"]
          /\ UNCHANGED <<answer, scope, context, rows>>
    /\ UNCHANGED <<elapsed, left, known, pages, aborted, landed>>

ReadCancelled(c) ==
    /\ pc[c] = "waiting" /\ aborted
    /\ Abandon(c)
    /\ Close(c, "CANCELLED", context, Unknown)
    /\ UNCHANGED <<elapsed, left, known, pages, aborted, landed>>

(* A recipe has read enough and answers.                                   *)
Finish(c) ==
    /\ c \in AnalysisCalls
    /\ pc[c] = "ready" /\ pages[c] > 0
    /\ Close(c, "data", context, scope[c])
    /\ UNCHANGED <<elapsed, left, known, pages, orphans, aborted, landed>>

-----------------------------------------------------------------------------
(* runActionTool: the write first, its only row afterwards.                *)
Act(c) ==
    /\ c \in ActionCalls
    /\ pc[c] = "idle"
    /\ \E a \in {"data", "UPSTREAM_ERROR"} :
         /\ pc' = [pc EXCEPT ![c] = "closing"]
         /\ answer' = [answer EXCEPT ![c] = a]
         /\ rows' = [rows EXCEPT ![c].terminal = <<"writing", Row(c, a, Unknown, NewContext)>>]
         /\ landed' = IF a = "data" THEN landed \cup {c} ELSE landed
    /\ UNCHANGED <<elapsed, left, known, pages, scope, orphans, context, aborted>>

Ends(c) ==
    /\ pc[c] = "closing"
    /\ pc' = [pc EXCEPT ![c] = "done"]
    /\ context' = [context EXCEPT ![c] = None]
    /\ UNCHANGED <<elapsed, left, known, pages, scope, orphans, aborted, landed>>

TerminalWritten(c) ==
    /\ Ends(c)
    /\ rows' = [rows EXCEPT ![c].terminal = <<"kept", @[2]>>]
    /\ UNCHANGED answer

(* Plausible bug: a lost row does not cost the caller the data.            *)
TerminalFailsOpen(c) ==
    /\ Ends(c)
    /\ rows' = [rows EXCEPT ![c].terminal = None]
    /\ UNCHANGED answer

TerminalFails(c) ==
    /\ Ends(c)
    /\ rows' = [rows EXCEPT ![c].terminal = None]
    /\ answer' = [answer EXCEPT ![c] = "AUDIT_UNAVAILABLE"]

-----------------------------------------------------------------------------
ClientLeaves ==
    /\ ~aborted
    /\ aborted' = TRUE
    /\ UNCHANGED <<call, orphans, context, rows, landed>>

Timed(c) == c \in AnalysisCalls /\ pc[c] \notin {"idle", "closing", "done"}

(* A timer that is due fires before time goes on.                          *)
Tick ==
    /\ \E c \in Calls : (Timed(c) /\ elapsed[c] <= AnalysisMs) \/ pc[c] = "waiting"
    /\ \A c \in Calls : pc[c] = "waiting" => left[c] > 0
    /\ elapsed' = [c \in Calls |-> IF Timed(c) THEN Min({elapsed[c] + 1, AnalysisMs + 1}) ELSE elapsed[c]]
    /\ left' = [c \in Calls |-> IF pc[c] = "waiting" THEN left[c] - 1 ELSE left[c]]
    /\ UNCHANGED <<pc, known, pages, scope, answer, orphans, context, rows, aborted, landed>>

Reads(c) == StartRead(c) \/ Finish(c)

Next ==
    \/ \E c \in Calls :
         \/ Begin(c) \/ StartWritten(c) \/ StartFails(c) \/ Reads(c) \/ ScopeResolved(c)
         \/ ReadReturns(c) \/ ReadFails(c) \/ ReadTimesOut(c) \/ ReadCancelled(c) \/ Act(c)
         \/ TerminalWritten(c) \/ TerminalFails(c)
    \/ ClientLeaves
    \/ Tick

Spec == Init /\ [][Next]_vars

-----------------------------------------------------------------------------
TypeOK ==
    /\ pc \in [Calls -> {"idle", "starting", "ready", "waiting", "closing", "done"}]
    /\ elapsed \in [Calls -> 0..AnalysisMs + 1]
    /\ left \in [Calls -> 0..ToolMs]
    /\ known \in [Calls -> BOOLEAN]
    /\ pages \in [Calls -> 0..MaxReads]
    /\ scope \in [Calls -> Scopes \cup {Unknown}]
    /\ answer \in [Calls -> Codes \cup {"data", None}]
    /\ orphans \subseteq Calls \ ActionCalls
    /\ aborted \in BOOLEAN
    /\ landed \subseteq ActionCalls
    /\ \A c \in Active : /\ context[c] \in Contexts
                         /\ context[c].explicit => context[c].resolved # None

Kept(c) == rows[c].terminal # None /\ rows[c].terminal[1] = "kept"

(* AUDIT_UNAVAILABLE "so no Greenhouse data was returned": a caller that   *)
(* got data left a terminal row that says so, and a reading one its start  *)
(* row too.                                                                *)
DataLeavesARecord ==
    \A c \in Calls : pc[c] = "done" /\ answer[c] = "data" =>
        /\ Kept(c) /\ rows[c].terminal[2].outcome = "success"
        /\ c \notin ActionCalls => rows[c].start

(* Nothing is read for a call before its start row is retained.            *)
ReadsAreAnnounced ==
    \A c \in Calls : pc[c] = "waiting" \/ pages[c] > 0 => rows[c].start

(* Contexts belong to calls under way: none outlives its call, where later *)
(* reads would go on writing to it, and none is closed early.              *)
ContextsFollowTheirCalls ==
    \A c \in Calls \ ActionCalls : (context[c] # None) <=> (pc[c] \notin {"idle", "done"})

(* Whatever the order in which job ids are named and scopes resolved by    *)
(* overlapping reads, an audit context claims no job outside its scope.    *)
AuditedJobsArePermitted ==
    \A c \in Active :
        context[c].scope \notin {Unknown, All} /\ context[c].resolved # None =>
            context[c].resolved \subseteq context[c].scope

(* The terminal row accounts for every page the call read, calls that      *)
(* overlap it notwithstanding.                                             *)
PagesAreAccountedFor ==
    \A c \in Calls : c \notin ActionCalls /\ Kept(c) => rows[c].terminal[2].pages >= pages[c]

(* No read of a recipe is still awaited when its deadline has passed.      *)
ReadsEndByTheDeadline ==
    \A c \in AnalysisCalls : pc[c] = "waiting" => elapsed[c] <= AnalysisMs

(* A reader that never answers does not hold a call: each one ends.        *)
Asked(c) == pc[c] = "starting"
Done(c) == pc[c] = "done"
=============================================================================
