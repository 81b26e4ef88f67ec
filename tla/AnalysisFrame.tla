---------------------------- MODULE AnalysisFrame ----------------------------
(***************************************************************************)
(* What the analysis recipes share: how a caller's window is read and      *)
(* bounded (limits.ts), and how a recipe accounts for the records it read  *)
(* (resolution/analysis-result.ts).  Time is in ticks, DayTicks to a day;  *)
(* a bound is a timestamp or a bare date, and a bare date parses to its    *)
(* first tick, as Date.parse does.                                         *)
(***************************************************************************)
EXTENDS Integers, FiniteSets

CONSTANTS None,          \* an absent value
          Malformed,     \* a bound that is not an ISO timestamp or date
          DayTicks,      \* ticks in a day
          MaxLookback    \* limits.maxLookbackDays, in ticks

FrameAssumption == DayTicks \in Nat \ {0} /\ MaxLookback \in Nat

readAnalysisWindowDate(bound) ==
    IF bound.date THEN DayTicks * bound.at ELSE bound.at

hasExplicitAnalysisWindow(params) == params.start # None /\ params.end # None

(* The message to deny with, as a Boolean: a bound that does not read, or a
   start after its end.  One-sided windows have no order to break. *)
explicitAnalysisWindowError(params) ==
    \/ Malformed \in {params.start, params.end}
    \/ /\ hasExplicitAnalysisWindow(params)
       /\ readAnalysisWindowDate(params.start) > readAnalysisWindowDate(params.end)

(* An end left out is now; a start left out is the recipe's lookback before
   the end.  None when a bound is unusable. *)
resolveAnalysisWindow(params, now, lookback) ==
    LET end == IF params.end = None THEN now ELSE readAnalysisWindowDate(params.end)
        start == IF params.start = None THEN end - lookback
                 ELSE readAnalysisWindowDate(params.start)
    IN  IF explicitAnalysisWindowError(params) THEN None
        ELSE IF start > end THEN None ELSE [start |-> start, end |-> end]

assertWindowWithinLimit(window) == window.end - window.start <= MaxLookback

(* The window a recipe runs on, or None when it answers LIMIT_EXCEEDED: a
   window the caller wrote out in full is not held to the lookback limit. *)
AdmittedWindow(params, now, lookback) ==
    LET window == resolveAnalysisWindow(params, now, lookback)
    IN  CASE window = None -> None
          [] hasExplicitAnalysisWindow(params) -> window
          [] assertWindowWithinLimit(window) -> window
          [] OTHER -> None

-----------------------------------------------------------------------------
(* The exclusion reasons of a result: a function from reason to count. *)
sumExclusions(reasons) ==
    LET add[S \in SUBSET DOMAIN reasons] ==
            IF S = {} THEN 0
            ELSE LET r == CHOOSE x \in S : TRUE IN reasons[r] + add[S \ {r}]
    IN  add[DOMAIN reasons]

completenessStatus(inventoryComplete, fresh, excluded, mismatch) ==
    CASE ~inventoryComplete \/ mismatch -> "incomplete"
      [] ~fresh \/ excluded > 0 -> "partial"
      [] OTHER -> "complete"

(* fresh is the recipe's dataFreshnessOk together with no suspected data
   migration: both lower "complete" to "partial" and nothing else. *)
buildAnalysisCompleteness(total, analyzed, excluded, reasons, inventoryComplete, fresh) ==
    [total |-> total, analyzed |-> analyzed, excluded |-> excluded, reasons |-> reasons,
     inventoryComplete |-> inventoryComplete,
     status |-> completenessStatus(inventoryComplete, fresh, excluded,
                                   total # analyzed + excluded)]
=============================================================================
