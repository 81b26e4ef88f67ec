------------------------------- MODULE ReadAll -------------------------------
(***************************************************************************)
(* readAllScopedRows (recruiter-mcp/src/read-all.ts): follow the cursors   *)
(* of one scoped read to the end, under a deadline, a rate limit, a page   *)
(* cap and a guard against cursor cycles, and say whether the rows are     *)
(* the whole set.                                                          *)
(*                                                                         *)
(* A page is named by the cursor that fetches it, First by none.  What     *)
(* Greenhouse answers to a cursor is fixed for a behaviour, cycles         *)
(* included; whether a page arrives is not.                                *)
(***************************************************************************)
EXTENDS Integers, Sequences, FiniteSets

CONSTANTS Cursors, First, None,
          MaxPages       \* MAX_READ_ALL_PAGES

Pages == Cursors \cup {First}

ReadAllAssumption ==
    /\ First \notin Cursors /\ None \notin Pages
    /\ MaxPages \in Nat \ {0}

VARIABLES
    next,       \* Greenhouse: the cursor a page answers with
    start,      \* where the caller asked to start
    expired,    \* the deadline has passed
    pc,
    cursor,     \* as in the code; First for null before the first page
    seen,       \* seenCursors
    read,       \* the pages read, in order
    unresolved, \* whether a page held a row whose job could not be resolved
    status      \* ReadAllStatus, or the code of the denial

vars == <<next, start, expired, pc, cursor, seen, read, unresolved, status>>
upstream == <<next, start>>

Incomplete == {"incomplete_scope_resolution", "incomplete_timeout",
               "incomplete_rate_limited", "incomplete_page_cap"}
Denials == {"TOOL_TIMEOUT", "RATE_LIMITED", "CANCELLED", "PERMISSION_JOIN_FAILED",
            "OTHER", "thrown"}

Init ==
    /\ next \in [Pages -> Cursors \cup {None}]
    /\ start \in Pages
    /\ expired = FALSE
    /\ pc = "check"
    /\ cursor = start
    /\ seen = {} /\ read = <<>> /\ unresolved = FALSE
    /\ status = "complete"

Finish(s) == pc' = "done" /\ status' = s

(* What was read is kept: a denial only if there is nothing to keep.       *)
Break(denial, s) == Finish(IF read = <<>> THEN denial ELSE s)

-----------------------------------------------------------------------------
(* The deadline, looked at before each page.                               *)
Check ==
    /\ pc = "check"
    /\ \/ expired /\ Break("TOOL_TIMEOUT", "incomplete_timeout")
       \/ ~expired /\ pc' = "fetch" /\ UNCHANGED status
    /\ UNCHANGED <<upstream, expired, cursor, seen, read, unresolved>>

(* Plausible bug: a page whose parents cannot be read is skipped.          *)
SkipPage ==
    /\ pc = "fetch" /\ read # <<>> /\ next[cursor] # None
    /\ cursor' = next[cursor] /\ seen' = seen \cup {cursor'}
    /\ pc' = "check"
    /\ UNCHANGED <<upstream, expired, read, unresolved, status>>

(* The page does not come: the deadline, the retry budget, the caller, a   *)
(* parent read of the permission filter, any other denial or error.        *)
NoPage ==
    /\ pc = "fetch"
    /\ \/ Break("TOOL_TIMEOUT", "incomplete_timeout")
       \/ Break("RATE_LIMITED", "incomplete_rate_limited")
       \/ Break("PERMISSION_JOIN_FAILED", "incomplete_scope_resolution")
       \/ \E d \in {"CANCELLED", "OTHER", "thrown"} : Finish(d)
    /\ UNCHANGED <<upstream, expired, cursor, seen, read, unresolved>>

(* Whether the cursor just received is to be followed.                     *)
Stop ==
    IF Len(read) + 1 >= MaxPages \/ cursor' \in seen THEN "incomplete_page_cap" ELSE "no"

Grade(bad) == IF bad THEN "incomplete_scope_resolution" ELSE status

(* A page: take its rows and its cursor; go on, at once or after the rate  *)
(* limit's reset, unless that lies beyond the deadline.                    *)
Page ==
    /\ pc = "fetch"
    /\ read' = Append(read, cursor)
    /\ cursor' = next[cursor]
    /\ \E bad \in BOOLEAN :
         LET s == Grade(bad) IN
         /\ unresolved' = (unresolved \/ bad)
         /\ \/ /\ cursor' = None
               /\ Finish(s) /\ UNCHANGED seen
            \/ /\ cursor' # None /\ Stop # "no"
               /\ Finish(Stop) /\ UNCHANGED seen
            \/ /\ cursor' # None /\ Stop = "no"
               /\ seen' = seen \cup {cursor'}
               /\ \/ pc' \in {"check", "wait"} /\ status' = s
                  \/ Finish("incomplete_rate_limited")
    /\ UNCHANGED <<upstream, expired>>

Wait ==
    /\ pc = "wait"
    /\ \/ pc' = "check" /\ UNCHANGED status
       \/ Finish("CANCELLED")
    /\ UNCHANGED <<upstream, expired, cursor, seen, read, unresolved>>

Expire ==
    /\ ~expired /\ expired' = TRUE
    /\ UNCHANGED <<upstream, pc, cursor, seen, read, unresolved, status>>

Next == Check \/ NoPage \/ Page \/ Wait \/ Expire

Spec == Init /\ [][Next]_vars

-----------------------------------------------------------------------------
complete == status = "complete" /\ cursor = None
Rows == pc = "done" /\ status \notin Denials

(* The pages from p on: those in every set of pages that holds p and with  *)
(* each page the one its cursor leads to.                                  *)
Closed(S) == \A q \in S : next[q] \in S \cup {None}
Following(p) ==
    {q \in Pages : \A S \in SUBSET Pages : p \in S \cup {None} /\ Closed(S) => q \in S}

PagesRead == {read[i] : i \in 1..Len(read)}

TypeOK ==
    /\ next \in [Pages -> Cursors \cup {None}] /\ start \in Pages
    /\ {expired, unresolved} \subseteq BOOLEAN
    /\ pc \in {"check", "fetch", "wait", "done"}
    /\ cursor \in Pages \cup {None}
    /\ seen \subseteq Cursors
    /\ read \in Seq(Pages) /\ Len(read) <= MaxPages
    /\ status \in {"complete"} \cup Incomplete \cup Denials

(* An answer that says it is complete holds every page there is, with all  *)
(* its rows resolved, whatever cursors, limits and deadlines came between. *)
CompleteIsComplete ==
    Rows /\ complete => PagesRead = Following(start) /\ ~unresolved

(* "Resume an incomplete read with read.next_cursor": what was read and    *)
(* what follows from the cursor handed out leave no page out.              *)
ResumeMissesNothing ==
    Rows => Following(start) \subseteq PagesRead \cup Following(cursor)

(* The rows hold no page twice: a cycle of cursors is noticed before it is *)
(* followed (a caller that resumes inside of it is not protected).         *)
EachPageOnce == start = First => Cardinality(PagesRead) = Len(read)

(* The deadline: no page is asked for once it was seen to have passed, and *)
(* what was read before is not thrown away for it.                         *)
DeadlineKeepsPages ==
    pc = "done" /\ status \in {"TOOL_TIMEOUT", "RATE_LIMITED", "PERMISSION_JOIN_FAILED"}
        => read = <<>>
=============================================================================
