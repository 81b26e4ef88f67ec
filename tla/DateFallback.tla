----------------------------- MODULE DateFallback ----------------------------
(***************************************************************************)
(* readAllWithDateFallback (recruiter-mcp/src/tools/read-with-date-        *)
(* fallback.ts): a set of rows in a date window, where a row is dated by   *)
(* its primary field or, if that holds no date, by a fallback field.       *)
(* Greenhouse filters by either field or answers 422, in which case the    *)
(* window is applied here.                                                 *)
(*                                                                         *)
(* A row is what its two fields hold: no value, something unparseable, a   *)
(* date in the window or one outside.  One window with one fallback, as    *)
(* hire-facts.ts declares it.  Each read is a ReadAll.                     *)
(***************************************************************************)
EXTENDS Integers, FiniteSets, FiniteSetsExt

CONSTANTS Tenants   \* the sets of rows considered

Field == {"primary", "fallback"}
Dates == {"none", "garbage", "in", "out"}
Row == [Field -> Dates]

FallbackAssumption == Tenants \subseteq SUBSET Row

VARIABLES
    tenant, native,  \* the rows; the fields Greenhouse filters by
    pc,
    rows, added,     \* rows of the first read and of the fallback leg
    returned,        \* rowsReturnedRead of the result
    fetched,         \* history: the rows all reads folded into it returned
    missing,         \* rowsMissingField
    unwindowed,      \* history: whether a read had no window
    statuses,        \* of the reads
    outcome

vars == <<tenant, native, pc, rows, added, returned, fetched, missing,
          unwindowed, statuses, outcome>>
world == <<tenant, native>>

Init ==
    /\ tenant \in Tenants /\ native \in SUBSET Field
    /\ pc = "primary"
    /\ rows = {} /\ added = {} /\ returned = 0 /\ fetched = 0 /\ missing = 0
    /\ unwindowed = FALSE
    /\ statuses = {} /\ outcome = "none"

Usable(v) == v \in {"in", "out"}

(* What Greenhouse returns to its own filter.                              *)
Filtered(f) == {r \in tenant : r[f] = "in"}

(* The value a row is dated by.                                            *)
firstPresentField(r) == IF Usable(r["primary"]) THEN r["primary"] ELSE r["fallback"]

Undated(s) == {r \in s : ~Usable(firstPresentField(r))}

applyLocalWindow(s) == {r \in s : firstPresentField(r) = "in"}

(* A ReadAll of the rows s: all of them, or some and a status that says so. *)
Reads(s, got, status) ==
    /\ got \subseteq s
    /\ status \in {"complete", "incomplete"}
    /\ status = "complete" => got = s

Deny(kind) ==
    /\ pc' = "done" /\ outcome' = kind
    /\ UNCHANGED <<world, rows, added, returned, fetched, missing, unwindowed, statuses>>

-----------------------------------------------------------------------------
(* The filter Greenhouse knows.                                            *)
Primary ==
    /\ pc = "primary" /\ "primary" \in native
    /\ \E got \in SUBSET tenant, status \in {"complete", "incomplete"} :
         /\ Reads(Filtered("primary"), got, status)
         /\ rows' = got
         /\ returned' = Cardinality(got) /\ fetched' = Cardinality(got)
         /\ statuses' = {status}
    /\ pc' = "leg"
    /\ UNCHANGED <<world, added, missing, unwindowed, outcome>>

(* 422: read again without the window's own parameters.                    *)
Rejected ==
    /\ pc = "primary" /\ "primary" \notin native
    /\ pc' = "local"
    /\ UNCHANGED <<world, rows, added, returned, fetched, missing, unwindowed, statuses, outcome>>

Local ==
    /\ pc = "local"
    /\ \E got \in SUBSET tenant, status \in {"complete", "incomplete"} :
         /\ Reads(tenant, got, status)
         /\ rows' = applyLocalWindow(got)
         /\ missing' = Cardinality(Undated(got))
         /\ returned' = Cardinality(got) /\ fetched' = Cardinality(got)
         /\ statuses' = {status}
    /\ unwindowed' = TRUE
    /\ pc' = "done" /\ outcome' = "rows"
    /\ UNCHANGED <<world, added>>

(* What this leg alone can supply: rows the first field cannot date.       *)
Recovered(s) == {r \in s : ~Usable(r["primary"])}

LegMissing(s) == Cardinality({r \in Recovered(s) : ~Usable(r["fallback"])})

(* The leg by the fallback field, with the same recovery from a 422.  The  *)
(* counts of rows returned stay those of the first read.                   *)
Leg ==
    /\ pc = "leg"
    /\ \E got \in SUBSET tenant, status \in {"complete", "incomplete"} :
         /\ Reads(IF "fallback" \in native THEN Filtered("fallback") ELSE tenant, got, status)
         /\ added' = {r \in Recovered(got) : r["fallback"] = "in"}
         /\ missing' = LegMissing(got)
         /\ fetched' = fetched + Cardinality(got)
         /\ statuses' = statuses \cup {status}
    /\ unwindowed' = ("fallback" \notin native)
    /\ pc' = "done" /\ outcome' = "rows"
    /\ UNCHANGED <<world, rows, returned>>

(* A denial or an error of the leg costs its rows, not the others.         *)
LegFails ==
    /\ pc = "leg"
    /\ statuses' = statuses \cup {"incomplete_upstream"}
    /\ pc' = "done" /\ outcome' = "rows"
    /\ UNCHANGED <<world, rows, added, returned, fetched, missing, unwindowed>>

(* A cancellation ends the whole, wherever it strikes; another denial or   *)
(* error of the first read does.                                           *)
Cancelled == pc # "done" /\ Deny("cancelled")
Denied == pc \in {"primary", "local"} /\ \E kind \in {"denied", "thrown"} : Deny(kind)

Next == Primary \/ Rejected \/ Local \/ Leg \/ LegFails \/ Cancelled \/ Denied

Spec == Init /\ [][Next]_vars

-----------------------------------------------------------------------------
(* combineReadStatuses, and complete of the merged read.                   *)
complete == statuses = {"complete"}

TypeOK ==
    /\ tenant \in Tenants /\ native \subseteq Field
    /\ pc \in {"primary", "local", "leg", "done"}
    /\ rows \subseteq tenant /\ added \subseteq tenant
    /\ {returned, fetched, missing} \subseteq Nat
    /\ unwindowed \in BOOLEAN
    /\ statuses \subseteq {"complete", "incomplete", "incomplete_upstream"}
    /\ outcome \in {"none", "rows", "denied", "thrown", "cancelled"}
    /\ pc = "done" <=> outcome # "none"
    /\ outcome = "rows" => statuses # {}

Window == {r \in tenant : \/ r["primary"] = "in"
                          \/ ~Usable(r["primary"]) /\ r["fallback"] = "in"}

(* The window is the same population whichever fields Greenhouse filters   *)
(* by and whichever legs were needed: all of it when the answer says it is *)
(* complete, and nothing outside of it ever.                               *)
SamePopulation ==
    outcome = "rows" =>
        /\ rows \cup added \subseteq Window
        /\ complete => rows \cup added = Window

(* The legs do not overlap: no row is there twice.                         *)
NoRowTwice == rows \cap added = {}

(* A complete read that had to look at all rows says how many it could not *)
(* date at all.                                                            *)
UndatedAreCounted ==
    outcome = "rows" /\ complete /\ unwindowed =>
        missing = Cardinality({r \in tenant : ~Usable(r["primary"]) /\ ~Usable(r["fallback"])})
=============================================================================
