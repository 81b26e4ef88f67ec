------------------------------- MODULE HireRead -------------------------------
(***************************************************************************)
(* The reconciliation line of the hire report (recruiter-mcp/src/tools/    *)
(* hire-facts.ts, facts.ts): accepted offers, the versions of their        *)
(* chains, their applications that Greenhouse calls hired, all hired       *)
(* applications of the scope, and the openings closed by a hire.  Each is  *)
(* a leg of reads in chunks of ids; a leg may stop short, be refused or    *)
(* throw, and the line says of each count whether it is the number, a      *)
(* floor of it, or neither.                                                *)
(*                                                                         *)
(* Offers are accepted and applications hired while the line is read.      *)
(***************************************************************************)
EXTENDS Integers, Sequences, FiniteSets, FiniteSetsExt, SequencesExt

CONSTANTS
    Jobs, All, None,
    OfferMenu,    \* rows [id, job, app, status, dated], at most all of them exist
    OpeningMenu,  \* closed openings [id, job, reason, filled]
    HireReasons, Reasons, \* close reasons that begin with "Hire -"; all
    ChunkSize,    \* HIRE_JOB_ID_CHUNK_SIZE, HIRE_ID_BRIDGE_CHUNK_SIZE
    Scopes, Asks, \* scopes and sets of optional legs a caller asks for
    MaxChanges,   \* bound: offers that appear and hires that fire while it is read
    Shortfalls    \* the incomplete statuses a read may end with

Legs == {"hires", "chain", "applications", "allTime", "openings", "reasons"}

HireAssumption ==
    /\ ChunkSize \in Nat \ {0} /\ MaxChanges \in Nat
    /\ Scopes \subseteq {All} \cup SUBSET Jobs
    /\ Asks \subseteq SUBSET {"chain", "allTime", "openings"}
    /\ HireReasons \subseteq Reasons
    /\ \A o \in OfferMenu : o.job \in Jobs
    /\ \A p \in OpeningMenu : p.job \in Jobs

VARIABLES
    offers, hired, openings,  \* Greenhouse: offer rows, hired applications, closed openings
    before,      \* history: offers and hired when the line began
    scope, asks,
    pc, left,    \* the leg being read and its chunks not read
    rows,        \* of each leg
    statuses,    \* of each leg's reads
    failed,      \* legs contained as failed
    lost,        \* history: the denials that failed a leg or ended the line
    reads,       \* history: upstream reads made
    outcome      \* "line", "denial", "thrown"

vars == <<offers, hired, openings, before, scope, asks, pc, left, rows,
          statuses, failed, lost, reads, outcome>>
greenhouse == <<offers, hired, openings>>
question == <<before, scope, asks>>

-----------------------------------------------------------------------------
(* The definition of a hire.                                               *)
Accepted(o) == o.status = "Accepted"

buildHireFacts(s) == {o \in s : Accepted(o) /\ o.dated # "none"}

Within(chunk, job) == chunk = All \/ job \in chunk

JobOf(a) == (CHOOSE o \in OfferMenu : o.app = a).job

Application(a) == [app |-> a, hired |-> a \in hired]

(* What Greenhouse holds for one read of a leg.                            *)
Population(leg, chunk) ==
    CASE leg = "hires"        -> {o \in offers : Accepted(o) /\ Within(chunk, o.job)}
      [] leg = "chain"        -> {o \in offers : o.app \in chunk}
      [] leg = "applications" -> {Application(a) : a \in chunk}
      [] leg = "allTime"      -> {Application(a) : a \in {b \in hired : Within(chunk, JobOf(b))}}
      [] leg = "openings"     -> {p \in openings : Within(chunk, p.job)}
      [] leg = "reasons"      -> Reasons

chunks(ids) ==
    LET s == SetToSeq(ids)
    IN [i \in 1..((Len(s) + ChunkSize - 1) \div ChunkSize) |->
           ToSet(SubSeq(s, (i - 1) * ChunkSize + 1,
                        IF i * ChunkSize > Len(s) THEN Len(s) ELSE i * ChunkSize))]

jobChunks(jobIds) == IF jobIds = All THEN <<All>> ELSE chunks(jobIds)

Facts == buildHireFacts(rows["hires"])
uniquePositiveIds == {o.app : o \in Facts}

Init ==
    /\ offers \in SUBSET OfferMenu /\ hired \in SUBSET {o.app : o \in offers}
    /\ openings \in SUBSET OpeningMenu
    /\ before = [offers |-> offers, hired |-> hired]
    /\ scope \in Scopes /\ asks \in Asks
    /\ pc = "hires" /\ left = jobChunks(scope)
    /\ rows = [l \in Legs |-> {}]
    /\ statuses = [l \in Legs |-> {}]
    /\ failed = {} /\ lost = <<>> /\ reads = 0
    /\ outcome = "none"

-----------------------------------------------------------------------------
(* The legs after leg, and the chunks the first one that is asked for      *)
(* reads.                                                                  *)
Wanted(l) ==
    CASE l = "applications" -> TRUE
      [] l = "reasons"      -> "openings" \in asks /\ "openings" \notin failed
                               /\ rows["openings"] # {}
      [] OTHER              -> l \in asks

ChunksOf(l) ==
    CASE l \in {"chain", "applications"}   -> chunks(uniquePositiveIds)
      [] l \in {"hires", "allTime", "openings"} -> jobChunks(scope)
      [] l = "reasons"                     -> <<All>>

After(leg) ==
    LET order == <<"hires", "chain", "applications", "allTime", "openings", "reasons">>
        k == CHOOSE i \in 1..6 : order[i] = leg
        rest == SelectSeq(SubSeq(order, k + 1, 6), Wanted)
    IN IF rest = <<>> THEN "line" ELSE rest[1]

EndLeg ==
    /\ pc \in Legs /\ left = <<>>
    /\ pc' = After(pc)
    /\ left' = IF pc' = "line" THEN <<>> ELSE ChunksOf(pc')
    /\ outcome' = IF pc' = "line" THEN "line" ELSE outcome
    /\ UNCHANGED <<greenhouse, question, rows, statuses, failed, lost, reads>>

Reading == pc \in Legs /\ left # <<>>

(* A chunk's rows, all of them or some and a status that says so.          *)
foldRead(got, status) ==
    /\ rows' = [rows EXCEPT ![pc] = @ \cup got]
    /\ statuses' = [statuses EXCEPT ![pc] = @ \cup {status}]
    /\ reads' = reads + 1
    /\ UNCHANGED <<greenhouse, question, pc, failed, lost, outcome>>

ReadsChunk ==
    /\ Reading
    /\ \/ foldRead(Population(pc, Head(left)), "complete")
       \/ \E got \in SUBSET Population(pc, Head(left)), s \in Shortfalls : foldRead(got, s)
    /\ left' = Tail(left)

(* A status filter is not honoured: the read returns rows of any status.   *)
ReadsStrays ==
    /\ Reading
    /\ LET inChunk == {o \in offers : Within(Head(left), o.job)}
       IN \/ pc = "hires" /\ foldRead(inChunk, "complete")
          \/ pc = "allTime" /\ foldRead({Application(o.app) : o \in inChunk}, "complete")
    /\ left' = Tail(left)

Stop(o, d) ==
    /\ pc' = "done" /\ outcome' = o /\ reads' = reads + 1
    /\ lost' = Append(lost, d)
    /\ UNCHANGED <<greenhouse, question, left, rows, statuses, failed>>

denialTruncationStatus(d) ==
    CASE d = "TOOL_TIMEOUT"           -> "incomplete_timeout"
      [] d = "PERMISSION_JOIN_FAILED" -> "incomplete_scope_resolution"
      [] OTHER                        -> "none"

ReadStatuses == Shortfalls \cup
    {"complete", "incomplete_upstream", "incomplete_timeout", "incomplete_scope_resolution"}

(* The optional reads, each run so that its failure is its own.            *)
Contained == Legs \ {"hires", "reasons"}

(* contain: an optional leg's failure is kept from the line, its rows are  *)
(* dropped; the openings fail with their dictionary.                       *)
failedReadStatus(d) ==
    /\ LET leg == IF pc = "reasons" THEN "openings" ELSE pc
       IN /\ failed' = failed \cup {leg}
          /\ rows' = [rows EXCEPT ![leg] = {}]
          /\ statuses' = [statuses EXCEPT ![leg] = {"incomplete_upstream"}]
    /\ lost' = Append(lost, d)
    /\ reads' = reads + 1 /\ left' = <<>>
    /\ UNCHANGED <<greenhouse, question, pc, outcome>>

(* A read that ran out after a chunk was read is truncation.               *)
Truncates(d) ==
    /\ pc # "reasons" /\ statuses[pc] # {}
    /\ denialTruncationStatus(d) # "none"

Truncation(d) ==
    /\ statuses' = [statuses EXCEPT ![pc] = @ \cup {denialTruncationStatus(d)}]
    /\ left' = <<>> /\ reads' = reads + 1
    /\ UNCHANGED <<greenhouse, question, pc, rows, failed, lost, outcome>>

Denied ==
    /\ Reading
    /\ \E d \in {"TOOL_TIMEOUT", "PERMISSION_JOIN_FAILED", "OTHER"} :
          \/ Truncates(d) /\ Truncation(d)
          \/ ~Truncates(d) /\ pc = "hires" /\ Stop("denial", d)
          \/ ~Truncates(d) /\ pc # "hires" /\ failedReadStatus(d)

(* An upstream 5xx is thrown.                                              *)
Throws ==
    /\ Reading
    /\ \/ pc = "hires" /\ Stop("thrown", "thrown")
       \/ pc # "hires" /\ failedReadStatus("thrown")

(* The client's request ended: nothing is answered.                        *)
Cancelled == Reading /\ Stop("cancelled", "CANCELLED")

-----------------------------------------------------------------------------
(* The line: of each count its value and how it is to be read.             *)
Complete(leg) == statuses[leg] \subseteq {"complete"}

partialReading(complete, reading) == IF complete THEN "exact" ELSE reading

Marked(s) == Cardinality({r \in s : r.hired})

NotRead == [value |-> 0, reading |-> "not_read"]

accepted_current_offers ==
    [value |-> Cardinality(Facts), reading |-> partialReading(Complete("hires"), "floor")]

(* The numerator of the ratio; its denominator is the accepted offers'.    *)
offer_rows_per_hire ==
    IF "chain" \notin asks \ failed THEN NotRead
    ELSE [value   |-> Cardinality(rows["chain"]),
          reading |-> partialReading(Complete("hires") /\ Complete("chain"),
                                     IF Complete("hires") THEN "floor" ELSE "uncertain")]

accepted_offer_applications_marked_hired ==
    IF "applications" \in failed THEN NotRead
    ELSE [value   |-> Marked(rows["applications"]),
          reading |-> partialReading(Complete("applications") /\ Complete("hires"), "floor")]

(* Of the rows of the leg the hired ones count, whatever was asked for.    *)
readAllTimeHiredApplications ==
    [hired        |-> Marked(rows["allTime"]),
     rowsNotHired |-> Cardinality(rows["allTime"]) - Marked(rows["allTime"]),
     complete     |-> Complete("allTime")]

applications_status_hired_scope_all_time ==
    IF "allTime" \notin asks \ failed THEN NotRead
    ELSE [value   |-> readAllTimeHiredApplications.hired,
          reading |-> partialReading(readAllTimeHiredApplications.complete, "floor")]

(* Each closed opening once: closed by a hire, for no reason, for a reason *)
(* the dictionary does not name, or for another.                           *)
readOpeningsClosedByHire ==
    LET nameless   == {p \in rows["openings"] : p.reason = None}
        resolved   == {p \in rows["openings"] : p.reason \in rows["reasons"]}
        hireClosed == {p \in resolved : p.filled /\ p.reason \in HireReasons}
    IN  [hireClosed             |-> Cardinality(hireClosed),
         closedWithNoReason     |-> Cardinality(nameless),
         closedReasonUnresolved |-> Cardinality(rows["openings"] \ (nameless \cup resolved)),
         complete               |-> Complete("openings") /\ Complete("reasons")]

openings_closed_by_hire ==
    IF "openings" \notin asks \ failed THEN NotRead
    ELSE [value   |-> readOpeningsClosedByHire.hireClosed,
          reading |-> partialReading(readOpeningsClosedByHire.complete, "floor")]

LineComplete == \A l \in Legs : Complete(l)

-----------------------------------------------------------------------------
(* Greenhouse meanwhile.                                                   *)
Changes == Cardinality(offers \ before.offers) + Cardinality(hired \ before.hired)

OfferAppears ==
    /\ pc \in Legs /\ Changes < MaxChanges
    /\ \E o \in OfferMenu \ offers : offers' = offers \cup {o}
    /\ UNCHANGED <<hired, openings, question, pc, left, rows, statuses, failed, lost, reads, outcome>>

HireEndpointFires ==
    /\ pc \in Legs /\ Changes < MaxChanges
    /\ \E o \in offers : o.app \notin hired /\ hired' = hired \cup {o.app}
    /\ UNCHANGED <<offers, openings, question, pc, left, rows, statuses, failed, lost, reads, outcome>>

Done == pc \in {"line", "done"} /\ UNCHANGED vars

Next ==
    \/ EndLeg \/ ReadsChunk \/ ReadsStrays \/ Denied \/ Throws \/ Cancelled
    \/ OfferAppears \/ HireEndpointFires \/ Done

Spec == Init /\ [][Next]_vars

-----------------------------------------------------------------------------
TypeOK ==
    /\ pc \in Legs \cup {"line", "done"}
    /\ outcome \in {"none", "line", "denial", "thrown", "cancelled"}
    /\ failed \subseteq Contained
    /\ \A l \in Legs : statuses[l] \subseteq ReadStatuses

InScope(s) == {x \in s : Within(scope, x.job)}
Hires(s) == InScope(buildHireFacts(s))
Versions(s, hires) == Cardinality({o \in s : \E h \in hires : h.app = o.app})
HiredOf(s, h) == Cardinality({o \in Hires(s) : o.app \in h})
AllHired(h) == Cardinality({a \in h : Within(scope, JobOf(a))})
ClosedByHire == Cardinality({p \in InScope(openings) : p.filled /\ p.reason \in HireReasons})

(* The counts with what they were in Greenhouse when the line began and    *)
(* are now.                                                                *)
Counts ==
    {[count |-> accepted_current_offers,
      low |-> Cardinality(Hires(before.offers)), high |-> Cardinality(Hires(offers))],
     [count |-> offer_rows_per_hire,
      low |-> Versions(before.offers, Facts), high |-> Versions(offers, Facts)],
     [count |-> accepted_offer_applications_marked_hired,
      low |-> HiredOf(before.offers, before.hired), high |-> HiredOf(offers, hired)],
     [count |-> applications_status_hired_scope_all_time,
      low |-> AllHired(before.hired), high |-> AllHired(hired)],
     [count |-> openings_closed_by_hire, low |-> ClosedByHire, high |-> ClosedByHire]}

(* "at least N" is at least N, whatever was not read: the value is no more *)
(* than there is (ReconciliationCount.partial_reading).  Of a ratio it is  *)
(* said only over all its hires.                                           *)
FloorsAreFloors ==
    pc = "line" =>
        /\ \A c \in Counts : c.count.reading \in {"floor", "exact"} => c.count.value <= c.high
        /\ offer_rows_per_hire.reading = "floor" => Hires(before.offers) \subseteq Facts

(* A count without a hedge is what Greenhouse held at some time while the  *)
(* line was read, not less; and the openings then called unresolved are    *)
(* those whose reason no dictionary names.                                 *)
ExactCountsAreWhole ==
    pc = "line" =>
        /\ \A c \in Counts : c.count.reading = "exact" => c.count.value >= c.low
        /\ openings_closed_by_hire.reading = "exact" =>
               readOpeningsClosedByHire.closedReasonUnresolved =
                   Cardinality({p \in InScope(openings) : p.reason \notin Reasons \cup {None}})

(* "complete" is said of the line only if every count that was asked for   *)
(* was read to the end.                                                    *)
CompleteIsComplete ==
    (pc = "line" /\ LineComplete) =>
        /\ accepted_current_offers.reading = "exact"
        /\ accepted_offer_applications_marked_hired.reading = "exact"
        /\ "chain" \in asks => offer_rows_per_hire.reading = "exact"
        /\ "allTime" \in asks => applications_status_hired_scope_all_time.reading = "exact"
        /\ "openings" \in asks => openings_closed_by_hire.reading = "exact"

(* No leg reads outside the scope; the explicit empty one costs no read.   *)
ScopeNeverWidens ==
    /\ scope = {} => reads = 0
    /\ \A l \in {"hires", "openings"} : rows[l] = InScope(rows[l])
    /\ \A r \in rows["allTime"] : Within(scope, JobOf(r.app))

(* A hire read that came back is never lost to a later leg: only the       *)
(* client's going ends the line then.                                      *)
HiresSurvive ==
    (pc \in Legs \ {"hires"} /\ pc' = "done") => outcome' = "cancelled"

(* Nothing is answered to a client that has gone.                          *)
GoneIsNotAnswered == outcome' = "line" => "CANCELLED" \notin ToSet(lost')

(* A refusal for want of time after a chunk was read shortens the count;   *)
(* it never discards it.                                                   *)
ReadChunksAreKept ==
    (Len(lost') > Len(lost) /\ statuses[pc] # {})
     => denialTruncationStatus(Last(lost')) = "none"
=============================================================================
