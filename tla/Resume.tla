------------------------------- MODULE Resume -------------------------------
(***************************************************************************)
(* read_my_resume (src/packages/recruiter-mcp/src/tools/resume.ts): one    *)
(* attachment is authorised by a scoped read, downloaded from the signed   *)
(* URL the read gave, and parsed in a child process.  Calls run side by    *)
(* side; the parsers share one counter and one bound.  A URL that was      *)
(* refused is asked for again once, through the same authorisation.        *)
(*                                                                         *)
(* The switch, the rate budget and the audit record are the runtime's      *)
(* (ToolRuntime); what the child does with the bytes is ResumeWorker.      *)
(***************************************************************************)
EXTENDS Naturals, FiniteSets

CONSTANTS Calls, MaxParsers, MaxRedirects, Budget, Origins, Paths, None

ResumeAssumption ==
    /\ MaxParsers \in Nat \ {0}
    /\ MaxRedirects \in Nat
    /\ Budget \in Nat \ {0}
    /\ None \notin Origins \X Paths

VARIABLES
    allowed,    \* Greenhouse still shows the attachment to the recruiter
    pc,         \* where the call is
    url,        \* attachment.url, by the last lookup
    refreshed,  \* the catch around the first download has run
    visited,    \* the locations this download asked
    at,         \* currentUrl
    spent,      \* time since createResumeDeadline
    timer,      \* what the running phase has left
    aborted,    \* runtime.signal
    deaf,       \* the signal had fired before the download listened to it
    swollen,    \* resourceExceeded
    active,     \* activeResumeParsers
    out         \* the answer: "text" or the error class

vars == <<allowed, pc, url, refreshed, visited, at, spent, timer, aborted,
          deaf, swollen, active, out>>
request == <<url, refreshed, visited, at, deaf>>

Locations == Origins \X Paths
Errors == {"authorization_failed", "metadata_timeout", "cancelled", "expired_url",
           "expired_url_not_refreshed", "download_http", "download_failed",
           "download_timeout", "redirect_refused", "size_limit", "unsupported_type",
           "parser_busy", "parse_timeout", "malformed"}

TypeOK ==
    /\ allowed \in BOOLEAN
    /\ pc \in [Calls -> {"idle", "lookup", "download", "parse", "done"}]
    /\ url \in [Calls -> Locations \cup {None}]
    /\ at \in [Calls -> Locations \cup {None}]
    /\ visited \in [Calls -> SUBSET Locations]
    /\ <<refreshed, aborted>> \in [Calls -> BOOLEAN] \X [Calls -> BOOLEAN]
    /\ <<deaf, swollen>> \in [Calls -> BOOLEAN] \X [Calls -> BOOLEAN]
    /\ timer \in [Calls -> 0..Budget]
    /\ spent \in [Calls -> Nat]
    /\ active \in 0..MaxParsers
    /\ out \in [Calls -> Errors \cup {"none", "text"}]

Init ==
    /\ allowed = TRUE
    /\ pc = [c \in Calls |-> "idle"]
    /\ url = [c \in Calls |-> None]
    /\ at = [c \in Calls |-> None]
    /\ visited = [c \in Calls |-> {}]
    /\ refreshed = [c \in Calls |-> FALSE]
    /\ spent = [c \in Calls |-> 0]
    /\ timer = [c \in Calls |-> 0]
    /\ aborted = [c \in Calls |-> FALSE]
    /\ deaf = [c \in Calls |-> FALSE]
    /\ swollen = [c \in Calls |-> FALSE]
    /\ active = 0
    /\ out = [c \in Calls |-> "none"]

(***************************************************************************)
(* One deadline for the whole call: every phase gets what is left of it.   *)
(***************************************************************************)

remainingDeadlineMs(c) == IF spent[c] < Budget THEN Budget - spent[c] ELSE 0

End(c, r) ==
    /\ pc' = [pc EXCEPT ![c] = "done"]
    /\ out' = [out EXCEPT ![c] = r]
    /\ UNCHANGED timer

Enter(c, phase) ==
    /\ pc' = [pc EXCEPT ![c] = phase]
    /\ timer' = [timer EXCEPT ![c] = remainingDeadlineMs(c)]
    /\ UNCHANGED out

Begin(c) ==
    /\ pc[c] = "idle"
    /\ Enter(c, "lookup")
    /\ UNCHANGED <<allowed, request, spent, aborted, swollen, active>>

(***************************************************************************)
(* lookupAuthorizedResume: exactly one row, with exactly this id.  The     *)
(* scoped read loses to the deadline and to the client's disconnect.       *)
(***************************************************************************)

FreshEnough(c, u) == refreshed[c] => u # url[c]

LookupDone(c, u) ==
    /\ pc[c] = "lookup"
    /\ allowed
    /\ url' = [url EXCEPT ![c] = u]
    /\ at' = [at EXCEPT ![c] = u]
    /\ visited' = [visited EXCEPT ![c] = {u}]
    /\ deaf' = [deaf EXCEPT ![c] = aborted[c]]
    /\ IF ~FreshEnough(c, u) THEN End(c, "expired_url_not_refreshed")
       ELSE IF remainingDeadlineMs(c) = 0 THEN End(c, "download_timeout")
       ELSE Enter(c, "download")
    /\ UNCHANGED <<allowed, refreshed, spent, aborted, swollen, active>>

LookupDenied(c) ==
    /\ pc[c] = "lookup"
    /\ \/ ~allowed /\ End(c, "authorization_failed")
       \/ timer[c] = 0 /\ End(c, "metadata_timeout")
       \/ aborted[c] /\ End(c, "cancelled")
    /\ UNCHANGED <<allowed, request, spent, aborted, swollen, active>>

(***************************************************************************)
(* downloadAuthorizedResume: redirects are followed by hand, to the origin *)
(* of the authorised URL and to no location twice.                         *)
(***************************************************************************)

MayFollow(c, l) ==
    l[1] = url[c][1] /\ l \notin visited[c] /\ Cardinality(visited[c]) <= MaxRedirects

Redirected(c, l) ==
    /\ pc[c] = "download"
    /\ IF MayFollow(c, l)
       THEN /\ at' = [at EXCEPT ![c] = l]
            /\ visited' = [visited EXCEPT ![c] = @ \cup {l}]
            /\ UNCHANGED <<pc, out, timer>>
       ELSE End(c, "redirect_refused") /\ UNCHANGED <<at, visited>>
    /\ UNCHANGED <<allowed, url, refreshed, deaf, spent, aborted, swollen, active>>

\* 401, 403 or 404: once, the URL is asked for again, with its permission.
UrlExpired(c) ==
    /\ pc[c] = "download"
    /\ IF refreshed[c] THEN End(c, "expired_url") ELSE Enter(c, "lookup")
    /\ refreshed' = [refreshed EXCEPT ![c] = TRUE]
    /\ UNCHANGED <<allowed, url, visited, at, deaf, spent, aborted, swollen, active>>

DownloadEnds(c) ==
    /\ pc[c] = "download"
    /\ \/ \E r \in {"download_http", "download_failed", "size_limit", "unsupported_type"} :
             End(c, r)
       \/ timer[c] = 0 /\ End(c, "download_timeout")
       \/ aborted[c] /\ ~deaf[c] /\ End(c, "cancelled")
    /\ UNCHANGED <<allowed, request, spent, aborted, swollen, active>>

(***************************************************************************)
(* parseResumeDocument: the counter goes up before the child is spawned    *)
(* and down in finish, whichever of the events calls it first.             *)
(***************************************************************************)

ParseGate(c) ==
    IF aborted[c] THEN "cancelled"
    ELSE IF remainingDeadlineMs(c) = 0 THEN "parse_timeout"
    ELSE IF active >= MaxParsers THEN "parser_busy" ELSE "start"

Downloaded(c) ==
    /\ pc[c] = "download"
    /\ IF ParseGate(c) = "start"
       THEN Enter(c, "parse") /\ active' = active + 1
       ELSE End(c, ParseGate(c)) /\ UNCHANGED active
    /\ UNCHANGED <<allowed, request, spent, aborted, swollen>>

\* Plausible bug: a spawn that throws keeps its slot.
SpawnThrowsAndKeeps(c) ==
    /\ pc[c] = "download"
    /\ ParseGate(c) = "start"
    /\ End(c, "malformed")
    /\ active' = active + 1
    /\ UNCHANGED <<allowed, request, spent, aborted, swollen>>

SpawnThrows(c) ==
    /\ pc[c] = "download"
    /\ ParseGate(c) = "start"
    /\ End(c, "malformed")
    /\ UNCHANGED <<allowed, request, spent, aborted, swollen, active>>

finish(c, r) ==
    /\ pc[c] = "parse"
    /\ End(c, r)
    /\ active' = active - 1
    /\ UNCHANGED <<allowed, request, spent, aborted, swollen>>

\* A poll of the child's memory, or of its output, marks it and kills it.
Outgrown(c) ==
    /\ pc[c] = "parse"
    /\ ~swollen[c]
    /\ swollen' = [swollen EXCEPT ![c] = TRUE]
    /\ UNCHANGED <<allowed, pc, request, spent, timer, aborted, active, out>>

Closed(c) ==
    IF swollen[c] THEN finish(c, "size_limit")
    ELSE \E r \in {"text", "size_limit", "malformed", "unsupported_type"} : finish(c, r)

ParseTimeout(c) == timer[c] = 0 /\ finish(c, "parse_timeout")
ParseAborted(c) == aborted[c] /\ finish(c, "cancelled")
ChildError(c) == finish(c, "malformed")

-----------------------------------------------------------------------------
Tick(c) ==
    /\ pc[c] \in {"lookup", "download", "parse"}
    /\ timer[c] > 0
    /\ spent' = [spent EXCEPT ![c] = @ + 1]
    /\ timer' = [timer EXCEPT ![c] = @ - 1]
    /\ UNCHANGED <<allowed, pc, request, aborted, swollen, active, out>>

Abort(c) ==
    /\ pc[c] \notin {"idle", "done"}
    /\ ~aborted[c]
    /\ aborted' = [aborted EXCEPT ![c] = TRUE]
    /\ UNCHANGED <<allowed, pc, request, spent, timer, swollen, active, out>>

SetAccess ==
    /\ allowed' = ~allowed
    /\ UNCHANGED <<pc, request, spent, timer, aborted, swollen, active, out>>

Next ==
    \/ SetAccess
    \/ \E c \in Calls :
        \/ Begin(c) \/ LookupDenied(c) \/ (\E u \in Locations : LookupDone(c, u))
        \/ UrlExpired(c) \/ DownloadEnds(c) \/ (\E l \in Locations : Redirected(c, l))
        \/ Downloaded(c) \/ SpawnThrows(c) \/ Outgrown(c) \/ Closed(c)
        \/ ParseTimeout(c) \/ ParseAborted(c) \/ ChildError(c)
        \/ Tick(c) \/ Abort(c)

Spec == Init /\ [][Next]_vars

\* The timer of a lookup or of a download fires.
TimerFires(c) == timer[c] = 0 /\ (LookupDenied(c) \/ DownloadEnds(c))

-----------------------------------------------------------------------------
\* Every counted parser is a call that waits for its child, and every such
\* call is counted: no order of timeout, disconnect, error, close and failed
\* spawn leaks a slot or frees one twice (activeResumeParsers).
SlotsAreExact == active = Cardinality({c \in Calls : pc[c] = "parse"})

\* Whatever redirects said, the bytes come from the origin that the scoped
\* read authorised, at most MaxRedirects hops away.
BytesComeFromTheOrigin ==
    \A c \in Calls : pc[c] \in {"download", "parse"} =>
        /\ at[c] \in visited[c] /\ at[c][1] = url[c][1]
        /\ Cardinality(visited[c]) <= MaxRedirects + 1

\* Two lookups, two downloads and a parse fit in one deadline.
OneDeadline == \A c \in Calls : spent[c] <= Budget

\* A location that refused the first download is not where the second
\* starts, and the second comes after a read that was permitted then.
RefreshesAreAuthorized ==
    \A c \in Calls : (pc[c] # "download" /\ pc'[c] = "download") =>
       allowed /\ (refreshed[c] => url'[c] # url[c])

\* A parser is never started for a client that has gone, though the download
\* does not see a disconnect that came before it listened.
NoParserForTheGone ==
    \A c \in Calls : (pc[c] # "parse" /\ pc'[c] = "parse") => ~aborted[c]

\* Every call ends, whatever the file server and the child do.
Asked(c) == pc[c] = "lookup"
Done(c) == pc[c] = "done"
=============================================================================
