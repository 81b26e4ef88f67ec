------------------------ MODULE AccessProvisioning ------------------------
(***************************************************************************)
(* greenhouse-action-access (src/packages/action-mcp/src/access-cli.ts):   *)
(* the operator command that grants people the write plane.  It leaves     *)
(* three kinds of things behind: bearer files and a manifest in a          *)
(* directory, and entitlement rows in the database.  Files are written and *)
(* removed one at a time, the rows in one upsert whose answer may be lost; *)
(* the process may die after any step, and several commands may run.       *)
(*                                                                         *)
(* Requests are aborted after eight seconds, which does not stop the       *)
(* database: an upsert that was given up may be executed at any later      *)
(* time, or never.                                                         *)
(***************************************************************************)
EXTENDS Naturals, FiniteSets

CONSTANTS
    Runs,          \* provision commands on one directory
    Disables,      \* disable commands
    Keys,          \* <<identity, client>> pairs, the key of a row and of a session
    Roster,        \* [Runs -> SUBSET Keys]
    None

ProvisioningAssumption ==
    /\ Roster \in [Runs -> (SUBSET Keys) \ {{}}]
    /\ \A r \in Runs : IsFiniteSet(Roster[r])
    /\ Runs \cap Disables = {} /\ None \notin Runs \cup Disables

VARIABLES
    rows,      \* [Keys -> who wrote it, and whether it is on]
    late,      \* upserts that the database may still execute
    manifest,  \* the run whose manifest is published
    staged,    \* runs whose pending manifest is on disk
    bearers,   \* <<run, key>> of the bearer files on disk
    run,       \* [Runs -> where it is]
    off,       \* [Disables -> where it is]
    landed,    \* (history) <<writer, on>> of the upserts that were executed
    strays     \* (history) runs whose grant was executed after they had undone it

vars == <<rows, late, manifest, staged, bearers, run, off, landed, strays>>
files == <<manifest, staged, bearers>>

Ended == {"ok", "failed", "keep", "leftover", "crashed"}
NoRow == [by |-> None, on |-> FALSE]
Entitlements(w, on, keys) == [by |-> w, on |-> on, keys |-> keys]

TypeOK ==
    /\ rows \in [Keys -> [by : Runs \cup Disables \cup {None}, on : BOOLEAN]]
    /\ manifest \in Runs \cup {None} /\ staged \subseteq Runs /\ strays \subseteq Runs
    /\ \A b \in bearers : b[2] \in Roster[b[1]]
    /\ \A r \in Runs : run[r].owned => run[r].at # "start"
    /\ \A w \in late : w.keys \subseteq Keys

Init ==
    /\ rows = [k \in Keys |-> NoRow] /\ late = {} /\ landed = {} /\ strays = {}
    /\ manifest = None /\ staged = {} /\ bearers = {}
    /\ run = [r \in Runs |-> [at |-> "start", owned |-> FALSE, may |-> FALSE, unsure |-> FALSE]]
    /\ off = [d \in Disables |-> [at |-> "start", key |-> None]]

-----------------------------------------------------------------------------
(***************************************************************************)
(* operatorRequest and the readback.  A 4xx was not executed; any other    *)
(* failure may have been, may be, or never is.                             *)
(***************************************************************************)
Upsert(w) ==
    /\ rows' = [k \in Keys |-> IF k \in w.keys THEN [by |-> w.by, on |-> w.on] ELSE rows[k]]
    /\ landed' = landed \cup {<<w.by, w.on>>}

\* ok(w), rejected, lost(w): what the caller does next.
Request(w, answered, rejected, lost) ==
    \/ Upsert(w) /\ answered /\ UNCHANGED late
    \/ rejected /\ UNCHANGED <<rows, late, landed>>
    \/ Upsert(w) /\ lost /\ UNCHANGED late
    \/ lost /\ late' = late \cup {w} /\ UNCHANGED <<rows, landed>>

\* Run r knows that its rows are off, as the undo told it, and tidies up.
Undone(r) == run[r].at \in {"unbear", "unstage", "failed"} /\ ~run[r].unsure

LandsLate(w) ==
    /\ w \in late /\ late' = late \ {w}
    /\ Upsert(w)
    /\ strays' = strays \cup {r \in Runs : w.on /\ w.by = r /\ Undone(r)}
    /\ UNCHANGED <<files, run, off>>

ExactlyMatch(w) == \A k \in w.keys : rows[k] = [by |-> w.by, on |-> w.on]

-----------------------------------------------------------------------------
(***************************************************************************)
(* provisionActionAccess.                                                  *)
(***************************************************************************)

Goes(r, at) == run' = [run EXCEPT ![r].at = at]
Bearers(r) == {b \in bearers : b[1] = r}
Enabling(r) == Entitlements(r, TRUE, Roster[r])
Disabling(r) == Entitlements(r, FALSE, Roster[r])

\* Identities resolve, the directory has no manifest; or it ends here.
Starts(r) ==
    /\ run[r].at = "start"
    /\ \/ manifest = None /\ Goes(r, "stage")
       \/ Goes(r, "failed")
    /\ UNCHANGED <<rows, late, landed, strays, files, off>>

\* The file exists once it was opened, though writing it may fail.
Stages(r) ==
    /\ run[r].at = "stage"
    /\ \/ /\ staged' = staged \cup {r}
          /\ \E at \in {"bearers", "undo"} :
                run' = [run EXCEPT ![r].at = at, ![r].owned = TRUE]
       \/ Goes(r, "undo") /\ UNCHANGED staged
    /\ UNCHANGED <<rows, late, landed, strays, manifest, bearers, off>>

WritesBearer(r) ==
    /\ run[r].at = "bearers"
    /\ IF Cardinality(Bearers(r)) = Cardinality(Roster[r])
       THEN Goes(r, "entitle") /\ UNCHANGED bearers
       ELSE \E k \in Roster[r] :
              /\ <<r, k>> \notin bearers
              /\ \/ bearers' = bearers \cup {<<r, k>>} /\ \E at \in {"bearers", "undo"} : Goes(r, at)
                 \/ Goes(r, "undo") /\ UNCHANGED bearers
    /\ UNCHANGED <<rows, late, landed, strays, manifest, staged, off>>

Entitles(r) ==
    /\ run[r].at = "entitle"
    /\ Request(Enabling(r),
               run' = [run EXCEPT ![r].at = "publish", ![r].may = TRUE],
               Goes(r, "undo"),
               run' = [run EXCEPT ![r].at = "readback", ![r].may = TRUE])
    /\ UNCHANGED <<strays, files, off>>

\* The readback itself may fail.
ReadsBack(r) ==
    /\ run[r].at = "readback"
    /\ \/ ExactlyMatch(Enabling(r)) /\ Goes(r, "publish")
       \/ Goes(r, "undo")
    /\ UNCHANGED <<rows, late, landed, strays, files, off>>

\* link refuses to overwrite; the pending name is unlinked if that works.
Publishes(r) ==
    /\ run[r].at = "publish"
    /\ \/ /\ manifest = None /\ manifest' = r /\ Goes(r, "ok")
          /\ staged' \in {staged, staged \ {r}}
       \/ Goes(r, "undo") /\ UNCHANGED <<manifest, staged>>
    /\ UNCHANGED <<rows, late, landed, strays, bearers, off>>

Undoes(r) ==
    /\ run[r].at = "undo"
    /\ IF run[r].may
       THEN Request(Disabling(r), Goes(r, "unbear"),
                    run' = [run EXCEPT ![r].at = "unbear", ![r].unsure = TRUE],
                    Goes(r, "undoback"))
       ELSE Goes(r, "unbear") /\ UNCHANGED <<rows, late, landed>>
    /\ UNCHANGED <<strays, files, off>>

UndoReadsBack(r) ==
    /\ run[r].at = "undoback"
    /\ \/ ExactlyMatch(Disabling(r)) /\ Goes(r, "unbear")
       \/ run' = [run EXCEPT ![r].at = "unbear", ![r].unsure = TRUE]
    /\ UNCHANGED <<rows, late, landed, strays, files, off>>

\* Plausible bug: the pending manifest is removed whatever has failed.
RemovesAllBearers(r) ==
    /\ run[r].at = "unbear"
    /\ \E left \in SUBSET Bearers(r) : bearers' = (bearers \ Bearers(r)) \cup left
    /\ Goes(r, "unstage")
    /\ UNCHANGED <<rows, late, landed, strays, manifest, staged, off>>

\* Bearer files go first, in parallel; each may fail to.
RemovesBearers(r) ==
    /\ run[r].at = "unbear"
    /\ \E left \in SUBSET Bearers(r) :
          /\ bearers' = (bearers \ Bearers(r)) \cup left
          /\ Goes(r, IF left # {} \/ run[r].unsure THEN "keep" ELSE "unstage")
    /\ UNCHANGED <<rows, late, landed, strays, manifest, staged, off>>

Unstages(r) ==
    /\ run[r].at = "unstage"
    /\ \/ staged' = staged \ {r} /\ Goes(r, "failed")
       \/ run[r].owned /\ Goes(r, "leftover") /\ UNCHANGED staged
    /\ UNCHANGED <<rows, late, landed, strays, manifest, bearers, off>>

Crashes(r) ==
    /\ run[r].at \notin Ended
    /\ Goes(r, "crashed")
    /\ UNCHANGED <<rows, late, landed, strays, files, off>>

-----------------------------------------------------------------------------
(***************************************************************************)
(* disableActionEntitlement.                                               *)
(***************************************************************************)
DisableAsks(d, k) ==
    /\ off[d].at = "start"
    /\ Request(Entitlements(d, FALSE, {k}),
               off' = [off EXCEPT ![d] = [at |-> "ok", key |-> k]],
               off' = [off EXCEPT ![d] = [at |-> "failed", key |-> k]],
               off' = [off EXCEPT ![d] = [at |-> "readback", key |-> k]])
    /\ UNCHANGED <<strays, files, run>>

DisableReadsBack(d) ==
    /\ off[d].at = "readback"
    /\ \/ ExactlyMatch(Entitlements(d, FALSE, {off[d].key})) /\ off' = [off EXCEPT ![d].at = "ok"]
       \/ off' = [off EXCEPT ![d].at = "failed"]
    /\ UNCHANGED <<rows, late, landed, strays, files, run>>

Next ==
    \/ \E r \in Runs : \/ Starts(r) \/ Stages(r) \/ WritesBearer(r) \/ Entitles(r) \/ ReadsBack(r)
                       \/ Publishes(r) \/ Undoes(r) \/ UndoReadsBack(r) \/ RemovesBearers(r)
                       \/ Unstages(r) \/ Crashes(r)
    \/ \E d \in Disables : DisableReadsBack(d) \/ \E k \in Keys : DisableAsks(d, k)
    \/ \E w \in late : LandsLate(w)

Spec == Init /\ [][Next]_vars

-----------------------------------------------------------------------------
Listed(r) == r \in staged \/ manifest = r

\* Whatever fails or dies, and whenever: a bearer file on disk is named by a
\* manifest beside it, pending or published, so that it can be revoked.
EveryBearerIsListed == \A b \in bearers : Listed(b[1])

\* And so is a row that is on, but for a grant that the database executed when
\* its run had already seen the row switched off: then nothing lists it.
EveryGrantIsListed ==
    \A k \in Keys : rows[k].on => Listed(rows[k].by) \/ rows[k].by \in strays

\* A run that says that it cleaned up has: no file of its own is left, and no
\* row that it switched on, but for the same late grant.
CleanFailuresLeaveNothing ==
    \A r \in Runs : run[r].at = "failed" =>
        /\ Bearers(r) = {} /\ r \notin staged
        /\ r \in strays \/ \A k \in Keys : rows[k] # [by |-> r, on |-> TRUE]

\* A run that says that it succeeded has written its rows and all its files,
\* and its manifest is the published one.
SuccessIsComplete ==
    \A r \in Runs : run[r].at = "ok" =>
        /\ manifest = r /\ {b[2] : b \in Bearers(r)} = Roster[r]
        /\ <<r, TRUE>> \in landed

\* A disable that says so has been executed, though its answer was lost and
\* others wrote the row meanwhile.
DisablesHappened == \A d \in Disables : off[d].at = "ok" => <<d, FALSE>> \in landed

\* Two runs in one directory: a published manifest stays.
ManifestsStay == manifest # None => manifest' = manifest
=============================================================================
