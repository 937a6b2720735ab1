------------------------------ MODULE Collect ------------------------------
(***************************************************************************)
(* `kernledger collect`: one run after the other in the same case          *)
(* directory.  A run calls each item's command through the executor,       *)
(* stores what it printed, copies the paths the distribution adapter       *)
(* declares, and saves a row for each in collect-manifest.json.  It goes   *)
(* on whatever fails.                                                      *)
(*                                                                         *)
(* Of a command only its outcome is modelled, as Command promises it: a    *)
(* dry-run executor always succeeds, a real one always fails once the      *)
(* context is cancelled.  Only the .out file of an item is modelled; the   *)
(* .err file is written next to it in the same way.  A signal and a crash  *)
(* may come at any point, any write may fail, and the files of a source    *)
(* come and go.                                                            *)
(*                                                                         *)
(* A definition that differs from the next one by a plausible bug stands   *)
(* before it; nothing refers to it.  PROJECT.json pairs each with the      *)
(* property that notices the bug.                                          *)
(***************************************************************************)
EXTENDS Naturals, Sequences, FiniteSets

CONSTANTS
    Items,     \* the items in the order of buildItems, named apart
    Optional,  \* those whose failure is expected on some hosts
    Sources,   \* the paths the adapter declares
    Entries,   \* the files that each may hold at times, a set for each
    Fifos,     \* the sources that may hold a FIFO nobody writes to
    Dest,      \* sanitizePath, which may map two paths to one name
    MaxRuns,   \* bound: runs
    MaxFaults, \* bound: outputs, lines and copies that fail, in a run
    None, Torn

ItemSet == {Items[i] : i \in 1..Len(Items)}
Names   == {Dest[s] : s \in Sources}
Files   == UNION {Entries[s] : s \in Sources}
Places  == UNION {{Dest[s]} \X Entries[s] : s \in Sources}

(* manifest.CollectedCmd: `failed` stands for Err.                          *)
Rows      == [of : ItemSet \cup Sources, failed : BOOLEAN, skipped : BOOLEAN]
Manifests == [run : 1..MaxRuns, rows : SUBSET Rows]
Outputs   == [run : 1..MaxRuns, text : {"empty", "part", "whole"}]
Copies    == [run : 1..MaxRuns, source : Sources]
Events    == ItemSet \X {"info", "warn"}
Labels    == {"idle", "mkdir", "call", "store", "mkdirFiles", "visit", "copy",
              "blocked", "save", "write", "report"}

ASSUME ConstantsAssumption ==
    /\ Items \in Seq(ItemSet)
    /\ \A i, j \in 1..Len(Items) : Items[i] = Items[j] => i = j
    /\ Optional \subseteq ItemSet /\ Fifos \subseteq Sources
    /\ Sources \cap ItemSet = {}
    /\ Dest \in [Sources -> Names]
    /\ MaxRuns \in Nat /\ MaxFaults \in Nat
    /\ None \notin Manifests /\ None # "ok" /\ Torn \notin Manifests

VARIABLES
    outputs,    \* [ItemSet -> Outputs], collect/<item>.out
    copies,     \* [Places -> Copies], collect/files/...: where a file came from
    manifest,   \* collect-manifest.json
    log,        \* what the lines of this run in audit.log say of the items
    run,        \* the number of the run in progress, or of the last one
    dry,        \* is it a dry run?
    cancelled,  \* has a signal come while items were left?
    pc,         \* where it is
    outcome,    \* how the last run ended
    at,         \* how many items are behind it
    answer,     \* what the executor said of the item at hand
    todo,       \* the sources it has yet to visit
    source,     \* the source it is copying
    left,       \* those of its files that are still to be copied
    rows,       \* the rows so far
    listed,     \* history: [Sources -> sets], the files this run has found in each
    unwritten,  \* history: the items whose output this run could not write
    unlogged    \* history: those whose line did not get into audit.log

disk    == <<outputs, copies, manifest, log>>
request == <<run, dry, cancelled>>
control == <<pc, outcome>>
work    == <<at, answer, todo, source, left, rows>>
history == <<listed, unwritten, unlogged>>
vars    == <<disk, request, control, work, history>>

Init ==
    /\ outputs = [i \in ItemSet |-> None]
    /\ copies = [p \in Places |-> None]
    /\ manifest = None /\ log = {}
    /\ run = 0 /\ dry = FALSE /\ cancelled = FALSE
    /\ pc = "idle" /\ outcome = None
    /\ at = 0 /\ answer = None /\ todo = {} /\ source = None /\ left = {} /\ rows = {}
    /\ listed = [s \in Sources |-> {}] /\ unwritten = {} /\ unlogged = {}

-----------------------------------------------------------------------------
(* Helpers. *)

Running == pc # "idle"

(* The process ends and forgets what it held in memory.                     *)
End(how) ==
    /\ pc' = "idle" /\ outcome' = how
    /\ at' = 0 /\ answer' = None
    /\ todo' = {} /\ source' = None /\ left' = {} /\ rows' = {}

Goto(label) == pc' = label /\ UNCHANGED outcome

Item     == Items[at + 1]
Place(f) == <<Dest[source], f>>

Row(x, failed, skipped) == [of |-> x, failed |-> failed, skipped |-> skipped]

(* What MaxFaults bounds.                                                   *)
Faults == Cardinality(unwritten) + Cardinality(unlogged)
          + Cardinality({s \in Sources : Row(s, TRUE, FALSE) \in rows})

(* What a write that fails, or is cut short by a crash, may leave: of the   *)
(* output that os.WriteFile replaces, or of a file being copied.            *)
Spoil == outputs' = [outputs EXCEPT ![Item] = [run |-> run, text |-> "empty"]]
Tear  == \E f \in left : copies' = [copies EXCEPT ![Place(f)] = Torn]

(* Optional items are logged as information, mandatory ones as warnings.    *)
LevelAlwaysInfo(i, failed) == "info"
Level(i, failed) == IF failed /\ i \notin Optional THEN "warn" ELSE "info"

(* What the executor may answer, and what the command has printed by then.  *)
AnswersIgnoringCancel ==
    IF dry THEN {[failed |-> FALSE, text |-> "empty"]}
    ELSE {[failed |-> TRUE, text |-> "part"], [failed |-> FALSE, text |-> "whole"]}
Answers ==
    IF dry THEN {[failed |-> FALSE, text |-> "empty"]}
    ELSE {[failed |-> TRUE, text |-> "part"]} \cup
         (IF cancelled THEN {} ELSE {[failed |-> FALSE, text |-> "whole"]})

-----------------------------------------------------------------------------
(* collectCmd.Run and Collector.Run. *)

(* An unprivileged operator, an unknown distribution, an audit log that     *)
(* cannot be opened: the run ends before it has begun.                      *)
Begin ==
    /\ pc = "idle" /\ run < MaxRuns
    /\ run' = run + 1 /\ dry' \in BOOLEAN /\ cancelled' = FALSE
    /\ \/ pc' = "mkdir" /\ outcome' = None /\ UNCHANGED work
       \/ End("error")
    /\ listed' = [s \in Sources |-> {}] /\ unwritten' = {} /\ unlogged' = {}
    /\ log' = {}
    /\ UNCHANGED <<outputs, copies, manifest>>

Mkdir ==
    /\ pc = "mkdir"
    /\ \/ Goto("call") /\ UNCHANGED work
       \/ End("error")
    /\ UNCHANGED <<disk, request, history>>

(* runItem, first half: the command. *)
CallPastTheEnd ==
    /\ pc = "call" /\ at <= Len(Items)
    /\ answer' \in Answers
    /\ IF at = Len(Items) THEN Goto("call") /\ at' = at + 1
                          ELSE Goto("store") /\ UNCHANGED at
    /\ UNCHANGED <<disk, request, todo, source, left, rows, history>>

Call ==
    /\ pc = "call" /\ at < Len(Items)
    /\ answer' \in Answers
    /\ Goto("store")
    /\ UNCHANGED <<disk, request, at, todo, source, left, rows, history>>

(* runItem, second half: the output file, the event, the row.  When the     *)
(* file cannot be opened the output of an earlier run stays, and when it    *)
(* cannot be written it falls short; the line may be lost.  Nobody notices. *)
StoreOnSuccess ==
    /\ pc = "store"
    /\ outputs' = IF answer.failed THEN outputs
                  ELSE [outputs EXCEPT ![Item] = [run |-> run, text |-> answer.text]]
    /\ log' = log \cup {<<Item, Level(Item, answer.failed)>>}
    /\ rows' = rows \cup {Row(Item, answer.failed, FALSE)}
    /\ at' = at + 1 /\ answer' = None /\ Goto("call")
    /\ UNCHANGED <<copies, manifest, request, todo, source, left, history>>

Store ==
    /\ pc = "store"
    /\ \/ /\ outputs' = [outputs EXCEPT ![Item] = [run |-> run, text |-> answer.text]]
          /\ UNCHANGED unwritten
       \/ /\ Spoil \/ UNCHANGED outputs
          /\ Faults < MaxFaults /\ unwritten' = unwritten \cup {Item}
    /\ \/ log' = log \cup {<<Item, Level(Item, answer.failed)>>} /\ UNCHANGED unlogged
       \/ /\ UNCHANGED log
          /\ Faults < MaxFaults /\ unlogged' = unlogged \cup {Item}
    /\ rows' = rows \cup {Row(Item, answer.failed, FALSE)}
    /\ at' = at + 1 /\ answer' = None /\ Goto("call")
    /\ UNCHANGED <<copies, manifest, request, todo, source, left, listed>>

ItemsEnd ==
    /\ pc = "call" /\ at = Len(Items)
    /\ Goto("mkdirFiles")
    /\ UNCHANGED <<disk, request, work, history>>

(* When collect/files cannot be made the rows of the items are lost.        *)
MkdirFiles ==
    /\ pc = "mkdirFiles"
    /\ \/ /\ Goto("visit") /\ todo' = Sources
          /\ UNCHANGED <<at, answer, source, left, rows>>
       \/ End("error")
    /\ UNCHANGED <<disk, request, history>>

-----------------------------------------------------------------------------
(* copyArtifacts.  The groups are a Go map, visited in any order. *)

(* The path is missing, or the operator may not look it up: no row.         *)
Absent(s) ==
    /\ pc = "visit" /\ s \in todo
    /\ todo' = todo \ {s}
    /\ UNCHANGED <<disk, request, control, at, answer, source, left, rows, history>>

SkipInDryRun(s) ==
    /\ pc = "visit" /\ s \in todo /\ dry
    /\ todo' = todo \ {s}
    /\ rows' = rows \cup {Row(s, FALSE, TRUE)}
    /\ UNCHANGED <<disk, request, control, at, answer, source, left, history>>

Visit(s) ==
    /\ pc = "visit" /\ s \in todo /\ ~dry
    /\ source' = s /\ left' \in SUBSET Entries[s]
    /\ listed' = [listed EXCEPT ![s] = left']
    /\ Goto("copy")
    /\ UNCHANGED <<disk, request, at, answer, todo, rows, unwritten, unlogged>>

(* copyTree copies one file after the other over what an earlier run, or a  *)
(* path of the same name, has left there, and removes nothing; a symbolic   *)
(* link counts as the file that records its target.                         *)
CopyChasesLinks ==
    /\ pc = "copy"
    /\ \E f \in left :
          /\ copies' = [copies EXCEPT ![Place(f)] = [run |-> run, source |-> source]]
          /\ left' \in {left \ {f}, listed[source]}
    /\ UNCHANGED <<outputs, manifest, log, request, control, at, answer, todo,
                   source, rows, history>>

CopyFile ==
    /\ pc = "copy"
    /\ \E f \in left :
          /\ copies' = [copies EXCEPT ![Place(f)] = [run |-> run, source |-> source]]
          /\ left' = left \ {f}
    /\ UNCHANGED <<outputs, manifest, log, request, control, at, answer, todo,
                   source, rows, history>>

CopyDone(failed) ==
    /\ rows' = rows \cup {Row(source, failed, FALSE)}
    /\ todo' = todo \ {source} /\ source' = None /\ left' = {}
    /\ Goto("visit")
    /\ UNCHANGED <<request, at, answer, history>>

CopyEnds ==
    /\ pc = "copy" /\ left = {}
    /\ CopyDone(FALSE)
    /\ UNCHANGED disk

(* The first file or directory that fails ends the copy of its source, and  *)
(* a file may be left torn.                                                 *)
CopyFailsQuietly ==
    /\ pc = "copy"
    /\ CopyDone(FALSE)
    /\ UNCHANGED copies \/ Tear
    /\ UNCHANGED <<outputs, manifest, log>>

CopyFails ==
    /\ pc = "copy" /\ Faults < MaxFaults
    /\ CopyDone(TRUE)
    /\ UNCHANGED copies \/ Tear
    /\ UNCHANGED <<outputs, manifest, log>>

(* Opening a FIFO waits for a writer, and no context reaches copyFile.      *)
CopyBlocks ==
    /\ pc = "copy" /\ left # {} /\ source \in Fifos
    /\ Goto("blocked")
    /\ UNCHANGED <<disk, request, work, history>>

VisitsEnd ==
    /\ pc = "visit" /\ todo = {}
    /\ Goto("save")
    /\ UNCHANGED <<disk, request, work, history>>

-----------------------------------------------------------------------------
(* Manifest.Save and the end of the run. *)

Truncate ==
    /\ pc = "save"
    /\ \/ manifest' = Torn /\ Goto("write") /\ UNCHANGED work
       \/ End("error") /\ UNCHANGED manifest
    /\ UNCHANGED <<outputs, copies, log, request, history>>

WriteFailsUnseen ==
    /\ pc = "write"
    /\ manifest' \in {Torn, [run |-> run, rows |-> rows]}
    /\ Goto("report")
    /\ UNCHANGED <<outputs, copies, log, request, work, history>>

Write ==
    /\ pc = "write"
    /\ \/ manifest' = [run |-> run, rows |-> rows] /\ Goto("report") /\ UNCHANGED work
       \/ End("error") /\ UNCHANGED manifest
    /\ UNCHANGED <<outputs, copies, log, request, history>>

Report ==
    /\ pc = "report"
    /\ End("ok")
    /\ UNCHANGED <<disk, request, history>>

Step ==
    \/ Mkdir \/ Call \/ Store \/ ItemsEnd \/ MkdirFiles
    \/ \E s \in Sources : Absent(s) \/ SkipInDryRun(s) \/ Visit(s)
    \/ CopyFile \/ CopyEnds \/ CopyFails \/ CopyBlocks \/ VisitsEnd
    \/ Truncate \/ Write \/ Report

-----------------------------------------------------------------------------
(* The environment. *)

(* Only the executor looks at the context: a signal that comes when no item *)
(* is left changes nothing.                                                 *)
Interrupt ==
    /\ pc \in {"mkdir", "call"} /\ at < Len(Items) /\ ~cancelled
    /\ cancelled' = TRUE
    /\ UNCHANGED <<disk, run, dry, control, work, history>>

(* In the middle of an output, of a copy, or anywhere else.                 *)
Crash ==
    /\ Running
    /\ End("killed")
    /\ \/ UNCHANGED <<outputs, copies>>
       \/ pc = "store" /\ Spoil /\ UNCHANGED copies
       \/ pc = "copy" /\ Tear /\ UNCHANGED outputs
    /\ UNCHANGED <<manifest, log, request, history>>

Next == Begin \/ Step \/ Interrupt \/ Crash

Spec == Init /\ [][Next]_vars

(* A run keeps being scheduled, and the executor answers every call.        *)
FairSpec == Spec /\ WF_vars(Step)

-----------------------------------------------------------------------------
(* Properties. *)

TypeOK ==
    /\ outputs \in [ItemSet -> Outputs \cup {None}]
    /\ copies \in [Places -> Copies \cup {None, Torn}]
    /\ manifest \in Manifests \cup {None, Torn}
    /\ log \subseteq Events
    /\ run \in 0..MaxRuns
    /\ dry \in BOOLEAN /\ cancelled \in BOOLEAN
    /\ pc \in Labels
    /\ outcome \in {"ok", "error", "killed", None}
    /\ at \in 0..Len(Items)
    /\ answer \in [failed : BOOLEAN, text : {"empty", "part", "whole"}] \cup {None}
    /\ todo \subseteq Sources /\ source \in Sources \cup {None}
    /\ left # {} => source \in Sources /\ left \subseteq listed[source]
    /\ rows \subseteq Rows
    /\ listed \in [Sources -> SUBSET Files]
    /\ \A s \in Sources : listed[s] \subseteq Entries[s]
    /\ unwritten \subseteq ItemSet /\ unlogged \subseteq ItemSet

Saved == manifest \in Manifests

(* The paths of a name that the record tells of.                            *)
Told(n) == {s \in Sources : Dest[s] = n /\ \E r \in manifest.rows : r.of = s}

(* No record is silent about an item, and every evidence gap is a warning:  *)
(* each item has one row, and a mandatory item that failed has its warning  *)
(* in audit.log, unless that very line could not be written                 *)
(* (collector.go:72-76,166-192, audit.go:81).                               *)
EveryItemIsAccounted ==
    Saved /\ manifest.run = run => \A i \in ItemSet :
        /\ \E r \in manifest.rows : r.of = i
        /\ \A r, s \in manifest.rows : r.of = i /\ s.of = i => r = s
        /\ i \notin Optional /\ Row(i, TRUE, FALSE) \in manifest.rows =>
              <<i, "warn">> \in log \/ i \in unlogged

(* The record and the outputs next to it are of the same run until the next *)
(* one begins: an item that succeeded has its whole output there, one that  *)
(* failed what it had printed, and none has the output of an earlier run,   *)
(* unless that very output could not be written, of which nobody is told    *)
(* (collector.go:154-165).                                                  *)
OutputsAreOfTheRow ==
    Saved /\ manifest.run = run /\ ~dry =>
        \A r \in manifest.rows : r.of \in ItemSet \ unwritten =>
            outputs[r.of] = [run |-> run, text |-> IF r.failed THEN "part" ELSE "whole"]

(* No copy under the name failed, and so it holds what the paths did.       *)
WholeIfGood(n) ==
    Told(n) # {} /\ (\A s \in Told(n) : Row(s, FALSE, FALSE) \in manifest.rows) =>
        /\ \E s \in Told(n) : \A f \in listed[s] :
              copies[<<n, f>>] = [run |-> run, source |-> s]
        /\ \A s \in Told(n) : \A f \in listed[s] :
              copies[<<n, f>>] \in [run : {run}, source : Told(n)]

(* When no copy under a name failed, every file this run found in a path of *)
(* that name is there, whole and of this run, and of one of the paths there *)
(* is all it held: the last one, over which no other was copied.  It does   *)
(* not say that nothing else is there: the files that only a path visited   *)
(* before it had, and those of earlier runs that the path has lost since,   *)
(* stay beside them (collector.go:222-239,246-285).                         *)
GoodCopyIsWhole ==
    Saved /\ manifest.run = run => \A n \in Names : WholeIfGood(n)

(* A run cut short by a signal goes on to the end; even if it reports       *)
(* success its record has a failed item (main.go:34-41, collector.go:73).   *)
CutShortIsVisible ==
    Saved /\ manifest.run = run /\ cancelled /\ ~dry =>
        \E i \in ItemSet : Row(i, TRUE, FALSE) \in manifest.rows

(* Success is reported only when the record of this very run is on disk     *)
(* (collect.go:86-97).                                                      *)
SuccessIsRecorded == outcome = "ok" => Saved /\ manifest.run = run

(* Every run ends, unless a copy waits for a FIFO's writer.                 *)
CollectEnds == Running ~> ~Running \/ pc = "blocked"
=============================================================================
