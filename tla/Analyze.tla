------------------------------ MODULE Analyze ------------------------------
(***************************************************************************)
(* `kernledger analyze`: one run after the other with the same --out.  A   *)
(* run asks the executor for each plugin, keeps what it printed and a row, *)
(* writes report.md and analyze-manifest.json, and derives its exit code   *)
(* from the rows.                                                          *)
(*                                                                         *)
(* Of a plugin only its outcome is modelled, as Command promises it.       *)
(* Every write may fail; a signal or a crash may come at any point.        *)
(*                                                                         *)
(* A definition that differs from the next one by a plausible bug stands   *)
(* before it; nothing refers to it.  PROJECT.json pairs each with the      *)
(* property that notices the bug.                                          *)
(***************************************************************************)
EXTENDS Naturals, Sequences

CONSTANTS
    Plugins,      \* names of plugins
    PluginLists,  \* what --plugins may ask for, the defaults included
    OutputOf,     \* the output file of a plugin, which two may share
    MaxRuns,      \* bound: runs
    None, Torn

OutputFiles == {OutputOf[p] : p \in Plugins}

ASSUME ConstantsAssumption ==
    /\ PluginLists \subseteq Seq(Plugins) \ {<<>>}
    /\ OutputOf \in [Plugins -> OutputFiles]
    /\ MaxRuns \in Nat

(* manifest.PluginResult: `failed` stands for Err and ExitCode, `kept` for  *)
(* a non-empty OutputPath.                                                  *)
Rows == [plugin : Plugins, failed : BOOLEAN, kept : BOOLEAN]

(* report.md and analyze-manifest.json; `reported` stands for ReportPath.   *)
Reports   == [run : 1..MaxRuns, rows : Seq(Rows)]
Manifests == [run : 1..MaxRuns, rows : Seq(Rows), reported : BOOLEAN]
Outputs   == [run : 1..MaxRuns, plugin : Plugins, text : {"empty", "part", "whole"}]

(* What the executor answers: executor.Result and its error.                *)
Replies == [failed : BOOLEAN, text : {"empty", "part", "whole"}]

ASSUME NoneAssumption ==
    /\ None \notin {0, 1} /\ None \notin Manifests /\ Torn \notin Manifests
    /\ None \notin Outputs /\ Torn \notin Outputs

VARIABLES
    outputs,    \* [OutputFiles -> Outputs]
    report,     \* report.md
    manifest,   \* analyze-manifest.json
    run,        \* the number of the run in progress, or of the last one
    dry,        \* is it a dry run?
    wanted,     \* the plugins it was asked for
    cancelled,  \* has a signal come while plugins were left?
    pc,         \* where it is
    answer,     \* what the executor said of the plugin at hand
    rows,       \* the rows so far
    reported,   \* did it write the report?
    exit        \* the exit code of the last run, None if it was killed

disk    == <<outputs, report, manifest>>
request == <<run, dry, wanted, cancelled>>
control == <<pc, exit>>
work    == <<answer, rows, reported>>
vars    == <<disk, request, control, work>>

Init ==
    /\ outputs = [f \in OutputFiles |-> None] /\ report = None /\ manifest = None
    /\ run = 0 /\ dry = FALSE /\ wanted = <<>>
    /\ cancelled = FALSE
    /\ pc = "idle" /\ exit = None
    /\ answer = None /\ rows = <<>> /\ reported = FALSE

-----------------------------------------------------------------------------
(* Helpers. *)

Running == pc # "idle"

Goto(label) == pc' = label /\ UNCHANGED exit

(* The process ends and forgets what it held in memory.                     *)
End(code) ==
    /\ pc' = "idle" /\ exit' = code
    /\ answer' = None /\ rows' = <<>> /\ reported' = FALSE

Plugin == wanted[Len(rows) + 1]

(* Summary, as far as the exit code depends on it.                          *)
SomeFailedOfKept(rs) == \E i \in 1..Len(rs) : rs[i].failed /\ rs[i].kept
SomeFailed(rs) == \E i \in 1..Len(rs) : rs[i].failed

(* What the executor may answer, and what the plugin has printed by then.   *)
AnswersIgnoringCancel ==
    IF dry THEN {[failed |-> FALSE, text |-> "empty"]}
    ELSE {[failed |-> TRUE, text |-> "part"], [failed |-> FALSE, text |-> "whole"]}
Answers ==
    IF dry THEN {[failed |-> FALSE, text |-> "empty"]}
    ELSE {[failed |-> TRUE, text |-> "part"]} \cup
         (IF cancelled THEN {} ELSE {[failed |-> FALSE, text |-> "whole"]})

-----------------------------------------------------------------------------
(* analyzeCmd.Run and analyze.Run. *)

(* Without an output directory or an audit log the run ends at once.        *)
Begin(ps) ==
    /\ pc = "idle" /\ run < MaxRuns
    /\ run' = run + 1 /\ dry' \in BOOLEAN /\ wanted' = ps
    /\ cancelled' = FALSE
    /\ \/ pc' = "setup" /\ exit' = None /\ UNCHANGED work
       \/ End(1)
    /\ UNCHANGED disk

(* Options.Validate and MkdirAll. *)
SetupFails ==
    /\ pc = "setup"
    /\ End(1)
    /\ UNCHANGED <<disk, request>>

Setup ==
    /\ pc = "setup"
    /\ Goto("ask")
    /\ UNCHANGED <<disk, request, work>>

(* The executor runs the plugin. *)
Ask ==
    /\ pc = "ask" /\ Len(rows) < Len(wanted)
    /\ answer' \in Answers
    /\ Goto("keep")
    /\ UNCHANGED <<disk, request, rows, reported>>

(* The output, then the row.  A write that fails tears the file, and leaves *)
(* OutputPath empty.                                                        *)
KeepStopsAtFailure ==
    /\ pc = "keep"
    /\ \E kept \in BOOLEAN :
        /\ outputs' = [outputs EXCEPT ![OutputOf[Plugin]] =
             IF kept THEN [run |-> run, plugin |-> Plugin, text |-> answer.text] ELSE Torn]
        /\ rows' = Append(rows, [plugin |-> Plugin, failed |-> answer.failed, kept |-> kept])
    /\ answer' = None /\ Goto(IF answer.failed THEN "report" ELSE "ask")
    /\ UNCHANGED <<report, manifest, request, reported>>

KeepIgnoresWriteError ==
    /\ pc = "keep"
    /\ \E kept \in BOOLEAN :
        /\ outputs' = [outputs EXCEPT ![OutputOf[Plugin]] =
             IF kept THEN [run |-> run, plugin |-> Plugin, text |-> answer.text] ELSE Torn]
        /\ rows' = Append(rows, [plugin |-> Plugin, failed |-> answer.failed, kept |-> TRUE])
    /\ answer' = None /\ Goto("ask")
    /\ UNCHANGED <<report, manifest, request, reported>>

Keep ==
    /\ pc = "keep"
    /\ \E kept \in BOOLEAN :
        /\ outputs' = [outputs EXCEPT ![OutputOf[Plugin]] =
             IF kept THEN [run |-> run, plugin |-> Plugin, text |-> answer.text] ELSE Torn]
        /\ rows' = Append(rows, [plugin |-> Plugin, failed |-> answer.failed, kept |-> kept])
    /\ answer' = None /\ Goto("ask")
    /\ UNCHANGED <<report, manifest, request, reported>>

PluginsEnd ==
    /\ pc = "ask" /\ Len(rows) = Len(wanted)
    /\ Goto("report")
    /\ UNCHANGED <<disk, request, work>>

(* writeReport, whose error only leaves ReportPath empty.                   *)
ReportUnchecked ==
    /\ pc = "report"
    /\ report' \in {[run |-> run, rows |-> rows], Torn} /\ reported' = TRUE
    /\ Goto("save")
    /\ UNCHANGED <<outputs, manifest, request, answer, rows>>

Report ==
    /\ pc = "report"
    /\ \/ report' = [run |-> run, rows |-> rows] /\ reported' = TRUE
       \/ report' \in {report, Torn} /\ reported' = FALSE
    /\ Goto("save")
    /\ UNCHANGED <<outputs, manifest, request, answer, rows>>

(* saveAnalyzeManifestPath: os.WriteFile truncates, then writes.            *)
Truncate ==
    /\ pc = "save"
    /\ manifest' = Torn /\ Goto("write")
    /\ UNCHANGED <<outputs, report, request, work>>

SaveRetries ==
    /\ pc \in {"save", "write"}
    /\ Goto("save")
    /\ UNCHANGED <<disk, request, work>>

SaveFailsAsMisuse ==
    /\ pc \in {"save", "write"}
    /\ End(2)
    /\ UNCHANGED <<disk, request>>

SaveFails ==
    /\ pc \in {"save", "write"}
    /\ End(1)
    /\ UNCHANGED <<disk, request>>

Write ==
    /\ pc = "write"
    /\ manifest' = [run |-> run, rows |-> rows, reported |-> reported]
    /\ Goto("exit")
    /\ UNCHANGED <<outputs, report, request, work>>

(* The exit code policy. *)
Exit ==
    /\ pc = "exit"
    /\ End(IF SomeFailed(rows) THEN 1 ELSE 0)
    /\ UNCHANGED <<disk, request>>

Step == SetupFails \/ Setup \/ Ask \/ Keep \/ PluginsEnd \/ Report
        \/ Truncate \/ SaveFails \/ Write \/ Exit

-----------------------------------------------------------------------------
(* The environment. *)

(* Only the executor looks at the context: a signal that comes when no      *)
(* plugin is left changes nothing.                                          *)
Interrupt ==
    /\ pc \in {"setup", "ask"} /\ Len(rows) < Len(wanted) /\ ~cancelled
    /\ cancelled' = TRUE
    /\ UNCHANGED <<disk, run, dry, wanted, control, work>>

Crash ==
    /\ Running
    /\ End(None)
    /\ UNCHANGED <<disk, request>>

Next == (\E ps \in PluginLists : Begin(ps)) \/ Step \/ Interrupt \/ Crash

Spec == Init /\ [][Next]_vars

(* A run keeps being scheduled, and the executor answers every call.        *)
FairSpec == Spec /\ WF_vars(Step)

-----------------------------------------------------------------------------
(* Properties. *)

TypeOK ==
    /\ outputs \in [OutputFiles -> Outputs \cup {None, Torn}]
    /\ report \in Reports \cup {None, Torn}
    /\ manifest \in Manifests \cup {None, Torn}
    /\ run \in 0..MaxRuns
    /\ dry \in BOOLEAN /\ cancelled \in BOOLEAN
    /\ wanted \in PluginLists \cup {<<>>}
    /\ pc \in {"idle", "setup", "ask", "keep", "report", "save", "write", "exit"}
    /\ exit \in {0, 1, None}
    /\ answer \in Replies \cup {None}
    /\ rows \in Seq(Rows) /\ Len(rows) <= Len(wanted)
    /\ reported \in BOOLEAN

Saved == manifest \notin {None, Torn}

(* The record of this run, not of an earlier one.                           *)
SavedNow == Saved /\ manifest.run = run

(* Whatever failed, the record has a row for every plugin asked for, in     *)
(* their order (analyze.go:119-174, README.md:194-196).                     *)
EveryPluginHasARow ==
    SavedNow => /\ Len(manifest.rows) = Len(wanted)
                /\ \A i \in 1..Len(wanted) : manifest.rows[i].plugin = wanted[i]

(* The exit code policy, "single source of truth" (cli/analyze.go:49-60):   *)
(* 0 exactly when the record of this run is on disk and no plugin failed.   *)
ExitPolicy ==
    /\ exit = 0 => SavedNow /\ \A i \in 1..Len(manifest.rows) : ~manifest.rows[i].failed
    /\ exit = 1 /\ SavedNow => \E i \in 1..Len(manifest.rows) : manifest.rows[i].failed

(* A run that a signal cut short does not end with 0, although it goes on   *)
(* to the end and nothing looks at the signal after the loop.               *)
CutShortFails == exit = 0 => dry \/ ~cancelled

(* The output a row names is there, whole if the plugin succeeded, and of   *)
(* this run and plugin, unless a later plugin has the same file name        *)
(* (analyze.go:120-121,152-156).                                            *)
NamedOutputIsThere ==
    SavedNow => \A i \in 1..Len(manifest.rows) :
        LET r == manifest.rows[i]
        IN r.kept =>
             \/ \E j \in (i + 1)..Len(manifest.rows) :
                    OutputOf[manifest.rows[j].plugin] = OutputOf[r.plugin]
             \/ /\ outputs[OutputOf[r.plugin]] \notin {None, Torn}
                /\ outputs[OutputOf[r.plugin]].run = run
                /\ outputs[OutputOf[r.plugin]].plugin = r.plugin
                /\ ~r.failed /\ ~dry => outputs[OutputOf[r.plugin]].text = "whole"

(* A record that names a report names one that says the same               *)
(* (analyze.go:177-180).                                                    *)
ReportAgrees ==
    SavedNow /\ manifest.reported => report = [run |-> run, rows |-> manifest.rows]

(* Every run ends.                                                          *)
AnalyzeEnds == Running ~> ~Running
=============================================================================
