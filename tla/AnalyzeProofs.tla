---------------------------- MODULE AnalyzeProofs ----------------------------
(***************************************************************************)
(* Theorems about Analyze, for any plugins, any lists of them and any      *)
(* number of runs.                                                         *)
(***************************************************************************)
EXTENDS Analyze, TLAPS

(* The rows so far are those of a prefix of the plugins asked for.          *)
Prefix ==
    /\ Len(rows) <= Len(wanted)
    /\ \A i \in 1..Len(rows) : rows[i].plugin = wanted[i]

(* What the label says of the rows.                                         *)
Complete == pc \in {"report", "save", "write", "exit"} => Len(rows) = Len(wanted)
Left     == pc = "keep" => Len(rows) < Len(wanted) /\ answer \in Replies

(* A signal that came while plugins were left has left its mark: a plugin   *)
(* that has failed, or is bound to.                                         *)
Marked ==
    pc # "idle" /\ cancelled /\ ~dry =>
        \/ pc \in {"setup", "ask"} /\ Len(rows) < Len(wanted)
        \/ pc = "keep" /\ answer.failed
        \/ \E i \in 1..Len(rows) : rows[i].failed

(* The record of this run appears when it is written, and stays.            *)
Recorded ==
    /\ Saved => manifest \in Manifests /\ manifest.run <= run
    /\ pc = "exit" => manifest = [run |-> run, rows |-> rows, reported |-> reported]
    /\ pc \notin {"idle", "exit"} => ~SavedNow

(* The report of this run, once it is said to be written, and stays.        *)
Reported ==
    pc \in {"save", "write", "exit"} /\ reported => report = [run |-> run, rows |-> rows]

(* A run has a number, and no exit code before it ends; it starts afresh.   *)
Undecided ==
    /\ pc # "idle" => run \in 1..MaxRuns /\ exit = None
    /\ pc \in {"idle", "setup"} => rows = <<>>

Inv ==
    /\ TypeOK
    /\ Prefix /\ Complete /\ Left /\ Marked /\ Recorded /\ Reported /\ Undecided
    /\ EveryPluginHasARow /\ ExitPolicy /\ CutShortFails /\ ReportAgrees

-----------------------------------------------------------------------------
(* Whatever the executor answers is a reply.                                *)
LEMMA Asked == ASSUME answer' \in Answers PROVE answer' \in Replies
<1>. DEFINE bad   == [failed |-> TRUE, text |-> "part"]
            good  == [failed |-> FALSE, text |-> "whole"]
            empty == [failed |-> FALSE, text |-> "empty"]
<1>1. answer' \in {bad, good, empty}
  BY DEF Answers
<1>2. bad \in Replies /\ good \in Replies /\ empty \in Replies
  BY DEF Replies
<1>. QED  BY <1>1, <1>2

(* Ending keeps the types.                                                 *)
LEMMA EndTyped ==
  ASSUME TypeOK, NEW code \in {0, 1, None}, End(code), UNCHANGED <<disk, request>>
  PROVE  TypeOK'
<1>. USE DEF TypeOK, End, disk, request
<1>1. dry' \in BOOLEAN /\ cancelled' \in BOOLEAN /\ reported' \in BOOLEAN
  OBVIOUS
<1>. QED  BY <1>1

LEMMA InitInv == Init => Inv
<1>. SUFFICES ASSUME Init PROVE Inv
  OBVIOUS
<1>. USE ConstantsAssumption, NoneAssumption DEF Init
<1>1. TypeOK
  <2>1. dry \in BOOLEAN /\ cancelled \in BOOLEAN /\ reported \in BOOLEAN
    OBVIOUS
  <2>. QED  BY <2>1 DEF TypeOK
<1>2. Prefix /\ Complete /\ Left /\ Marked /\ Reported /\ Undecided
  BY DEF Prefix, Complete, Left, Marked, Reported, Undecided
<1>3. ~Saved /\ ~SavedNow
  BY DEF Saved, SavedNow
<1>4. Recorded /\ EveryPluginHasARow /\ ReportAgrees
  BY <1>3 DEF Recorded, EveryPluginHasARow, ReportAgrees
<1>5. ExitPolicy /\ CutShortFails
  BY DEF ExitPolicy, CutShortFails
<1>. QED  BY <1>1, <1>2, <1>4, <1>5 DEF Inv

LEMMA BeginInv == ASSUME Inv, NEW ps \in PluginLists, Begin(ps) PROVE Inv'
<1>. USE DEF Begin, End, disk, request, control, work
<1>0. /\ TypeOK /\ Prefix /\ Complete /\ Left /\ Marked /\ Recorded
      /\ Reported /\ Undecided
      /\ EveryPluginHasARow /\ ExitPolicy /\ CutShortFails /\ ReportAgrees
  BY DEF Inv
<1>1. TypeOK'
  <2>1. rows' = <<>> /\ answer' \in {answer, None} /\ reported' \in BOOLEAN
    BY <1>0 DEF TypeOK, Undecided
  <2>2. rows' \in Seq(Rows) /\ Len(rows') <= Len(wanted') /\ answer' \in Replies \cup {None}
    BY <1>0, <2>1 DEF TypeOK
  <2>3. run' \in 0..MaxRuns
    BY ConstantsAssumption, <1>0 DEF TypeOK
  <2>. QED  BY <1>0, <2>2, <2>3 DEF TypeOK
<1>2. Prefix' /\ Complete' /\ Left'
  BY <1>0 DEF Prefix, Complete, Left, Undecided
<1>3. Marked'
  BY DEF Marked
<1>4. Recorded'
  BY <1>0 DEF TypeOK, Recorded, Saved, SavedNow, Manifests
<1>5. Reported' /\ Undecided'
  BY ConstantsAssumption, <1>0 DEF TypeOK, Reported, Undecided
<1>6. EveryPluginHasARow' /\ ReportAgrees'
  BY <1>0
  DEF TypeOK, EveryPluginHasARow, ReportAgrees, Recorded, Saved, SavedNow
<1>7. ExitPolicy' /\ CutShortFails'
  BY NoneAssumption, <1>0
  DEF TypeOK, ExitPolicy, CutShortFails, Recorded, Saved, SavedNow
<1>. QED  BY <1>1, <1>2, <1>3, <1>4, <1>5, <1>6, <1>7 DEF Inv

LEMMA SetupFailsInv == ASSUME Inv, SetupFails PROVE Inv'
<1>. USE DEF SetupFails, End, disk, request, control, work
<1>0. /\ TypeOK /\ Prefix /\ Complete /\ Left /\ Marked /\ Recorded
      /\ Reported /\ Undecided
      /\ EveryPluginHasARow /\ ExitPolicy /\ CutShortFails /\ ReportAgrees
  BY DEF Inv
<1>1. TypeOK'
  BY <1>0, EndTyped
<1>2. Prefix' /\ Complete' /\ Left'
  BY DEF Prefix, Complete, Left
<1>3. Marked'
  BY DEF Marked
<1>4. Recorded'
  BY <1>0 DEF Recorded, Saved
<1>5. Reported' /\ Undecided'
  BY DEF Reported, Undecided
<1>6. EveryPluginHasARow' /\ ReportAgrees'
  BY <1>0 DEF EveryPluginHasARow, ReportAgrees, Saved, SavedNow
<1>7. ExitPolicy' /\ CutShortFails'
  BY <1>0 DEF ExitPolicy, CutShortFails, Recorded, Saved, SavedNow
<1>. QED  BY <1>1, <1>2, <1>3, <1>4, <1>5, <1>6, <1>7 DEF Inv

LEMMA SetupInv == ASSUME Inv, Setup PROVE Inv'
<1>. USE DEF Setup, Goto, disk, request, control, work
<1>0. /\ TypeOK /\ Prefix /\ Complete /\ Left /\ Marked /\ Recorded
      /\ Reported /\ Undecided
      /\ EveryPluginHasARow /\ ExitPolicy /\ CutShortFails /\ ReportAgrees
  BY DEF Inv
<1>1. TypeOK'
  BY <1>0 DEF TypeOK
<1>2. Prefix' /\ Complete' /\ Left'
  BY <1>0 DEF Prefix, Complete, Left
<1>3. Marked'
  BY <1>0 DEF Marked
<1>4. Recorded'
  BY <1>0 DEF Recorded, Saved, SavedNow
<1>5. Reported' /\ Undecided'
  BY <1>0 DEF Reported, Undecided
<1>6. EveryPluginHasARow' /\ ReportAgrees'
  BY <1>0 DEF EveryPluginHasARow, ReportAgrees, Saved, SavedNow
<1>7. ExitPolicy' /\ CutShortFails'
  BY <1>0 DEF ExitPolicy, CutShortFails, Saved, SavedNow
<1>. QED  BY <1>1, <1>2, <1>3, <1>4, <1>5, <1>6, <1>7 DEF Inv

LEMMA AskInv == ASSUME Inv, Ask PROVE Inv'
<1>. USE DEF Ask, Goto, Answers, disk, request, control, work
<1>0. /\ TypeOK /\ Prefix /\ Complete /\ Left /\ Marked /\ Recorded
      /\ Reported /\ Undecided
      /\ EveryPluginHasARow /\ ExitPolicy /\ CutShortFails /\ ReportAgrees
  BY DEF Inv
<1>1. TypeOK'
  BY <1>0, Asked DEF TypeOK
<1>2. Prefix' /\ Complete' /\ Left'
  BY <1>0, Asked DEF Prefix, Complete, Left
<1>3. Marked'
  BY DEF Marked
<1>4. Recorded'
  BY <1>0 DEF Recorded, Saved, SavedNow
<1>5. Reported' /\ Undecided'
  BY <1>0 DEF Reported, Undecided
<1>6. EveryPluginHasARow' /\ ReportAgrees'
  BY <1>0 DEF EveryPluginHasARow, ReportAgrees, Saved, SavedNow
<1>7. ExitPolicy' /\ CutShortFails'
  BY <1>0 DEF ExitPolicy, CutShortFails, Saved, SavedNow
<1>. QED  BY <1>1, <1>2, <1>3, <1>4, <1>5, <1>6, <1>7 DEF Inv

LEMMA KeepInv == ASSUME Inv, Keep PROVE Inv'
<1>. USE DEF Keep, Goto, Plugin, disk, request, control, work
<1>0. /\ TypeOK /\ Prefix /\ Complete /\ Left /\ Marked /\ Recorded
      /\ Reported /\ Undecided
      /\ EveryPluginHasARow /\ ExitPolicy /\ CutShortFails /\ ReportAgrees
  BY DEF Inv
<1>1. TypeOK'
  <2>1. Plugin \in Plugins
    BY ConstantsAssumption, <1>0 DEF TypeOK, Left
  <2>2. answer \in Replies
    BY <1>0 DEF Left
  <2>3. outputs' \in [OutputFiles -> Outputs \cup {None, Torn}]
    BY ConstantsAssumption, <1>0, <2>1, <2>2
    DEF TypeOK, Undecided, Outputs, Replies
  <2>4. rows' \in Seq(Rows) /\ Len(rows') = Len(rows) + 1
    BY <1>0, <2>1, <2>2 DEF TypeOK, Rows, Replies
  <2>. QED  BY <1>0, <2>3, <2>4 DEF TypeOK, Left
<1>2. Prefix' /\ Complete' /\ Left'
  BY <1>0 DEF Prefix, Complete, Left
<1>3. Marked'
  BY ConstantsAssumption, <1>0 DEF Marked
<1>4. Recorded'
  BY <1>0 DEF Recorded, Saved, SavedNow
<1>5. Reported' /\ Undecided'
  BY <1>0 DEF Reported, Undecided
<1>6. EveryPluginHasARow' /\ ReportAgrees'
  BY <1>0 DEF EveryPluginHasARow, ReportAgrees, Saved, SavedNow
<1>7. ExitPolicy' /\ CutShortFails'
  BY <1>0 DEF ExitPolicy, CutShortFails, Saved, SavedNow
<1>. QED  BY <1>1, <1>2, <1>3, <1>4, <1>5, <1>6, <1>7 DEF Inv

LEMMA PluginsEndInv == ASSUME Inv, PluginsEnd PROVE Inv'
<1>. USE DEF PluginsEnd, Goto, disk, request, control, work
<1>0. /\ TypeOK /\ Prefix /\ Complete /\ Left /\ Marked /\ Recorded
      /\ Reported /\ Undecided
      /\ EveryPluginHasARow /\ ExitPolicy /\ CutShortFails /\ ReportAgrees
  BY DEF Inv
<1>1. TypeOK'
  BY <1>0 DEF TypeOK
<1>2. Prefix' /\ Complete' /\ Left'
  BY <1>0 DEF Prefix, Complete, Left
<1>3. Marked'
  BY <1>0 DEF Marked
<1>4. Recorded'
  BY <1>0 DEF Recorded, Saved, SavedNow
<1>5. Reported' /\ Undecided'
  BY <1>0 DEF Reported, Undecided
<1>6. EveryPluginHasARow' /\ ReportAgrees'
  BY <1>0 DEF EveryPluginHasARow, ReportAgrees, Saved, SavedNow
<1>7. ExitPolicy' /\ CutShortFails'
  BY <1>0 DEF ExitPolicy, CutShortFails, Saved, SavedNow
<1>. QED  BY <1>1, <1>2, <1>3, <1>4, <1>5, <1>6, <1>7 DEF Inv

LEMMA ReportInv == ASSUME Inv, Report PROVE Inv'
<1>. USE DEF Report, Goto, disk, request, control, work
<1>0. /\ TypeOK /\ Prefix /\ Complete /\ Left /\ Marked /\ Recorded
      /\ Reported /\ Undecided
      /\ EveryPluginHasARow /\ ExitPolicy /\ CutShortFails /\ ReportAgrees
  BY DEF Inv
<1>1. TypeOK'
  <2>1. [run |-> run, rows |-> rows] \in Reports
    BY <1>0 DEF TypeOK, Undecided, Reports
  <2>2. report' \in Reports \cup {None, Torn} /\ reported' \in BOOLEAN
    BY <1>0, <2>1 DEF TypeOK
  <2>. QED  BY <1>0, <2>2 DEF TypeOK
<1>2. Prefix' /\ Complete' /\ Left'
  BY <1>0 DEF Prefix, Complete, Left
<1>3. Marked'
  BY <1>0 DEF Marked
<1>4. Recorded'
  BY <1>0 DEF Recorded, Saved, SavedNow
<1>5. Reported' /\ Undecided'
  BY <1>0 DEF Reported, Undecided
<1>6. EveryPluginHasARow' /\ ReportAgrees'
  BY <1>0 DEF EveryPluginHasARow, ReportAgrees, Recorded, Saved, SavedNow
<1>7. ExitPolicy' /\ CutShortFails'
  BY <1>0 DEF ExitPolicy, CutShortFails, Saved, SavedNow
<1>. QED  BY <1>1, <1>2, <1>3, <1>4, <1>5, <1>6, <1>7 DEF Inv

LEMMA TruncateInv == ASSUME Inv, Truncate PROVE Inv'
<1>. USE DEF Truncate, Goto, disk, request, control, work
<1>0. /\ TypeOK /\ Prefix /\ Complete /\ Left /\ Marked /\ Recorded
      /\ Reported /\ Undecided
      /\ EveryPluginHasARow /\ ExitPolicy /\ CutShortFails /\ ReportAgrees
  BY DEF Inv
<1>1. TypeOK'
  BY <1>0 DEF TypeOK
<1>2. Prefix' /\ Complete' /\ Left'
  BY <1>0 DEF Prefix, Complete, Left
<1>3. Marked'
  BY <1>0 DEF Marked
<1>4. Recorded'
  BY DEF Recorded, Saved, SavedNow
<1>5. Reported' /\ Undecided'
  BY <1>0 DEF Reported, Undecided
<1>6. EveryPluginHasARow' /\ ReportAgrees'
  BY DEF EveryPluginHasARow, ReportAgrees, Saved, SavedNow
<1>7. ExitPolicy' /\ CutShortFails'
  BY <1>0 DEF ExitPolicy, CutShortFails, Recorded, Saved, SavedNow
<1>. QED  BY <1>1, <1>2, <1>3, <1>4, <1>5, <1>6, <1>7 DEF Inv

LEMMA SaveFailsInv == ASSUME Inv, SaveFails PROVE Inv'
<1>. USE DEF SaveFails, End, disk, request, control, work
<1>0. /\ TypeOK /\ Prefix /\ Complete /\ Left /\ Marked /\ Recorded
      /\ Reported /\ Undecided
      /\ EveryPluginHasARow /\ ExitPolicy /\ CutShortFails /\ ReportAgrees
  BY DEF Inv
<1>1. TypeOK'
  BY <1>0, EndTyped
<1>2. Prefix' /\ Complete' /\ Left'
  BY DEF Prefix, Complete, Left
<1>3. Marked'
  BY DEF Marked
<1>4. Recorded'
  BY <1>0 DEF Recorded, Saved
<1>5. Reported' /\ Undecided'
  BY DEF Reported, Undecided
<1>6. EveryPluginHasARow' /\ ReportAgrees'
  BY <1>0 DEF EveryPluginHasARow, ReportAgrees, Saved, SavedNow
<1>7. ExitPolicy' /\ CutShortFails'
  BY <1>0 DEF ExitPolicy, CutShortFails, Recorded, Saved, SavedNow
<1>. QED  BY <1>1, <1>2, <1>3, <1>4, <1>5, <1>6, <1>7 DEF Inv

LEMMA WriteInv == ASSUME Inv, Write PROVE Inv'
<1>. USE DEF Write, Goto, disk, request, control, work
<1>0. /\ TypeOK /\ Prefix /\ Complete /\ Left /\ Marked /\ Recorded
      /\ Reported /\ Undecided
      /\ EveryPluginHasARow /\ ExitPolicy /\ CutShortFails /\ ReportAgrees
  BY DEF Inv
<1>1. TypeOK'
  <2>1. manifest' \in Manifests
    BY <1>0 DEF TypeOK, Undecided, Manifests
  <2>. QED  BY <1>0, <2>1 DEF TypeOK
<1>2. Prefix' /\ Complete' /\ Left'
  BY <1>0 DEF Prefix, Complete, Left
<1>3. Marked'
  BY <1>0 DEF Marked
<1>4. Recorded'
  <2>1. manifest' \in Manifests
    BY <1>0 DEF TypeOK, Undecided, Manifests
  <2>. QED  BY <1>0, <2>1 DEF TypeOK, Recorded
<1>5. Reported' /\ Undecided'
  BY <1>0 DEF Reported, Undecided
<1>6. EveryPluginHasARow' /\ ReportAgrees'
  BY <1>0 DEF EveryPluginHasARow, ReportAgrees, Reported, Prefix, Complete
<1>7. ExitPolicy' /\ CutShortFails'
  BY NoneAssumption, <1>0 DEF ExitPolicy, CutShortFails, Undecided
<1>. QED  BY <1>1, <1>2, <1>3, <1>4, <1>5, <1>6, <1>7 DEF Inv

LEMMA ExitInv == ASSUME Inv, Exit PROVE Inv'
<1>. USE DEF Exit, End, SomeFailed, disk, request, control, work
<1>0. /\ TypeOK /\ Prefix /\ Complete /\ Left /\ Marked /\ Recorded
      /\ Reported /\ Undecided
      /\ EveryPluginHasARow /\ ExitPolicy /\ CutShortFails /\ ReportAgrees
  BY DEF Inv
<1>1. TypeOK'
  BY <1>0, EndTyped
<1>2. Prefix' /\ Complete' /\ Left'
  BY DEF Prefix, Complete, Left
<1>3. Marked'
  BY DEF Marked
<1>4. Recorded'
  BY <1>0 DEF Recorded, Saved
<1>5. Reported' /\ Undecided'
  BY DEF Reported, Undecided
<1>6. EveryPluginHasARow' /\ ReportAgrees'
  BY <1>0 DEF EveryPluginHasARow, ReportAgrees, Saved, SavedNow
<1>7. ExitPolicy' /\ CutShortFails'
  <2>1. manifest = [run |-> run, rows |-> rows, reported |-> reported]
    BY <1>0 DEF Recorded
  <2>2. manifest \in Manifests
    BY <1>0, <2>1 DEF TypeOK, Undecided, Manifests
  <2>3. SavedNow' /\ manifest'.rows = rows
    BY NoneAssumption, <2>1, <2>2 DEF Saved, SavedNow
  <2>4. ExitPolicy'
    BY <2>3 DEF ExitPolicy
  <2>5. CutShortFails'
    BY <1>0 DEF CutShortFails, Marked
  <2>. QED  BY <2>4, <2>5
<1>. QED  BY <1>1, <1>2, <1>3, <1>4, <1>5, <1>6, <1>7 DEF Inv

LEMMA InterruptInv == ASSUME Inv, Interrupt PROVE Inv'
<1>. USE DEF Interrupt, disk, request, control, work
<1>0. /\ TypeOK /\ Prefix /\ Complete /\ Left /\ Marked /\ Recorded
      /\ Reported /\ Undecided
      /\ EveryPluginHasARow /\ ExitPolicy /\ CutShortFails /\ ReportAgrees
  BY DEF Inv
<1>1. TypeOK'
  BY <1>0 DEF TypeOK
<1>2. Prefix' /\ Complete' /\ Left'
  BY <1>0 DEF Prefix, Complete, Left
<1>3. Marked'
  BY DEF Marked
<1>4. Recorded'
  BY <1>0 DEF Recorded, Saved, SavedNow
<1>5. Reported' /\ Undecided'
  BY <1>0 DEF Reported, Undecided
<1>6. EveryPluginHasARow' /\ ReportAgrees'
  BY <1>0 DEF EveryPluginHasARow, ReportAgrees, Saved, SavedNow
<1>7. ExitPolicy' /\ CutShortFails'
  BY <1>0 DEF ExitPolicy, CutShortFails, Recorded, Saved, SavedNow
<1>. QED  BY <1>1, <1>2, <1>3, <1>4, <1>5, <1>6, <1>7 DEF Inv

LEMMA CrashInv == ASSUME Inv, Crash PROVE Inv'
<1>. USE DEF Crash, End, Running, disk, request, control, work
<1>0. /\ TypeOK /\ Prefix /\ Complete /\ Left /\ Marked /\ Recorded
      /\ Reported /\ Undecided
      /\ EveryPluginHasARow /\ ExitPolicy /\ CutShortFails /\ ReportAgrees
  BY DEF Inv
<1>1. TypeOK'
  BY <1>0, EndTyped
<1>2. Prefix' /\ Complete' /\ Left'
  BY DEF Prefix, Complete, Left
<1>3. Marked'
  BY DEF Marked
<1>4. Recorded'
  BY <1>0 DEF Recorded, Saved
<1>5. Reported' /\ Undecided'
  BY DEF Reported, Undecided
<1>6. EveryPluginHasARow' /\ ReportAgrees'
  BY <1>0 DEF EveryPluginHasARow, ReportAgrees, Saved, SavedNow
<1>7. ExitPolicy' /\ CutShortFails'
  BY NoneAssumption DEF ExitPolicy, CutShortFails
<1>. QED  BY <1>1, <1>2, <1>3, <1>4, <1>5, <1>6, <1>7 DEF Inv

LEMMA NextInv == Inv /\ [Next]_vars => Inv'
<1>. SUFFICES ASSUME Inv, [Next]_vars PROVE Inv'
  OBVIOUS
<1>1. CASE \E ps \in PluginLists : Begin(ps)
  BY <1>1, BeginInv
<1>2. CASE Step
  BY <1>2, SetupFailsInv, SetupInv, AskInv, KeepInv, PluginsEndInv, ReportInv,
     TruncateInv, SaveFailsInv, WriteInv, ExitInv
  DEF Step
<1>3. CASE Interrupt \/ Crash
  BY <1>3, InterruptInv, CrashInv
<1>4. CASE UNCHANGED vars
  BY <1>4
  DEF Inv, vars, disk, request, control, work, TypeOK, Prefix, Complete, Left,
      Marked, Recorded, Reported, Undecided, Saved, SavedNow,
      EveryPluginHasARow, ExitPolicy, CutShortFails, ReportAgrees
<1>. QED  BY <1>1, <1>2, <1>3, <1>4 DEF Next

-----------------------------------------------------------------------------
(* What the label of a run says of its rows, its record and its report.     *)
THEOREM Invariance == Spec => []Inv
  BY InitInv, NextInv, PTL DEF Spec

(* Every variable keeps to its type.                                        *)
THEOREM TypeCorrect == Spec => []TypeOK
<1>1. Inv => TypeOK
  BY DEF Inv
<1>. QED  BY <1>1, Invariance, PTL

(* The record has a row for every plugin asked for, whatever failed, for    *)
(* lists of any length (analyze.go:119-174).                                *)
THEOREM RowForEvery == Spec => []EveryPluginHasARow
<1>1. Inv => EveryPluginHasARow
  BY DEF Inv
<1>. QED  BY <1>1, Invariance, PTL

(* The exit code is 0 exactly when the record is on disk and no plugin in   *)
(* it failed (cli/analyze.go:49-60).                                        *)
THEOREM PolicyHolds == Spec => []ExitPolicy
<1>1. Inv => ExitPolicy
  BY DEF Inv
<1>. QED  BY <1>1, Invariance, PTL

(* A run that a signal cut short never ends with 0, wherever in the loop    *)
(* the signal came.                                                         *)
THEOREM CutShortIsFailure == Spec => []CutShortFails
<1>1. Inv => CutShortFails
  BY DEF Inv
<1>. QED  BY <1>1, Invariance, PTL

(* The report a record names is the report of the same rows                 *)
(* (analyze.go:177-180).                                                    *)
THEOREM ReportIsOfTheRecord == Spec => []ReportAgrees
<1>1. Inv => ReportAgrees
  BY DEF Inv
<1>. QED  BY <1>1, Invariance, PTL

-----------------------------------------------------------------------------
(* The outputs.  A row that names one has it, unless a later row has it: of *)
(* the rows so far, then of the rows in the record.                         *)
Holds(r) ==
    /\ outputs[OutputOf[r.plugin]] \notin {None, Torn}
    /\ outputs[OutputOf[r.plugin]].run = run
    /\ outputs[OutputOf[r.plugin]].plugin = r.plugin
    /\ ~r.failed /\ ~dry => outputs[OutputOf[r.plugin]].text = "whole"

Named(rs) ==
    \A i \in 1..Len(rs) : rs[i].kept =>
        \/ \E j \in (i + 1)..Len(rs) : OutputOf[rs[j].plugin] = OutputOf[rs[i].plugin]
        \/ Holds(rs[i])

OutputsInv ==
    /\ pc # "idle" => Named(rows)
    /\ pc = "keep" /\ ~answer.failed /\ ~dry => answer.text = "whole"
    /\ SavedNow => Named(manifest.rows)

(* A plugin's output replaces only what a row of an earlier plugin named,   *)
(* and the new row is later.                                                *)
LEMMA KeepOutputs == ASSUME Inv, OutputsInv, Keep PROVE Named(rows)'
<1>. USE DEF Keep, Plugin, request
<1>. DEFINE n == Len(rows)
<1>1. PICK kept \in BOOLEAN :
        /\ outputs' = [outputs EXCEPT ![OutputOf[Plugin]] =
             IF kept THEN [run |-> run, plugin |-> Plugin, text |-> answer.text] ELSE Torn]
        /\ rows' = Append(rows, [plugin |-> Plugin, failed |-> answer.failed, kept |-> kept])
  OBVIOUS
<1>2. /\ TypeOK /\ Plugin \in Plugins /\ answer \in Replies /\ run \in 1..MaxRuns
      /\ OutputOf[Plugin] \in OutputFiles
  BY ConstantsAssumption DEF Inv, TypeOK, Left, Undecided
<1>3. /\ n \in Nat /\ Len(rows') = n + 1
      /\ rows'[n + 1] = [plugin |-> Plugin, failed |-> answer.failed, kept |-> kept]
      /\ \A i \in 1..n : rows'[i] = rows[i] /\ rows[i] \in Rows
  BY <1>1, <1>2 DEF TypeOK
<1>4. /\ outputs'[OutputOf[Plugin]] =
             IF kept THEN [run |-> run, plugin |-> Plugin, text |-> answer.text] ELSE Torn
      /\ \A f \in OutputFiles : f # OutputOf[Plugin] => outputs'[f] = outputs[f]
  BY <1>1, <1>2 DEF TypeOK
<1>5. ASSUME kept, NEW i, i = n + 1 PROVE Holds(rows[i])'
  <2>. DEFINE new == [run |-> run, plugin |-> Plugin, text |-> answer.text]
  <2>1. new \in Outputs /\ new \notin {None, Torn}
    BY <1>2, NoneAssumption DEF Outputs, Replies
  <2>2. outputs'[OutputOf[Plugin]] = new /\ rows'[n + 1].plugin = Plugin
    BY <1>3, <1>4, <1>5
  <2>3. rows'[n + 1].failed = answer.failed
    BY <1>3
  <2>4. ~answer.failed /\ ~dry => new.text = "whole"
    BY DEF OutputsInv
  <2>5. ~rows'[n + 1].failed /\ ~dry => new.text = "whole"
    BY <2>3, <2>4, Zenon
  <2>. QED  BY <1>5, <2>1, <2>2, <2>5 DEF Holds
<1>6. ASSUME NEW i \in 1..n, Holds(rows[i]),
             OutputOf[Plugin] # OutputOf[rows[i].plugin]
      PROVE  Holds(rows[i])'
  <2>1. OutputOf[rows[i].plugin] \in OutputFiles
    BY <1>3, ConstantsAssumption DEF Rows
  <2>2. outputs'[OutputOf[rows[i].plugin]] = outputs[OutputOf[rows[i].plugin]]
    BY <1>4, <1>6, <2>1
  <2>. QED  BY <1>3, <1>6, <2>2 DEF Holds
<1>7. ASSUME NEW i \in 1..(n + 1), rows'[i].kept
      PROVE  \/ \E j \in (i + 1)..(n + 1) :
                    OutputOf[rows'[j].plugin] = OutputOf[rows'[i].plugin]
             \/ Holds(rows[i])'
  <2>1. CASE i = n + 1
    <3>1. rows'[n + 1].kept = kept
      BY <1>3
    <3>2. kept
      BY <1>7, <2>1, <3>1, Zenon
    <3>. QED  BY <1>5, <2>1, <3>2
  <2>2. CASE i \in 1..n /\ OutputOf[Plugin] = OutputOf[rows[i].plugin]
    BY <1>3, <2>2
  <2>3. CASE i \in 1..n /\ OutputOf[Plugin] # OutputOf[rows[i].plugin]
    <3>1. rows[i].kept
      BY <1>3, <1>7, <2>3
    <3>2. CASE Holds(rows[i])
      BY <1>6, <2>3, <3>2
    <3>3. CASE \E j \in (i + 1)..n : OutputOf[rows[j].plugin] = OutputOf[rows[i].plugin]
      BY <1>3, <2>3, <3>3
    <3>. QED  BY <2>3, <3>1, <3>2, <3>3 DEF OutputsInv, Named
  <2>. QED  BY <1>3, <2>1, <2>2, <2>3
<1>. QED  BY <1>3, <1>7 DEF Named

(* No other step touches an output.                                         *)
LEMMA OutputsStep == ASSUME Inv, Inv', OutputsInv, [Next]_vars PROVE OutputsInv'
<1>. USE DEF disk, request, control, work, Goto, End
<1>1. ASSUME UNCHANGED <<outputs, run, dry>>
      PROVE  \A rs : Named(rs)' <=> Named(rs)
  BY <1>1 DEF Named, Holds
<1>2. CASE \E ps \in PluginLists : Begin(ps)
  <2>1. ~SavedNow'
    BY <1>2 DEF Inv, TypeOK, Recorded, Saved, SavedNow, Begin, Manifests
  <2>2. rows' = <<>>
    BY <1>2 DEF Inv, Undecided, Begin
  <2>. QED  BY <1>2, <2>1, <2>2 DEF OutputsInv, Named, Begin
<1>3. CASE Ask
  <2>1. ~dry => \/ answer'.failed
                \/ answer'.text = "whole"
    BY <1>3 DEF Ask, Answers
  <2>. QED  BY <1>1, <1>3, <2>1 DEF OutputsInv, Ask, Saved, SavedNow
<1>4. CASE Keep
  <2>1. ~SavedNow'
    BY <1>4 DEF Inv, Recorded, Keep
  <2>. QED  BY <1>4, <2>1, KeepOutputs DEF OutputsInv, Keep
<1>5. CASE Write
  BY <1>1, <1>5 DEF OutputsInv, Write
<1>6. CASE Truncate
  BY <1>1, <1>6 DEF OutputsInv, Truncate, Saved, SavedNow
<1>7. CASE SetupFails \/ SaveFails \/ Exit \/ Crash
  BY <1>1, <1>7
  DEF OutputsInv, SetupFails, SaveFails, Exit, Crash, Saved, SavedNow
<1>8. CASE Setup \/ PluginsEnd \/ Interrupt \/ UNCHANGED vars
  BY <1>1, <1>8
  DEF OutputsInv, Setup, PluginsEnd, Interrupt, vars, Saved, SavedNow
<1>9. CASE Report
  BY <1>1, <1>9 DEF OutputsInv, Report, Saved, SavedNow
<1>. QED  BY <1>2, <1>3, <1>4, <1>5, <1>6, <1>7, <1>8, <1>9 DEF Next, Step

(* An output a row names is there, whole and of this run, for any lists and *)
(* however plugins share their files (analyze.go:120-121,152-156).          *)
THEOREM OutputsAreThere == Spec => []NamedOutputIsThere
<1>1. Init => OutputsInv
  BY NoneAssumption DEF Init, OutputsInv, Saved, SavedNow
<1>2. OutputsInv => NamedOutputIsThere
  BY DEF OutputsInv, Named, Holds, NamedOutputIsThere
<1>. QED  BY <1>1, <1>2, OutputsStep, Invariance, PTL DEF Spec

-----------------------------------------------------------------------------
(* A run ends. *)

(* How many steps a run has left, at most. *)
StepsLeft ==
    LET rest == 2 * (Len(wanted) - Len(rows))
    IN  CASE pc = "setup"  -> rest + 6
          [] pc = "ask"    -> rest + 5
          [] pc = "keep"   -> rest + 4
          [] pc = "report" -> 4
          [] pc = "save"   -> 3
          [] pc = "write"  -> 2
          [] pc = "exit"   -> 1
          [] OTHER         -> 0

(* It is a number, and none are left just when no run is in progress.       *)
StepsCount == StepsLeft \in Nat /\ (StepsLeft = 0 <=> ~Running)

(* Whatever changes of a run brings it nearer to its end: no plugin is      *)
(* tried twice, however it fails, and no file written again                 *)
(* (analyze.go:98-182).                                                    *)
StepsRunOut == [][Running /\ ~UNCHANGED <<control, work>> => StepsLeft' < StepsLeft]_vars

LEMMA Countable == ASSUME TypeOK PROVE StepsCount
<1>1. Len(wanted) - Len(rows) \in Nat
  BY ConstantsAssumption DEF TypeOK
<1>. QED  BY <1>1 DEF StepsCount, StepsLeft, TypeOK, Running

LEMMA Nearer == ASSUME Inv, Step \/ Crash PROVE StepsLeft' < StepsLeft
<1>1. /\ TypeOK /\ Len(wanted) \in Nat /\ Len(rows) \in 0..Len(wanted)
      /\ StepsLeft \in Nat
  BY ConstantsAssumption, Countable DEF Inv, TypeOK, StepsCount
<1>2. CASE SetupFails \/ SaveFails \/ Exit \/ Crash
  <2>1. Running /\ pc' = "idle"
    BY <1>2 DEF SetupFails, SaveFails, Exit, Crash, End, Running
  <2>2. StepsLeft # 0 /\ StepsLeft' = 0
    BY <1>1, <2>1, Countable DEF StepsCount, StepsLeft
  <2>. QED  BY <1>1, <2>2
<1>3. CASE Setup
  BY <1>1, <1>3 DEF Setup, Goto, work, request, StepsLeft
<1>4. CASE Ask
  BY <1>1, <1>4 DEF Ask, Goto, request, StepsLeft
<1>5. CASE Keep
  <2>1. Len(rows') = Len(rows) + 1
    BY <1>1, <1>5 DEF Keep, TypeOK
  <2>. QED  BY <1>1, <1>5, <2>1 DEF Keep, Goto, request, StepsLeft
<1>6. CASE PluginsEnd
  BY <1>1, <1>6 DEF PluginsEnd, Goto, StepsLeft
<1>7. CASE Report
  BY <1>7 DEF Report, Goto, StepsLeft
<1>8. CASE Truncate
  BY <1>8 DEF Truncate, Goto, StepsLeft
<1>9. CASE Write
  BY <1>9 DEF Write, Goto, StepsLeft
<1>. QED  BY <1>2, <1>3, <1>4, <1>5, <1>6, <1>7, <1>8, <1>9 DEF Step

(* Every run of analyze ends, after at most 6 + 2 * Len(wanted) steps of    *)
(* its own, whichever plugins and writes fail (analyze.go:98-182).         *)
THEOREM RunsEnd == Spec => []StepsCount /\ StepsRunOut
<1>1. Inv => StepsCount
  BY Countable DEF Inv
<1>2. Inv /\ [Next]_vars =>
        [Running /\ ~UNCHANGED <<control, work>> => StepsLeft' < StepsLeft]_vars
  BY Nearer DEF Next, Begin, Interrupt, Running, work
<1>. QED  BY <1>1, <1>2, Invariance, PTL DEF Spec, StepsRunOut
=============================================================================
