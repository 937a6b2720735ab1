# A verification development for kernledger

kernledger collects forensic evidence on a Linux host: it dumps memory with a
prebuilt LiME kernel module, collects volatile state, bundles everything with
hashes, and runs Volatility on the result. This directory holds TLA+ models of
its core, the TLC configurations that check them on small instances, and
theorems proved with TLAPS for every instance. Line numbers refer to files
under `src/`.

## 1. The system

One process per command, no daemon, no lock. The commands meet in the *case
directory* (`--out`), a plain directory that any number of them read and write.

| Component | State it keeps | Operations | Talks to |
| --- | --- | --- | --- |
| Acquisition, `internal/acquire`, `internal/cli/acquire.go` | the Acquisition record in memory, `acquire-manifest.json`, the image at `--output`, `dmesg-on-failure.log`; the kernel's module list | validate, plan, insmod, hash, rmmod, capture dmesg, save | executor, audit log, kernel |
| Packaging, `internal/pkgbuild`, `internal/cli/package.go` | `manifest.json`, the tarball | cloud info, load the other manifests, walk and hash, save, walk and archive, hash the tarball | every file of the case directory, audit log, EC2 metadata |
| Executor, `internal/executor` | a child process per call | run with a timeout, dry run | os/exec, the commands above and below |
| Collection, `internal/collector`, `internal/cli/collect.go` | `collect/`, `collect-manifest.json` | run each item, copy each declared path, save | executor, audit log |
| Analysis, `internal/analyze`, `internal/cli/analyze.go` | plugin outputs, `report.md`, `analyze-manifest.json` | run each plugin, report, save, exit code | executor, audit log |
| Audit log, `internal/audit` | `audit.log`, appended by every command | append | everybody |
| Manifest, hash, identity, `internal/manifest`, `internal/hashutil` | none | new, save, load, summary, hash a file | everybody |
| Symbols, inspect | the symbol file; none | one dwarf2json call; read and print | executor |
| Distribution adapters, EC2 client | a registry filled at start-up; none | detect, list; token and six look-ups | collection, packaging |
| CLI root and signals, `cmd/kernledger`, `internal/cli/root.go` | the process's context | dispatch, cancel on the first signal | all commands |
| Lab target, `cmd/ir-lab-target` | child processes, listeners, heartbeat files | spawn, serve, beat, stop | itself |

What is hard here:

- **Interleavings.** Commands overlap on one host and in one directory, and
  `package` reads the directory twice while others, and its own log, write to it.
- **Outliving children.** `insmod` outlives a killed kernledger; a descendant
  of a command outlives the command and keeps its pipes.
- **Partial failure.** Nearly every system call may fail, and the code's policy
  is mostly to go on and note it: audit writes are dropped in silence, a hash
  that fails is a warning, a failed rmmod does not fail the command. Some
  failures are not even noted: the second walk of `package` leaves out what it
  cannot look up, and an item's output that cannot be written is named anyway.
- **Cancellation and timeouts** race with the end of the command they kill.
- **Files that are truncated and then written**, by commands that can be killed
  in between.

What makes each component correct, in one line each: *acquire* touches the
kernel only through its gate and records nothing that did not happen;
*package* produces a bundle, a manifest and a hash that agree; the *executor*
answers every call once and truthfully and leaves no process behind;
*collect* and *analyze* account for every item, whatever failed; the *audit
log* has an event for each decision; the *lab target* stops all it started.

PROJECT.json lists the hazards at their lines with the properties that would
catch each, and, where there is none, why.

## 2. Modules

| Module | What it is |
| --- | --- |
| `Acquire` | invocations of `kernledger acquire` on one host and case directory |
| `CaseWriter` | what `acquire` promises the case directory (abstract) |
| `Package` | builds of `kernledger package` over a directory others write to |
| `CaseDirectory` | `CaseWriter` and `Package` over one directory |
| `Collect` | runs of `kernledger collect`, one after the other in one case directory |
| `Analyze` | runs of `kernledger analyze`, one after the other with the same `--out` |
| `Command` | what an executor promises its callers (abstract) |
| `Executor` | how `RealExecutor` and `DryRunExecutor` keep that promise |
| `LabTarget` | one run of `ir-lab-target`: the parent, its servers, its children |
| `AcquireProofs`, `AcquireWriterProofs`, `PackageProofs`, `CaseDirectoryProofs`, `CollectProofs`, `AnalyzeProofs`, `ExecutorProofs`, `LabTargetProofs` | the theorems |
| `MCAcquire`, `MCPackage`, `MCCaseDirectory`, `MCCollect`, `MCAnalyze` | constants for TLC; `Executor` and `LabTarget` need none and are run as they are |

In the detailed modules, a definition that differs from the one after it by a
plausible bug stands before it (`PlanOnlyIfDryRun` before `PlanOnly`). Nothing
refers to these. PROJECT.json pairs each with a property and a run; replacing
the definition by the bug must break the property, which shows that the property
is about the code and not about the shape of the model.

### Acquire

`pc[r]` is where invocation `r` is; each label is a point where a crash, a
signal, the kernel or another invocation can come between.

| Action | Code |
| --- | --- |
| `Start` | `acquireCmd.Run` to the call of `Acquire` (cli/acquire.go:51-108), early returns included |
| `Reject`, `Plan` | `Options.Validate`; the record, the plan event, the early return of a dry run (acquire.go:118-147) |
| `Insmod`, `InsmodReturns`, `InsmodFailed`, `CaptureDmesg` | acquire.go:151-161, 203-217 |
| `Hash`, `Rmmod` | acquire.go:163-182 |
| `Truncate`, `Write`, `WriteFails`, `Done` | `persistAcquireManifest` and the end of `Run` (cli/acquire.go:110-136), with `os.WriteFile` as its two steps |
| `KernelLoads`, `KernelRefuses`, `InsmodExits`, `LimeFlushes` | external: insmod, LiME and the kernel |
| `InsmodKilled` | the executor's timeout and cancellation |
| `Interrupt`, `Crash`, `DiskFills` | main.go:30-41; external |

The record keeps the fields the properties tell apart. `attempted` stands for
`InsmodStartedAt`. The image is who dumped it and whether it is whole; its hash
is the same value. All invocations load the same module file and dump to the
same `--output`, which lies in the case directory or, if `Outside`, not (an
absolute path in file mode, cli/acquire.go:78; the image and a failure's dmesg
go there, and the full disk of the case directory does not concern them). So the
kernel refuses a second load; two differently named LiME modules at once are
outside the model, and `HashIsOfOwnImage` would not survive them. `Dumps` is what LiME may have written when insmod returns: all of
its image, or, if `LimeAsync`, part of it.

`CaseWriter` is what is left of this for somebody who looks at the directory:
plan, image, hash, record, success, each after the other, with one invocation at
a time. `Acquire` implements it when invocations do not overlap
(`ImplementsWriter`); `SeenState` maps the labels. What insmod and
rmmod do to the module, dmesg and the signals are stutters there.

### Package

| Action | Code |
| --- | --- |
| `Begin`, `Fetch` | `packageCmd.Run` and `Build` up to the adapter (cli/package.go:37-60, pkgbuild.go:77-100, 196-206) |
| `Token`, `Get`, `MetadataEnds` | the IMDSv2 token, then each look-up (ec2/imds.go:47-114, pkgbuild.go:233-245) |
| `Load` | `manifest.Load` of the acquisition (pkgbuild.go:102-108) |
| `WalkFile`, `WalkFails`, `WalkEnds` | the first walk: a regular file is hashed, any other entry passed over, and what cannot be reached or hashed warned about (pkgbuild.go:110-152) |
| `Truncate`, `Write` | `Manifest.Save` (pkgbuild.go:154-159) |
| `Archive`, `TarEnds`, `CloseTarball` | `writeTarGz`, around the second walk (pkgbuild.go:300-321, 356) |
| `TarSkipped` | what it leaves out without a word (pkgbuild.go:322-332) |
| `TarHeader`, `TarFile` | the header of an entry and, for a regular file, its content (pkgbuild.go:333-343, 344-355) |
| `TarAborts` | any error in between (pkgbuild.go:334-352) |
| `HashTarball`, `Report` | pkgbuild.go:165-181 |
| `ChangeEvidence`, `OthersAppend`, `Crash` | other commands; external |

The paths of the directory are a constant sequence in the order `filepath.Walk`
visits them. What a piece of evidence may hold is the constant `Contents`,
`Absent` stands for no file, and `Special` for an entry that is no regular file;
the content of `audit.log` is the number of its lines, so that each append
changes its hash. An append may be lost (`AppendLine`), as audit.go:81 drops the
error.

`listing` are the names a walk has read and not lost. Each step of a walk visits
one path. Any lookup may fail: of the path at hand (lstat), or of a directory
that is just being entered (readdir), `Directories` saying what lies beneath it;
`OutOfReach` are the sets of paths that may be lost so, the whole case directory
among them. The first walk warns of it (`warned`, or `lost` when that line
cannot be written), the second says nothing (`unread`).

An archived file takes two steps, its header and its content, and between them
another command may rewrite the file or the build may be killed. `bare` are the
entries of the tarball with a header and no content, or not all of one file's:
links, a copy cut short by a kill or an error (`TarAborts`, of `manifest.json`
too), a mixture of two contents. A file that has shrunk leaves the archive short
of its header: the next header, or the close, fails then. One that has grown
does not fit, and ends the build; so it is for `audit.log` when anybody appends
to it between its header and its copy. Between any two steps, another command
may change a file (`ChangeEvidence`) or log something (`OthersAppend`).

One of the two manifests Build carries forward is modelled; the
other is loaded by the same code. The variables under `history` serve the
properties only. A look-up of metadata is the key it asks for; a failed one
leaves the field empty, and none of it is logged.

### CaseDirectory

Here the "other command" of `Package` is `acquire`: `Evidence` is a function of
the variables of `CaseWriter`, its steps are the edits, and a plan is a line of
`audit.log`, which the builds append to as well. `line` remembers where each
plan is, `finished` which acquisitions had ended well when the build began; the image
lies in the directory (not `Outside`). The property, `Provenance`, is what an
analyst wants of a bundle: it tells, on its own, whose image it holds, provided
that the second walk could look up the record and `audit.log`; nobody is told
when it could not. Two orders make it true, that of `acquire` (a plan is
logged before a record is written) and that of `package`
(`acquire-manifest.json` is archived before `audit.log`), and neither is written
down anywhere in the code. A later `acquire` replaces the record, even as a dry
run (manifest.go:6 calls the records append-only); then the plan of that
`acquire` in `audit.log` says so.

The composition is itself a refinement (`ImplementsPackager`): to a build,
`acquire` is no more than the other command of `Package`. Each of its steps
changes at most one file of the directory, an edit that `ChangeEvidence` or
`OthersAppend` allows for, and none touches what the build itself writes.
`edits` is `Package`'s count of those edits, bounded by `MaxEdits`. So whatever
is proved of `Package` holds here as well (`PromisesAreKept`).

### Command and Executor

`Command` has a call asked, perhaps begun and completed, and answered. In
`Executor` a call goes through the steps of os/exec: check the context, fork,
a goroutine that kills when the context is done, reap, wait for the pipes.
The mapping (`Promise == INSTANCE Command WITH ...`) derives what a caller sees
from the label and the process. `late` is a history variable: a call made
under a cancelled context is *refused*, and a refused call must have no effect.
Calls are sequential, as in every caller.

### Collect

A run goes through the items in order, then visits the declared paths in any
order (the groups are a Go map), then saves.

| Action | Code |
| --- | --- |
| `Begin`, `Mkdir` | `collectCmd.Run` up to the item loop (cli/collect.go:38-72, collector.go:60-70) |
| `Call`, `Store` | the two halves of `runItem`: the executor's answer; the output file, the event and the row (collector.go:141-194) |
| `MkdirFiles` | collector.go:78-81 |
| `Absent`, `SkipInDryRun`, `Visit` | `copyArtifacts`, a path each (collector.go:216-239) |
| `CopyFile`, `CopyEnds`, `CopyFails`, `CopyBlocks` | `copyTree` and `copyFile`, a file at a time (collector.go:252-316) |
| `Truncate`, `Write`, `Report` | `Manifest.Save` as the two steps of `os.WriteFile`, and the end (cli/collect.go:86-97) |
| `Interrupt`, `Crash` | main.go:34-41; external |

Of a command only the answer is modelled, as `Command` promises it: a dry run
always succeeds with nothing printed, a cancelled context always fails.
`outputs` and `copies` say which run, and which path, a file is of, because a
run writes over what an earlier one left. Any write may fail. The code ignores
that of an output, which then stays as an earlier run left it, or short
(`Store`, `unwritten`), and that of a line in `audit.log` (`unlogged`); a crash
may tear the output or the copy at hand. The files of a path come and go
(`Entries` are those it may hold at times): `Visit` picks what a run finds there,
and `listed` remembers it. Nothing is ever removed below `collect/files`, so
that what a path has lost since, or a path of the same name had more of, stays
there; `GoodCopyIsWhole` promises what a run found, and not that nothing else is
beside it. A signal is modelled while items are
left; later ones change nothing, since only the executor looks at the context.

### Analyze

| Action | Code |
| --- | --- |
| `Begin`, `SetupFails`, `Setup` | cli/analyze.go:61-103, `Options.Validate` and the start of `Run` (analyze.go:68-118) |
| `Ask`, `Keep`, `PluginsEnd` | the plugin loop (analyze.go:119-176) |
| `Report` | `writeReport` and its ignored error (analyze.go:177-205) |
| `Truncate`, `Write`, `SaveFails` | cli/analyze.go:105-113, 142-157 |
| `Exit` | `Summary` and the exit code policy (cli/analyze.go:114-140) |

Any write may fail, at any time; where the code checks the error the row says
so. As in `Collect`, a signal is modelled while plugins are left. Unlike
`collect`, `analyze` ends a run that was cut short with 1 (`CutShortFails`).

### LabTarget

The parent's main goroutine has a label; its TCP, UDP and heartbeat goroutines
are up or down; a child is a state.

| Action | Code (main.go) |
| --- | --- |
| `Boot` | 64-117: flags, the state directory, the context |
| `Spawn`, `SpawnEnds`, `Tell` (at `abort`), `Abort` | `spawnChildren` (206-242) and its failure (127-130) |
| `WriteStatus`, `ListenTCP`, `ListenUDP` | 111-165, each with its early return |
| `Stop`, `CloseTCP`, `CloseUDP`, `Join` | 167-173 |
| `Tell`, `TellEnds`, `Wait`, `WaitEnds` | the deferred `waitChildren` (131, 244-254) |
| `Accept`, `Answer`, `ServerStops`, `ServerFails`, `BeatStops` | `serveTCP`, `serveUDP`, `heartbeatLoop` (257-330) |
| `Handle`, `Report`, `KidStops` | `runChild` (175-204) |
| `Interrupt`, `TimeIsUp`, `Crash`, `KidCrashes` | external; `context.WithTimeout` |

A signal may reach the parent alone or the whole group. A child that has not yet
installed its handler dies of it, which the code need not care about: it is
waited for all the same. A parent that is killed leaves its children running,
and the properties except it.

## 3. Runs

| Run | Question | Bounds and why they suffice |
| --- | --- | --- |
| `acquire` | Do two overlapping invocations ever pass the gate, lie in the record, remove each other's module? | Two invocations: every interaction goes through one `loader`, one image and one manifest, and involves a writer and a victim. `MCChoices` has each combination of flags the code treats differently. `LimeAsync` is FALSE, so that `HashIsOfOwnImage` asks for all of the image and not only for one's own: the hazard of a LiME that lags behind is excepted there. `Outside` is FALSE, so that a full disk meets the image as well. |
| `acquire_sequential` | Does `acquire` implement `CaseWriter`, is success only reported of a saved record, and does every invocation end? | Two invocations in turn, so that the second meets what the first left, torn files and a running insmod included; `LimeAsync` and `Outside` TRUE. An executed, a planned and a rejected combination of flags: the others take the same steps, and liveness is dear. |
| `package` | Do manifest, bundle and tarball hash agree, up to what changed in between, could not be looked up or could not be logged? | One build, from every initial directory over three paths, the ones Build treats specially, with evidence before `audit.log` and `manifest.json` behind it; each may be out of reach by itself, or all at once. Leftovers of a killed build; one edit by another command at any point; two contents, of which one does not parse, and an entry that is no file. No metadata key (a cloud section is there or not); `case_directory` has one, and four paths. The tarball lies elsewhere; the theorems of section 4 hold with one inside as well. |
| `case_directory` | Can the image in a bundle be traced from the bundle alone, and is all that `acquire` does in the directory an edit `Package` allows for? | Two acquisitions, the second of which may replace the record of the first, and one build. No build begins before an acquisition has ended well, and no step of `acquire` follows the last build: neither could break the property. `MaxEdits` is 60, more than two acquisitions can make (each a plan, an image that may settle later, a torn and a whole record), so it never holds a step back. |
| `executor` | Does the executor implement `Command`, and does every call return unless a descendant holds its pipes? | Three calls: one before, at and after a cancellation. |
| `collect` | Do the record, the audit log, the outputs and the copies agree, whatever failed, and does every run end? | Two runs, so that the second meets the first one's files; a mandatory and an optional item; two paths with one sanitised name, one a directory of up to two files that may hold a FIFO, the other a smaller one. `MaxFaults` is 1: in a run at most one output, line or copy fails, and any one may; directories, the record and crashes are not counted. |
| `analyze` | Do the record, the outputs, the report and the exit code agree? | Two runs, as for `collect`; two plugins are enough for one that fails with another left, for two that share a file, and for one asked for twice. |
| `lab_target` | Is no child forgotten, is the shutdown in order, and does everything stop? | Two children: one before and one behind each loop's index; one connection, which is enough to outlive the listener. |
| `acquire_outside`, `package_stale_audit`, `package_no_cloud`, `executor_orphan` | Disagreements, see section 5 | the smallest instance that shows it |

Deadlock is not checked in any of them, because commands end and the host may
then do nothing for ever.

In `package` and `case_directory` nobody edits the directory once the last build
is over, which no property looks at.

`acquire` and `case_directory` use symmetry of the invocations, and no liveness.
`case_directory` also has a view, `Archived`, which leaves out what the first
walk found: the artifacts of the manifest in memory and on disk, the histories
about them and the count of edits, whose bound is never met. No guard and no
other variable depends on these, and `Provenance` does not look at them, so that
states equal under the view have the same successors under it and the same
verdict. `ImplementsPackager` does look at them: the run checks it on the steps
from one representative of each class, and the theorem `Composition` on all.
`collect` has a view, `Current`, which leaves out the rows of an earlier run's
record: no step reads them, and every property is about the record of the run in
progress or just ended.

### Fairness

`Acquire`: weak fairness of each invocation's own steps, since the Go runtime
schedules it, and of `InsmodKilled`, since the executor's timer fires after 120
seconds (cli/acquire.go:95). Nothing is assumed of insmod, the disk or the
operator. That the kill ends Run assumes that insmod leaves no descendant, which
is what `executor_orphan` is about. `Package`: weak fairness of the build's
steps. `Executor`: weak fairness of `Run`, of the goroutines of os/exec and of
the call's timer; none of the command, of what it leaves behind or of
`HolderEnds`, which is why `ReturnsUnlessHeld` has its second half. `Collect`:
weak fairness of the run's steps, the executor's answers among them; that it
does answer is `ReturnsUnlessHeld`; the same holds for `Analyze`. A blocked copy
is left blocked, and `CollectEnds` says so. `LabTarget`: weak fairness of the
parent's main goroutine, of the timer of `--runtime`, of the goroutines that see
a closed socket or a done context, of an answer (a connection has a deadline)
and of each child; nothing of signals, peers or errors.

## 4. What is proved

For every set of invocations, builds, calls or children, any flags, any lists of
items, plugins and paths, with or without a full disk or orphans. The only
assumptions are those the modules name (`ConstantsAssumption`; `NoneAssumption`
of `Analyze`, `MarksAssumption` of `CaseDirectory`), which TLC evaluates in the
runs: the values that stand for an absent or a torn file are not those of a
whole one, the walk of `Package` meets no path twice, and `Collect` is given no
item twice. Where a theorem needs more, it says so: the two theorems of
`AcquireWriterProofs` assume `~Overlap`, `BuildsEnd` that `Keys` is finite, and
`RunsEnd` of `Collect` that `Sources` is finite and that a number, `most`,
bounds the files each may hold.

**Acquire.** None of the properties is inductive. `Inv` conjoins, per
invocation, `Control` (what the label says of the flags: past the gate they are
cleared), `Audited` (label, exit code, log), `Record` (what the record says
happened did), `Kernel` (how its insmod relates to it and to the module in the
kernel) and the rest of the module. The heart is in `Kernel`: *an invocation
whose insmod exited well and which has not yet run rmmod owns the module in the
kernel*. It survives another invocation's rmmod because that invocation would
have to own the module as well, and there is one owner. `OwnModuleOnly`, that
rmmod by name never removes another's module, follows, and so does `HashIsOwn`,
since nobody else's insmod can write the image while the module is loaded.
There is one lemma per action, and `NextInv` puts them together.
`StraysAreAsked` bounds the first disagreement of section 5: what is written
outside `--out` is an image whose `--output` leads there, or a dmesg next to it
or of an invocation in tcp mode. It adds to `Inv` that whoever wrote a dmesg
there has failed (`Strayed`), which `FailedForGood` keeps, and that an image is
of an insmod that was started in file mode (`Aimed`).

**Acquire as a CaseWriter.** `Refinement` maps each step to one of `CaseWriter`
or to a stutter. It needs, besides `Inv`, what only invocations that take turns
guarantee (`InTurn`): nobody else is active (`Alone`), the record on disk is the
writer's own as far as it has written it (`Writing`), and the image is of
whoever has the module loaded (`Dumped`). A torn record always has a culprit
(`TornBy`). `SavedFirst` follows from the same invariant.

**Package.** For any directory, any number of builds, and any change by other
commands between any two steps, whichever calls fail. A build reads each path
twice, and neither walk alone says anything of the other. `Known` says of a path
behind the first walk that what was found still holds, or was warned about, or
that the path is in `changed`; `Archived` says of the paths behind the second
walk what the archive owes to the manifest (`Owed`: the listed content, whole,
unless the path changed or could not be looked up), and of the file at hand that
its header is its content or the file has changed (`Copying`); `Bundled` and
`Shipped` carry it to the end. Since `changed` only grows while the build reads,
each edit keeps every part (`Knows`), and every
other step moves one path behind a walk (`Steps`). `HashChain` also says that a
listed file is in the tarball *once*; this needs that the archive only holds
paths behind the walk, and nothing of what could not be looked up (`Apart`).
`OnlyTheLogMayDiffer` bounds the second disagreement of section 5: when no other command edits the directory, `audit.log` is the only
file whose hash in the bundle may not be the listed one. It needs that only the
build's own appends are in `changed` then (`Marked`) and that what the manifest
lists was there (`Sound`).

**CaseDirectory.** For any number of acquisitions, one at a time, beside any
number of builds, one at a time.
`Recorded` says that the record of an acquisition that ended well stays until
another one has planned; `Lines` where the plans are in `audit.log`. The
heart is `Bundled`: while the archive is written, it holds the record of a
finished acquisition, or somebody else has planned, and then that plan is in
`audit.log` before `audit.log` is archived, because it comes after the record in
the walk; or the record, or `audit.log`, is in `unread`. Nothing is assumed of `Package` or `CaseWriter` but their steps.
`Composition` is that `CaseDirectory` implements `Package`, and `PromisesAreKept`
carries four theorems over without proving them again: it instantiates the
inductive invariant of `PackageProofs` in the composition (`Alone`), where
initial states and steps are those of `Package` (`AloneInit`, `AloneNext`).

**Collect.** For any items, any paths however they share names, any number of
runs, and files that come and go in between. The invariant has a part for each
thing the record will promise: the rows so far (`Counted`, `Warned`), the
outputs (`Stored`), the copies (`Kept`) and a signal (`Cut`); `Record` states
the promises of the record on disk. A shared name is the subtle one: `Whole`,
that one path of the name is all there, holds of every name but the one being
copied, and a copy that ends well re-establishes it, since the last path writes
over everything it found; `Fresh`, that each file found in a path of the name is
of this run, holds throughout, since a copy only replaces files of the name by
files of the path that is about to have a row, or fails it. `Dated` keeps the
record of an earlier run apart from the rows of this one.

**Executor.** `Inv` says what the label tells of the process, of the kind of
executor, of a late call and of the result. `Refinement` maps each step:
`Call` asks, `Fork` begins, `ProcessEnds` completes if the exit code is 0,
each way of returning answers (`ReturnImplements`), and killing, reaping,
deadlines and descendants are invisible to the caller.

**Analyze.** For any lists of plugins and any number of runs. `Inv` says that
the rows are those of a prefix of the list (`Prefix`), complete past the loop
(`Complete`), and that the record of a run appears when it is written and not
before (`Recorded`), which makes the exit code a statement about the disk
(`PolicyHolds`). `CutShortIsFailure` needs `Marked`: a signal that comes while
plugins are left leaves a plugin that has failed or is bound to, because the
executor answers a cancelled context with a failure only. `OutputsAreThere` has
an invariant of its own, `OutputsInv`, over `Inv`: a row names an output that is
there, or a later row has taken it.

**LabTarget.** For any number of children and connections. `Inv` says which
children there are (`Spawned`), which goroutines and sockets each label allows
(`Serves`), how far the loops are (`Behind`), who is listed (`Listed`) and who
has been waited for (`WaitedFor`). `ShutdownOrder` follows since a child is told
to stop only past `join`, which no server goroutine survives; `NoneForgotten`
since the parent only ends behind one of the two loops over `1..started`.
`NoWaitInVain` is the absence of deadlock: at the join every goroutine has
returned or can, its context being done and its socket closed; at the wait every
child has ended or its context is done, handler installed or not (`Heard`).

**Termination.** That something happens under fairness is out of the prover's
reach, but the rest of the argument is not. For each component with a liveness
property a function `StepsLeft` of the state is defined in its proof module.
`StepsCount` says that it is a natural number, and 0 just when nothing is in
progress; `StepsRunOut` that every step that changes where a run is makes it
smaller, and what others do leaves it alone. So no run loops, however steps
fail, and what is left to liveness is that a run in progress is not stuck, which
is a matter of the scheduler, of the executor's timer (`CallsEnd`: a killed
process can be reaped, and only a descendant that holds the pipes is waited for
without end) and of FIFOs.

| Theorem | Steps left at most |
| --- | --- |
| `RunsEnd` (`Acquire`) | 11 for each invocation, those of its insmod included |
| `BuildsEnd` (`Package`) | 12, three for each path, one for each metadata key |
| `RunsEnd` (`Collect`) | a number given by the items, the paths and `most`; a run blocked on a FIFO stays there |
| `CallsEnd` (`Executor`) | 7 for each call, its process and timer included |
| `RunsEnd` (`Analyze`) | 6, two for each plugin |
| `ParentEnds` (`LabTarget`) | 12 of the main goroutine, three for each child |

These formulas, `WritesOutsideAreAsked`, `OnlyAuditLogDisagrees` and the
inductive invariants were checked with TLC on the instances of section 3 before
they were proved; no run lists them, since the theorems say more.

Only model-checked: liveness itself, which needs fairness and ENABLED
(`Terminates`, `BuildEnds`, `CollectEnds`, `AnalyzeEnds`, `ReturnsUnlessHeld`,
`StopEnds`), and the four disagreements of section 5, where a counterexample is
the point. Every safety property, action property and refinement that a passing
run checks is also a theorem.

## 5. Where the code and its documents disagree

1. `acquire_outside`: in tcp mode a failed insmod writes
   `dmesg-on-failure.log` into the working directory (acquire.go:208), where
   docs/forensic-considerations.md:302 says that writes outside `--out` never
   happen. The other writes outside are the ones an absolute `--output` asks for
   in file mode, which docs/usage.md:131 allows: the image, and a failure's
   dmesg next to it (`StraysAreAsked`).
2. `package_stale_audit`: a warning logged after `audit.log` was hashed makes
   the bundled `audit.log` differ from its listed hash (pkgbuild.go:137), where
   docs/forensic-considerations.md:136-137 has the analyst compare every hash.
   No other file is concerned (`OnlyTheLogMayDiffer`).
3. `package_no_cloud`: a metadata service that issues a token and then answers
   nothing still leaves a cloud section, with the provider's name alone
   (pkgbuild.go:217), where pkgbuild.go:193-195 says that without data
   `manifest.cloud` is absent.
4. `executor_orphan`: a descendant that inherits the command's stdout keeps
   `Run` waiting past its timeout (executor.go:76; no `WaitDelay`), where
   executor.go:4-8 promises a single chokepoint for timeout and cancellation.

A smaller one has no run of its own: pkgbuild.go:74-76 says that the returned
manifest is byte-identical to the `manifest.json` embedded in the tarball. There
is none when the second walk could not look `manifest.json` up
(pkgbuild.go:322-324); `OneManifest` makes that exception and no other.

## 6. Not modelled, and the plan

Not modelled: `inspect`, which reads and prints; `symbols`, one command and one
file; the tables of the distribution adapters and the look-up in them (`Package`
has runs with and without an adapter); identity capture, pure input; the wording
of plans, reports, logs and heartbeats, tar headers and `classify`. Of the
modelled parts, outside the model: how a path is spelled (`--tarball` in the
directory under another name would be archived into itself), two differently
named LiME modules, a lab target started again in the state directory of one
that was killed, and the mark of a dry run, which the rows of `collect` lack.

Planned, most important first:

1. What the second walk of `package` leaves out (`unread`) is told to nobody. If
   the code comes to warn of it, or to fail, `HashChain`, `OneManifest`,
   `CarriedForward` and `Provenance` lose that exception.
2. Overlapping saves of one `acquire-manifest.json`. `os.WriteFile` of two
   processes can leave the head of one record and the tail of another;
   `CaseWriter` would need a content that is neither, and `ImplementsWriter`
   could then drop `~Overlap`.
3. `collect` and `analyze` as writers in `CaseDirectory`, with abstract
   specifications of their own that `Collect` and `Analyze` implement, as
   `CaseWriter` is of `Acquire`.
4. A lab target that is started again over the state directory of a killed one.
5. `symbols`, once there is something of it that another command depends on.
