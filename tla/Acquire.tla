------------------------------ MODULE Acquire ------------------------------
(***************************************************************************)
(* `kernledger acquire`: invocations of the command on one host and one    *)
(* case directory (--out), each a process of its own.  An invocation loads *)
(* the LiME kernel module with insmod, hashes the memory image, optionally *)
(* removes the module with rmmod, and saves acquire-manifest.json; every   *)
(* step also appends to audit.log.                                         *)
(*                                                                         *)
(* Nothing locks the case directory, so invocations may overlap.  Each may *)
(* be interrupted (the first SIGINT or SIGTERM cancels its context), may   *)
(* be killed outright between any two steps, and its insmod child outlives *)
(* it.  insmod and the kernel are external: they are modelled from the     *)
(* outcomes the code distinguishes.  All invocations are taken to load the *)
(* same module file, as there is one for the running kernel, and to dump   *)
(* to the same --output.                                                   *)
(*                                                                         *)
(* A definition that differs from the next one by a plausible bug stands   *)
(* before it; nothing refers to it.  PROJECT.json pairs each with the      *)
(* property that notices the bug.                                          *)
(***************************************************************************)
EXTENDS FiniteSets

CONSTANTS
    Runs,         \* the invocations of the command
    Choices,      \* the flag combinations the operator may pass
    Overlap,      \* may two invocations be in progress at once?
    LimeAsync,    \* may LiME still be writing when insmod returns?
    DiskMayFill,  \* may the case directory's filesystem fill up?
    Outside,      \* does --output lead out of the case directory?
    None, Torn    \* "nothing", and a file truncated but not (fully) written

-----------------------------------------------------------------------------
(* Data. *)

Modes == {"file", "tcp"}

(* `privileged` says that rootCheck passes (root, or --allow-non-root), and *)
(* `valid` that Options.Validate does.                                      *)
Options == [mode : Modes, execute : BOOLEAN, dryRun : BOOLEAN,
            rmmod : BOOLEAN, privileged : BOOLEAN, valid : BOOLEAN]

(* The memory image at --output: who dumped it, and whether all of it.      *)
Images == [by : Runs, full : BOOLEAN]

Places == {"out", "elsewhere"}  \* in the case directory, in any other

(* manifest.Acquisition, as far as its fields vary.  `attempted` stands for *)
(* InsmodStartedAt, which stays the zero time in a dry run.                 *)
Acquisition == [mode : Modes, dryRun : BOOLEAN, attempted : BOOLEAN,
                image : Images \cup {None}, rmmodPerformed : BOOLEAN,
                dmesg : Places \cup {None}]

ManifestFiles == [run : Runs, acq : Acquisition]

Events == {"acquire.start", "acquire.plan", "insmod.failed", "hash.failed",
           "rmmod.failed", "acquire.done"}

Labels == {"idle", "acquire", "insmod", "insmodWait", "insmodFailed", "dmesg",
           "hash", "rmmod", "save", "write", "report", "done", "killed"}

(* The insmod process of an invocation.  "loaded": the module is in the     *)
(* kernel but the process has not exited yet.                               *)
ChildStates == {"none", "running", "loaded", "ok", "failed"}

ASSUME ConstantsAssumption ==
    /\ Choices \subseteq Options
    /\ Overlap \in BOOLEAN /\ LimeAsync \in BOOLEAN /\ DiskMayFill \in BOOLEAN
    /\ Outside \in BOOLEAN
    /\ None \notin Runs \cup Images \cup Acquisition \cup ManifestFiles \cup Places
    /\ Torn \notin ManifestFiles \cup {None}

-----------------------------------------------------------------------------
VARIABLES
    pc,         \* [Runs -> Labels], where each invocation is
    opt,        \* [Runs -> Options], its flags, once it has started
    acq,        \* [Runs -> Acquisition], the section it is filling in
    code,       \* [Runs -> {0, 1}], its exit code, once it is done
    cancelled,  \* the invocations that received SIGINT or SIGTERM
    child,      \* [Runs -> ChildStates], its insmod process
    loader,     \* who loaded the module that is in the kernel now, or None
    image,      \* the file at --output
    dmesgFile,  \* [Places -> Runs], whose dmesg-on-failure.log came last
    manifest,   \* acquire-manifest.json in the case directory
    log,        \* audit.log: the <<run, event>> pairs appended so far
    diskFull    \* does the next write to the case directory fail?

process == <<pc, opt, acq, code, cancelled>>
kernel  == <<child, loader, image>>
files   == <<dmesgFile, manifest, log, diskFull>>
vars    == <<process, kernel, files>>

Init ==
    /\ pc = [r \in Runs |-> "idle"]
    /\ opt = [r \in Runs |-> None]
    /\ acq = [r \in Runs |-> None]
    /\ code = [r \in Runs |-> 0]
    /\ cancelled = {}
    /\ child = [r \in Runs |-> "none"]
    /\ loader = None
    /\ image = None
    /\ dmesgFile = [p \in Places |-> None]
    /\ manifest = None
    /\ log = {}
    /\ diskFull = FALSE

-----------------------------------------------------------------------------
(* Helpers. *)

Active(r) == pc[r] \notin {"idle", "done", "killed"}

Goto(r, l) == pc' = [pc EXCEPT ![r] = l]

ExitTwo(r, c) == Goto(r, "done") /\ code' = [code EXCEPT ![r] = IF c = 0 THEN 0 ELSE 2]
Exit(r, c) == Goto(r, "done") /\ code' = [code EXCEPT ![r] = c]

(* audit.Logger.write: the result of the write is ignored, so on a full     *)
(* disk the event is lost and nothing notices.                              *)
LogButWarnings(r, e) ==
    log' = IF e \in {"hash.failed", "rmmod.failed"} THEN log ELSE log \cup {<<r, e>>}
Log(r, e) == log' = IF diskFull THEN log ELSE log \cup {<<r, e>>}

(* Options.Execute as the CLI builds it: execute && !DryRun.                *)
Execute(o) == o.execute /\ ~o.dryRun

(* The early return of Runner.Acquire: only a plan is recorded.             *)
PlanOnlyIfDryRun(o) == o.dryRun
PlanOnly(o) == ~Execute(o) \/ o.dryRun

(* The fresh Acquisition of Runner.Acquire.                                 *)
NewAcquisitionFlag(o) ==
    [mode |-> o.mode, dryRun |-> o.dryRun, attempted |-> FALSE,
     image |-> None, rmmodPerformed |-> FALSE, dmesg |-> None]
NewAcquisition(o) ==
    [mode |-> o.mode, dryRun |-> o.dryRun \/ ~Execute(o), attempted |-> FALSE,
     image |-> None, rmmodPerformed |-> FALSE, dmesg |-> None]

(* The directory of the output path.  In file mode the CLI resolves a       *)
(* relative --output, or none, into the case directory and leaves an        *)
(* absolute one alone; in tcp mode it resolves none, so that a relative     *)
(* path, or ".", is of the working directory.                               *)
InOut(o) == o.mode = "file" /\ ~Outside
DmesgPlace(o) == IF InOut(o) THEN "out" ELSE "elsewhere"

(* Where Runner.Acquire goes once insmod has succeeded, and after the hash. *)
AfterHash(o)   == IF o.rmmod THEN "rmmod" ELSE "save"
AfterInsmod(o) == IF o.mode = "file" THEN "hash" ELSE AfterHash(o)

-----------------------------------------------------------------------------
(* The command, one action per step whose effect another invocation, the    *)
(* kernel or a crash can come between.                                      *)

(* acquireCmd.Run up to the call of Acquire.  rootCheck stops a privileged  *)
(* operation only; MkdirAll, the audit log or the distro may fail.          *)
Start(r) ==
    /\ pc[r] = "idle"
    /\ Overlap \/ \A s \in Runs : ~Active(s)
    /\ \E o \in Choices :
         /\ opt' = [opt EXCEPT ![r] = o]
         /\ \/ Exit(r, 1) /\ UNCHANGED log
            \/ /\ o.privileged \/ ~o.execute
               /\ Goto(r, "acquire")
               /\ Log(r, "acquire.start")
               /\ UNCHANGED code
    /\ UNCHANGED <<acq, cancelled, kernel, dmesgFile, manifest, diskFull>>

(* Runner.Acquire up to insmod. *)
Reject(r) ==
    /\ pc[r] = "acquire"
    /\ ~opt[r].valid
    /\ Exit(r, 1)
    /\ UNCHANGED <<opt, acq, cancelled, kernel, files>>

Plan(r) ==
    /\ pc[r] = "acquire"
    /\ opt[r].valid
    /\ acq' = [acq EXCEPT ![r] = NewAcquisition(opt[r])]
    /\ Log(r, "acquire.plan")
    /\ Goto(r, IF PlanOnly(opt[r]) THEN "save" ELSE "insmod")
    /\ UNCHANGED <<opt, code, cancelled, kernel, dmesgFile, manifest, diskFull>>

(* exec.CommandContext does not start a process under a cancelled context.  *)
Insmod(r) ==
    /\ pc[r] = "insmod"
    /\ acq' = [acq EXCEPT ![r].attempted = TRUE]
    /\ IF r \in cancelled
         THEN Goto(r, "insmodFailed") /\ UNCHANGED child
         ELSE Goto(r, "insmodWait") /\ child' = [child EXCEPT ![r] = "running"]
    /\ UNCHANGED <<opt, code, cancelled, loader, image, files>>

InsmodReturnsAnyway(r) ==
    /\ pc[r] = "insmodWait"
    /\ child[r] \in {"ok", "failed"} /\ Goto(r, AfterInsmod(opt[r]))
    /\ UNCHANGED <<opt, acq, code, cancelled, kernel, files>>

InsmodReturns(r) ==
    /\ pc[r] = "insmodWait"
    /\ \/ child[r] = "ok" /\ Goto(r, AfterInsmod(opt[r]))
       \/ child[r] = "failed" /\ Goto(r, "insmodFailed")
    /\ UNCHANGED <<opt, acq, code, cancelled, kernel, files>>

InsmodFailedWarns(r) ==
    /\ pc[r] = "insmodFailed"
    /\ Log(r, "insmod.failed")
    /\ Goto(r, "dmesg")
    /\ UNCHANGED <<opt, acq, code, cancelled, kernel, dmesgFile, manifest, diskFull>>

InsmodFailed(r) ==
    /\ pc[r] = "insmodFailed"
    /\ Log(r, "insmod.failed")
    /\ code' = [code EXCEPT ![r] = 1]
    /\ Goto(r, "dmesg")
    /\ UNCHANGED <<opt, acq, cancelled, kernel, dmesgFile, manifest, diskFull>>

(* captureDmesgTail: dmesg runs under the same context, so not at all once  *)
(* it is cancelled; a write on a full disk leaves the file truncated.       *)
CaptureDmesg(r) ==
    /\ pc[r] = "dmesg"
    /\ LET p == DmesgPlace(opt[r])
           full == diskFull /\ p = "out"
       IN \/ UNCHANGED <<acq, dmesgFile>>
          \/ /\ r \notin cancelled
             /\ dmesgFile' = [dmesgFile EXCEPT ![p] = IF full THEN None ELSE r]
             /\ acq' = [acq EXCEPT ![r].dmesg = IF full THEN None ELSE p]
    /\ Goto(r, "save")
    /\ UNCHANGED <<opt, code, cancelled, kernel, manifest, log, diskFull>>

(* hashutil.FileSHA256 of whatever --output holds now; failure only warns.  *)
Hash(r) ==
    /\ pc[r] = "hash"
    /\ \/ acq' = [acq EXCEPT ![r].image = image] /\ UNCHANGED log
       \/ Log(r, "hash.failed") /\ UNCHANGED acq
    /\ Goto(r, AfterHash(opt[r]))
    /\ UNCHANGED <<opt, code, cancelled, kernel, dmesgFile, manifest, diskFull>>

(* rmmod runs to its end before the next step.  It may fail with the module *)
(* still loaded, or be killed by the timeout after it removed the module.   *)
Rmmod(r) ==
    /\ pc[r] = "rmmod"
    /\ \/ /\ r \notin cancelled
          /\ loader # None
          /\ loader' = None
          /\ acq' = [acq EXCEPT ![r].rmmodPerformed = TRUE]
          /\ UNCHANGED log
       \/ /\ loader' \in (IF r \in cancelled THEN {loader} ELSE {loader, None})
          /\ Log(r, "rmmod.failed")
          /\ UNCHANGED acq
    /\ Goto(r, "save")
    /\ UNCHANGED <<opt, code, cancelled, child, image, dmesgFile, manifest, diskFull>>

(* persistAcquireManifest: os.WriteFile truncates the file and then writes. *)
(* Its error makes the command fail, unless it is failing already.          *)
Truncate(r) ==
    /\ pc[r] = "save"
    /\ \/ Goto(r, "write") /\ manifest' = Torn /\ UNCHANGED code
       \/ Exit(r, 1) /\ UNCHANGED manifest
    /\ UNCHANGED <<opt, acq, cancelled, kernel, dmesgFile, log, diskFull>>

(* When another invocation wrote the file since this one truncated it, the  *)
(* write may leave a tail of the other's bytes.                             *)
Write(r) ==
    /\ pc[r] = "write"
    /\ manifest' \in {[run |-> r, acq |-> acq[r]]} \cup
                     (IF manifest = Torn THEN {} ELSE {Torn})
    /\ ~diskFull
    /\ IF code[r] = 0 THEN Goto(r, "report") /\ UNCHANGED code ELSE Exit(r, 1)
    /\ UNCHANGED <<opt, acq, cancelled, kernel, dmesgFile, log, diskFull>>

WriteFailsUnseen(r) ==
    /\ pc[r] = "write"
    /\ diskFull
    /\ Goto(r, "report")
    /\ UNCHANGED <<opt, acq, code, cancelled, kernel, files>>

WriteFails(r) ==
    /\ pc[r] = "write"
    /\ diskFull
    /\ Exit(r, 1)
    /\ UNCHANGED <<opt, acq, cancelled, kernel, files>>

Done(r) ==
    /\ pc[r] = "report"
    /\ Log(r, "acquire.done")
    /\ Exit(r, 0)
    /\ UNCHANGED <<opt, acq, cancelled, kernel, dmesgFile, manifest, diskFull>>

Step(r) ==
    \/ Reject(r) \/ Plan(r) \/ Insmod(r) \/ InsmodReturns(r)
    \/ InsmodFailed(r) \/ CaptureDmesg(r) \/ Hash(r) \/ Rmmod(r)
    \/ Truncate(r) \/ Write(r) \/ WriteFails(r) \/ Done(r)

-----------------------------------------------------------------------------
(* The environment: insmod and the kernel, signals, crashes, the disk.      *)

(* What LiME may have written when insmod returns.                          *)
Dumps(r) == [by : {r}, full : {TRUE, ~LimeAsync}]

(* The module's init function dumps memory.  The kernel refuses a module    *)
(* that is loaded already, before its init function runs.                   *)
KernelLoads(r) ==
    /\ child[r] = "running"
    /\ loader = None
    /\ \/ opt[r].mode = "tcp" /\ UNCHANGED image
       \/ /\ opt[r].mode = "file" /\ ~(diskFull /\ InOut(opt[r]))
          /\ image' \in Dumps(r)
    /\ loader' = r
    /\ child' = [child EXCEPT ![r] = "loaded"]
    /\ UNCHANGED <<process, files>>

KernelRefuses(r) ==
    /\ child[r] = "running"
    /\ child' = [child EXCEPT ![r] = "failed"]
    /\ \/ UNCHANGED image
       \/ /\ loader = None /\ opt[r].mode = "file"
          /\ image' = [by |-> r, full |-> FALSE]
    /\ UNCHANGED <<process, loader, files>>

InsmodExits(r) ==
    /\ child[r] = "loaded"
    /\ child' = [child EXCEPT ![r] = "ok"]
    /\ UNCHANGED <<process, loader, image, files>>

(* exec.CommandContext kills the process after 120 seconds, or at once when *)
(* the context is cancelled.  Run then reports an error even if the module  *)
(* had been loaded.                                                         *)
InsmodKilledByCancel(r) ==
    /\ pc[r] = "insmodWait" /\ r \in cancelled
    /\ child[r] \in {"running", "loaded"}
    /\ child' = [child EXCEPT ![r] = "failed"]
    /\ UNCHANGED <<process, loader, image, files>>

InsmodKilled(r) ==
    /\ pc[r] = "insmodWait"
    /\ child[r] \in {"running", "loaded"}
    /\ child' = [child EXCEPT ![r] = "failed"]
    /\ UNCHANGED <<process, loader, image, files>>

LimeFlushes(r) ==
    /\ loader = r
    /\ image = [by |-> r, full |-> FALSE]
    /\ image' = [by |-> r, full |-> TRUE]
    /\ UNCHANGED <<process, child, loader, files>>

(* main.go takes one signal and cancels the context; it ignores the rest.   *)
Interrupt(r) ==
    /\ Active(r) /\ r \notin cancelled
    /\ cancelled' = cancelled \cup {r}
    /\ UNCHANGED <<pc, opt, acq, code, kernel, files>>

(* SIGKILL, the OOM killer, a panic: nothing is cleaned up.                 *)
Crash(r) ==
    /\ Active(r)
    /\ Goto(r, "killed")
    /\ UNCHANGED <<opt, acq, code, cancelled, kernel, files>>

DiskFills ==
    /\ DiskMayFill /\ ~diskFull
    /\ diskFull' = TRUE
    /\ UNCHANGED <<process, kernel, dmesgFile, manifest, log>>

Environment(r) ==
    \/ KernelLoads(r) \/ KernelRefuses(r) \/ InsmodExits(r) \/ InsmodKilled(r)
    \/ LimeFlushes(r) \/ Interrupt(r) \/ Crash(r)

Next == DiskFills \/ \E r \in Runs : Start(r) \/ Step(r) \/ Environment(r)

Spec == Init /\ [][Next]_vars

(* The Go runtime keeps scheduling the process, and the executor's timeout  *)
(* kills an insmod that does not return.  Nothing is assumed of insmod, the *)
(* operator or the disk.                                                    *)
Fairness == \A r \in Runs : WF_vars(Step(r)) /\ WF_vars(InsmodKilled(r))

FairSpec == Spec /\ Fairness

-----------------------------------------------------------------------------
(* Properties. *)

TypeOK ==
    /\ pc \in [Runs -> Labels]
    /\ opt \in [Runs -> Options \cup {None}]
    /\ acq \in [Runs -> Acquisition \cup {None}]
    /\ code \in [Runs -> {0, 1}]
    /\ cancelled \subseteq Runs
    /\ child \in [Runs -> ChildStates]
    /\ loader \in Runs \cup {None}
    /\ image \in Images \cup {None}
    /\ dmesgFile \in [Places -> Runs \cup {None}]
    /\ manifest \in ManifestFiles \cup {None, Torn}
    /\ log \subseteq Runs \X Events
    /\ diskFull \in BOOLEAN

Authorised(r) == opt[r] \in Options /\ opt[r].execute /\ ~opt[r].dryRun

(* The safety gate, across every interleaving and crash: an insmod process, *)
(* or a module in the kernel, belongs to an invocation given --execute and  *)
(* not --dry-run, by an operator rootCheck accepts, whose options validated *)
(* and whose plan was appended to the audit log before, unless the disk was *)
(* full (acquire.go:136-152, cli/acquire.go:52-56,92).                      *)
ExecuteGate ==
    \A r \in Runs : child[r] # "none" \/ loader = r =>
        /\ Authorised(r) /\ opt[r].privileged /\ opt[r].valid
        /\ <<r, "acquire.plan">> \in log \/ diskFull

(* What the saved manifest says of the kernel is true: "dry run" means that *)
(* its invocation never started an insmod, "not a dry run" that it was told *)
(* to and got as far as trying (acquire.go:136, cli/acquire.go:110-121).    *)
ManifestTellsTheTruth ==
    manifest \in ManifestFiles =>
        LET m == manifest.acq
        IN /\ m.dryRun => child[manifest.run] = "none"
           /\ ~m.dryRun => m.attempted /\ Authorised(manifest.run)
           /\ m.dmesg # None => <<manifest.run, "insmod.failed">> \in log \/ diskFull

(* The image hash in an acquisition record is that of the image the same    *)
(* invocation dumped, never of another's, whatever ran at the same time,    *)
(* and of all of it, unless LiME still writes when insmod has returned      *)
(* (acquire.go:163-173).                                                    *)
HashIsOfOwnImage ==
    \A r \in Runs : acq[r] # None /\ acq[r].image # None =>
        acq[r].image \in Dumps(r)

(* What failed in the kernel is told.  Once audit.log has the failure of    *)
(* insmod, the invocation only ends with exit code 1 and never logs         *)
(* acquire.done (acquire.go:154-160, cli/acquire.go:111-117); and a module  *)
(* still in the kernel after its invocation reported success was meant to   *)
(* stay, or the failure to remove it is in audit.log, and no record claims  *)
(* that it was removed (acquire.go:175-182).                                *)
FailuresAreTold ==
    \A r \in Runs :
        /\ <<r, "insmod.failed">> \in log =>
               code[r] = 1 /\ <<r, "acquire.done">> \notin log
        /\ loader = r /\ pc[r] \in {"save", "write", "report", "done"} =>
               /\ ~acq[r].rmmodPerformed
               /\ (pc[r] = "done" /\ code[r] = 0 /\ opt[r].rmmod)
                    => <<r, "rmmod.failed">> \in log \/ diskFull

(* rmmod names the module, not who loaded it; even so no step ever removes  *)
(* a module but that of the invocation which loaded it, was told --rmmod    *)
(* and saw its insmod succeed (acquire.go:154-161,175-176).                 *)
RemovesOwnModule ==
    [][\A r \in Runs : loader = r /\ loader' # r =>
            /\ loader' = None
            /\ pc[r] = "rmmod" /\ opt[r].rmmod /\ child[r] = "ok"]_vars

(* With no two invocations at once, a torn acquire-manifest.json is the     *)
(* trace of an invocation still writing it, killed while writing it, or met *)
(* by a full disk; one that is about to report success left its own record  *)
(* there (cli/acquire.go:119-121, manifest.go:223-232).                     *)
SavedBeforeSuccess ==
    /\ manifest = Torn => \/ diskFull
                          \/ \E r \in Runs : pc[r] \in {"write", "killed"}
    /\ \A r \in Runs : pc[r] = "report" =>
            manifest = [run |-> r, acq |-> acq[r]]

(* What the case directory sees of an invocation, by its label and exit     *)
(* code, and of the rest.                                                   *)
Seen(label, exit) ==
    CASE label \in {"idle", "killed"} -> label
      [] label \in {"acquire", "insmod", "insmodWait", "insmodFailed", "dmesg",
                    "hash"} -> "busy"
      [] label \in {"rmmod", "save", "write", "report"} -> "saving"
      [] label = "done" -> IF exit = 0 THEN "well" ELSE "failed"

SeenState   == [r \in Runs |-> Seen(pc[r], code[r])]
SeenPlanned == {r \in Runs : acq[r] # None}
SeenPlans   == {r \in Runs : <<r, "acquire.plan">> \in log}
SeenSum     == [r \in Runs |-> IF acq[r] = None THEN None ELSE acq[r].image]
SeenRecord  == IF manifest \in {None, Torn} THEN manifest
               ELSE [run |-> manifest.run, image |-> manifest.acq.image]

Writer == INSTANCE CaseWriter WITH
    Lossy <- DiskMayFill, Lagging <- LimeAsync,
    state <- SeenState, planned <- SeenPlanned, plans <- SeenPlans,
    sum <- SeenSum, record <- SeenRecord

(* One after the other, whatever was killed before, invocations promise the *)
(* case directory what CaseWriter says: no image without a plan, no hash    *)
(* but of one's own settled image, no success but of the record on disk     *)
(* (acquire.go:117-184, cli/acquire.go:108-136).                            *)
ImplementsWriter == Writer!Spec

(* Every invocation ends, however insmod behaves (executor.go:58-63).       *)
Terminates == \A r \in Runs : Active(r) ~> ~Active(r)

(* docs/forensic-considerations.md:302 says that kernledger never writes    *)
(* outside --out.                                                           *)
WritesInsideOut == dmesgFile["elsewhere"] = None /\ (Outside => image = None)

(* How far it goes.  An image elsewhere is one that the operator sent there *)
(* by --output, of an invocation that was allowed to load the module; a     *)
(* dmesg elsewhere is that of an invocation that was allowed to, failed to, *)
(* either streams the image (tcp) or has its --output there, and can end    *)
(* only with exit code 1 (cli/acquire.go:75-83, acquire.go:203-217).        *)
WritesOutsideAreAsked ==
    /\ Outside /\ image # None =>
            Authorised(image.by) /\ opt[image.by].mode = "file"
    /\ \A r \in Runs : dmesgFile["elsewhere"] = r =>
            /\ Authorised(r) /\ code[r] = 1
            /\ opt[r].mode = "tcp" \/ Outside
            /\ <<r, "insmod.failed">> \in log \/ diskFull
=============================================================================
