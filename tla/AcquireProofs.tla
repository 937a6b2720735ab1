--------------------------- MODULE AcquireProofs ---------------------------
(***************************************************************************)
(* Theorems about Acquire, for every set of invocations, every choice of   *)
(* flags, overlapping or not, with a disk that fills or not.               *)
(***************************************************************************)
EXTENDS Acquire, Integers, TLAPS

(* The inductive invariant.  Each part is about one invocation and what the *)
(* kernel, the audit log and the saved manifest hold of it; none constrains *)
(* how two invocations interleave.                                          *)

Past    == {"insmod", "insmodWait", "insmodFailed", "dmesg", "hash", "rmmod"}
Closing == {"save", "write", "report"}

(* Flags that let the kernel be touched. *)
Cleared(o) == o.execute /\ ~o.dryRun /\ o.privileged /\ o.valid

(* What the program counter says of the flags and of the record. *)
Control(r) ==
    /\ pc[r] # "idle" => opt[r] \in Options
    /\ pc[r] = "acquire" => opt[r].privileged \/ ~opt[r].execute
    /\ pc[r] \in Past => Cleared(opt[r])
    /\ pc[r] \in Past \cup Closing => acq[r] \in Acquisition
    /\ pc[r] = "hash" => opt[r].mode = "file"
    /\ pc[r] = "rmmod" => opt[r].rmmod

(* What the audit log and the exit code say of the program counter. *)
Audited(r) ==
    /\ pc[r] = "dmesg" => code[r] = 1 /\ (<<r, "insmod.failed">> \in log \/ diskFull)
    /\ <<r, "insmod.failed">> \in log =>
           code[r] = 1 /\ pc[r] \in {"dmesg", "save", "write", "done", "killed"}
    /\ pc[r] = "report" => code[r] = 0
    /\ <<r, "acquire.done">> \in log => pc[r] = "done" /\ code[r] = 0

(* What the record says is what happened. *)
Record(r) ==
    acq[r] # None =>
        /\ acq[r] \in Acquisition /\ opt[r] \in Options /\ pc[r] \notin {"idle", "acquire"}
        /\ acq[r].dryRun <=> ~Cleared(opt[r])
        /\ acq[r].dryRun => pc[r] \notin Past
        /\ <<r, "acquire.plan">> \in log \/ diskFull
        /\ pc[r] \in (Past \ {"insmod"}) \cup Closing => acq[r].dryRun \/ acq[r].attempted
        /\ acq[r].dmesg # None => <<r, "insmod.failed">> \in log \/ diskFull
        /\ acq[r].rmmodPerformed =>
               child[r] = "ok" /\ loader # r /\ pc[r] \notin Past

(* How an insmod process relates to its invocation and to the kernel. *)
Kernel(r) ==
    /\ child[r] # "none" => acq[r] \in Acquisition /\ Cleared(opt[r])
    /\ child[r] = "none" => loader # r
    /\ child[r] = "running" => loader # r
    /\ pc[r] \in {"idle", "acquire", "insmod"} => child[r] = "none"
    /\ pc[r] = "insmodWait" => child[r] # "none"
    /\ pc[r] \in {"insmodFailed", "dmesg"} => child[r] \in {"none", "failed"}
    /\ pc[r] \in {"hash", "rmmod"} => child[r] = "ok"
    /\ pc[r] \in Closing \cup {"done"} => child[r] \in {"none", "ok", "failed"}
    /\ child[r] = "loaded" => loader = r
    /\ child[r] = "ok" /\ pc[r] \in {"insmodWait", "hash", "rmmod"} => loader = r

(* Without a failure, a module left behind was meant to be, or the failure  *)
(* to remove it is in the log.                                              *)
Leftover(r) ==
    loader = r /\ code[r] = 0 /\ pc[r] \in Closing \cup {"done"} /\ opt[r].rmmod
        => <<r, "rmmod.failed">> \in log \/ diskFull

(* A record on disk is the record of an invocation that saved it. *)
SavedInv ==
    manifest \in ManifestFiles =>
        /\ manifest.acq = acq[manifest.run]
        /\ pc[manifest.run] \in {"report", "done", "killed"}
        /\ manifest.acq.dryRun \/ manifest.acq.attempted

(* While the module is loaded, the file belongs to whoever loaded it. *)
ImageInv ==
    /\ loader # None /\ opt[loader].mode = "file" =>
           image \in Dumps(loader)
    /\ HashIsOfOwnImage

Consistent(r) == Control(r) /\ Audited(r) /\ Record(r) /\ Kernel(r) /\ Leftover(r)

Inv ==
    /\ TypeOK
    /\ \A r \in Runs : Consistent(r)
    /\ SavedInv
    /\ ImageInv

-----------------------------------------------------------------------------
(* The fields of an updated record. *)
LEMMA UpdatedRecord ==
  ASSUME NEW a \in Acquisition, NEW i \in Images \cup {None}, NEW d \in Places \cup {None}
  PROVE  /\ \A b : b = [a EXCEPT !.attempted = TRUE] =>
                /\ b \in Acquisition /\ b.attempted
                /\ b.dryRun = a.dryRun /\ b.image = a.image
                /\ b.dmesg = a.dmesg /\ b.rmmodPerformed = a.rmmodPerformed
         /\ \A b : b = [a EXCEPT !.image = i] =>
                /\ b \in Acquisition /\ b.image = i
                /\ b.dryRun = a.dryRun /\ b.attempted = a.attempted
                /\ b.dmesg = a.dmesg /\ b.rmmodPerformed = a.rmmodPerformed
         /\ \A b : b = [a EXCEPT !.dmesg = d] =>
                /\ b \in Acquisition /\ b.dmesg = d
                /\ b.dryRun = a.dryRun /\ b.attempted = a.attempted
                /\ b.image = a.image /\ b.rmmodPerformed = a.rmmodPerformed
         /\ \A b : b = [a EXCEPT !.rmmodPerformed = TRUE] =>
                /\ b \in Acquisition /\ b.rmmodPerformed
                /\ b.dryRun = a.dryRun /\ b.attempted = a.attempted
                /\ b.image = a.image /\ b.dmesg = a.dmesg
BY DEF Acquisition

LEMMA NewRecord ==
  ASSUME NEW o \in Options, o.valid, o.privileged \/ ~o.execute
  PROVE  LET a == NewAcquisition(o)
         IN  /\ a \in Acquisition
             /\ a.dryRun <=> ~Cleared(o)
             /\ PlanOnly(o) <=> ~Cleared(o)
             /\ a.image = None /\ a.dmesg = None /\ ~a.rmmodPerformed
BY DEF Options, Acquisition, NewAcquisition, Execute, PlanOnly, Cleared

(* An invocation stays consistent while another one, or the kernel on its   *)
(* behalf, takes a step.                                                    *)
LEMMA Others ==
  ASSUME NEW r \in Runs, Consistent(r),
         pc'[r] = pc[r], opt'[r] = opt[r], acq'[r] = acq[r],
         code'[r] = code[r], child'[r] = child[r], diskFull => diskFull',
         \A e \in Events : <<r, e>> \in log' <=> <<r, e>> \in log,
         loader' = r <=> loader = r
  PROVE  Consistent(r)'
BY DEF Consistent, Control, Audited, Record, Kernel, Leftover, Cleared, Past,
       Closing, Events

LEMMA InitInv == Init => Inv
<1>. SUFFICES ASSUME Init PROVE Inv
  OBVIOUS
<1>. USE ConstantsAssumption DEF Init
<1>1. TypeOK
  BY DEF TypeOK, Labels, ChildStates, Places
<1>2. ASSUME NEW r \in Runs PROVE Consistent(r)
  BY DEF Consistent, Control, Audited, Record, Kernel, Leftover, Past, Closing
<1>3. SavedInv
  BY DEF SavedInv
<1>4. ImageInv
  BY DEF ImageInv, HashIsOfOwnImage
<1>. QED  BY <1>1, <1>2, <1>3, <1>4 DEF Inv

LEMMA StartInv == ASSUME Inv, NEW q \in Runs, Start(q) PROVE Inv'
<1>. USE ConstantsAssumption DEF Start, Active, Goto, Exit, Log, kernel
<1>0. /\ TypeOK /\ SavedInv /\ ImageInv
      /\ \A r \in Runs : Consistent(r)
      /\ Control(q) /\ Audited(q) /\ Record(q) /\ Kernel(q) /\ Leftover(q)
  BY DEF Inv, Consistent
<1>1. TypeOK'
  BY <1>0 DEF TypeOK, Labels, ChildStates, Events, Past, Closing
<1>2. ASSUME NEW r \in Runs, r # q PROVE Consistent(r)'
  BY <1>0, <1>2, Others DEF TypeOK
<1>3. Control(q)'
  BY <1>0, <1>1 DEF TypeOK, Control, Past, Closing
<1>4. Audited(q)'
  BY <1>0 DEF TypeOK, Audited
<1>5. Record(q)'
  BY <1>0, <1>1 DEF Record, Kernel, Cleared, Past, Closing
<1>6. Kernel(q)'
  BY <1>0, <1>1 DEF TypeOK, Kernel, Cleared, Past, Closing
<1>7. Leftover(q)'
  BY <1>0 DEF Record, Kernel, Leftover, Cleared, Past, Closing
<1>8. SavedInv'
  BY <1>0, <1>1 DEF TypeOK, SavedInv, ManifestFiles, Closing, Past
<1>9. ImageInv'
  BY <1>0, <1>1 DEF Kernel, ImageInv, HashIsOfOwnImage, Past
<1>. QED  BY <1>1, <1>2, <1>3, <1>4, <1>5, <1>6, <1>7, <1>8, <1>9
          DEF Inv, Consistent

LEMMA RejectInv == ASSUME Inv, NEW q \in Runs, Reject(q) PROVE Inv'
<1>. USE ConstantsAssumption DEF Reject, Goto, Exit, kernel, files
<1>0. /\ TypeOK /\ SavedInv /\ ImageInv
      /\ \A r \in Runs : Consistent(r)
      /\ Control(q) /\ Audited(q) /\ Record(q) /\ Kernel(q) /\ Leftover(q)
  BY DEF Inv, Consistent
<1>1. TypeOK'
  BY <1>0 DEF TypeOK, Labels, ChildStates, Past, Closing
<1>2. ASSUME NEW r \in Runs, r # q PROVE Consistent(r)'
  BY <1>0, <1>2, Others
<1>3. Control(q)'
  BY <1>0, <1>1 DEF Control, Past, Closing
<1>4. Audited(q)'
  BY <1>0 DEF Audited
<1>5. Record(q)'
  BY <1>0, <1>1 DEF Record, Kernel, Cleared, Past, Closing
<1>6. Kernel(q)'
  BY <1>0, <1>1 DEF Kernel, Cleared, Past, Closing
<1>7. Leftover(q)'
  BY <1>0 DEF Record, Kernel, Leftover, Cleared, Past, Closing
<1>8. SavedInv'
  BY <1>0, <1>1 DEF SavedInv, ManifestFiles, Closing, Past
<1>9. ImageInv'
  BY <1>0, <1>1 DEF Kernel, ImageInv, HashIsOfOwnImage, Past
<1>. QED  BY <1>1, <1>2, <1>3, <1>4, <1>5, <1>6, <1>7, <1>8, <1>9
          DEF Inv, Consistent

LEMMA PlanInv == ASSUME Inv, NEW q \in Runs, Plan(q) PROVE Inv'
<1>. USE ConstantsAssumption DEF Plan, Goto, Log, kernel
<1>0. /\ TypeOK /\ SavedInv /\ ImageInv
      /\ \A r \in Runs : Consistent(r)
      /\ Control(q) /\ Audited(q) /\ Record(q) /\ Kernel(q) /\ Leftover(q)
  BY DEF Inv, Consistent
<1>1. TypeOK'
  BY <1>0, NewRecord
  DEF TypeOK, Control, Labels, ChildStates, Events, Past, Closing
<1>2. ASSUME NEW r \in Runs, r # q PROVE Consistent(r)'
  BY <1>0, <1>2, Others
<1>3. Control(q)'
  BY <1>0, <1>1, NewRecord DEF TypeOK, Control, Past, Closing
<1>4. Audited(q)'
  BY <1>0 DEF Audited
<1>5. Record(q)'
  BY <1>0, <1>1, NewRecord
  DEF TypeOK, Control, Record, Kernel, Past, Closing, Cleared
<1>6. Kernel(q)'
  BY <1>0, <1>1 DEF Kernel, Cleared, Past, Closing
<1>7. Leftover(q)'
  BY <1>0
  DEF Record, Kernel, Leftover, Cleared, Past, Closing, PlanOnly, Execute
<1>8. SavedInv'
  BY <1>0, <1>1 DEF SavedInv, ManifestFiles, Closing, Past
<1>9. ImageInv'
  BY <1>0, <1>1 DEF Kernel, ImageInv, HashIsOfOwnImage, Past, NewAcquisition
<1>. QED  BY <1>1, <1>2, <1>3, <1>4, <1>5, <1>6, <1>7, <1>8, <1>9
          DEF Inv, Consistent

LEMMA InsmodInv == ASSUME Inv, NEW q \in Runs, Insmod(q) PROVE Inv'
<1>. USE ConstantsAssumption DEF Insmod, Goto, files
<1>0. /\ TypeOK /\ SavedInv /\ ImageInv
      /\ \A r \in Runs : Consistent(r)
      /\ Control(q) /\ Audited(q) /\ Record(q) /\ Kernel(q) /\ Leftover(q)
  BY DEF Inv, Consistent
<1>1. TypeOK'
  <2>1. [acq[q] EXCEPT !.attempted = TRUE] \in Acquisition
    BY <1>0, UpdatedRecord DEF Control, Past
  <2>. QED  BY <1>0, <2>1 DEF TypeOK, Labels, ChildStates
<1>2. ASSUME NEW r \in Runs, r # q PROVE Consistent(r)'
  BY <1>0, <1>2, Others DEF TypeOK
<1>3. Control(q)'
  BY <1>0, <1>1, UpdatedRecord DEF TypeOK, Control, Past, Closing
<1>4. Audited(q)'
  BY <1>0 DEF TypeOK, Audited
<1>5. Record(q)'
  BY <1>0, <1>1, UpdatedRecord
  DEF TypeOK, Control, Record, Kernel, Cleared, Past, Closing
<1>6. Kernel(q)'
  BY <1>0, <1>1, UpdatedRecord
  DEF TypeOK, Control, Kernel, Cleared, Past, Closing
<1>7. Leftover(q)'
  BY <1>0 DEF Record, Kernel, Leftover, Cleared, Past, Closing
<1>8. SavedInv'
  BY <1>0, <1>1 DEF TypeOK, SavedInv, ManifestFiles, Closing, Past
<1>9. ImageInv'
  BY <1>0, <1>1, UpdatedRecord
  DEF Control, Kernel, ImageInv, HashIsOfOwnImage, Past
<1>. QED  BY <1>1, <1>2, <1>3, <1>4, <1>5, <1>6, <1>7, <1>8, <1>9
          DEF Inv, Consistent

LEMMA InsmodReturnsInv == ASSUME Inv, NEW q \in Runs, InsmodReturns(q) PROVE Inv'
<1>. USE ConstantsAssumption DEF InsmodReturns, Goto, kernel, files
<1>0. /\ TypeOK /\ SavedInv /\ ImageInv
      /\ \A r \in Runs : Consistent(r)
      /\ Control(q) /\ Audited(q) /\ Record(q) /\ Kernel(q) /\ Leftover(q)
  BY DEF Inv, Consistent
<1>1. TypeOK'
  BY <1>0
  DEF TypeOK, Labels, ChildStates, Past, Closing, AfterHash, AfterInsmod
<1>2. ASSUME NEW r \in Runs, r # q PROVE Consistent(r)'
  BY <1>0, <1>2, Others DEF TypeOK
<1>3. Control(q)'
  BY <1>0, <1>1 DEF TypeOK, Control, Past, Closing, AfterHash, AfterInsmod
<1>4. Audited(q)'
  BY <1>0 DEF TypeOK, Audited, AfterHash, AfterInsmod
<1>5. Record(q)'
  BY <1>0, <1>1
  DEF TypeOK, Record, Kernel, Cleared, Past, Closing, AfterHash, AfterInsmod
<1>6. Kernel(q)'
  BY <1>0, <1>1
  DEF TypeOK, Kernel, Cleared, Past, Closing, AfterHash, AfterInsmod
<1>7. Leftover(q)'
  BY <1>0
  DEF TypeOK, Record, Kernel, Leftover, Cleared, Past, Closing, AfterHash,
      AfterInsmod
<1>8. SavedInv'
  BY <1>0, <1>1 DEF TypeOK, SavedInv, ManifestFiles, Closing, Past
<1>9. ImageInv'
  BY <1>0, <1>1 DEF Kernel, ImageInv, HashIsOfOwnImage, Past
<1>. QED  BY <1>1, <1>2, <1>3, <1>4, <1>5, <1>6, <1>7, <1>8, <1>9
          DEF Inv, Consistent

LEMMA InsmodFailedInv == ASSUME Inv, NEW q \in Runs, InsmodFailed(q) PROVE Inv'
<1>. USE ConstantsAssumption DEF InsmodFailed, Goto, Log, kernel
<1>0. /\ TypeOK /\ SavedInv /\ ImageInv
      /\ \A r \in Runs : Consistent(r)
      /\ Control(q) /\ Audited(q) /\ Record(q) /\ Kernel(q) /\ Leftover(q)
  BY DEF Inv, Consistent
<1>1. TypeOK'
  BY <1>0 DEF TypeOK, Labels, ChildStates, Events, Past, Closing
<1>2. ASSUME NEW r \in Runs, r # q PROVE Consistent(r)'
  BY <1>0, <1>2, Others
<1>3. Control(q)'
  BY <1>0, <1>1 DEF Control, Past, Closing
<1>4. Audited(q)'
  BY <1>0 DEF TypeOK, Audited
<1>5. Record(q)'
  BY <1>0, <1>1 DEF Record, Kernel, Cleared, Past, Closing
<1>6. Kernel(q)'
  BY <1>0, <1>1 DEF Kernel, Cleared, Past, Closing
<1>7. Leftover(q)'
  BY <1>0 DEF Record, Kernel, Leftover, Cleared, Past, Closing
<1>8. SavedInv'
  BY <1>0, <1>1 DEF SavedInv, ManifestFiles, Closing, Past
<1>9. ImageInv'
  BY <1>0, <1>1 DEF Kernel, ImageInv, HashIsOfOwnImage, Past
<1>. QED  BY <1>1, <1>2, <1>3, <1>4, <1>5, <1>6, <1>7, <1>8, <1>9
          DEF Inv, Consistent

LEMMA CaptureDmesgInv == ASSUME Inv, NEW q \in Runs, CaptureDmesg(q) PROVE Inv'
<1>. USE ConstantsAssumption DEF CaptureDmesg, Goto, kernel
<1>0. /\ TypeOK /\ SavedInv /\ ImageInv
      /\ \A r \in Runs : Consistent(r)
      /\ Control(q) /\ Audited(q) /\ Record(q) /\ Kernel(q) /\ Leftover(q)
  BY DEF Inv, Consistent
<1>1. TypeOK'
  BY <1>0, UpdatedRecord
  DEF TypeOK, Control, Labels, ChildStates, Places, Past, Closing, DmesgPlace, InOut
<1>2. ASSUME NEW r \in Runs, r # q PROVE Consistent(r)'
  BY <1>0, <1>2, Others DEF TypeOK
<1>3. Control(q)'
  BY <1>0, <1>1, UpdatedRecord
  DEF TypeOK, Control, Past, Closing, DmesgPlace, InOut, Places
<1>4. Audited(q)'
  BY <1>0 DEF Audited
<1>5. Record(q)'
  BY <1>0, <1>1, UpdatedRecord
  DEF TypeOK, Control, Audited, Record, Kernel, Cleared, Past, Closing,
      DmesgPlace, InOut, Places
<1>6. Kernel(q)'
  BY <1>0, <1>1, UpdatedRecord
  DEF TypeOK, Kernel, Cleared, Past, Closing, DmesgPlace, InOut, Places
<1>7. Leftover(q)'
  BY <1>0 DEF Audited, Record, Kernel, Leftover, Cleared, Past, Closing
<1>8. SavedInv'
  BY <1>0, <1>1 DEF TypeOK, SavedInv, ManifestFiles, Closing, Past
<1>9. ImageInv'
  BY <1>0, <1>1, UpdatedRecord
  DEF TypeOK, Control, Kernel, ImageInv, HashIsOfOwnImage, Past, DmesgPlace,
      InOut, Places
<1>. QED  BY <1>1, <1>2, <1>3, <1>4, <1>5, <1>6, <1>7, <1>8, <1>9
          DEF Inv, Consistent

LEMMA HashInv == ASSUME Inv, NEW q \in Runs, Hash(q) PROVE Inv'
<1>. USE ConstantsAssumption DEF Hash, Goto, Log, kernel
<1>0. /\ TypeOK /\ SavedInv /\ ImageInv
      /\ \A r \in Runs : Consistent(r)
      /\ Control(q) /\ Audited(q) /\ Record(q) /\ Kernel(q) /\ Leftover(q)
  BY DEF Inv, Consistent
<1>1. TypeOK'
  BY <1>0, UpdatedRecord
  DEF TypeOK, Control, Labels, ChildStates, Events, Past, Closing, AfterHash
<1>2. ASSUME NEW r \in Runs, r # q PROVE Consistent(r)'
  BY <1>0, <1>2, Others DEF TypeOK
<1>3. Control(q)'
  BY <1>0, <1>1, UpdatedRecord DEF TypeOK, Control, Past, Closing, AfterHash
<1>4. Audited(q)'
  BY <1>0 DEF Audited, AfterHash
<1>5. Record(q)'
  BY <1>0, <1>1, UpdatedRecord
  DEF TypeOK, Record, Kernel, Cleared, Past, Closing, AfterHash
<1>6. Kernel(q)'
  BY <1>0, <1>1, UpdatedRecord
  DEF TypeOK, Kernel, Cleared, Past, Closing, AfterHash
<1>7. Leftover(q)'
  BY <1>0 DEF Record, Kernel, Leftover, Cleared, Past, Closing, AfterHash
<1>8. SavedInv'
  BY <1>0, <1>1 DEF TypeOK, SavedInv, ManifestFiles, Closing, Past
<1>9. ImageInv'
  <2>1. image \in Dumps(q)
    BY <1>0 DEF Control, Kernel, ImageInv
  <2>2. \A r \in Runs : acq'[r].image # acq[r].image => r = q /\ acq'[q].image = image
    BY <1>0, UpdatedRecord DEF TypeOK, Control, Past
  <2>3. acq[q] # None
    BY <1>0, ConstantsAssumption DEF Control, Past
  <2>. QED  BY <1>0, <2>1, <2>2, <2>3 DEF TypeOK, ImageInv, HashIsOfOwnImage
<1>. QED  BY <1>1, <1>2, <1>3, <1>4, <1>5, <1>6, <1>7, <1>8, <1>9
          DEF Inv, Consistent

LEMMA RmmodInv == ASSUME Inv, NEW q \in Runs, Rmmod(q) PROVE Inv'
<1>. USE ConstantsAssumption DEF Rmmod, Goto, Log
<1>0. /\ TypeOK /\ SavedInv /\ ImageInv
      /\ \A r \in Runs : Consistent(r)
      /\ Control(q) /\ Audited(q) /\ Record(q) /\ Kernel(q) /\ Leftover(q)
  BY DEF Inv, Consistent
<1>1. TypeOK'
  BY <1>0, UpdatedRecord
  DEF TypeOK, Control, Labels, ChildStates, Events, Past, Closing
<1>2. ASSUME NEW r \in Runs, r # q PROVE Consistent(r)'
  BY <1>0, <1>2, Others DEF TypeOK, Kernel
<1>3. Control(q)'
  BY <1>0, <1>1, UpdatedRecord DEF TypeOK, Control, Past, Closing
<1>4. Audited(q)'
  BY <1>0 DEF Audited
<1>5. Record(q)'
  BY <1>0, <1>1, UpdatedRecord
  DEF TypeOK, Record, Kernel, Cleared, Past, Closing
<1>6. Kernel(q)'
  BY <1>0, <1>1, UpdatedRecord DEF TypeOK, Kernel, Cleared, Past, Closing
<1>7. Leftover(q)'
  BY <1>0 DEF Record, Kernel, Leftover, Cleared, Past, Closing
<1>8. SavedInv'
  BY <1>0, <1>1 DEF TypeOK, SavedInv, ManifestFiles, Closing, Past
<1>9. ImageInv'
  BY <1>0, <1>1, UpdatedRecord
  DEF TypeOK, Kernel, ImageInv, HashIsOfOwnImage, Past
<1>. QED  BY <1>1, <1>2, <1>3, <1>4, <1>5, <1>6, <1>7, <1>8, <1>9
          DEF Inv, Consistent

LEMMA TruncateInv == ASSUME Inv, NEW q \in Runs, Truncate(q) PROVE Inv'
<1>. USE ConstantsAssumption DEF Truncate, Goto, Exit, kernel
<1>0. /\ TypeOK /\ SavedInv /\ ImageInv
      /\ \A r \in Runs : Consistent(r)
      /\ Control(q) /\ Audited(q) /\ Record(q) /\ Kernel(q) /\ Leftover(q)
  BY DEF Inv, Consistent
<1>1. TypeOK'
  BY <1>0 DEF TypeOK, Labels, ChildStates, Past, Closing
<1>2. ASSUME NEW r \in Runs, r # q PROVE Consistent(r)'
  BY <1>0, <1>2, Others DEF TypeOK
<1>3. Control(q)'
  BY <1>0, <1>1 DEF TypeOK, Control, Past, Closing
<1>4. Audited(q)'
  BY <1>0 DEF TypeOK, Audited
<1>5. Record(q)'
  BY <1>0, <1>1 DEF TypeOK, Record, Kernel, Cleared, Past, Closing
<1>6. Kernel(q)'
  BY <1>0, <1>1 DEF TypeOK, Kernel, Cleared, Past, Closing
<1>7. Leftover(q)'
  BY <1>0 DEF TypeOK, Record, Kernel, Leftover, Cleared, Past, Closing
<1>8. SavedInv'
  BY <1>0, <1>1 DEF TypeOK, SavedInv, ManifestFiles, Closing, Past
<1>9. ImageInv'
  BY <1>0, <1>1 DEF Kernel, ImageInv, HashIsOfOwnImage, Past
<1>. QED  BY <1>1, <1>2, <1>3, <1>4, <1>5, <1>6, <1>7, <1>8, <1>9
          DEF Inv, Consistent

LEMMA WriteInv == ASSUME Inv, NEW q \in Runs, Write(q) PROVE Inv'
<1>. USE ConstantsAssumption DEF Write, Goto, Exit, kernel
<1>0. /\ TypeOK /\ SavedInv /\ ImageInv
      /\ \A r \in Runs : Consistent(r)
      /\ Control(q) /\ Audited(q) /\ Record(q) /\ Kernel(q) /\ Leftover(q)
  BY DEF Inv, Consistent
<1>1. TypeOK'
  <2>1. [run |-> q, acq |-> acq[q]] \in ManifestFiles
    BY <1>0 DEF Control, Closing, ManifestFiles
  <2>. QED  BY <1>0, <2>1 DEF TypeOK, Labels
<1>2. ASSUME NEW r \in Runs, r # q PROVE Consistent(r)'
  BY <1>0, <1>2, Others DEF TypeOK
<1>3. Control(q)'
  BY <1>0, <1>1 DEF TypeOK, Control, Past, Closing
<1>4. Audited(q)'
  BY <1>0 DEF TypeOK, Audited
<1>5. Record(q)'
  BY <1>0, <1>1 DEF TypeOK, Record, Kernel, Cleared, Past, Closing
<1>6. Kernel(q)'
  BY <1>0, <1>1 DEF TypeOK, Kernel, Cleared, Past, Closing
<1>7. Leftover(q)'
  BY <1>0 DEF TypeOK, Record, Kernel, Leftover, Cleared, Past, Closing
<1>8. SavedInv'
  BY <1>0, <1>1 DEF TypeOK, Record, SavedInv, ManifestFiles, Closing, Past
<1>9. ImageInv'
  BY <1>0, <1>1 DEF Kernel, ImageInv, HashIsOfOwnImage, Past
<1>. QED  BY <1>1, <1>2, <1>3, <1>4, <1>5, <1>6, <1>7, <1>8, <1>9
          DEF Inv, Consistent

LEMMA WriteFailsInv == ASSUME Inv, NEW q \in Runs, WriteFails(q) PROVE Inv'
<1>. USE ConstantsAssumption DEF WriteFails, Goto, Exit, kernel, files
<1>0. /\ TypeOK /\ SavedInv /\ ImageInv
      /\ \A r \in Runs : Consistent(r)
      /\ Control(q) /\ Audited(q) /\ Record(q) /\ Kernel(q) /\ Leftover(q)
  BY DEF Inv, Consistent
<1>1. TypeOK'
  BY <1>0 DEF TypeOK, Labels, ChildStates, Past, Closing
<1>2. ASSUME NEW r \in Runs, r # q PROVE Consistent(r)'
  BY <1>0, <1>2, Others
<1>3. Control(q)'
  BY <1>0, <1>1 DEF Control, Past, Closing
<1>4. Audited(q)'
  BY <1>0 DEF Audited
<1>5. Record(q)'
  BY <1>0, <1>1 DEF Record, Kernel, Cleared, Past, Closing
<1>6. Kernel(q)'
  BY <1>0, <1>1 DEF Kernel, Cleared, Past, Closing
<1>7. Leftover(q)'
  BY <1>0 DEF Record, Kernel, Leftover, Cleared, Past, Closing
<1>8. SavedInv'
  BY <1>0, <1>1 DEF SavedInv, ManifestFiles, Closing, Past
<1>9. ImageInv'
  BY <1>0, <1>1 DEF Kernel, ImageInv, HashIsOfOwnImage, Past
<1>. QED  BY <1>1, <1>2, <1>3, <1>4, <1>5, <1>6, <1>7, <1>8, <1>9
          DEF Inv, Consistent

LEMMA DoneInv == ASSUME Inv, NEW q \in Runs, Done(q) PROVE Inv'
<1>. USE ConstantsAssumption DEF Done, Goto, Exit, Log, kernel
<1>0. /\ TypeOK /\ SavedInv /\ ImageInv
      /\ \A r \in Runs : Consistent(r)
      /\ Control(q) /\ Audited(q) /\ Record(q) /\ Kernel(q) /\ Leftover(q)
  BY DEF Inv, Consistent
<1>1. TypeOK'
  BY <1>0 DEF TypeOK, Labels, ChildStates, Events, Past, Closing
<1>2. ASSUME NEW r \in Runs, r # q PROVE Consistent(r)'
  BY <1>0, <1>2, Others
<1>3. Control(q)'
  BY <1>0, <1>1 DEF Control, Past, Closing
<1>4. Audited(q)'
  BY <1>0 DEF TypeOK, Audited
<1>5. Record(q)'
  BY <1>0, <1>1 DEF Record, Kernel, Cleared, Past, Closing
<1>6. Kernel(q)'
  BY <1>0, <1>1 DEF Kernel, Cleared, Past, Closing
<1>7. Leftover(q)'
  BY <1>0 DEF Audited, Record, Kernel, Leftover, Cleared, Past, Closing
<1>8. SavedInv'
  BY <1>0, <1>1 DEF SavedInv, ManifestFiles, Closing, Past
<1>9. ImageInv'
  BY <1>0, <1>1 DEF Kernel, ImageInv, HashIsOfOwnImage, Past
<1>. QED  BY <1>1, <1>2, <1>3, <1>4, <1>5, <1>6, <1>7, <1>8, <1>9
          DEF Inv, Consistent

LEMMA KernelLoadsInv == ASSUME Inv, NEW q \in Runs, KernelLoads(q) PROVE Inv'
<1>. USE ConstantsAssumption DEF KernelLoads, process, files
<1>0. /\ TypeOK /\ SavedInv /\ ImageInv
      /\ \A r \in Runs : Consistent(r)
      /\ Control(q) /\ Audited(q) /\ Record(q) /\ Kernel(q) /\ Leftover(q)
  BY DEF Inv, Consistent
<1>1. TypeOK'
  <2>1. image' \in Images \cup {None}
    BY <1>0 DEF TypeOK, Images, Dumps
  <2>. QED  BY <1>0, <2>1 DEF TypeOK, ChildStates
<1>2. ASSUME NEW r \in Runs, r # q PROVE Consistent(r)'
  BY <1>0, <1>2, Others
<1>3. Control(q)'
  BY <1>0, <1>1 DEF Control, Past, Closing
<1>4. Audited(q)'
  BY <1>0 DEF Audited
<1>5. Record(q)'
  BY <1>0, <1>1 DEF Record, Kernel, Cleared, Past, Closing
<1>6. Kernel(q)'
  BY <1>0, <1>1 DEF TypeOK, Kernel, Cleared, Past, Closing
<1>7. Leftover(q)'
  BY <1>0 DEF Record, Kernel, Leftover, Cleared, Past, Closing
<1>8. SavedInv'
  BY <1>0, <1>1 DEF SavedInv, ManifestFiles, Closing, Past
<1>9. ImageInv'
  BY <1>0, <1>1 DEF Kernel, ImageInv, HashIsOfOwnImage, Past
<1>. QED  BY <1>1, <1>2, <1>3, <1>4, <1>5, <1>6, <1>7, <1>8, <1>9
          DEF Inv, Consistent

LEMMA KernelRefusesInv == ASSUME Inv, NEW q \in Runs, KernelRefuses(q) PROVE Inv'
<1>. USE ConstantsAssumption DEF KernelRefuses, process, files
<1>0. /\ TypeOK /\ SavedInv /\ ImageInv
      /\ \A r \in Runs : Consistent(r)
      /\ Control(q) /\ Audited(q) /\ Record(q) /\ Kernel(q) /\ Leftover(q)
  BY DEF Inv, Consistent
<1>1. TypeOK'
  <2>1. [by |-> q, full |-> FALSE] \in Images
    BY DEF Images
  <2>. QED  BY <1>0, <2>1 DEF TypeOK, ChildStates
<1>2. ASSUME NEW r \in Runs, r # q PROVE Consistent(r)'
  BY <1>0, <1>2, Others
<1>3. Control(q)'
  BY <1>0, <1>1 DEF Control, Past, Closing
<1>4. Audited(q)'
  BY <1>0 DEF Audited
<1>5. Record(q)'
  BY <1>0, <1>1 DEF Record, Kernel, Cleared, Past, Closing
<1>6. Kernel(q)'
  BY <1>0, <1>1 DEF Kernel, Cleared, Past, Closing
<1>7. Leftover(q)'
  BY <1>0 DEF Record, Kernel, Leftover, Cleared, Past, Closing
<1>8. SavedInv'
  BY <1>0, <1>1 DEF SavedInv, ManifestFiles, Closing, Past
<1>9. ImageInv'
  BY <1>0, <1>1 DEF Kernel, ImageInv, HashIsOfOwnImage, Past
<1>. QED  BY <1>1, <1>2, <1>3, <1>4, <1>5, <1>6, <1>7, <1>8, <1>9
          DEF Inv, Consistent

LEMMA InsmodExitsInv == ASSUME Inv, NEW q \in Runs, InsmodExits(q) PROVE Inv'
<1>. USE ConstantsAssumption DEF InsmodExits, process, files
<1>0. /\ TypeOK /\ SavedInv /\ ImageInv
      /\ \A r \in Runs : Consistent(r)
      /\ Control(q) /\ Audited(q) /\ Record(q) /\ Kernel(q) /\ Leftover(q)
  BY DEF Inv, Consistent
<1>1. TypeOK'
  BY <1>0 DEF TypeOK, ChildStates, Past, Closing
<1>2. ASSUME NEW r \in Runs, r # q PROVE Consistent(r)'
  BY <1>0, <1>2, Others
<1>3. Control(q)'
  BY <1>0, <1>1 DEF Control, Past, Closing
<1>4. Audited(q)'
  BY <1>0 DEF Audited
<1>5. Record(q)'
  BY <1>0, <1>1 DEF Record, Kernel, Cleared, Past, Closing
<1>6. Kernel(q)'
  BY <1>0, <1>1 DEF Kernel, Cleared, Past, Closing
<1>7. Leftover(q)'
  BY <1>0 DEF Record, Kernel, Leftover, Cleared, Past, Closing
<1>8. SavedInv'
  BY <1>0, <1>1 DEF SavedInv, ManifestFiles, Closing, Past
<1>9. ImageInv'
  BY <1>0, <1>1 DEF Kernel, ImageInv, HashIsOfOwnImage, Past
<1>. QED  BY <1>1, <1>2, <1>3, <1>4, <1>5, <1>6, <1>7, <1>8, <1>9
          DEF Inv, Consistent

LEMMA InsmodKilledInv == ASSUME Inv, NEW q \in Runs, InsmodKilled(q) PROVE Inv'
<1>. USE ConstantsAssumption DEF InsmodKilled, process, files
<1>0. /\ TypeOK /\ SavedInv /\ ImageInv
      /\ \A r \in Runs : Consistent(r)
      /\ Control(q) /\ Audited(q) /\ Record(q) /\ Kernel(q) /\ Leftover(q)
  BY DEF Inv, Consistent
<1>1. TypeOK'
  BY <1>0 DEF TypeOK, ChildStates, Past, Closing
<1>2. ASSUME NEW r \in Runs, r # q PROVE Consistent(r)'
  BY <1>0, <1>2, Others
<1>3. Control(q)'
  BY <1>0, <1>1 DEF Control, Past, Closing
<1>4. Audited(q)'
  BY <1>0 DEF Audited
<1>5. Record(q)'
  BY <1>0, <1>1 DEF Record, Kernel, Cleared, Past, Closing
<1>6. Kernel(q)'
  BY <1>0, <1>1 DEF Kernel, Cleared, Past, Closing
<1>7. Leftover(q)'
  BY <1>0 DEF Record, Kernel, Leftover, Cleared, Past, Closing
<1>8. SavedInv'
  BY <1>0, <1>1 DEF SavedInv, ManifestFiles, Closing, Past
<1>9. ImageInv'
  BY <1>0, <1>1 DEF Kernel, ImageInv, HashIsOfOwnImage, Past
<1>. QED  BY <1>1, <1>2, <1>3, <1>4, <1>5, <1>6, <1>7, <1>8, <1>9
          DEF Inv, Consistent

LEMMA LimeFlushesInv == ASSUME Inv, NEW q \in Runs, LimeFlushes(q) PROVE Inv'
<1>. USE ConstantsAssumption DEF LimeFlushes, process, files
<1>0. /\ TypeOK /\ SavedInv /\ ImageInv
      /\ \A r \in Runs : Consistent(r)
      /\ Control(q) /\ Audited(q) /\ Record(q) /\ Kernel(q) /\ Leftover(q)
  BY DEF Inv, Consistent
<1>1. TypeOK'
  BY <1>0 DEF TypeOK, Images
<1>2. ASSUME NEW r \in Runs, r # q PROVE Consistent(r)'
  BY <1>0, <1>2, Others
<1>3. Control(q)'
  BY <1>0, <1>1 DEF Control, Past, Closing
<1>4. Audited(q)'
  BY <1>0 DEF Audited
<1>5. Record(q)'
  BY <1>0, <1>1 DEF Record, Kernel, Cleared, Past, Closing
<1>6. Kernel(q)'
  BY <1>0, <1>1 DEF Kernel, Cleared, Past, Closing
<1>7. Leftover(q)'
  BY <1>0 DEF Record, Kernel, Leftover, Cleared, Past, Closing
<1>8. SavedInv'
  BY <1>0, <1>1 DEF SavedInv, ManifestFiles, Closing, Past
<1>9. ImageInv'
  <2>1. [by |-> q, full |-> TRUE] \in Dumps(q)
    BY DEF Dumps
  <2>. QED  BY <1>0, <1>1, <2>1 DEF ImageInv, HashIsOfOwnImage
<1>. QED  BY <1>1, <1>2, <1>3, <1>4, <1>5, <1>6, <1>7, <1>8, <1>9
          DEF Inv, Consistent

LEMMA InterruptInv == ASSUME Inv, NEW q \in Runs, Interrupt(q) PROVE Inv'
<1>. USE ConstantsAssumption DEF Interrupt, Active, kernel, files
<1>0. /\ TypeOK /\ SavedInv /\ ImageInv
      /\ \A r \in Runs : Consistent(r)
      /\ Control(q) /\ Audited(q) /\ Record(q) /\ Kernel(q) /\ Leftover(q)
  BY DEF Inv, Consistent
<1>1. TypeOK'
  BY <1>0 DEF TypeOK, ChildStates, Past, Closing
<1>2. ASSUME NEW r \in Runs, r # q PROVE Consistent(r)'
  BY <1>0, <1>2, Others
<1>3. Control(q)'
  BY <1>0, <1>1 DEF Control, Past, Closing
<1>4. Audited(q)'
  BY <1>0 DEF Audited
<1>5. Record(q)'
  BY <1>0, <1>1 DEF Record, Kernel, Cleared, Past, Closing
<1>6. Kernel(q)'
  BY <1>0, <1>1 DEF Kernel, Cleared, Past, Closing
<1>7. Leftover(q)'
  BY <1>0 DEF Record, Kernel, Leftover, Cleared, Past, Closing
<1>8. SavedInv'
  BY <1>0, <1>1 DEF SavedInv, ManifestFiles, Closing, Past
<1>9. ImageInv'
  BY <1>0, <1>1 DEF Kernel, ImageInv, HashIsOfOwnImage, Past
<1>. QED  BY <1>1, <1>2, <1>3, <1>4, <1>5, <1>6, <1>7, <1>8, <1>9
          DEF Inv, Consistent

LEMMA CrashInv == ASSUME Inv, NEW q \in Runs, Crash(q) PROVE Inv'
<1>. USE ConstantsAssumption DEF Crash, Active, Goto, kernel, files
<1>0. /\ TypeOK /\ SavedInv /\ ImageInv
      /\ \A r \in Runs : Consistent(r)
      /\ Control(q) /\ Audited(q) /\ Record(q) /\ Kernel(q) /\ Leftover(q)
  BY DEF Inv, Consistent
<1>1. TypeOK'
  BY <1>0 DEF TypeOK, Labels, ChildStates, Past, Closing
<1>2. ASSUME NEW r \in Runs, r # q PROVE Consistent(r)'
  BY <1>0, <1>2, Others
<1>3. Control(q)'
  BY <1>0, <1>1 DEF Control, Past, Closing
<1>4. Audited(q)'
  BY <1>0 DEF Audited
<1>5. Record(q)'
  BY <1>0, <1>1 DEF Record, Kernel, Cleared, Past, Closing
<1>6. Kernel(q)'
  BY <1>0, <1>1 DEF Kernel, Cleared, Past, Closing
<1>7. Leftover(q)'
  BY <1>0 DEF Record, Kernel, Leftover, Cleared, Past, Closing
<1>8. SavedInv'
  BY <1>0, <1>1 DEF SavedInv, ManifestFiles, Closing, Past
<1>9. ImageInv'
  BY <1>0, <1>1 DEF Kernel, ImageInv, HashIsOfOwnImage, Past
<1>. QED  BY <1>1, <1>2, <1>3, <1>4, <1>5, <1>6, <1>7, <1>8, <1>9
          DEF Inv, Consistent

LEMMA DiskFillsInv == ASSUME Inv, DiskFills PROVE Inv'
<1>. USE DEF DiskFills, process, kernel
<1>1. TypeOK'
  BY DEF Inv, TypeOK
<1>2. ASSUME NEW r \in Runs PROVE Consistent(r)'
  BY Others DEF Inv
<1>3. SavedInv' /\ ImageInv'
  BY DEF Inv, SavedInv, ImageInv, HashIsOfOwnImage
<1>. QED  BY <1>1, <1>2, <1>3 DEF Inv

LEMMA StutterInv == ASSUME Inv, UNCHANGED vars PROVE Inv'
<1>. USE DEF vars, process, kernel, files
<1>1. TypeOK'
  BY DEF Inv, TypeOK
<1>2. ASSUME NEW r \in Runs PROVE Consistent(r)'
  BY Others DEF Inv
<1>3. SavedInv' /\ ImageInv'
  BY DEF Inv, SavedInv, ImageInv, HashIsOfOwnImage
<1>. QED  BY <1>1, <1>2, <1>3 DEF Inv

LEMMA NextInv == Inv /\ [Next]_vars => Inv'
<1>. SUFFICES ASSUME Inv, [Next]_vars PROVE Inv'
  OBVIOUS
<1>1. ASSUME NEW q \in Runs, Step(q) PROVE Inv'
  BY <1>1, RejectInv, PlanInv, InsmodInv, InsmodReturnsInv, InsmodFailedInv,
     CaptureDmesgInv, HashInv, RmmodInv, TruncateInv, WriteInv, WriteFailsInv,
     DoneInv
  DEF Step
<1>2. ASSUME NEW q \in Runs, Environment(q) PROVE Inv'
  BY <1>2, KernelLoadsInv, KernelRefusesInv, InsmodExitsInv, InsmodKilledInv,
     LimeFlushesInv, InterruptInv, CrashInv
  DEF Environment
<1>. QED  BY <1>1, <1>2, StartInv, DiskFillsInv, StutterInv DEF Next

(* The inductive invariant holds in every behaviour; the theorems below are *)
(* its consequences.                                                        *)
THEOREM Invariance == Spec => []Inv
BY InitInv, NextInv, PTL DEF Spec

(* Every variable has its type, in particular no record is read before it   *)
(* exists.                                                                  *)
THEOREM TypeCorrect == Spec => []TypeOK
<1>1. Inv => TypeOK
  BY DEF Inv
<1>. QED  BY <1>1, Invariance, PTL

(* The safety gate: the kernel is only ever touched for an invocation given *)
(* --execute, without --dry-run, whose plan is on record                    *)
(* (acquire.go:136-152, cli/acquire.go:52-92).                              *)
THEOREM GateHolds == Spec => []ExecuteGate
<1>1. Inv => ExecuteGate
  <2>. SUFFICES ASSUME Inv, NEW r \in Runs, child[r] # "none" \/ loader = r
                PROVE  /\ Authorised(r) /\ opt[r].privileged /\ opt[r].valid
                       /\ <<r, "acquire.plan">> \in log \/ diskFull
    BY DEF ExecuteGate
  <2>1. Kernel(r) /\ Record(r) /\ acq[r] # None
    BY ConstantsAssumption DEF Inv, Consistent, Kernel
  <2>. QED  BY <2>1 DEF Authorised, Record, Kernel, Cleared
<1>. QED  BY <1>1, Invariance, PTL

(* A saved manifest never misreports a dry run as an acquisition or an      *)
(* acquisition as a dry run (acquire.go:129-151, cli/acquire.go:110-121).   *)
THEOREM ManifestTruthful == Spec => []ManifestTellsTheTruth
<1>1. Inv => ManifestTellsTheTruth
  <2>. SUFFICES ASSUME Inv, manifest \in ManifestFiles
                PROVE  ManifestTellsTheTruth
    BY DEF ManifestTellsTheTruth
  <2>. DEFINE r == manifest.run
  <2>1. r \in Runs /\ manifest.acq = acq[r] /\ manifest.acq \in Acquisition
    BY DEF ManifestFiles, Inv, SavedInv
  <2>2. Consistent(r) /\ acq[r] # None
    BY <2>1, ConstantsAssumption DEF Inv
  <2>. QED  BY <2>1, <2>2
            DEF ManifestTellsTheTruth, Inv, SavedInv, Authorised, Consistent,
                Record, Kernel, Cleared
<1>. QED  BY <1>1, Invariance, PTL

(* An invocation whose insmod failed never ends as a success, and a success *)
(* that leaves the module behind against --rmmod says so                    *)
(* (acquire.go:154-182, cli/acquire.go:110-117).                            *)
THEOREM FailuresTold == Spec => []FailuresAreTold
<1>1. ASSUME Inv, NEW r \in Runs, <<r, "insmod.failed">> \in log
      PROVE  code[r] = 1 /\ <<r, "acquire.done">> \notin log
  BY <1>1 DEF Inv, Consistent, Audited
<1>2. ASSUME Inv, NEW r \in Runs, loader = r,
             pc[r] \in {"save", "write", "report", "done"}
      PROVE  /\ ~acq[r].rmmodPerformed
             /\ (pc[r] = "done" /\ code[r] = 0 /\ opt[r].rmmod)
                   => <<r, "rmmod.failed">> \in log \/ diskFull
  <2>1. Consistent(r) /\ acq[r] # None
    BY <1>2, ConstantsAssumption DEF Inv, Consistent, Kernel
  <2>. QED  BY <1>2, <2>1 DEF Consistent, Record, Leftover, Closing
<1>3. Inv => FailuresAreTold
  BY <1>1, <1>2 DEF FailuresAreTold
<1>. QED  BY <1>3, Invariance, PTL

(* A recorded image hash is that of the invocation's own image, and of all  *)
(* of it if LiME is done by the time insmod returns (acquire.go:163-173).   *)
THEOREM HashIsOwn == Spec => []HashIsOfOwnImage
<1>1. Inv => HashIsOfOwnImage
  BY DEF Inv, ImageInv
<1>. QED  BY <1>1, Invariance, PTL

(* No step removes a module other than its own invocation's                 *)
(* (acquire.go:154-161,175-176).                                            *)
THEOREM OwnModuleOnly == Spec => RemovesOwnModule
<1>1. Inv /\ [Next]_vars =>
        [\A r \in Runs : loader = r /\ loader' # r =>
            /\ loader' = None
            /\ pc[r] = "rmmod" /\ opt[r].rmmod /\ child[r] = "ok"]_vars
  <2>. SUFFICES ASSUME Inv, Next, NEW r \in Runs, loader = r, loader' # r
                PROVE  /\ loader' = None
                       /\ pc[r] = "rmmod" /\ opt[r].rmmod /\ child[r] = "ok"
    OBVIOUS
  <2>1. PICK q \in Runs : Rmmod(q)
    BY ConstantsAssumption
    DEF Next, Start, Step, Environment, Reject, Plan, Insmod, InsmodReturns,
        InsmodFailed, CaptureDmesg, Hash, Truncate, Write, WriteFails, Done,
        KernelLoads, KernelRefuses, InsmodExits, InsmodKilled, LimeFlushes,
        Interrupt, Crash, DiskFills, kernel
  <2>2. q = r
    BY <2>1, ConstantsAssumption DEF Rmmod, Inv, Consistent, Kernel
  <2>. QED  BY <2>1, <2>2 DEF Rmmod, Inv, Consistent, Control, Kernel
<1>. QED  BY <1>1, Invariance, PTL DEF Spec, RemovesOwnModule

-----------------------------------------------------------------------------
(* Writes outside the case directory. *)

(* Only CaptureDmesg writes a dmesg, and only the kernel an image.          *)
LEMMA OnlyDmesg ==
  ASSUME [Next]_vars
  PROVE  dmesgFile' = dmesgFile \/ \E q \in Runs : CaptureDmesg(q)
BY DEF Next, vars, Start, Step, Environment, Reject, Plan, Insmod,
       InsmodReturns, InsmodFailed, Hash, Rmmod, Truncate, Write, WriteFails,
       Done, KernelLoads, KernelRefuses, InsmodExits, InsmodKilled,
       LimeFlushes, Interrupt, Crash, DiskFills, process, kernel, files

LEMMA OnlyKernel ==
  ASSUME [Next]_vars
  PROVE  image' = image \/ \E q \in Runs :
            KernelLoads(q) \/ KernelRefuses(q) \/ LimeFlushes(q)
BY DEF Next, vars, Start, Step, Environment, Reject, Plan, Insmod,
       InsmodReturns, InsmodFailed, CaptureDmesg, Hash, Rmmod, Truncate, Write,
       WriteFails, Done, InsmodExits, InsmodKilled, Interrupt, Crash, DiskFills,
       process, kernel, files

(* An insmod that was started stays so, and its flags with it.              *)
LEMMA StartedForGood ==
  ASSUME Inv, [Next]_vars, NEW r \in Runs, child[r] # "none"
  PROVE  child'[r] # "none" /\ opt'[r] = opt[r]
<1>. USE DEF process, kernel, files
<1>1. ASSUME NEW q \in Runs, Start(q) PROVE child'[r] # "none" /\ opt'[r] = opt[r]
  BY <1>1 DEF Start, Inv, TypeOK, Consistent, Kernel
<1>2. CASE UNCHANGED vars \/ DiskFills
  BY <1>2 DEF vars, DiskFills
<1>3. ASSUME NEW q \in Runs, Step(q) PROVE child'[r] # "none" /\ opt'[r] = opt[r]
  BY <1>3
  DEF Step, Reject, Plan, Insmod, InsmodReturns, InsmodFailed, CaptureDmesg,
      Hash, Rmmod, Truncate, Write, WriteFails, Done, Inv, TypeOK
<1>4. ASSUME NEW q \in Runs, Environment(q)
      PROVE  child'[r] # "none" /\ opt'[r] = opt[r]
  BY <1>4
  DEF Environment, KernelLoads, KernelRefuses, InsmodExits, InsmodKilled,
      LimeFlushes, Interrupt, Crash, Inv, TypeOK
<1>. QED  BY <1>1, <1>2, <1>3, <1>4 DEF Next

(* An image is that of an insmod which was started in file mode.            *)
Aimed == image # None => child[image.by] # "none" /\ opt[image.by].mode = "file"

LEMMA AimedInv == Inv /\ Aimed /\ [Next]_vars => Aimed'
<1>. SUFFICES ASSUME Inv, Aimed, [Next]_vars, image' # None
              PROVE  child'[image'.by] # "none" /\ opt'[image'.by].mode = "file"
  BY DEF Aimed
<1>1. CASE image' = image
  BY <1>1, StartedForGood DEF Aimed, Inv, TypeOK, Images
<1>2. CASE image' # image
  <2>1. PICK q \in Runs : KernelLoads(q) \/ KernelRefuses(q) \/ LimeFlushes(q)
    BY <1>2, OnlyKernel
  <2>2. CASE LimeFlushes(q)
    <3>1. image = [by |-> q, full |-> FALSE] /\ image' = [by |-> q, full |-> TRUE]
      BY <2>2 DEF LimeFlushes
    <3>2. [by |-> q, full |-> FALSE] \in Images
      BY DEF Images
    <3>3. image # None
      BY <3>1, <3>2, ConstantsAssumption
    <3>4. child' = child /\ opt' = opt
      BY <2>2 DEF LimeFlushes, process
    <3>. QED  BY <3>1, <3>3, <3>4 DEF Aimed
  <2>3. CASE KernelLoads(q) \/ KernelRefuses(q)
    <3>1. /\ opt[q].mode = "file"
          /\ image' \in [by : {q}, full : BOOLEAN]
      <4>1. CASE KernelLoads(q)
        <5>1. opt[q].mode = "file" /\ image' \in Dumps(q)
          BY <1>2, <4>1 DEF KernelLoads
        <5>. QED  BY <5>1, ConstantsAssumption DEF Dumps
      <4>2. CASE KernelRefuses(q)
        <5>1. opt[q].mode = "file" /\ image' = [by |-> q, full |-> FALSE]
          BY <1>2, <4>2 DEF KernelRefuses
        <5>. QED  BY <5>1
      <4>. QED  BY <2>3, <4>1, <4>2
    <3>2. opt' = opt
      BY <2>3 DEF KernelLoads, KernelRefuses, process
    <3>3. child'[q] # "none"
      BY <2>3 DEF KernelLoads, KernelRefuses, Inv, TypeOK
    <3>. QED  BY <3>1, <3>2, <3>3
  <2>. QED  BY <2>1, <2>2, <2>3
<1>. QED  BY <1>1, <1>2

(* And nobody takes back what was said of an invocation that failed.        *)
Failed(r) ==
    /\ acq[r] # None /\ ~InOut(opt[r]) /\ Cleared(opt[r]) /\ code[r] = 1
    /\ opt[r] \in Options
    /\ pc[r] \in {"save", "write", "done", "killed"}
    /\ <<r, "insmod.failed">> \in log \/ diskFull

LEMMA FailedForGood ==
  ASSUME TypeOK, [Next]_vars, NEW r \in Runs, Failed(r)
  PROVE  Failed(r)'
<1>. USE DEF Failed, InOut, Goto, Exit, Log, process, kernel, files
<1>1. ASSUME NEW q \in Runs, Start(q) PROVE Failed(r)'
  BY <1>1 DEF TypeOK, Start
<1>2. ASSUME NEW q \in Runs,
             \/ Reject(q) \/ Plan(q) \/ Insmod(q) \/ InsmodReturns(q)
             \/ InsmodFailed(q) \/ CaptureDmesg(q) \/ Hash(q) \/ Rmmod(q)
      PROVE  Failed(r)'
  <2>1. q # r
    BY <1>2
    DEF Reject, Plan, Insmod, InsmodReturns, InsmodFailed, CaptureDmesg, Hash,
        Rmmod
  <2>. QED  BY <1>2, <2>1
            DEF TypeOK, Reject, Plan, Insmod, InsmodReturns, InsmodFailed,
                CaptureDmesg, Hash, Rmmod
<1>3. ASSUME NEW q \in Runs, Truncate(q) \/ Write(q) \/ WriteFails(q) \/ Done(q)
      PROVE  Failed(r)'
  BY <1>3 DEF TypeOK, Truncate, Write, WriteFails, Done
<1>4. ASSUME NEW q \in Runs, Environment(q) PROVE Failed(r)'
  BY <1>4
  DEF TypeOK, Environment, KernelLoads, KernelRefuses, InsmodExits,
      InsmodKilled, LimeFlushes, Interrupt, Crash, Active
<1>5. CASE DiskFills \/ UNCHANGED vars
  BY <1>5 DEF DiskFills, vars
<1>. QED  BY <1>1, <1>2, <1>3, <1>4, <1>5 DEF Next, Step

(* Whoever wrote a dmesg outside the case directory has failed.             *)
Strayed == \A r \in Runs : dmesgFile["elsewhere"] = r => Failed(r)

LEMMA StrayedInv == Inv /\ Strayed /\ [Next]_vars => Strayed'
<1>. SUFFICES ASSUME Inv, Strayed, [Next]_vars, NEW r \in Runs,
                     dmesgFile'["elsewhere"] = r
              PROVE  Failed(r)'
  BY DEF Strayed
<1>1. CASE dmesgFile["elsewhere"] = r
  BY <1>1, FailedForGood DEF Strayed, Inv
<1>2. CASE dmesgFile["elsewhere"] # r
  <2>1. PICK q \in Runs : CaptureDmesg(q)
    BY <1>2, OnlyDmesg
  <2>2. /\ dmesgFile' = [dmesgFile EXCEPT ![DmesgPlace(opt[q])] =
                             IF diskFull /\ DmesgPlace(opt[q]) = "out" THEN None ELSE q]
        /\ pc[q] = "dmesg" /\ pc' = [pc EXCEPT ![q] = "save"]
        /\ UNCHANGED <<opt, code, log, diskFull>>
    BY <1>2, <2>1 DEF CaptureDmesg, Goto
  <2>3. DmesgPlace(opt[q]) = "elsewhere" /\ q = r
    BY <1>2, <2>2, ConstantsAssumption DEF Inv, TypeOK, Places
  <2>4. Consistent(r) /\ Consistent(r)' /\ TypeOK
    BY NextInv DEF Inv
  <2>5. /\ ~InOut(opt[r]) /\ Cleared(opt[r]) /\ code[r] = 1
        /\ opt[r] \in Options
        /\ <<r, "insmod.failed">> \in log \/ diskFull
    BY <2>2, <2>3, <2>4 DEF Consistent, Control, Audited, Past, DmesgPlace
  <2>6. acq'[r] # None /\ pc'[r] = "save"
    BY <2>2, <2>3, <2>4, ConstantsAssumption
    DEF Consistent, Control, Closing, TypeOK
  <2>. QED  BY <2>2, <2>5, <2>6 DEF Failed, InOut
<1>. QED  BY <1>1, <1>2

(* What is written outside --out is an image whose invocation was allowed   *)
(* to load the module and has its --output there, or the dmesg of an        *)
(* invocation whose insmod, allowed, has failed, and which streams the      *)
(* image or has its --output there (cli/acquire.go:75-83,                   *)
(* acquire.go:203-217).                                                     *)
THEOREM StraysAreAsked == Spec => []WritesOutsideAreAsked
<1>1. Init => Strayed /\ Aimed
  BY ConstantsAssumption DEF Init, Strayed, Aimed, Places
<1>2. Spec => []Strayed
  BY <1>1, StrayedInv, Invariance, PTL DEF Spec
<1>3. Spec => []Aimed
  BY <1>1, AimedInv, Invariance, PTL DEF Spec
<1>4. Inv /\ Strayed /\ Aimed => WritesOutsideAreAsked
  <2>. SUFFICES ASSUME Inv, Strayed, Aimed PROVE WritesOutsideAreAsked
    OBVIOUS
  <2>1. Outside /\ image # None =>
            Authorised(image.by) /\ opt[image.by].mode = "file"
    BY DEF Inv, TypeOK, Images, Consistent, Control, Record, Kernel, Aimed,
           Authorised, Cleared
  <2>2. ASSUME NEW r \in Runs, dmesgFile["elsewhere"] = r
        PROVE  /\ Authorised(r) /\ code[r] = 1
               /\ opt[r].mode = "tcp" \/ Outside
               /\ <<r, "insmod.failed">> \in log \/ diskFull
    BY <2>2 DEF Strayed, Failed, Authorised, Cleared, InOut, Options, Modes
  <2>. QED  BY <2>1, <2>2 DEF WritesOutsideAreAsked
<1>. QED  BY <1>2, <1>3, <1>4, Invariance, PTL

-----------------------------------------------------------------------------
(* How an invocation comes to its end. *)

(* The most steps an invocation has left, those of the insmod it waits for  *)
(* included.                                                                *)
StepsLeft(r) ==
    CASE pc[r] = "acquire"      -> 11
      [] pc[r] = "insmod"       -> 10
      [] pc[r] = "insmodWait"   -> 7 + (CASE child[r] = "running" -> 2
                                          [] child[r] = "loaded"  -> 1
                                          [] OTHER                -> 0)
      [] pc[r] = "insmodFailed" -> 6
      [] pc[r] \in {"dmesg", "hash"} -> 5
      [] pc[r] = "rmmod"        -> 4
      [] pc[r] = "save"         -> 3
      [] pc[r] = "write"        -> 2
      [] pc[r] = "report"       -> 1
      [] OTHER                  -> 0

(* None are left just when it is not in progress, and what it waits for is  *)
(* an insmod that was started.                                              *)
StepsCount ==
    \A r \in Runs :
        /\ StepsLeft(r) \in Nat /\ (StepsLeft(r) = 0 <=> ~Active(r))
        /\ pc[r] = "insmodWait" => child[r] # "none"

(* Whatever becomes of it or of its insmod brings it nearer to its end, and *)
(* nothing another invocation, the kernel or a signal does sends it back.   *)
StepsRunOut ==
    [][\A r \in Runs :
          Active(r) /\ ~UNCHANGED <<pc[r], child[r]>> => StepsLeft(r)' < StepsLeft(r)]_vars

LEMMA Countable == ASSUME Inv PROVE StepsCount
BY DEF Inv, TypeOK, Consistent, Kernel, StepsCount, StepsLeft, Active, Labels

LEMMA Nearer ==
  ASSUME Inv, Next, NEW r \in Runs, Active(r), ~UNCHANGED <<pc[r], child[r]>>
  PROVE  StepsLeft(r)' < StepsLeft(r)
<1>1. TypeOK /\ Consistent(r)
  BY DEF Inv
<1>. USE <1>1 DEF TypeOK, Active
<1>2. CASE DiskFills \/ \E q \in Runs : Start(q) \/ LimeFlushes(q) \/ Interrupt(q)
  BY <1>2
  DEF DiskFills, Start, LimeFlushes, Interrupt, process, kernel, Goto, Exit
<1>3. CASE Step(r)
  <2>1. CASE Reject(r) \/ Plan(r) \/ Insmod(r)
    BY <2>1 DEF Reject, Plan, Insmod, Goto, Exit, kernel, StepsLeft
  <2>2. CASE InsmodReturns(r) \/ InsmodFailed(r) \/ CaptureDmesg(r)
    BY <2>2
    DEF InsmodReturns, InsmodFailed, CaptureDmesg, Goto, kernel, StepsLeft,
        AfterInsmod, AfterHash
  <2>3. CASE Hash(r) \/ Rmmod(r)
    BY <2>3 DEF Hash, Rmmod, Goto, kernel, StepsLeft, AfterHash
  <2>4. CASE Truncate(r) \/ Write(r) \/ WriteFails(r) \/ Done(r)
    BY <2>4
    DEF Truncate, Write, WriteFails, Done, Goto, Exit, kernel, StepsLeft
  <2>. QED  BY <1>3, <2>1, <2>2, <2>3, <2>4 DEF Step
<1>4. CASE KernelLoads(r) \/ KernelRefuses(r) \/ InsmodExits(r) \/ InsmodKilled(r)
  <2>1. pc[r] = "insmodWait" /\ UNCHANGED pc
    BY <1>4
    DEF KernelLoads, KernelRefuses, InsmodExits, InsmodKilled, process,
        Consistent, Kernel, Closing, Labels
  <2>. QED  BY <1>4, <2>1
            DEF KernelLoads, KernelRefuses, InsmodExits, InsmodKilled,
                StepsLeft
<1>5. CASE Crash(r)
  BY <1>5, Countable DEF Crash, Goto, StepsCount, StepsLeft
<1>6. ASSUME NEW q \in Runs, q # r, Step(q) \/ Environment(q)
      PROVE  UNCHANGED <<pc[r], child[r]>>
  BY <1>6
  DEF Step, Environment, Reject, Plan, Insmod, InsmodReturns, InsmodFailed,
      CaptureDmesg, Hash, Rmmod, Truncate, Write, WriteFails, Done,
      KernelLoads, KernelRefuses, InsmodExits, InsmodKilled, LimeFlushes,
      Interrupt, Crash, Goto, Exit, process, kernel
<1>. QED  BY <1>2, <1>3, <1>4, <1>5, <1>6 DEF Next, Environment

(* Every invocation ends, after at most 11 steps of its own and its insmod, *)
(* whatever other invocations, the kernel and the disk do meanwhile         *)
(* (acquire.go:117-184, executor.go:58-63).                                 *)
THEOREM RunsEnd == Spec => []StepsCount /\ StepsRunOut
<1>1. Inv /\ [Next]_vars =>
        [\A r \in Runs :
            Active(r) /\ ~UNCHANGED <<pc[r], child[r]>> =>
                StepsLeft(r)' < StepsLeft(r)]_vars
  BY Nearer
<1>. QED  BY <1>1, Countable, Invariance, PTL DEF Spec, StepsRunOut
=============================================================================
