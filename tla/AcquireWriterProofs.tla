------------------------ MODULE AcquireWriterProofs ------------------------
(***************************************************************************)
(* Acquire implements CaseWriter when invocations do not overlap, for any  *)
(* number of them, whatever each leaves behind.                            *)
(***************************************************************************)
EXTENDS AcquireProofs

(* What Inv lacks, which is about invocations that take turns.              *)

Alone == \A r, s \in Runs : Active(r) /\ Active(s) => r = s

(* The record on disk, as its writer goes on. *)
Writing(r) ==
    /\ pc[r] = "write" => manifest = Torn
    /\ pc[r] = "report" => manifest = [run |-> r, acq |-> acq[r]]

TornBy ==
    manifest = Torn => diskFull \/ \E r \in Runs : pc[r] \in {"write", "killed"}

(* The image and the module in the kernel are of one invocation. *)
Dumped ==
    /\ image # None => opt[image.by].mode = "file" /\ child[image.by] # "none"
    /\ loader # None /\ opt[loader].mode = "file" =>
          image # None /\ image.by = loader

InTurn ==
    /\ Alone
    /\ \A r \in Runs : Writing(r)
    /\ TornBy
    /\ Dumped
    /\ diskFull => DiskMayFill

-----------------------------------------------------------------------------
(* What CaseWriter's variables are after a step of one invocation. *)

LEMMA OneMoves ==
  ASSUME NEW r \in Runs,
         \A s \in Runs \ {r} : pc'[s] = pc[s] /\ code'[s] = code[s]
  PROVE  /\ SeenState[r] = Seen(pc[r], code[r])
         /\ SeenState' = [SeenState EXCEPT ![r] = Seen(pc'[r], code'[r])]
         /\ Seen(pc'[r], code'[r]) = Seen(pc[r], code[r]) =>
                SeenState' = SeenState
BY DEF SeenState

LEMMA OneRecords ==
  ASSUME NEW r \in Runs, acq[r] # None, acq'[r] # None,
         \A s \in Runs \ {r} : acq'[s] = acq[s]
  PROVE  /\ r \in SeenPlanned /\ SeenPlanned' = SeenPlanned
         /\ SeenSum[r] = acq[r].image
         /\ SeenSum' = [SeenSum EXCEPT ![r] = acq'[r].image]
         /\ acq'[r].image = acq[r].image => SeenSum' = SeenSum
BY DEF SeenPlanned, SeenSum

LEMMA NoNewPlan ==
  ASSUME NEW r \in Runs, NEW e \in Events \ {"acquire.plan"},
         log' = log \/ Log(r, e)
  PROVE  SeenPlans' = SeenPlans
BY DEF SeenPlans, Log

(* Nobody else is active in CaseWriter's eyes either. *)
LEMMA OthersSeen ==
  ASSUME TypeOK, Alone, NEW r \in Runs, Active(r)
  PROVE  \A s \in Runs \ {r} : ~Writer!Active(s)
BY DEF Alone, Active, Writer!Active, SeenState, Seen

(* A step keeps the invocations apart. *)
LEMMA StaysAlone ==
  ASSUME Alone, NEW r \in Runs, Active(r),
         \A s \in Runs \ {r} : pc'[s] = pc[s]
  PROVE  Alone'
BY DEF Alone, Active

LEMMA InsmodMaps ==
  ASSUME NEW q \in Runs, Insmod(q), Inv, Inv', InTurn
  PROVE  InTurn' /\ [Writer!Next]_Writer!vars
<1>. USE ConstantsAssumption DEF Insmod, Goto, files
<1>0. TypeOK /\ TypeOK' /\ Consistent(q) /\ InTurn
  BY DEF Inv
<1>1. Alone'
  BY <1>0, StaysAlone DEF InTurn, Active, TypeOK
<1>2. ASSUME NEW r \in Runs PROVE Writing(r)'
  BY <1>0 DEF InTurn, Writing, TypeOK
<1>3. TornBy'
  BY <1>0 DEF InTurn, TornBy, TypeOK
<1>4. Dumped'
  BY <1>0 DEF InTurn, Dumped, TypeOK, Images
<1>5. (diskFull => DiskMayFill)'
  BY <1>0 DEF InTurn
<1>6. InTurn'
  BY <1>1, <1>2, <1>3, <1>4, <1>5 DEF InTurn
<1>7. UNCHANGED Writer!vars
  <2>1. SeenState' = SeenState
    BY <1>0, OneMoves DEF TypeOK, Seen
  <2>2. SeenPlanned' = SeenPlanned /\ SeenSum' = SeenSum
    BY <1>0, OneRecords, UpdatedRecord DEF Consistent, Control, Past
  <2>3. SeenPlans' = SeenPlans
    BY DEF SeenPlans
  <2>4. SeenRecord' = SeenRecord /\ image' = image
    BY DEF SeenRecord
  <2>. QED  BY <2>1, <2>2, <2>3, <2>4 DEF Writer!vars
<1>. QED  BY <1>6, <1>7

LEMMA InsmodFailedMaps ==
  ASSUME NEW q \in Runs, InsmodFailed(q), Inv, Inv', InTurn
  PROVE  InTurn' /\ [Writer!Next]_Writer!vars
<1>. USE ConstantsAssumption DEF InsmodFailed, Goto, kernel
<1>0. TypeOK /\ TypeOK' /\ Consistent(q) /\ InTurn
  BY DEF Inv
<1>1. Alone'
  BY <1>0, StaysAlone DEF InTurn, Active
<1>2. ASSUME NEW r \in Runs PROVE Writing(r)'
  BY <1>0 DEF InTurn, Writing
<1>3. TornBy'
  BY <1>0 DEF InTurn, TornBy
<1>4. Dumped'
  BY <1>0 DEF InTurn, Dumped
<1>5. (diskFull => DiskMayFill)'
  BY <1>0 DEF InTurn
<1>6. InTurn'
  BY <1>1, <1>2, <1>3, <1>4, <1>5 DEF InTurn
<1>7. UNCHANGED Writer!vars
  <2>1. SeenState' = SeenState
    BY <1>0, OneMoves DEF Seen
  <2>2. SeenPlanned' = SeenPlanned /\ SeenSum' = SeenSum
    BY DEF SeenPlanned, SeenSum
  <2>3. SeenPlans' = SeenPlans
    BY NoNewPlan DEF Events
  <2>4. SeenRecord' = SeenRecord /\ image' = image
    BY DEF SeenRecord
  <2>. QED  BY <2>1, <2>2, <2>3, <2>4 DEF Writer!vars
<1>. QED  BY <1>6, <1>7

LEMMA RmmodMaps ==
  ASSUME NEW q \in Runs, Rmmod(q), Inv, Inv', InTurn
  PROVE  InTurn' /\ [Writer!Next]_Writer!vars
<1>. USE ConstantsAssumption DEF Rmmod, Goto
<1>0. TypeOK /\ TypeOK' /\ Consistent(q) /\ InTurn
  BY DEF Inv
<1>1. Alone'
  BY <1>0, StaysAlone DEF InTurn, Active
<1>2. ASSUME NEW r \in Runs PROVE Writing(r)'
  BY <1>0 DEF InTurn, Writing, TypeOK
<1>3. TornBy'
  BY <1>0 DEF InTurn, TornBy
<1>4. Dumped'
  BY <1>0 DEF InTurn, Dumped
<1>5. (diskFull => DiskMayFill)'
  BY <1>0 DEF InTurn
<1>6. InTurn'
  BY <1>1, <1>2, <1>3, <1>4, <1>5 DEF InTurn
<1>7. UNCHANGED Writer!vars
  <2>1. SeenState' = SeenState
    BY <1>0, OneMoves DEF Seen
  <2>2. SeenPlanned' = SeenPlanned /\ SeenSum' = SeenSum
    BY <1>0, OneRecords, UpdatedRecord DEF TypeOK, Consistent, Control, Past
  <2>3. SeenPlans' = SeenPlans
    BY NoNewPlan DEF Events
  <2>4. SeenRecord' = SeenRecord /\ image' = image
    BY DEF SeenRecord
  <2>. QED  BY <2>1, <2>2, <2>3, <2>4 DEF Writer!vars
<1>. QED  BY <1>6, <1>7

LEMMA InsmodExitsMaps ==
  ASSUME NEW q \in Runs, InsmodExits(q), Inv, Inv', InTurn
  PROVE  InTurn' /\ [Writer!Next]_Writer!vars
<1>. USE ConstantsAssumption DEF InsmodExits, process, files
<1>0. TypeOK /\ TypeOK' /\ Consistent(q) /\ InTurn
  BY DEF Inv
<1>1. Alone'
  BY <1>0 DEF InTurn, Alone, Active
<1>2. ASSUME NEW r \in Runs PROVE Writing(r)'
  BY <1>0 DEF InTurn, Writing
<1>3. TornBy'
  BY <1>0 DEF InTurn, TornBy
<1>4. Dumped'
  BY <1>0 DEF InTurn, Dumped
<1>5. (diskFull => DiskMayFill)'
  BY <1>0 DEF InTurn
<1>6. InTurn'
  BY <1>1, <1>2, <1>3, <1>4, <1>5 DEF InTurn
<1>7. UNCHANGED Writer!vars
  <2>1. SeenState' = SeenState
    BY DEF SeenState
  <2>2. SeenPlanned' = SeenPlanned /\ SeenSum' = SeenSum
    BY DEF SeenPlanned, SeenSum
  <2>3. SeenPlans' = SeenPlans
    BY DEF SeenPlans
  <2>4. SeenRecord' = SeenRecord /\ image' = image
    BY DEF SeenRecord
  <2>. QED  BY <2>1, <2>2, <2>3, <2>4 DEF Writer!vars
<1>. QED  BY <1>6, <1>7

LEMMA InsmodKilledMaps ==
  ASSUME NEW q \in Runs, InsmodKilled(q), Inv, Inv', InTurn
  PROVE  InTurn' /\ [Writer!Next]_Writer!vars
<1>. USE ConstantsAssumption DEF InsmodKilled, process, files
<1>0. TypeOK /\ TypeOK' /\ Consistent(q) /\ InTurn
  BY DEF Inv
<1>1. Alone'
  BY <1>0 DEF InTurn, Alone, Active
<1>2. ASSUME NEW r \in Runs PROVE Writing(r)'
  BY <1>0 DEF InTurn, Writing
<1>3. TornBy'
  BY <1>0 DEF InTurn, TornBy
<1>4. Dumped'
  BY <1>0 DEF InTurn, Dumped
<1>5. (diskFull => DiskMayFill)'
  BY <1>0 DEF InTurn
<1>6. InTurn'
  BY <1>1, <1>2, <1>3, <1>4, <1>5 DEF InTurn
<1>7. UNCHANGED Writer!vars
  <2>1. SeenState' = SeenState
    BY DEF SeenState
  <2>2. SeenPlanned' = SeenPlanned /\ SeenSum' = SeenSum
    BY DEF SeenPlanned, SeenSum
  <2>3. SeenPlans' = SeenPlans
    BY DEF SeenPlans
  <2>4. SeenRecord' = SeenRecord /\ image' = image
    BY DEF SeenRecord
  <2>. QED  BY <2>1, <2>2, <2>3, <2>4 DEF Writer!vars
<1>. QED  BY <1>6, <1>7

LEMMA InterruptMaps ==
  ASSUME NEW q \in Runs, Interrupt(q), Inv, Inv', InTurn
  PROVE  InTurn' /\ [Writer!Next]_Writer!vars
<1>. USE ConstantsAssumption DEF Interrupt, kernel, files
<1>0. TypeOK /\ TypeOK' /\ Consistent(q) /\ InTurn
  BY DEF Inv
<1>1. Alone'
  BY <1>0 DEF InTurn, Alone, Active
<1>2. ASSUME NEW r \in Runs PROVE Writing(r)'
  BY <1>0 DEF InTurn, Writing
<1>3. TornBy'
  BY <1>0 DEF InTurn, TornBy
<1>4. Dumped'
  BY <1>0 DEF InTurn, Dumped
<1>5. (diskFull => DiskMayFill)'
  BY <1>0 DEF InTurn
<1>6. InTurn'
  BY <1>1, <1>2, <1>3, <1>4, <1>5 DEF InTurn
<1>7. UNCHANGED Writer!vars
  <2>1. SeenState' = SeenState
    BY DEF SeenState
  <2>2. SeenPlanned' = SeenPlanned /\ SeenSum' = SeenSum
    BY DEF SeenPlanned, SeenSum
  <2>3. SeenPlans' = SeenPlans
    BY DEF SeenPlans
  <2>4. SeenRecord' = SeenRecord /\ image' = image
    BY DEF SeenRecord
  <2>. QED  BY <2>1, <2>2, <2>3, <2>4 DEF Writer!vars
<1>. QED  BY <1>6, <1>7

LEMMA RejectMaps ==
  ASSUME NEW q \in Runs, Reject(q), Inv, Inv', InTurn
  PROVE  InTurn' /\ [Writer!Next]_Writer!vars
<1>. USE ConstantsAssumption DEF Reject, Goto, Exit, kernel, files
<1>0. TypeOK /\ TypeOK' /\ Consistent(q) /\ InTurn
  BY DEF Inv
<1>1. Alone'
  BY <1>0, StaysAlone DEF InTurn, Active
<1>2. ASSUME NEW r \in Runs PROVE Writing(r)'
  BY <1>0 DEF InTurn, Writing
<1>3. TornBy'
  BY <1>0 DEF InTurn, TornBy
<1>4. Dumped'
  BY <1>0 DEF InTurn, Dumped
<1>5. (diskFull => DiskMayFill)'
  BY <1>0 DEF InTurn
<1>6. InTurn'
  BY <1>1, <1>2, <1>3, <1>4, <1>5 DEF InTurn
<1>7. Writer!Fail(q)
  <2>1. SeenState[q] = "busy" /\ SeenState' = [SeenState EXCEPT ![q] = "failed"]
    BY <1>0, OneMoves DEF TypeOK, Seen
  <2>2. SeenPlanned' = SeenPlanned /\ SeenSum' = SeenSum
    BY DEF SeenPlanned, SeenSum
  <2>3. SeenPlans' = SeenPlans
    BY DEF SeenPlans
  <2>4. SeenRecord' = SeenRecord /\ image' = image
    BY DEF SeenRecord
  <2>5. \A s \in Runs \ {q} : ~Writer!Active(s)
    BY <1>0, OthersSeen DEF InTurn, Active
  <2>. QED  BY <2>1, <2>2, <2>3, <2>4, <2>5 DEF Writer!Fail, Writer!Move
<1>. QED  BY <1>6, <1>7 DEF Writer!Next, Writer!Step

LEMMA WriteFailsMaps ==
  ASSUME NEW q \in Runs, WriteFails(q), Inv, Inv', InTurn
  PROVE  InTurn' /\ [Writer!Next]_Writer!vars
<1>. USE ConstantsAssumption DEF WriteFails, Goto, Exit, kernel, files
<1>0. TypeOK /\ TypeOK' /\ Consistent(q) /\ InTurn
  BY DEF Inv
<1>1. Alone'
  BY <1>0, StaysAlone DEF InTurn, Active
<1>2. ASSUME NEW r \in Runs PROVE Writing(r)'
  BY <1>0 DEF InTurn, Writing
<1>3. TornBy'
  BY <1>0 DEF TornBy
<1>4. Dumped'
  BY <1>0 DEF InTurn, Dumped
<1>5. (diskFull => DiskMayFill)'
  BY <1>0 DEF InTurn
<1>6. InTurn'
  BY <1>1, <1>2, <1>3, <1>4, <1>5 DEF InTurn
<1>7. Writer!Fail(q)
  <2>1. /\ SeenState[q] = "saving"
        /\ SeenState' = [SeenState EXCEPT ![q] = "failed"]
    BY <1>0, OneMoves DEF TypeOK, Seen
  <2>2. SeenPlanned' = SeenPlanned /\ SeenSum' = SeenSum
    BY DEF SeenPlanned, SeenSum
  <2>3. SeenPlans' = SeenPlans
    BY DEF SeenPlans
  <2>4. SeenRecord' = SeenRecord /\ image' = image
    BY DEF SeenRecord
  <2>5. \A s \in Runs \ {q} : ~Writer!Active(s)
    BY <1>0, OthersSeen DEF InTurn, Active
  <2>. QED  BY <2>1, <2>2, <2>3, <2>4, <2>5 DEF Writer!Fail, Writer!Move
<1>. QED  BY <1>6, <1>7 DEF Writer!Next, Writer!Step

LEMMA DoneMaps ==
  ASSUME NEW q \in Runs, Done(q), Inv, Inv', InTurn
  PROVE  InTurn' /\ [Writer!Next]_Writer!vars
<1>. USE ConstantsAssumption DEF Done, Goto, Exit, kernel
<1>0. TypeOK /\ TypeOK' /\ Consistent(q) /\ InTurn
  BY DEF Inv
<1>1. Alone'
  BY <1>0, StaysAlone DEF InTurn, Active
<1>2. ASSUME NEW r \in Runs PROVE Writing(r)'
  BY <1>0 DEF InTurn, Writing
<1>3. TornBy'
  BY <1>0 DEF InTurn, TornBy
<1>4. Dumped'
  BY <1>0 DEF InTurn, Dumped
<1>5. (diskFull => DiskMayFill)'
  BY <1>0 DEF InTurn
<1>6. InTurn'
  BY <1>1, <1>2, <1>3, <1>4, <1>5 DEF InTurn
<1>7. Writer!Succeed(q)
  <2>1. SeenState[q] = "saving" /\ SeenState' = [SeenState EXCEPT ![q] = "well"]
    BY <1>0, OneMoves DEF TypeOK, Seen
  <2>2. SeenPlanned' = SeenPlanned /\ SeenSum' = SeenSum
    BY DEF SeenPlanned, SeenSum
  <2>3. SeenPlans' = SeenPlans
    BY NoNewPlan DEF Events
  <2>4. /\ SeenRecord = [run |-> q, image |-> SeenSum[q]]
        /\ SeenRecord' = SeenRecord
        /\ image' = image
    BY <1>0
    DEF InTurn, Writing, SeenRecord, SeenSum, ManifestFiles, Consistent,
        Control, Closing
  <2>. QED  BY <2>1, <2>2, <2>3, <2>4 DEF Writer!Succeed, Writer!Move
<1>. QED  BY <1>6, <1>7 DEF Writer!Next, Writer!Step

LEMMA CrashMaps ==
  ASSUME NEW q \in Runs, Crash(q), Inv, Inv', InTurn
  PROVE  InTurn' /\ [Writer!Next]_Writer!vars
<1>. USE ConstantsAssumption DEF Crash, Goto, kernel, files
<1>0. TypeOK /\ TypeOK' /\ Consistent(q) /\ InTurn
  BY DEF Inv
<1>1. Alone'
  BY <1>0, StaysAlone DEF InTurn
<1>2. ASSUME NEW r \in Runs PROVE Writing(r)'
  BY <1>0 DEF InTurn, Writing
<1>3. TornBy'
  BY <1>0 DEF TornBy, TypeOK
<1>4. Dumped'
  BY <1>0 DEF InTurn, Dumped
<1>5. (diskFull => DiskMayFill)'
  BY <1>0 DEF InTurn
<1>6. InTurn'
  BY <1>1, <1>2, <1>3, <1>4, <1>5 DEF InTurn
<1>7. Writer!Fail(q)
  <2>1. /\ SeenState[q] \in {"busy", "saving"}
        /\ SeenState' = [SeenState EXCEPT ![q] = "killed"]
    BY <1>0, OneMoves DEF TypeOK, Seen, Labels, Active
  <2>2. SeenPlanned' = SeenPlanned /\ SeenSum' = SeenSum
    BY DEF SeenPlanned, SeenSum
  <2>3. SeenPlans' = SeenPlans
    BY DEF SeenPlans
  <2>4. SeenRecord' = SeenRecord /\ image' = image
    BY DEF SeenRecord
  <2>5. \A s \in Runs \ {q} : ~Writer!Active(s)
    BY <1>0, OthersSeen DEF InTurn
  <2>. QED  BY <2>1, <2>2, <2>3, <2>4, <2>5 DEF Writer!Fail, Writer!Move
<1>. QED  BY <1>6, <1>7 DEF Writer!Next, Writer!Step

LEMMA WriteMaps ==
  ASSUME NEW q \in Runs, Write(q), Inv, Inv', InTurn
  PROVE  InTurn' /\ [Writer!Next]_Writer!vars
<1>. USE ConstantsAssumption DEF Write, Goto, Exit, kernel
<1>0. TypeOK /\ TypeOK' /\ Consistent(q) /\ InTurn
  BY DEF Inv
<1>1. Alone'
  BY <1>0, StaysAlone DEF InTurn, Active, TypeOK
<1>2. ASSUME NEW r \in Runs PROVE Writing(r)'
  BY <1>0 DEF InTurn, Writing, Alone, Active, TypeOK
<1>3. TornBy'
  BY <1>0
  DEF InTurn, TornBy, Writing, ManifestFiles, Consistent, Control, Closing
<1>4. Dumped'
  BY <1>0 DEF InTurn, Dumped
<1>5. (diskFull => DiskMayFill)'
  BY <1>0
<1>6. InTurn'
  BY <1>1, <1>2, <1>3, <1>4, <1>5 DEF InTurn
<1>7. Writer!Save(q)
  <2>1. /\ SeenState[q] = "saving"
        /\ \/ SeenState' = SeenState
           \/ SeenState' = [SeenState EXCEPT ![q] = "failed"]
    BY <1>0, OneMoves DEF TypeOK, Seen
  <2>2. SeenPlanned' = SeenPlanned /\ SeenSum' = SeenSum
    BY DEF SeenPlanned, SeenSum
  <2>3. SeenPlans' = SeenPlans
    BY DEF SeenPlans
  <2>4. /\ SeenRecord = Torn
        /\ SeenRecord' = [run |-> q, image |-> SeenSum[q]]
        /\ image' = image
    BY <1>0
    DEF InTurn, Writing, SeenRecord, SeenSum, ManifestFiles, Consistent,
        Control, Closing
  <2>. QED  BY <2>1, <2>2, <2>3, <2>4 DEF Writer!Save, Writer!Move
<1>. QED  BY <1>6, <1>7 DEF Writer!Next, Writer!Step

LEMMA TruncateMaps ==
  ASSUME NEW q \in Runs, Truncate(q), Inv, Inv', InTurn
  PROVE  InTurn' /\ [Writer!Next]_Writer!vars
<1>. USE ConstantsAssumption DEF Truncate, Goto, Exit, kernel
<1>0. TypeOK /\ TypeOK' /\ Consistent(q) /\ InTurn
  BY DEF Inv
<1>1. Alone'
  BY <1>0, StaysAlone DEF InTurn, Active, TypeOK
<1>2. ASSUME NEW r \in Runs PROVE Writing(r)'
  BY <1>0 DEF InTurn, Writing, Alone, Active, TypeOK
<1>3. TornBy'
  BY <1>0 DEF InTurn, TornBy, TypeOK
<1>4. Dumped'
  BY <1>0 DEF InTurn, Dumped
<1>5. (diskFull => DiskMayFill)'
  BY <1>0 DEF InTurn
<1>6. InTurn'
  BY <1>1, <1>2, <1>3, <1>4, <1>5 DEF InTurn
<1>7. SeenPlanned' = SeenPlanned /\ SeenSum' = SeenSum /\ SeenPlans' = SeenPlans
  BY DEF SeenPlanned, SeenSum, SeenPlans
<1>8. Writer!Tear(q) \/ Writer!Fail(q)
  <2>1. CASE manifest' = Torn /\ pc'[q] = "write" /\ UNCHANGED code
    <3>1. SeenState[q] = "saving" /\ SeenState' = SeenState
      BY <1>0, <2>1, OneMoves DEF TypeOK, Seen
    <3>2. SeenRecord' = Torn
      BY <2>1 DEF SeenRecord
    <3>. QED  BY <1>7, <3>1, <3>2 DEF Writer!Tear
  <2>2. CASE Exit(q, 1) /\ UNCHANGED manifest
    <3>1. /\ SeenState[q] = "saving"
          /\ SeenState' = [SeenState EXCEPT ![q] = "failed"]
      BY <1>0, <2>2, OneMoves DEF TypeOK, Seen
    <3>2. SeenRecord' = SeenRecord
      BY <2>2 DEF SeenRecord
    <3>3. \A s \in Runs \ {q} : ~Writer!Active(s)
      BY <1>0, OthersSeen DEF InTurn, Active
    <3>. QED  BY <1>7, <3>1, <3>2, <3>3 DEF Writer!Fail, Writer!Move
  <2>. QED  BY <1>0, <2>1, <2>2 DEF TypeOK
<1>. QED  BY <1>6, <1>8 DEF Writer!Next, Writer!Step

LEMMA StartMaps ==
  ASSUME NEW q \in Runs, Start(q), ~Overlap, Inv, Inv', InTurn
  PROVE  InTurn' /\ [Writer!Next]_Writer!vars
<1>. USE ConstantsAssumption DEF Start, Goto, Exit, kernel
<1>0. TypeOK /\ TypeOK' /\ Consistent(q) /\ InTurn
  BY DEF Inv
<1>1. Alone'
  BY <1>0 DEF Alone, Active, TypeOK
<1>2. ASSUME NEW r \in Runs PROVE Writing(r)'
  BY <1>0 DEF Writing, Active, TypeOK
<1>3. TornBy'
  BY <1>0 DEF InTurn, TornBy, TypeOK
<1>4. Dumped'
  BY <1>0 DEF InTurn, Dumped, Consistent, Kernel
<1>5. (diskFull => DiskMayFill)'
  BY <1>0 DEF InTurn
<1>6. InTurn'
  BY <1>1, <1>2, <1>3, <1>4, <1>5 DEF InTurn
<1>7. /\ SeenPlanned' = SeenPlanned /\ SeenSum' = SeenSum
      /\ SeenRecord' = SeenRecord /\ image' = image
  BY DEF SeenPlanned, SeenSum, SeenRecord
<1>8. SeenPlans' = SeenPlans
  BY NoNewPlan DEF Events
<1>9. \A s \in Runs : ~Writer!Active(s)
  BY <1>0 DEF Active, Writer!Active, SeenState, Seen
<1>10. /\ SeenState[q] = "idle"
       /\ \/ SeenState' = [SeenState EXCEPT ![q] = "busy"]
          \/ SeenState' = [SeenState EXCEPT ![q] = "failed"]
  BY <1>0, OneMoves DEF TypeOK, Seen
<1>11. Writer!Start(q) \/ Writer!Fail(q)
  BY <1>7, <1>8, <1>9, <1>10 DEF Writer!Start, Writer!Fail, Writer!Move
<1>. QED  BY <1>6, <1>11 DEF Writer!Next, Writer!Step

LEMMA PlanMaps ==
  ASSUME NEW q \in Runs, Plan(q), Inv, Inv', InTurn
  PROVE  InTurn' /\ [Writer!Next]_Writer!vars
<1>. USE ConstantsAssumption DEF Plan, Goto, kernel
<1>0. TypeOK /\ TypeOK' /\ Consistent(q) /\ InTurn
  BY DEF Inv
<1>1. Alone'
  BY <1>0, StaysAlone DEF InTurn, Active
<1>2. ASSUME NEW r \in Runs PROVE Writing(r)'
  BY <1>0 DEF InTurn, Writing
<1>3. TornBy'
  BY <1>0 DEF InTurn, TornBy
<1>4. Dumped'
  BY <1>0 DEF InTurn, Dumped
<1>5. (diskFull => DiskMayFill)'
  BY <1>0 DEF InTurn
<1>6. InTurn'
  BY <1>1, <1>2, <1>3, <1>4, <1>5 DEF InTurn
<1>7. acq[q] = None /\ acq'[q] # None /\ acq'[q].image = None
  BY <1>0, NewRecord DEF TypeOK, Consistent, Control, Record
<1>8. q \notin SeenPlanned /\ SeenPlanned' = SeenPlanned \cup {q}
  BY <1>0, <1>7 DEF SeenPlanned
<1>9. SeenSum' = SeenSum
  BY <1>0, <1>7 DEF SeenSum
<1>10. \/ SeenPlans' = SeenPlans \cup {q}
       \/ DiskMayFill /\ SeenPlans' = SeenPlans
  BY <1>0 DEF InTurn, SeenPlans, Log
<1>11. SeenRecord' = SeenRecord /\ image' = image
  BY DEF SeenRecord
<1>12. /\ SeenState[q] = "busy"
       /\ \/ SeenState' = [SeenState EXCEPT ![q] = "busy"]
          \/ SeenState' = [SeenState EXCEPT ![q] = "saving"]
  BY <1>0, OneMoves DEF Seen
<1>13. Writer!Plan(q)
  BY <1>8, <1>9, <1>10, <1>11, <1>12 DEF Writer!Plan, Writer!Move
<1>. QED  BY <1>6, <1>13 DEF Writer!Next, Writer!Step

LEMMA InsmodReturnsMaps ==
  ASSUME NEW q \in Runs, InsmodReturns(q), Inv, Inv', InTurn
  PROVE  InTurn' /\ [Writer!Next]_Writer!vars
<1>. USE ConstantsAssumption DEF InsmodReturns, Goto, kernel, files
<1>0. TypeOK /\ TypeOK' /\ Consistent(q) /\ InTurn
  BY DEF Inv
<1>1. Alone'
  BY <1>0, StaysAlone DEF InTurn, Active, TypeOK
<1>2. ASSUME NEW r \in Runs PROVE Writing(r)'
  BY <1>0 DEF InTurn, Writing, TypeOK, AfterInsmod, AfterHash
<1>3. TornBy'
  BY <1>0 DEF InTurn, TornBy, TypeOK
<1>4. Dumped'
  BY <1>0 DEF InTurn, Dumped
<1>5. (diskFull => DiskMayFill)'
  BY <1>0 DEF InTurn
<1>6. InTurn'
  BY <1>1, <1>2, <1>3, <1>4, <1>5 DEF InTurn
<1>7. /\ q \in SeenPlanned /\ SeenPlanned' = SeenPlanned /\ SeenSum' = SeenSum
      /\ SeenPlans' = SeenPlans /\ SeenRecord' = SeenRecord /\ image' = image
  BY <1>0
  DEF Consistent, Control, Past, SeenPlanned, SeenSum, SeenPlans, SeenRecord
<1>8. /\ SeenState[q] = "busy"
      /\ \/ SeenState' = SeenState
         \/ SeenState' = [SeenState EXCEPT ![q] = "saving"]
  BY <1>0, OneMoves DEF TypeOK, Seen, AfterInsmod, AfterHash
<1>9. UNCHANGED Writer!vars \/ Writer!Settle(q)
  BY <1>7, <1>8 DEF Writer!vars, Writer!Settle, Writer!Move
<1>. QED  BY <1>6, <1>9 DEF Writer!Next, Writer!Step

LEMMA CaptureDmesgMaps ==
  ASSUME NEW q \in Runs, CaptureDmesg(q), Inv, Inv', InTurn
  PROVE  InTurn' /\ [Writer!Next]_Writer!vars
<1>. USE ConstantsAssumption DEF CaptureDmesg, Goto, kernel
<1>0. TypeOK /\ TypeOK' /\ Consistent(q) /\ InTurn
  BY DEF Inv
<1>1. Alone'
  BY <1>0, StaysAlone DEF InTurn, Active
<1>2. ASSUME NEW r \in Runs PROVE Writing(r)'
  BY <1>0 DEF InTurn, Writing, TypeOK
<1>3. TornBy'
  BY <1>0 DEF InTurn, TornBy
<1>4. Dumped'
  BY <1>0 DEF InTurn, Dumped
<1>5. (diskFull => DiskMayFill)'
  BY <1>0 DEF InTurn
<1>6. InTurn'
  BY <1>1, <1>2, <1>3, <1>4, <1>5 DEF InTurn
<1>7. acq[q] \in Acquisition /\ acq'[q] # None /\ acq'[q].image = acq[q].image
  BY <1>0, UpdatedRecord
  DEF TypeOK, Consistent, Control, Past, DmesgPlace, InOut, Places
<1>8. q \in SeenPlanned /\ SeenPlanned' = SeenPlanned /\ SeenSum' = SeenSum
  BY <1>0, <1>7, OneRecords DEF TypeOK
<1>9. SeenPlans' = SeenPlans /\ SeenRecord' = SeenRecord /\ image' = image
  BY DEF SeenPlans, SeenRecord
<1>10. SeenState[q] = "busy" /\ SeenState' = [SeenState EXCEPT ![q] = "saving"]
  BY <1>0, OneMoves DEF TypeOK, Seen
<1>11. Writer!Settle(q)
  BY <1>8, <1>9, <1>10 DEF Writer!Settle, Writer!Move
<1>. QED  BY <1>6, <1>11 DEF Writer!Next, Writer!Step

LEMMA HashMaps ==
  ASSUME NEW q \in Runs, Hash(q), Inv, Inv', InTurn
  PROVE  InTurn' /\ [Writer!Next]_Writer!vars
<1>. USE ConstantsAssumption DEF Hash, Goto, kernel
<1>0. TypeOK /\ TypeOK' /\ Consistent(q) /\ InTurn
  BY DEF Inv
<1>1. Alone'
  BY <1>0, StaysAlone DEF InTurn, Active
<1>2. ASSUME NEW r \in Runs PROVE Writing(r)'
  BY <1>0 DEF InTurn, Writing, TypeOK, AfterHash
<1>3. TornBy'
  BY <1>0 DEF InTurn, TornBy
<1>4. Dumped'
  BY <1>0 DEF InTurn, Dumped
<1>5. (diskFull => DiskMayFill)'
  BY <1>0 DEF InTurn
<1>6. InTurn'
  BY <1>1, <1>2, <1>3, <1>4, <1>5 DEF InTurn
<1>7. image \in [by : {q}, full : BOOLEAN]
  BY <1>0 DEF TypeOK, Consistent, Control, Kernel, InTurn, Dumped, Images
<1>8. /\ acq[q] \in Acquisition /\ acq'[q] # None
      /\ acq'[q].image \in {acq[q].image, image}
  BY <1>0, UpdatedRecord DEF TypeOK, Consistent, Control, Past
<1>9. /\ q \in SeenPlanned /\ SeenPlanned' = SeenPlanned
      /\ SeenSum' = SeenSum \/ SeenSum' = [SeenSum EXCEPT ![q] = image]
  BY <1>0, <1>8, OneRecords DEF TypeOK
<1>10. SeenPlans' = SeenPlans
  BY NoNewPlan DEF Events
<1>11. SeenRecord' = SeenRecord /\ image' = image
  BY DEF SeenRecord
<1>12. SeenState[q] = "busy" /\ SeenState' = [SeenState EXCEPT ![q] = "saving"]
  BY <1>0, OneMoves DEF TypeOK, Seen, AfterHash
<1>13. Writer!Settle(q)
  BY <1>7, <1>9, <1>10, <1>11, <1>12 DEF Writer!Settle, Writer!Move
<1>. QED  BY <1>6, <1>13 DEF Writer!Next, Writer!Step

LEMMA KernelLoadsMaps ==
  ASSUME NEW q \in Runs, KernelLoads(q), Inv, Inv', InTurn
  PROVE  InTurn' /\ [Writer!Next]_Writer!vars
<1>. USE ConstantsAssumption DEF KernelLoads, process, files
<1>0. TypeOK /\ TypeOK' /\ Consistent(q) /\ InTurn
  BY DEF Inv
<1>1. Alone'
  BY <1>0 DEF InTurn, Alone, Active
<1>2. ASSUME NEW r \in Runs PROVE Writing(r)'
  BY <1>0 DEF InTurn, Writing
<1>3. TornBy'
  BY <1>0 DEF InTurn, TornBy
<1>4. Dumped'
  <2>1. opt[q].mode = "file" => image' # None /\ image'.by = q
    <3>1. \A i \in Dumps(q) : i \in Images /\ i.by = q
      BY DEF Dumps, Images
    <3>. QED  BY <3>1
  <2>2. opt[q].mode # "file" => image' = image
    OBVIOUS
  <2>3. loader' = q /\ opt' = opt /\ child'[q] # "none"
    BY <1>0
  <2>4. \A r \in Runs : child[r] # "none" => child'[r] # "none"
    BY <1>0
  <2>5. image # None => image.by \in Runs
    BY <1>0 DEF TypeOK, Images
  <2>. QED  BY <1>0, <2>1, <2>2, <2>3, <2>4, <2>5 DEF InTurn, Dumped
<1>5. (diskFull => DiskMayFill)'
  BY <1>0 DEF InTurn
<1>6. InTurn'
  BY <1>1, <1>2, <1>3, <1>4, <1>5 DEF InTurn
<1>7. UNCHANGED <<SeenState, SeenPlanned, SeenPlans, SeenSum, SeenRecord>>
  BY DEF SeenState, SeenPlanned, SeenPlans, SeenSum, SeenRecord
<1>8. q \in SeenPlanned /\ SeenState[q] \in {"busy", "killed"}
  BY <1>0
  DEF TypeOK, Labels, Consistent, Kernel, Closing, SeenPlanned, SeenState,
      Seen
<1>9. image' = image \/ image' \in [by : {q}, full : BOOLEAN]
  <2>1. Dumps(q) \subseteq [by : {q}, full : BOOLEAN]
    BY DEF Dumps
  <2>. QED  BY <2>1
<1>10. UNCHANGED Writer!vars \/ Writer!Dump(q)
  BY <1>7, <1>8, <1>9 DEF Writer!vars, Writer!Dump
<1>. QED  BY <1>6, <1>10 DEF Writer!Next, Writer!Step

LEMMA KernelRefusesMaps ==
  ASSUME NEW q \in Runs, KernelRefuses(q), Inv, Inv', InTurn
  PROVE  InTurn' /\ [Writer!Next]_Writer!vars
<1>. USE ConstantsAssumption DEF KernelRefuses, process, files
<1>0. TypeOK /\ TypeOK' /\ Consistent(q) /\ InTurn
  BY DEF Inv
<1>1. Alone'
  BY <1>0 DEF InTurn, Alone, Active
<1>2. ASSUME NEW r \in Runs PROVE Writing(r)'
  BY <1>0 DEF InTurn, Writing
<1>3. TornBy'
  BY <1>0 DEF InTurn, TornBy
<1>4. Dumped'
  BY <1>0 DEF InTurn, Dumped
<1>5. (diskFull => DiskMayFill)'
  BY <1>0 DEF InTurn
<1>6. InTurn'
  BY <1>1, <1>2, <1>3, <1>4, <1>5 DEF InTurn
<1>7. UNCHANGED <<SeenState, SeenPlanned, SeenPlans, SeenSum, SeenRecord>>
  BY DEF SeenState, SeenPlanned, SeenPlans, SeenSum, SeenRecord
<1>8. q \in SeenPlanned /\ SeenState[q] \in {"busy", "killed"}
  BY <1>0
  DEF TypeOK, Labels, Consistent, Kernel, Closing, SeenPlanned, SeenState,
      Seen
<1>9. image' = image \/ image' \in [by : {q}, full : BOOLEAN]
  <2>1. [by |-> q, full |-> FALSE] \in [by : {q}, full : BOOLEAN]
    OBVIOUS
  <2>. QED  BY <2>1
<1>10. UNCHANGED Writer!vars \/ Writer!Dump(q)
  BY <1>7, <1>8, <1>9 DEF Writer!vars, Writer!Dump
<1>. QED  BY <1>6, <1>10 DEF Writer!Next, Writer!Step

LEMMA LimeFlushesMaps ==
  ASSUME NEW q \in Runs, LimeFlushes(q), Inv, Inv', InTurn
  PROVE  InTurn' /\ [Writer!Next]_Writer!vars
<1>. USE ConstantsAssumption DEF LimeFlushes, process, files
<1>0. TypeOK /\ TypeOK' /\ Consistent(q) /\ InTurn
  BY DEF Inv
<1>10. /\ image # None
       /\ image.by = q
       /\ ~image.full
       /\ image' # None
       /\ image'.by = q
  <2>1. /\ [by |-> q, full |-> FALSE] \in Images
        /\ [by |-> q, full |-> TRUE] \in Images
    BY DEF Images
  <2>. QED  BY <2>1
<1>1. Alone'
  BY <1>0 DEF InTurn, Alone, Active
<1>2. ASSUME NEW r \in Runs PROVE Writing(r)'
  BY <1>0 DEF InTurn, Writing
<1>3. TornBy'
  BY <1>0 DEF InTurn, TornBy
<1>4. Dumped'
  BY <1>0, <1>10 DEF InTurn, Dumped
<1>5. (diskFull => DiskMayFill)'
  BY <1>0 DEF InTurn
<1>6. InTurn'
  BY <1>1, <1>2, <1>3, <1>4, <1>5 DEF InTurn
<1>7. UNCHANGED <<SeenState, SeenPlanned, SeenPlans, SeenSum, SeenRecord>>
  BY DEF SeenState, SeenPlanned, SeenPlans, SeenSum, SeenRecord
<1>8. LimeAsync
  <2>1. image \in Dumps(q)
    BY <1>0, <1>10 DEF Inv, ImageInv, InTurn, Dumped
  <2>2. \A i \in Dumps(q) : ~i.full => LimeAsync
    BY DEF Dumps
  <2>. QED  BY <1>10, <2>1, <2>2
<1>9. Writer!Complete(q)
  BY <1>7, <1>8 DEF Writer!Complete
<1>. QED  BY <1>6, <1>9 DEF Writer!Next, Writer!Step

LEMMA DiskFillsMaps ==
  ASSUME DiskFills, Inv, Inv', InTurn
  PROVE  InTurn' /\ [Writer!Next]_Writer!vars
<1>. USE DEF DiskFills, process, kernel
<1>1. InTurn'
  BY DEF InTurn, Alone, Active, Writing, TornBy, Dumped
<1>2. UNCHANGED Writer!vars
  BY DEF Writer!vars, SeenState, SeenPlanned, SeenPlans, SeenSum, SeenRecord
<1>. QED  BY <1>1, <1>2

LEMMA StutterMaps ==
  ASSUME UNCHANGED vars, InTurn
  PROVE  InTurn' /\ [Writer!Next]_Writer!vars
<1>. USE DEF vars, process, kernel, files
<1>1. InTurn'
  BY DEF InTurn, Alone, Active, Writing, TornBy, Dumped
<1>2. UNCHANGED Writer!vars
  BY DEF Writer!vars, SeenState, SeenPlanned, SeenPlans, SeenSum, SeenRecord
<1>. QED  BY <1>1, <1>2

LEMMA InitMaps == Init => InTurn /\ Writer!Init
<1>. SUFFICES ASSUME Init PROVE InTurn /\ Writer!Init
  OBVIOUS
<1>. USE ConstantsAssumption DEF Init
<1>1. InTurn
  BY DEF InTurn, Alone, Active, Writing, TornBy, Dumped
<1>2. Writer!Init
  BY DEF Writer!Init, SeenState, Seen, SeenPlanned, SeenPlans, SeenSum,
         SeenRecord
<1>. QED  BY <1>1, <1>2

LEMMA NextMaps ==
  ASSUME ~Overlap
  PROVE  Inv /\ Inv' /\ InTurn /\ [Next]_vars =>
             InTurn' /\ [Writer!Next]_Writer!vars
<1>. SUFFICES ASSUME Inv, Inv', InTurn, [Next]_vars
              PROVE  InTurn' /\ [Writer!Next]_Writer!vars
  OBVIOUS
<1>1. ASSUME NEW q \in Runs, Step(q) PROVE InTurn' /\ [Writer!Next]_Writer!vars
  BY <1>1, RejectMaps, PlanMaps, InsmodMaps, InsmodReturnsMaps,
     InsmodFailedMaps, CaptureDmesgMaps, HashMaps, RmmodMaps, TruncateMaps,
     WriteMaps, WriteFailsMaps, DoneMaps
  DEF Step
<1>2. ASSUME NEW q \in Runs, Environment(q)
      PROVE  InTurn' /\ [Writer!Next]_Writer!vars
  BY <1>2, KernelLoadsMaps, KernelRefusesMaps, InsmodExitsMaps,
     InsmodKilledMaps, LimeFlushesMaps, InterruptMaps, CrashMaps
  DEF Environment
<1>. QED  BY <1>1, <1>2, StartMaps, DiskFillsMaps, StutterMaps DEF Next

(* Invocations that do not overlap implement CaseWriter: the order of plan, *)
(* image, hash, record and success that Provenance of CaseDirectory rests   *)
(* on (acquire.go:117-184, cli/acquire.go:108-136).                         *)
THEOREM Refinement == ASSUME ~Overlap PROVE Spec => ImplementsWriter
BY Invariance, InitMaps, NextMaps, PTL DEF Spec, ImplementsWriter, Writer!Spec

(* One after the other, an invocation that reports success has its record   *)
(* on disk, and a torn record has a culprit (cli/acquire.go:119-121,        *)
(* manifest.go:223-232).                                                    *)
THEOREM SavedFirst == ASSUME ~Overlap PROVE Spec => []SavedBeforeSuccess
<1>1. InTurn => SavedBeforeSuccess
  BY DEF InTurn, Writing, TornBy, SavedBeforeSuccess
<1>2. Init => InTurn
  BY InitMaps
<1>3. Inv /\ Inv' /\ InTurn /\ [Next]_vars => InTurn'
  BY NextMaps
<1>. QED  BY <1>1, <1>2, <1>3, Invariance, PTL DEF Spec
=============================================================================
