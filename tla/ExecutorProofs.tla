--------------------------- MODULE ExecutorProofs ---------------------------
(***************************************************************************)
(* Executor implements Command, for any number of calls and with or        *)
(* without orphans.  Inv says what is known of a call at each label.       *)
(***************************************************************************)
EXTENDS Executor, TLAPS

(* Until the fork there is no process, only a reaped call goes on, and who  *)
(* was killed is not alive.                                                 *)
ProcessAtLabel(c) ==
    /\ pc[c] \in {"new", "dryRun", "checking", "forking"} => proc[c] = "none"
    /\ pc[c] = "running" => proc[c] # "none"
    /\ pc[c] = "draining" => proc[c] \notin {"none", "alive"}
    /\ pc[c] = "returned" => proc[c] # "alive"
    /\ c \in killed => proc[c] \notin {"none", "alive"}

(* A dry-run executor never comes near a process, a real one never          *)
(* synthesises.                                                             *)
ExecutorAtLabel(c) ==
    /\ pc[c] = "dryRun" => dryRun
    /\ pc[c] \in {"checking", "forking", "running", "draining"} => ~dryRun

(* A call made under a cancelled context stops at the check.                *)
LateAtLabel(c) ==
    /\ pc[c] = "new" => c \notin late
    /\ c \in late => cancelled /\ pc[c] \notin {"forking", "running", "draining"}
    /\ c \in late => proc[c] = "none"

(* What Run returned agrees with what became of the process.                *)
ResultAtLabel(c) ==
    /\ pc[c] # "returned" => result[c] = None
    /\ pc[c] = "returned" => result[c] \in Results
    /\ pc[c] = "returned" /\ ~result[c].failed /\ ~dryRun =>
            proc[c] = "exit0" /\ c \notin killed /\ c \notin holders

OneAtATime == \A c, d \in Calls : Running(c) /\ Running(d) => c = d

Inv ==
    /\ TypeOK
    /\ \A c \in Calls : /\ ProcessAtLabel(c) /\ ExecutorAtLabel(c)
                        /\ LateAtLabel(c) /\ ResultAtLabel(c)
    /\ OneAtATime

-----------------------------------------------------------------------------
(* The results Run builds are well-formed answers.                          *)
LEMMA AnswersAreWellFormed ==
    /\ Synthesised \in Promise!Answers /\ Synthesised.dry /\ ~Synthesised.failed
    /\ Success \in Promise!Answers /\ ~Success.dry /\ ~Success.failed
    /\ OtherError \in Promise!Answers /\ ~OtherError.dry /\ OtherError.failed
    /\ \A p : ExitError(p) \in Promise!Answers /\ ~ExitError(p).dry /\ ExitError(p).failed
  BY DEF Synthesised, Success, OtherError, ExitError, Promise!Answers

(* Every answer is a result. *)
LEMMA AnswersAreResults == Promise!Answers \subseteq Results
  BY DEF Promise!Answers, Results

-----------------------------------------------------------------------------
LEMMA InitInv == Init => Inv
  BY DEF Init, Inv, TypeOK, ProcessAtLabel, ExecutorAtLabel, LateAtLabel,
         ResultAtLabel, OneAtATime, Running, Labels, ProcStates

LEMMA CallInv ==
    ASSUME Inv, NEW c \in Calls, Call(c)
    PROVE  Inv'
  BY DEF Call, Goto, Inv, TypeOK, ProcessAtLabel, ExecutorAtLabel, LateAtLabel,
         ResultAtLabel, OneAtATime, Running, Labels

LEMMA SynthesiseInv ==
    ASSUME Inv, NEW c \in Calls, Synthesise(c)
    PROVE  Inv'
  BY AnswersAreWellFormed, AnswersAreResults
  DEF Synthesise, Return, Goto, Inv, TypeOK, ProcessAtLabel, ExecutorAtLabel,
      LateAtLabel, ResultAtLabel, OneAtATime, Running, Labels

LEMMA CheckInv ==
    ASSUME Inv, NEW c \in Calls, Check(c)
    PROVE  Inv'
  BY AnswersAreWellFormed, AnswersAreResults
  DEF Check, CtxDone, Return, Goto, Inv, TypeOK, ProcessAtLabel, ExecutorAtLabel,
      LateAtLabel, ResultAtLabel, OneAtATime, Running, Labels

LEMMA ForkInv ==
    ASSUME Inv, NEW c \in Calls, Fork(c)
    PROVE  Inv'
  BY AnswersAreWellFormed, AnswersAreResults
  DEF Fork, Return, Goto, Inv, TypeOK, ProcessAtLabel, ExecutorAtLabel,
      LateAtLabel, ResultAtLabel, OneAtATime, Running, Labels, ProcStates

LEMMA KillInv ==
    ASSUME Inv, NEW c \in Calls, Kill(c)
    PROVE  Inv'
  BY DEF Kill, MayLeaveHolder, Inv, TypeOK, ProcessAtLabel, ExecutorAtLabel,
         LateAtLabel, ResultAtLabel, OneAtATime, Running, ProcStates

LEMMA ReapInv ==
    ASSUME Inv, NEW c \in Calls, Reap(c)
    PROVE  Inv'
  BY DEF Reap, Goto, Inv, TypeOK, ProcessAtLabel, ExecutorAtLabel,
         LateAtLabel, ResultAtLabel, OneAtATime, Running, Labels

LEMMA DrainedInv ==
    ASSUME Inv, NEW c \in Calls, Drained(c)
    PROVE  Inv'
  BY AnswersAreWellFormed, AnswersAreResults
  DEF Drained, WaitResult, Return, Goto, Inv, TypeOK, ProcessAtLabel, ExecutorAtLabel,
      LateAtLabel, ResultAtLabel, OneAtATime, Running, Labels

LEMMA ExpireInv ==
    ASSUME Inv, NEW c \in Calls, Expire(c)
    PROVE  Inv'
  BY DEF Expire, Inv, TypeOK, ProcessAtLabel, ExecutorAtLabel,
         LateAtLabel, ResultAtLabel, OneAtATime, Running

LEMMA ProcessEndsInv ==
    ASSUME Inv, NEW c \in Calls, ProcessEnds(c)
    PROVE  Inv'
  BY DEF ProcessEnds, MayLeaveHolder, Inv, TypeOK, ProcessAtLabel, ExecutorAtLabel,
         LateAtLabel, ResultAtLabel, OneAtATime, Running, Labels, ProcStates

LEMMA HolderEndsInv ==
    ASSUME Inv, NEW c \in Calls, HolderEnds(c)
    PROVE  Inv'
  BY DEF HolderEnds, Inv, TypeOK, ProcessAtLabel, ExecutorAtLabel,
         LateAtLabel, ResultAtLabel, OneAtATime, Running

LEMMA CancelInv ==
    ASSUME Inv, Cancel
    PROVE  Inv'
  BY DEF Cancel, Inv, TypeOK, ProcessAtLabel, ExecutorAtLabel,
         LateAtLabel, ResultAtLabel, OneAtATime, Running

LEMMA NextInv == Inv /\ [Next]_vars => Inv'
<1> SUFFICES ASSUME Inv, [Next]_vars PROVE Inv'
  OBVIOUS
<1>1. CASE Cancel
  BY <1>1, CancelInv
<1>2. ASSUME NEW c \in Calls, Call(c) \/ Step(c) \/ Expire(c) \/ ProcessEnds(c) \/ HolderEnds(c)
      PROVE  Inv'
  BY <1>2, CallInv, SynthesiseInv, CheckInv, ForkInv, KillInv, ReapInv, DrainedInv,
     ExpireInv, ProcessEndsInv, HolderEndsInv DEF Step
<1>3. CASE UNCHANGED vars
  BY <1>3 DEF vars, Inv, TypeOK, ProcessAtLabel, ExecutorAtLabel,
              LateAtLabel, ResultAtLabel, OneAtATime, Running
<1> QED
  BY <1>1, <1>2, <1>3 DEF Next

(* Inv holds in every reachable state. *)
THEOREM Invariance == Spec => []Inv
<1>1. Init => Inv
  BY InitInv
<1>2. Inv /\ [Next]_vars => Inv'
  BY NextInv
<1> QED
  BY <1>1, <1>2, PTL DEF Spec

(* Every variable keeps to its type, the results Run builds included        *)
(* (executor.go:22-35).                                                     *)
THEOREM TypeCorrect == Spec => []TypeOK
  BY Invariance, PTL DEF Inv

(* A success is that of a command which exited with 0, was not killed and   *)
(* whose output was read to its end (executor.go:72-94).                    *)
THEOREM SuccessHolds == Spec => []SuccessIsReal
<1>1. Inv => SuccessIsReal
  BY DEF Inv, ResultAtLabel, SuccessIsReal
<1> QED
  BY <1>1, Invariance, PTL

(* No process outlives its call, and no two are alive (executor.go:76).     *)
THEOREM NothingLeft == Spec => []NoneLeftBehind
<1>1. Inv => NoneLeftBehind
  BY DEF Inv, TypeOK, ProcessAtLabel, OneAtATime, NoneLeftBehind, Running, Labels
<1> QED
  BY <1>1, Invariance, PTL

-----------------------------------------------------------------------------
(* The refinement: every step is a step of Command or leaves what a caller  *)
(* sees unchanged.                                                          *)
states  == [c \in Calls |-> StateSeen(c)]
effects == [c \in Calls |-> EffectSeen(c)]

LEMMA InitImplements == Init => Promise!Init
  BY DEF Init, Promise!Init, StateSeen, EffectSeen

(* A step that changes pc at one call only changes what is seen of it only. *)
LEMMA SeenAtOne ==
    ASSUME NEW c \in Calls, UNCHANGED <<dryRun, late, proc>>,
           pc \in [Calls -> Labels], NEW l, pc' = [pc EXCEPT ![c] = l]
    PROVE  /\ states' = [states EXCEPT ![c] = StateSeen(c)']
           /\ effects' = effects
  BY DEF states, effects, StateSeen, EffectSeen

LEMMA CallImplements ==
    ASSUME Inv, NEW c \in Calls, Call(c)
    PROVE  Promise!Ask(c)
<1>1. \A d \in Calls : StateSeen(d) \in {"new", "answered"}
  BY DEF Call, Running, StateSeen, Inv, TypeOK
<1>2. StateSeen(c) = "new"
  BY DEF Call, StateSeen
<1>3. states' = [states EXCEPT ![c] = IF cancelled /\ ~dryRun THEN "refused" ELSE "asked"]
  BY DEF Call, Goto, StateSeen, states, Inv, TypeOK, LateAtLabel
<1>4. UNCHANGED <<dryRun, cancelled, effects, result>>
  BY DEF Call, effects, EffectSeen
<1> QED
  BY <1>1, <1>2, <1>3, <1>4 DEF Promise!Ask, states, effects

(* Every step that returns is the answer of the call.                       *)
LEMMA ReturnImplements ==
    ASSUME Inv, NEW c \in Calls, NEW r \in Promise!Answers, Return(c, r),
           pc[c] \notin {"new", "returned"},
           r.dry <=> dryRun, ~r.failed /\ ~dryRun => proc[c] = "exit0",
           UNCHANGED <<dryRun, cancelled, proc, late>>
    PROVE  Promise!Answer(c)
<1>1. StateSeen(c) \in {"asked", "refused"}
  BY DEF StateSeen
<1>2. ~r.failed /\ ~dryRun => EffectSeen(c) = "completed"
  BY DEF EffectSeen
<1>3. result' = [result EXCEPT ![c] = r] /\ r.dry = dryRun
  BY DEF Return, Promise!Answers, Inv, TypeOK
<1>4. states' = [states EXCEPT ![c] = "answered"] /\ effects' = effects
  <2>1. StateSeen(c)' = "answered"
    BY DEF Return, Goto, StateSeen, Inv, TypeOK
  <2> QED
    BY <2>1, SeenAtOne DEF Return, Goto, Inv, TypeOK
<1> QED
  BY <1>1, <1>2, <1>3, <1>4 DEF Promise!Answer, states, effects

LEMMA ForkImplements ==
    ASSUME Inv, NEW c \in Calls, Fork(c)
    PROVE  Promise!Begin(c) \/ Promise!Answer(c)
<1>1. CASE Return(c, OtherError) /\ UNCHANGED proc
  BY <1>1, ReturnImplements, AnswersAreWellFormed
  DEF Fork, Inv, ExecutorAtLabel
<1>2. CASE Goto(c, "running") /\ UNCHANGED result /\ proc' = [proc EXCEPT ![c] = "alive"]
  <2>1. StateSeen(c) = "asked" /\ EffectSeen(c) = "none" /\ ~dryRun
    BY DEF Fork, StateSeen, EffectSeen, Inv, ProcessAtLabel, ExecutorAtLabel, LateAtLabel
  <2>2. states' = states
    BY <1>2 DEF Fork, Goto, StateSeen, states, Inv, TypeOK
  <2>3. effects' = [effects EXCEPT ![c] = "begun"]
    BY <1>2 DEF Fork, EffectSeen, effects, Inv, TypeOK
  <2> QED
    BY <1>2, <2>1, <2>2, <2>3 DEF Fork, Promise!Begin, states, effects
<1> QED
  BY <1>1, <1>2 DEF Fork

LEMMA ProcessEndsImplements ==
    ASSUME Inv, NEW c \in Calls, ProcessEnds(c)
    PROVE  Promise!Complete(c) \/ UNCHANGED Promise!vars
<1>1. states' = states /\ UNCHANGED <<dryRun, cancelled, result>>
  BY DEF ProcessEnds, StateSeen, states
<1>2. CASE proc' = [proc EXCEPT ![c] = "exit0"]
  <2>1. StateSeen(c) = "asked" /\ EffectSeen(c) = "begun"
    BY DEF ProcessEnds, StateSeen, EffectSeen, Inv, TypeOK, Labels, ProcessAtLabel,
           LateAtLabel
  <2>2. effects' = [effects EXCEPT ![c] = "completed"]
    BY <1>2 DEF EffectSeen, effects, Inv, TypeOK
  <2> QED
    BY <1>1, <2>1, <2>2 DEF Promise!Complete, states, effects
<1>3. CASE \E how \in {"exit1", "signalled"} : proc' = [proc EXCEPT ![c] = how]
  <2>1. effects' = effects
    BY <1>3 DEF ProcessEnds, EffectSeen, effects, Inv, TypeOK
  <2> QED
    BY <1>1, <2>1 DEF Promise!vars, states, effects
<1> QED
  BY <1>2, <1>3 DEF ProcessEnds

(* Killing, reaping, deadlines and descendants are the executor's own.      *)
LEMMA HiddenSteps ==
    ASSUME Inv, NEW c \in Calls, Kill(c) \/ Reap(c) \/ Expire(c) \/ HolderEnds(c)
    PROVE  UNCHANGED Promise!vars
<1>1. states' = states
  BY DEF Kill, Reap, Expire, HolderEnds, Goto, StateSeen, states, Inv, TypeOK
<1>2. effects' = effects
  BY DEF Kill, Reap, Expire, HolderEnds, EffectSeen, effects, Inv, TypeOK
<1> QED
  BY <1>1, <1>2 DEF Kill, Reap, Expire, HolderEnds, Promise!vars, states, effects

LEMMA StepImplements ==
    ASSUME Inv, NEW c \in Calls, Step(c)
    PROVE  [Promise!Next]_(Promise!vars)
<1>1. CASE Synthesise(c)
  <2>1. Promise!Answer(c)
    BY <1>1, ReturnImplements, AnswersAreWellFormed
    DEF Synthesise, Inv, ExecutorAtLabel
  <2> QED
    BY <2>1 DEF Promise!Next
<1>2. CASE Check(c)
  <2>1. CASE Return(c, OtherError)
    <3>1. Promise!Answer(c)
      BY <1>2, <2>1, ReturnImplements, AnswersAreWellFormed
      DEF Check, Inv, ExecutorAtLabel
    <3> QED
      BY <3>1 DEF Promise!Next
  <2>2. CASE Goto(c, "forking") /\ UNCHANGED result
    <3>1. states' = states /\ effects' = effects
      BY <1>2, <2>2 DEF Check, Goto, StateSeen, EffectSeen, states, effects, Inv, TypeOK
    <3> QED
      BY <1>2, <2>2, <3>1 DEF Check, Promise!vars, states, effects
  <2> QED
    BY <1>2, <2>1, <2>2 DEF Check
<1>3. CASE Fork(c)
  BY <1>3, ForkImplements DEF Promise!Next
<1>4. CASE Drained(c)
  <2>1. /\ WaitResult(c) \in Promise!Answers
        /\ ~WaitResult(c).dry
        /\ ~WaitResult(c).failed => proc[c] = "exit0"
    BY AnswersAreWellFormed DEF WaitResult
  <2>2. Promise!Answer(c)
    BY <1>4, <2>1, ReturnImplements DEF Drained, Inv, ExecutorAtLabel, Promise!Answers
  <2> QED
    BY <2>2 DEF Promise!Next
<1>5. CASE Kill(c) \/ Reap(c)
  BY <1>5, HiddenSteps
<1> QED
  BY <1>1, <1>2, <1>3, <1>4, <1>5 DEF Step

(* The executor implements Command (executor.go:38-44,58-115).              *)
THEOREM Refinement == Spec => Implements
<1>1. Init => Promise!Init
  BY InitImplements
<1>2. Inv /\ [Next]_vars => [Promise!Next]_(Promise!vars)
  <2> SUFFICES ASSUME Inv, [Next]_vars PROVE [Promise!Next]_(Promise!vars)
    OBVIOUS
  <2>1. CASE Cancel
    <3>1. states' = states /\ effects' = effects
      BY <2>1 DEF Cancel, StateSeen, EffectSeen, states, effects
    <3>2. Promise!Close
      BY <2>1, <3>1 DEF Cancel, Promise!Close, states, effects
    <3> QED
      BY <3>2 DEF Promise!Next
  <2>2. ASSUME NEW c \in Calls, Call(c)
        PROVE  [Promise!Next]_(Promise!vars)
    BY <2>2, CallImplements DEF Promise!Next
  <2>3. ASSUME NEW c \in Calls, Step(c)
        PROVE  [Promise!Next]_(Promise!vars)
    BY <2>3, StepImplements
  <2>4. ASSUME NEW c \in Calls, Expire(c) \/ HolderEnds(c)
        PROVE  [Promise!Next]_(Promise!vars)
    BY <2>4, HiddenSteps
  <2>5. ASSUME NEW c \in Calls, ProcessEnds(c)
        PROVE  [Promise!Next]_(Promise!vars)
    BY <2>5, ProcessEndsImplements DEF Promise!Next
  <2>6. CASE UNCHANGED vars
    BY <2>6 DEF vars, Promise!vars, StateSeen, EffectSeen
  <2> QED
    BY <2>1, <2>2, <2>3, <2>4, <2>5, <2>6 DEF Next
<1> QED
  BY <1>1, <1>2, Invariance, PTL DEF Spec, Implements, Promise!Spec

-----------------------------------------------------------------------------
(* How a call comes to its end. *)

(* The most steps a call has left, those of its process, of its timer and   *)
(* of the goroutine that kills included.                                    *)
StepsLeft(c) ==
    LET timer == IF c \in expired THEN 0 ELSE 1
        kill  == IF c \in killed THEN 0 ELSE 1
        alive == IF proc[c] = "alive" THEN 1 ELSE 0
    IN  CASE pc[c] = "checking" -> 6 + timer
          [] pc[c] = "forking"  -> 5 + timer
          [] pc[c] = "running"  -> 2 + timer + kill + alive
          [] pc[c] \in {"dryRun", "draining"} -> 1 + timer
          [] OTHER              -> 0

(* None are left just when it is not in progress, and a process that was    *)
(* killed can be reaped.                                                    *)
StepsCount ==
    \A c \in Calls :
        /\ StepsLeft(c) \in Nat /\ (StepsLeft(c) = 0 <=> ~Running(c))
        /\ c \in killed => proc[c] # "alive"

(* Whatever becomes of a call or of its process brings it nearer to its     *)
(* end, and no other call comes between.                                    *)
StepsRunOut ==
    [][\A c \in Calls :
          Running(c) /\ ~UNCHANGED <<pc, proc, killed, expired>> =>
              StepsLeft(c)' < StepsLeft(c)]_vars

LEMMA Countable == ASSUME Inv PROVE StepsCount
<1>. SUFFICES ASSUME NEW c \in Calls
              PROVE  /\ StepsLeft(c) \in Nat /\ (StepsLeft(c) = 0 <=> ~Running(c))
                     /\ c \in killed => proc[c] # "alive"
  BY DEF StepsCount
<1>1. pc[c] \in Labels
  BY DEF Inv, TypeOK
<1>2. CASE pc[c] = "running"
  BY <1>2 DEF StepsLeft, Running, Inv, ProcessAtLabel
<1>3. CASE pc[c] # "running"
  BY <1>1, <1>3 DEF StepsLeft, Running, Labels, Inv, ProcessAtLabel
<1> QED
  BY <1>2, <1>3

LEMMA Nearer ==
    ASSUME Inv, Next, NEW c \in Calls, Running(c),
           ~UNCHANGED <<pc, proc, killed, expired>>
    PROVE  StepsLeft(c)' < StepsLeft(c)
<1>. USE DEF Inv, TypeOK
<1>1. CASE Cancel \/ \E d \in Calls : HolderEnds(d) \/ Call(d)
  BY <1>1 DEF Cancel, HolderEnds, Call
<1>2. ASSUME NEW d \in Calls, Step(d) \/ Expire(d) \/ ProcessEnds(d) PROVE d = c
  BY <1>2
  DEF Step, Expire, ProcessEnds, Synthesise, Check, Fork, Kill, Reap, Drained,
      OneAtATime, Running, ProcessAtLabel, Labels
<1>3. CASE Synthesise(c) \/ Check(c) \/ Fork(c)
  BY <1>3 DEF Synthesise, Check, Fork, Return, Goto, StepsLeft, ProcessAtLabel
<1>4. CASE Kill(c) \/ Reap(c) \/ Drained(c)
  BY <1>4 DEF Kill, Reap, Drained, Return, Goto, StepsLeft, ProcessAtLabel
<1>5. CASE Expire(c) \/ ProcessEnds(c)
  BY <1>5 DEF Expire, ProcessEnds, StepsLeft, ProcessAtLabel, Running, Labels
<1> QED
  BY <1>1, <1>2, <1>3, <1>4, <1>5 DEF Next, Step

(* Every call ends, after at most 7 steps of its own, its process and its   *)
(* timer, except that it waits for the processes that hold its pipes open   *)
(* (executor.go:58-115).                                                    *)
THEOREM CallsEnd == Spec => []StepsCount /\ StepsRunOut
<1>1. Inv /\ [Next]_vars =>
        [\A c \in Calls :
            Running(c) /\ ~UNCHANGED <<pc, proc, killed, expired>> =>
                StepsLeft(c)' < StepsLeft(c)]_vars
  BY Nearer
<1> QED
  BY <1>1, Countable, Invariance, PTL DEF Spec, StepsRunOut
=============================================================================
