------------------------------ MODULE Executor ------------------------------
(***************************************************************************)
(* RealExecutor.Run and DryRunExecutor.Run: the one place where kernledger *)
(* starts other programs.  The callers are sequential and share a context  *)
(* that a signal cancels; each call adds a timeout of its own.             *)
(*                                                                         *)
(* os/exec does the work and is external: Start looks at the context and   *)
(* forks, a goroutine kills the process when the context is done, Wait     *)
(* reaps the process and then waits until the pipes that fill the stdout   *)
(* and stderr buffers are closed.  A descendant of the command may hold    *)
(* them open after the command is gone, and Run sets no WaitDelay.         *)
(*                                                                         *)
(* A definition that differs from the next one by a plausible bug stands   *)
(* before it; nothing refers to it.  PROJECT.json pairs each with the      *)
(* property that notices the bug.                                          *)
(***************************************************************************)
EXTENDS Integers

CONSTANTS Calls, Orphans, None

ASSUME ConstantsAssumption == Orphans \in BOOLEAN

Labels     == {"new", "dryRun", "checking", "forking", "running", "draining",
               "returned"}
ProcStates == {"none", "alive", "exit0", "exit1", "signalled"}
Results    == [failed : BOOLEAN, code : -1..1, text : BOOLEAN, dry : BOOLEAN]

VARIABLES
    dryRun,     \* is this a DryRunExecutor?
    cancelled,  \* has the callers' context been cancelled?
    expired,    \* the calls whose own deadline has passed
    pc,         \* [Calls -> Labels]
    proc,       \* [Calls -> ProcStates], the command's process
    killed,     \* the calls whose process os/exec has signalled
    holders,    \* the calls whose pipes a descendant holds open
    result,     \* [Calls -> Results], what Run returned
    late        \* history: the calls made when the context was cancelled

vars == <<dryRun, cancelled, expired, pc, proc, killed, holders, result, late>>

Init ==
    /\ dryRun \in BOOLEAN
    /\ cancelled = FALSE
    /\ expired = {}
    /\ pc = [c \in Calls |-> "new"]
    /\ proc = [c \in Calls |-> "none"]
    /\ killed = {} /\ holders = {}
    /\ result = [c \in Calls |-> None]
    /\ late = {}

-----------------------------------------------------------------------------
(* Helpers. *)

Running(c) == pc[c] \notin {"new", "returned"}

(* The context of the call: the caller's, with a deadline.                  *)
CtxDone(c) == cancelled \/ c \in expired

Goto(c, l) == pc' = [pc EXCEPT ![c] = l]

Return(c, r) == Goto(c, "returned") /\ result' = [result EXCEPT ![c] = r]

Synthesised == [failed |-> FALSE, code |-> 0, text |-> FALSE, dry |-> TRUE]
Success     == [failed |-> FALSE, code |-> 0, text |-> FALSE, dry |-> FALSE]

(* An *ExitError carries the exit code, -1 after a signal; any other error  *)
(* is recorded as -1 and in Err.                                            *)
ExitErrorShellStyle(p) ==
    [failed |-> TRUE, code |-> IF p = "exit1" THEN 1 ELSE 128 + 9,
     text |-> FALSE, dry |-> FALSE]
ExitError(p) == [failed |-> TRUE, code |-> IF p = "exit1" THEN 1 ELSE -1,
                 text |-> FALSE, dry |-> FALSE]
OtherError   == [failed |-> TRUE, code |-> -1, text |-> TRUE, dry |-> FALSE]

(* What Wait returns.  A process that had exited with 0 but was not reaped  *)
(* when the signal was sent counts as interrupted.                          *)
WaitResult(c) ==
    IF proc[c] # "exit0" THEN ExitError(proc[c])
    ELSE IF c \in killed THEN OtherError ELSE Success

(* The call whose process ends may leave a descendant behind.               *)
MayLeaveHolder(c) == holders' \in {holders} \cup (IF Orphans THEN {holders \cup {c}} ELSE {})

-----------------------------------------------------------------------------
(* Run. *)

Call(c) ==
    /\ pc[c] = "new"
    /\ \A d \in Calls : ~Running(d)
    /\ Goto(c, IF dryRun THEN "dryRun" ELSE "checking")
    /\ late' = IF cancelled THEN late \cup {c} ELSE late
    /\ UNCHANGED <<dryRun, cancelled, expired, proc, killed, holders, result>>

(* DryRunExecutor.Run, which looks at no context and starts nothing.        *)
Synthesise(c) ==
    /\ pc[c] = "dryRun"
    /\ Return(c, Synthesised)
    /\ UNCHANGED <<dryRun, cancelled, expired, proc, killed, holders, late>>

(* Cmd.Start looks the program up and looks at the context, then forks.     *)
CheckForgetsContext(c) ==
    /\ pc[c] = "checking"
    /\ \/ Return(c, OtherError)
       \/ Goto(c, "forking") /\ UNCHANGED result
    /\ UNCHANGED <<dryRun, cancelled, expired, proc, killed, holders, late>>

Check(c) ==
    /\ pc[c] = "checking"
    /\ \/ Return(c, OtherError)
       \/ ~CtxDone(c) /\ Goto(c, "forking") /\ UNCHANGED result
    /\ UNCHANGED <<dryRun, cancelled, expired, proc, killed, holders, late>>

Fork(c) ==
    /\ pc[c] = "forking"
    /\ \/ /\ Goto(c, "running") /\ UNCHANGED result
          /\ proc' = [proc EXCEPT ![c] = "alive"]
       \/ Return(c, OtherError) /\ UNCHANGED proc
    /\ UNCHANGED <<dryRun, cancelled, expired, killed, holders, late>>

(* The goroutine that watches the context.  The process may have exited,    *)
(* with nobody having reaped it yet.                                        *)
KillOnCancelOnly(c) ==
    /\ pc[c] = "running" /\ cancelled /\ c \notin killed
    /\ killed' = killed \cup {c}
    /\ IF proc[c] = "alive"
         THEN proc' = [proc EXCEPT ![c] = "signalled"] /\ MayLeaveHolder(c)
         ELSE UNCHANGED <<proc, holders>>
    /\ UNCHANGED <<dryRun, cancelled, expired, pc, result, late>>

Kill(c) ==
    /\ pc[c] = "running" /\ CtxDone(c) /\ c \notin killed
    /\ killed' = killed \cup {c}
    /\ IF proc[c] = "alive"
         THEN proc' = [proc EXCEPT ![c] = "signalled"] /\ MayLeaveHolder(c)
         ELSE UNCHANGED <<proc, holders>>
    /\ UNCHANGED <<dryRun, cancelled, expired, pc, result, late>>

ReapGivesUp(c) ==
    /\ pc[c] = "running" /\ (proc[c] # "alive" \/ CtxDone(c))
    /\ Goto(c, "draining")
    /\ UNCHANGED <<dryRun, cancelled, expired, proc, killed, holders, result, late>>

Reap(c) ==
    /\ pc[c] = "running" /\ proc[c] # "alive"
    /\ Goto(c, "draining")
    /\ UNCHANGED <<dryRun, cancelled, expired, proc, killed, holders, result, late>>

(* Wait returns when the pipes are closed, and Run with it.                 *)
ReturnsUndrained(c) ==
    /\ pc[c] = "draining"
    /\ Return(c, WaitResult(c))
    /\ UNCHANGED <<dryRun, cancelled, expired, proc, killed, holders, late>>

Drained(c) ==
    /\ pc[c] = "draining" /\ c \notin holders
    /\ Return(c, WaitResult(c))
    /\ UNCHANGED <<dryRun, cancelled, expired, proc, killed, holders, late>>

-----------------------------------------------------------------------------
(* The environment: the clock, the operator, the command itself.            *)

Expire(c) ==
    /\ Running(c) /\ c \notin expired
    /\ expired' = expired \cup {c}
    /\ UNCHANGED <<dryRun, cancelled, pc, proc, killed, holders, result, late>>

Cancel ==
    /\ ~cancelled
    /\ cancelled' = TRUE
    /\ UNCHANGED <<dryRun, expired, pc, proc, killed, holders, result, late>>

(* The command ends by itself, or by a signal from elsewhere.               *)
ProcessEnds(c) ==
    /\ proc[c] = "alive"
    /\ \E how \in {"exit0", "exit1", "signalled"} : proc' = [proc EXCEPT ![c] = how]
    /\ MayLeaveHolder(c)
    /\ UNCHANGED <<dryRun, cancelled, expired, pc, killed, result, late>>

HolderEnds(c) ==
    /\ c \in holders
    /\ holders' = holders \ {c}
    /\ UNCHANGED <<dryRun, cancelled, expired, pc, proc, killed, result, late>>

Step(c) ==
    Synthesise(c) \/ Check(c) \/ Fork(c) \/ Kill(c) \/ Reap(c) \/ Drained(c)

Next ==
    \/ Cancel
    \/ \E c \in Calls :
         Call(c) \/ Step(c) \/ Expire(c) \/ ProcessEnds(c) \/ HolderEnds(c)

Spec == Init /\ [][Next]_vars

(* The Go runtime schedules Run and the goroutines of os/exec, and the      *)
(* timer of the call fires.  Nothing is assumed of the command, of what it  *)
(* leaves behind or of the operator.                                        *)
Fairness ==
    \A c \in Calls :
        /\ WF_vars(Synthesise(c)) /\ WF_vars(Check(c)) /\ WF_vars(Fork(c))
        /\ WF_vars(Kill(c)) /\ WF_vars(Reap(c)) /\ WF_vars(Drained(c))
        /\ WF_vars(Expire(c))

FairSpec == Spec /\ Fairness

-----------------------------------------------------------------------------
(* Properties. *)

TypeOK ==
    /\ dryRun \in BOOLEAN
    /\ cancelled \in BOOLEAN
    /\ expired \subseteq Calls
    /\ pc \in [Calls -> Labels]
    /\ proc \in [Calls -> ProcStates]
    /\ killed \subseteq Calls /\ holders \subseteq Calls
    /\ result \in [Calls -> Results \cup {None}]
    /\ late \subseteq Calls

(* What a caller sees of a call, and what the host does.                    *)
StateSeen(c) ==
    CASE pc[c] = "new" -> "new"
      [] pc[c] = "returned" -> "answered"
      [] OTHER -> IF c \in late /\ ~dryRun THEN "refused" ELSE "asked"

EffectSeen(c) ==
    CASE proc[c] = "none" -> "none"
      [] proc[c] = "exit0" -> "completed"
      [] OTHER -> "begun"

Promise == INSTANCE Command WITH
    closed <- cancelled,
    state  <- [c \in Calls |-> StateSeen(c)],
    effect <- [c \in Calls |-> EffectSeen(c)],
    answer <- result

(* The executor keeps its promise: one call at a time, one answer for each, *)
(* a result and an error that agree, no success without a command that      *)
(* completed, no effect of a call made under a cancelled context            *)
(* (executor.go:38-44,58-115).                                              *)
Implements == Promise!Spec

(* Success means that the process exited with 0 before anything killed it,  *)
(* and that all its output was read (executor.go:72-94).                    *)
SuccessIsReal ==
    \A c \in Calls : pc[c] = "returned" /\ ~result[c].failed /\ ~dryRun =>
        proc[c] = "exit0" /\ c \notin killed /\ c \notin holders

(* Run leaves no command of its own behind: at most one is alive, and it is *)
(* that of the call in progress (executor.go:76).                           *)
NoneLeftBehind ==
    \A c \in Calls : proc[c] = "alive" =>
        Running(c) /\ \A d \in Calls \ {c} : proc[d] # "alive"

(* A command that hangs is killed and its call returns, as long as nothing  *)
(* it started keeps its pipes open (executor.go:59-63,71-76).               *)
ReturnsUnlessHeld ==
    \A c \in Calls : Running(c) ~> pc[c] = "returned" \/ c \in holders

(* executor.go:4-8: going through this interface "guarantees a single       *)
(* chokepoint for ... timeout / cancellation".  Every call would return.    *)
EveryCallReturns == \A c \in Calls : Running(c) ~> pc[c] = "returned"
=============================================================================
