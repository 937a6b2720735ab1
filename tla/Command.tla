------------------------------ MODULE Command ------------------------------
(***************************************************************************)
(* What executor.Executor promises its callers: they run one command after *)
(* the other under one context, and every call is answered at most once,   *)
(* with a Result and an error that agree.  How a command comes to its end  *)
(* is left open; Executor says how and implements this specification.      *)
(***************************************************************************)
EXTENDS Integers

CONSTANTS
    Calls,  \* the calls of Run, made one at a time
    None

(* A Result and its error.  `failed`: the error is not nil; `text`: the     *)
(* Err field is not empty; `dry`: the DryRun field.  Of the positive exit   *)
(* codes 1 stands for all.                                                  *)
Answers ==
    {a \in [failed : BOOLEAN, code : -1..1, text : BOOLEAN, dry : BOOLEAN] :
        /\ a.failed <=> a.code # 0
        /\ a.text => a.code = -1
        /\ a.dry => ~a.failed}

VARIABLES
    dryRun,  \* is this a DryRunExecutor?
    closed,  \* has the callers' context been cancelled?
    state,   \* [Calls -> {"new", "asked", "refused", "answered"}]
    effect,  \* [Calls -> {"none", "begun", "completed"}], on the host
    answer   \* [Calls -> Answers], once answered

vars == <<dryRun, closed, state, effect, answer>>

Init ==
    /\ dryRun \in BOOLEAN
    /\ closed = FALSE
    /\ state = [c \in Calls |-> "new"]
    /\ effect = [c \in Calls |-> "none"]
    /\ answer = [c \in Calls |-> None]

(* A call made under a cancelled context is refused at once.                *)
Ask(c) ==
    /\ state[c] = "new"
    /\ \A d \in Calls : state[d] \in {"new", "answered"}
    /\ state' = [state EXCEPT ![c] = IF closed /\ ~dryRun THEN "refused" ELSE "asked"]
    /\ UNCHANGED <<dryRun, closed, effect, answer>>

Begin(c) ==
    /\ state[c] = "asked" /\ effect[c] = "none" /\ ~dryRun
    /\ effect' = [effect EXCEPT ![c] = "begun"]
    /\ UNCHANGED <<dryRun, closed, state, answer>>

Complete(c) ==
    /\ state[c] = "asked" /\ effect[c] = "begun"
    /\ effect' = [effect EXCEPT ![c] = "completed"]
    /\ UNCHANGED <<dryRun, closed, state, answer>>

(* Success is reported only of a command that completed, or of one a        *)
(* dry-run executor was asked to run.                                       *)
Answer(c) ==
    /\ state[c] \in {"asked", "refused"}
    /\ \E a \in Answers :
         /\ a.dry = dryRun
         /\ ~a.failed /\ ~dryRun => effect[c] = "completed"
         /\ answer' = [answer EXCEPT ![c] = a]
    /\ state' = [state EXCEPT ![c] = "answered"]
    /\ UNCHANGED <<dryRun, closed, effect>>

Close ==
    /\ ~closed
    /\ closed' = TRUE
    /\ UNCHANGED <<dryRun, state, effect, answer>>

Next == Close \/ \E c \in Calls : Ask(c) \/ Begin(c) \/ Complete(c) \/ Answer(c)

Spec == Init /\ [][Next]_vars
=============================================================================
