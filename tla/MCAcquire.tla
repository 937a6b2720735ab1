----------------------------- MODULE MCAcquire -----------------------------
(* Instances of Acquire for TLC. *)
EXTENDS Acquire, TLC

(* The flags of an operator: every combination of --mode, --execute,        *)
(* --dry-run and --rmmod that the code treats differently, and one case     *)
(* each of an operator without root and of options Validate rejects.        *)
Flags(mode, execute, dryRun, rmmod) ==
    [mode |-> mode, execute |-> execute, dryRun |-> dryRun, rmmod |-> rmmod,
     privileged |-> TRUE, valid |-> TRUE]

MCChoices ==
    {Flags("file", TRUE, FALSE, TRUE), Flags("file", TRUE, FALSE, FALSE),
     Flags("tcp", TRUE, FALSE, TRUE), Flags("file", TRUE, TRUE, FALSE),
     Flags("file", FALSE, FALSE, FALSE)}
    \cup {[Flags("tcp", FALSE, FALSE, TRUE) EXCEPT !.privileged = FALSE],
          [Flags("file", TRUE, FALSE, FALSE) EXCEPT !.privileged = FALSE],
          [Flags("file", TRUE, FALSE, FALSE) EXCEPT !.valid = FALSE]}

(* Enough of them for every step: with an image, planned only, rejected.    *)
MCFewChoices ==
    {Flags("file", TRUE, FALSE, TRUE), Flags("file", FALSE, FALSE, FALSE),
     [Flags("tcp", TRUE, FALSE, FALSE) EXCEPT !.valid = FALSE]}

(* Invocations differ only by name. *)
Symmetry == Permutations(Runs)
=============================================================================
