-------------------------- MODULE MCCaseDirectory --------------------------
(* Instances of CaseDirectory for TLC. *)
EXTENDS CaseDirectory, TLC

(* Provenance is about what is archived.  No step reads what the first walk *)
(* found, and of audit.log only whether it has grown since its header and   *)
(* which plans are in the archived one matter, so that states that differ   *)
(* in nothing else are one to TLC: the next steps, and what the view shows  *)
(* of their outcomes, are the same.  Nor is there a next step once the last *)
(* build is over.                                                           *)
Told ==
    <<finished, IF tarball = None THEN {} ELSE {i \in tarball.files : i.path # Files.log},
      {q \in Runs : \E n \in 1..audit :
          tarball # None /\ InBundle([path |-> Files.log, sha |-> n]) /\ line[q] \in 1..n},
      unread \cap {Files.record, Files.log}>>

Archived ==
    IF pc = "idle" /\ builds = MaxBuilds
    THEN IF result = None THEN <<>> ELSE Told
    ELSE <<writerVars, Told, pc, at, listing,
           IF pc = "copy" /\ at = 1 THEN header = audit ELSE header,
           todo, builds, manifestFile = None, tarball = None>>

Symmetry == Permutations(Runs)
=============================================================================
