----------------------------- MODULE MCPackage -----------------------------
(* Instances of Package for TLC. *)
EXTENDS Package

(* The files that Build treats specially, audit.log between the others, and *)
(* the tarball elsewhere.  There is more in the directory of MCCaseDirectory. *)
MCOrder == <<"acquire-manifest.json", "audit.log", "manifest.json">>

(* The case directory itself; a file by itself cannot be looked up either.  *)
MCDirectories == {Paths}
=============================================================================
