--------------------------- MODULE CaseDirectory ---------------------------
(***************************************************************************)
(* `kernledger acquire` and `kernledger package` in one case directory.    *)
(* No lock keeps them apart: what acquire writes are the files, and the    *)
(* lines of audit.log, that package hashes and archives at the same time.  *)
(*                                                                         *)
(* The acquisitions are those of CaseWriter, which Acquire implements; the *)
(* evidence that Package leaves to "another command" is what CaseWriter's  *)
(* variables hold, and its steps are the changes.                          *)
(***************************************************************************)
EXTENDS Naturals, Sequences, FiniteSets

CONSTANTS
    Runs,               \* the invocations of acquire
    Keys, MaxBuilds,    \* of Package
    MaxEdits,           \* bound: steps of acquire that Package can notice
    Special, None, Torn

VARIABLES
    state, planned, plans, image, sum, record,  \* of CaseWriter
    audit, manifestFile, tarball,               \* of Package, from here on
    pc, at, listing, header, todo, m, tarSha, result, outcome, builds,
    warned, lost, unread, changed, outdated, edits,
    finished,   \* history: the acquisitions ended well when the build began
    line        \* history: [Runs -> Nat], where in audit.log a plan is

(* The disk has room, insmod returns when LiME is done, and --output is in  *)
(* the case directory.                                                      *)
Writer == INSTANCE CaseWriter WITH Lossy <- FALSE, Lagging <- FALSE

(* The files in the order of the two walks; --tarball is outside.           *)
Files == [record |-> "acquire-manifest.json", log |-> "audit.log",
          manifest |-> "manifest.json", image |-> "memory.lime"]

Evidence == [p \in {Files.record, Files.image} |->
                IF p = Files.record THEN record ELSE image]

Packager == INSTANCE Package WITH
    Order <- <<Files.record, Files.log, Files.manifest, Files.image>>,
    Directories <- {{Files.record, Files.log, Files.manifest, Files.image}},
    AuditLog <- Files.log, ManifestJson <- Files.manifest,
    AcquireManifest <- Files.record, Tarball <- "bundle.tar.gz",
    Contents <- Writer!Records \cup Writer!Images \cup {Torn},
    Absent <- None, Garbled <- {Torn},
    evidence <- Evidence

(* What stands for a missing or a half-written file is not a whole one.     *)
ASSUME MarksAssumption ==
    /\ None \notin Writer!Images \cup Writer!Records \cup {Torn}
    /\ Torn \notin Writer!Records /\ None \notin Nat
    /\ Special \notin Writer!Images \cup Writer!Records \cup {None, Torn}
    /\ None \notin Packager!Manifests \cup Packager!Bundles \cup Packager!Results
    /\ Torn \notin Packager!Manifests
    /\ MaxBuilds \in Nat /\ MaxEdits \in Nat

writerVars   == <<state, planned, plans, image, sum, record>>
packagerVars == <<manifestFile, tarball, pc, at, listing, header, todo, m, tarSha,
                  result, outcome, builds, warned, lost, unread>>
vars == <<writerVars, packagerVars, audit, changed, outdated, edits, finished, line>>

Init == Writer!Init /\ Packager!Init /\ finished = {} /\ line = [r \in Runs |-> 0]

-----------------------------------------------------------------------------
(* What a step of acquire is to a build in progress.                        *)
Touched == {p \in DOMAIN Evidence : Evidence'[p] # Evidence[p]}
           \cup (IF audit' # audit THEN {Files.log} ELSE {})

(* Bound: edits.                                                            *)
Notice ==
    /\ changed' = IF Packager!Reading THEN changed \cup Touched ELSE changed
    /\ outdated' = (outdated \/ (Packager!Reading /\ record' # record))
    /\ Touched # {} => edits < MaxEdits
    /\ edits' = IF Touched = {} THEN edits ELSE edits + 1

(* Of the lines of acquire in audit.log only the plans are told apart.      *)
(* Bound: none once the last build is over.                                 *)
AcquireSavesAsManifest ==
    /\ builds < MaxBuilds \/ pc # "idle"
    /\ Writer!Next
    /\ audit' = audit + Cardinality(plans' \ plans)
    /\ line' = [r \in Runs |-> IF r \in plans' \ plans THEN audit' ELSE line[r]]
    /\ manifestFile' = IF record' # record THEN Torn ELSE manifestFile
    /\ Notice
    /\ UNCHANGED <<tarball, pc, at, listing, header, todo, m, tarSha, result,
                   outcome, builds, warned, lost, unread, finished>>

Acquire ==
    /\ builds < MaxBuilds \/ pc # "idle"
    /\ Writer!Next
    /\ audit' = audit + Cardinality(plans' \ plans)
    /\ line' = [r \in Runs |-> IF r \in plans' \ plans THEN audit' ELSE line[r]]
    /\ Notice
    /\ UNCHANGED <<packagerVars, finished>>

(* A step of package, or its end by a signal.                               *)
(* Bound: no build begins before an acquisition has ended well.             *)
Package ==
    /\ UNCHANGED <<writerVars, line>>
    /\ \/ /\ finished' = {r \in Runs : state[r] = "well"}
          /\ finished' # {}
          /\ Packager!Begin
       \/ (Packager!Step \/ Packager!Crash) /\ UNCHANGED finished

Next == Acquire \/ Package

Spec == Init /\ [][Next]_vars

-----------------------------------------------------------------------------
(* Properties. *)

(* To a build, acquire is no more than the other command of Package: each   *)
(* of its steps changes one piece of evidence, or logs a line, or cannot be *)
(* noticed, and none touches what Build itself writes.  What Package        *)
(* promises holds beside it, then (acquire.go:139-173,                      *)
(* cli/acquire.go:110-121).                                                 *)
ImplementsPackager == Packager!Spec

InBundle(a) == a \in tarball.files

(* Where the image in a delivered bundle comes from can be told from the    *)
(* bundle alone, whatever ran at the same time, if the second walk could    *)
(* look up the record and audit.log (it leaves them out without a word if   *)
(* not).  When its acquisition had ended well before the build began, the   *)
(* bundle has that acquisition's record, with the image's hash or none; or  *)
(* the bundle's audit.log has the plan of another acquisition, a mere dry   *)
(* run perhaps, which replaced the record.  It rests on acquire's order, a  *)
(* plan before a record, and on package's, acquire-manifest.json before     *)
(* audit.log (acquire.go:139-173, cli/acquire.go:110-121,                   *)
(* pkgbuild.go:300-356).                                                    *)
Provenance ==
    Packager!Delivered /\ {Files.record, Files.log} \cap unread = {} =>
        \A i \in tarball.files : i.path = Files.image /\ i.sha.by \in finished =>
            \/ \E hash \in {i.sha, None} :
                  InBundle([path |-> Files.record,
                            sha  |-> [run |-> i.sha.by, image |-> hash]])
            \/ \E q \in Runs \ {i.sha.by}, n \in 1..audit :
                  InBundle([path |-> Files.log, sha |-> n]) /\ line[q] \in 1..n
=============================================================================
