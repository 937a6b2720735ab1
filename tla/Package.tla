------------------------------ MODULE Package ------------------------------
(***************************************************************************)
(* `kernledger package`: one build after the other turns a case directory  *)
(* into a manifest.json and a .tar.gz.  Build reads the case directory     *)
(* twice, once to hash every file and once to archive it, and appends to   *)
(* audit.log, which is one of those files, while it does.                  *)
(*                                                                         *)
(* Other commands may add, rewrite or remove evidence in the directory at  *)
(* any time, and append to audit.log; any system call may fail, and what   *)
(* the audit log cannot write is lost; the process may be killed between   *)
(* any two steps, in the middle of an archived file too.  A file's content *)
(* stands for its SHA-256: the hash has no collisions.                     *)
(*                                                                         *)
(* A definition that differs from the next one by a plausible bug stands   *)
(* before it; nothing refers to it.  PROJECT.json pairs each with the      *)
(* property that notices the bug.                                          *)
(***************************************************************************)
EXTENDS Naturals, Sequences

CONSTANTS
    Order,            \* every path of the case directory, as Walk sorts them
    Directories,      \* what lies beneath each directory, a set of paths for each
    AuditLog, ManifestJson, Tarball,  \* the paths Build treats specially
    AcquireManifest,  \* the evidence whose content Build also parses
    Contents,         \* what a piece of evidence may hold
    Absent,           \* the "content" of a file that is not there
    Special,          \* that of an entry that is no regular file: a link, a directory
    Garbled,          \* the contents of AcquireManifest that do not parse
    Keys,             \* the metadata Metadata asks for (ec2/imds.go:100-107)
    MaxBuilds,        \* bound: builds
    MaxEdits,         \* bound: changes other commands make to the directory
    None, Torn

Paths    == {Order[n] : n \in 1..Len(Order)}
Evidence == Paths \ {AuditLog, ManifestJson, Tarball}
Hashed   == Evidence \cup {AuditLog}
Held     == Contents \cup {Absent, Special}

(* The number of lines is the content of audit.log.  A CloudInfo is the     *)
(* fields it has a value for, besides the provider's name.                  *)
Artifacts == [path : Evidence, sha : Contents] \cup [path : {AuditLog}, sha : Nat]
Manifests == [cloud : {None} \cup SUBSET Keys, acquisition : Held,
              artifacts : SUBSET Artifacts]

(* `files` are the entries copied whole, but for manifest.json; `bare` are  *)
(* those with a header and no content, or not all of one file's.            *)
Bundles   == [files : SUBSET Artifacts, bare : SUBSET Paths,
              manifest : Manifests \cup {None, Torn}, finalised : BOOLEAN]
Results   == [manifest : Manifests, sha : Bundles \cup {None}]
Labels    == {"idle", "cloud", "token", "metadata", "load", "walk", "save", "write", "archive",
              "tar", "copy", "close", "hash", "report"}
Outcomes  == {"ok", "error", "killed"}

ASSUME ConstantsAssumption ==
    /\ AuditLog \in Paths /\ ManifestJson \in Paths /\ AcquireManifest \in Evidence
    /\ Order \in Seq(Paths)
    /\ \A i, j \in 1..Len(Order) : Order[i] = Order[j] => i = j
    /\ Directories \subseteq SUBSET Paths
    /\ Absent \notin Contents /\ Special \notin Contents \cup {Absent}
    /\ Garbled \subseteq Contents
    /\ MaxBuilds \in Nat /\ MaxEdits \in Nat
    /\ AuditLog # ManifestJson /\ Tarball \notin {AuditLog, ManifestJson}
    /\ None \notin Manifests \cup Bundles \cup Results
    /\ Torn \notin Manifests \cup {None}

VARIABLES
    evidence,      \* [Evidence -> Held], the content of each file, or Absent
    audit,         \* the number of lines in audit.log, its content
    manifestFile,  \* manifest.json
    tarball,       \* the file at --tarball
    pc,            \* where the build in progress is
    at,            \* how many paths of the current Walk are behind it
    listing,       \* the names Walk read from the directory
    header,        \* what the archive has announced and not got: a file's content
    todo,          \* the keys Metadata has yet to ask for
    m,             \* the Manifest in memory
    tarSha,        \* the hash of the tarball, once taken
    result,        \* the BuildResult of the last build, None unless it returned one
    outcome,       \* how the last build ended
    builds,        \* the number of builds begun
    warned,        \* history: paths this build warned about in audit.log
    lost,          \* history: paths whose warning did not get there
    unread,        \* history: paths the second walk could not look up
    changed,       \* history: paths changed since the first walk hashed or missed them
    outdated,      \* history: has AcquireManifest changed since Load read it?
    edits          \* history: the changes other commands made

disk    == <<evidence, audit, manifestFile, tarball>>
locals  == <<at, listing, header, todo, m, tarSha>>
memory  == <<pc, locals, result, outcome, builds>>
history == <<warned, lost, unread, changed, outdated, edits>>
vars    == <<disk, memory, history>>

EmptyManifestMutant == [cloud |-> None, acquisition |-> None, artifacts |-> {}]
EmptyManifest == [cloud |-> None, acquisition |-> Absent, artifacts |-> {}]
EmptyBundle   == [files |-> {}, bare |-> {}, manifest |-> None, finalised |-> FALSE]

Init ==
    /\ evidence \in [Evidence -> Held]
    /\ audit = 1
    /\ \/ manifestFile = None /\ tarball = None         \* the first build,
       \/ manifestFile = Torn /\ tarball = EmptyBundle  \* or others were killed
    /\ pc = "idle" /\ at = 0 /\ listing = {} /\ header = None
    /\ todo = {}
    /\ m = EmptyManifest /\ tarSha = None
    /\ result = None /\ outcome = "ok" /\ builds = 0
    /\ warned = {} /\ lost = {} /\ unread = {}
    /\ changed = {} /\ outdated = FALSE /\ edits = 0

-----------------------------------------------------------------------------
(* Helpers. *)

Content(p) == IF p = AuditLog THEN audit ELSE evidence[p]

(* What readdir lists.  audit.log exists: the command has it open.          *)
Present ==
    {p \in Evidence : evidence[p] # Absent} \cup {AuditLog}
    \cup (IF manifestFile = None THEN {} ELSE {ManifestJson})
    \cup (IF tarball = None THEN {} ELSE {Tarball})

(* Between hashing a file and archiving it, a change would go unnoticed.    *)
Reading == pc \in {"walk", "save", "write", "archive", "tar", "copy"}

Changes(p) == changed' = IF Reading THEN changed \cup {p} ELSE changed

Quiet == UNCHANGED <<audit, changed>>

(* One more line in audit.log, by this build or by another command.         *)
Grow == audit' = audit + 1 /\ Changes(AuditLog)

(* audit.Logger.write ignores the error of its write: the line may be lost. *)
AppendLine == Grow \/ Quiet

(* What each walk leaves out without a word.                                *)
WalkSkipsAudit    == {Tarball, ManifestJson, AuditLog}
TarSkipsAudit     == {Tarball, AuditLog}
TarSkipsManifest  == {Tarball, ManifestJson}
TarSkipsSubordinate == {Tarball, AcquireManifest}
WalkSkips == {Tarball, ManifestJson}
TarSkips  == {Tarball}

(* What Build returns is all that is left of its variables.                 *)
End(how) ==
    /\ pc' = "idle" /\ outcome' = how
    /\ at' = 0 /\ listing' = {} /\ header' = None /\ todo' = {}
    /\ m' = EmptyManifest /\ tarSha' = None

(* writeTarGz closes the archive on every path, so that even an aborted one *)
(* ends like a whole one, unless a close fails, which nobody sees, as it    *)
(* does when a file fell short of its header.                               *)
Close == tarball' \in {[tarball EXCEPT !.finalised = f] : f \in {FALSE, header = None}}

-----------------------------------------------------------------------------
(* packageCmd.Run and Build, up to the walk. *)

(* With --include-ec2-metadata the cloud is asked first.  An unknown        *)
(* distribution is a line in the log, and there is no one to ask.           *)
Begin ==
    /\ pc = "idle" /\ builds < MaxBuilds
    /\ builds' = builds + 1
    /\ \/ pc' \in {"cloud", "load"} /\ UNCHANGED audit
       \/ pc' = "load" /\ audit' = audit + 1
    /\ m' = EmptyManifest
    /\ result' = None /\ tarSha' = None
    /\ warned' = {} /\ lost' = {} /\ unread' = {}
    /\ changed' = {} /\ outdated' = FALSE
    /\ UNCHANGED <<evidence, manifestFile, tarball, at, listing, header, todo,
                   outcome, edits>>

Asking(step, next) ==
    /\ pc = step /\ pc' = next
    /\ UNCHANGED <<evidence, manifestFile, tarball, at, listing, header,
                   tarSha, result, outcome, builds, warned, lost, unread,
                   outdated, edits>>

(* buildCloudInfo and fetchCloudMetadata.                                   *)
Fetch == Asking("cloud", "token") /\ AppendLine /\ UNCHANGED <<todo, m>>

(* Without a token nothing is asked (IMDSv2 only) and there is a warning.   *)
(* With one there is a CloudInfo, since the provider's name goes into it.   *)
Token ==
    \/ /\ Asking("token", "metadata")
       /\ m' = [m EXCEPT !.cloud = {}] /\ todo' = Keys
       /\ Quiet
    \/ /\ Asking("token", "load")
       /\ AppendLine
       /\ UNCHANGED <<todo, m>>

(* The look-ups, in any order, since they are a Go map.  A failed one and a *)
(* 404 leave the field empty, as does an identity document without an       *)
(* account; none of it is logged.                                           *)
Get(k) ==
    /\ Asking("metadata", "metadata")
    /\ k \in todo /\ todo' = todo \ {k}
    /\ m' \in {m, [m EXCEPT !.cloud = @ \cup {k}]}
    /\ Quiet

MetadataEnds ==
    /\ Asking("metadata", "load") /\ todo = {}
    /\ Quiet /\ UNCHANGED <<todo, m>>

(* manifest.Load: a file that cannot be read or parsed counts as absent; a  *)
(* link is followed, to whatever lies at its end.                           *)
Load ==
    /\ pc = "load"
    /\ m' \in {m} \cup {[m EXCEPT !.acquisition = v] :
                          v \in IF evidence[AcquireManifest] = Special
                                THEN Contents \ Garbled
                                ELSE {evidence[AcquireManifest]} \ Garbled}
    /\ pc' = "walk" /\ at' = 0 /\ listing' = Present
    /\ UNCHANGED <<disk, header, todo, tarSha, result, outcome, builds, history>>

-----------------------------------------------------------------------------
(* The two walks.  Walk reads the names first and visits them in order.     *)

Visiting(step) == pc = step /\ at < Len(Order)

Here   == Order[at + 1]
Behind == {Order[k] : k \in 1..at}

Past(step, next) ==
    /\ pc = step /\ at = Len(Order)
    /\ pc' = next /\ at' = 0 /\ listing' = {}
    /\ UNCHANGED <<disk, header, todo, m, tarSha, result, outcome, builds,
                   history>>

(* What is out of Walk's reach from here on: the path at hand, when its     *)
(* lstat fails, or the directory it would enter now, when its readdir does. *)
OutOfReach ==
    {d \in Directories \cup {{Here}} :
        Here \in d /\ d \cap Behind = {} /\ d \cap listing # {}}

Skip(d) == listing' = listing \ d /\ at' = at + 1

(* The first walk hashes each regular file and passes over the rest.        *)
WalkFile ==
    /\ Visiting("walk")
    /\ \/ /\ Here \in listing \ WalkSkips
          /\ Content(Here) \notin {Absent, Special}
          /\ m' = [m EXCEPT !.artifacts = @ \cup {[path |-> Here, sha |-> Content(Here)]}]
          /\ changed' = changed \ {Here}
       \/ /\ Here \in listing \ WalkSkips => Content(Here) = Special
          /\ UNCHANGED <<m, changed>>
    /\ at' = at + 1
    /\ UNCHANGED <<disk, pc, listing, header, todo, tarSha, result, outcome,
                   builds, warned, lost, unread, outdated, edits>>

(* It warns of what it cannot reach or hash, and leaves it out.             *)
WalkFails ==
    /\ Visiting("walk")
    /\ \E d \in OutOfReach :
          /\ Skip(d)
          /\ \/ Grow /\ warned' = warned \cup (d \cap Hashed) /\ UNCHANGED lost
             \/ AppendLine /\ lost' = lost \cup (d \cap Hashed) /\ UNCHANGED warned
    /\ UNCHANGED <<evidence, manifestFile, tarball, pc, header, todo, m,
                   tarSha, result, outcome, builds, unread, outdated, edits>>

WalkEnds == Past("walk", "save")

(* Manifest.Save: os.WriteFile truncates, then writes.                      *)
Truncate ==
    /\ pc = "save"
    /\ \/ manifestFile' = Torn /\ pc' = "write" /\ UNCHANGED <<locals, outcome>>
       \/ End("error") /\ UNCHANGED manifestFile
    /\ UNCHANGED <<evidence, audit, tarball, result, builds, history>>

Write ==
    /\ pc = "write"
    /\ \/ manifestFile' = m /\ pc' = "archive" /\ UNCHANGED <<locals, outcome>>
       \/ End("error") /\ UNCHANGED manifestFile
    /\ UNCHANGED <<evidence, audit, tarball, result, builds, history>>

(* writeTarGz: the old tarball is truncated before the new one is written.  *)
Archive ==
    /\ pc = "archive"
    /\ \/ /\ tarball' = EmptyBundle
          /\ pc' = "tar" /\ at' = 0 /\ listing' = Present
          /\ UNCHANGED <<header, todo, m, tarSha, outcome>>
       \/ End("error") /\ UNCHANGED tarball
    /\ UNCHANGED <<evidence, audit, manifestFile, result, builds, history>>

(* The second walk leaves out without a word what it cannot reach.          *)
TarSkipped ==
    /\ Visiting("tar")
    /\ \/ Here \notin listing \ TarSkips /\ at' = at + 1 /\ UNCHANGED <<listing, unread>>
       \/ \E d \in OutOfReach : Skip(d) /\ unread' = unread \cup d
    /\ UNCHANGED <<disk, pc, header, todo, m, tarSha, result, outcome,
                   builds, warned, lost, changed, outdated, edits>>

(* A header first, of the size that lstat saw.  What is no regular file has *)
(* no more than that.  None is written while the file before it falls short.*)
TarHeader ==
    /\ Visiting("tar") /\ header = None /\ Here \in listing \ TarSkips
    /\ Here \in Hashed => Content(Here) # Absent
    /\ tarball' = [tarball EXCEPT !.bare = @ \cup {Here}]
    /\ \/ /\ Here \in Evidence /\ evidence[Here] = Special
          /\ at' = at + 1 /\ UNCHANGED <<pc, header>>
       \/ /\ Here \in Evidence => evidence[Here] # Special
          /\ pc' = "copy" /\ UNCHANGED at
          /\ header' = IF Here \in Hashed THEN Content(Here) ELSE None
    /\ UNCHANGED <<evidence, audit, manifestFile, listing, todo, m, tarSha,
                   result, outcome, builds, history>>

(* Then the content.  Of evidence rewritten since, the copy is whole if the *)
(* size is the same, a mixture if it is rewritten just now, and falls short *)
(* if there is less.  What there is too much of does not fit, as when       *)
(* audit.log has grown, and ends the build.                                 *)
TarFile ==
    /\ pc = "copy"
    /\ \/ /\ Here = ManifestJson
          /\ tarball' = [tarball EXCEPT !.bare = @ \ {Here}, !.manifest = manifestFile]
          /\ header' = None
       \/ /\ Here \in Hashed /\ Content(Here) \notin {Absent, Special}
          /\ Here = AuditLog => audit = header
          /\ tarball' = [tarball EXCEPT !.bare = @ \ {Here}, !.files =
                             @ \cup {[path |-> Here, sha |-> Content(Here)]}]
          /\ header' = None
       \/ /\ Here \in Evidence /\ evidence[Here] \notin {header, Absent}
          /\ UNCHANGED tarball /\ header' \in {header, None}
    /\ pc' = "tar" /\ at' = at + 1
    /\ UNCHANGED <<evidence, audit, manifestFile, listing, todo, m, tarSha,
                   result, outcome, builds, history>>

TarStartsOver ==
    /\ Visiting("tar") \/ pc = "copy"
    /\ Here \in listing \ TarSkips
    /\ Close
    /\ pc' = "archive"
    /\ UNCHANGED <<evidence, audit, manifestFile, at, listing, header, todo, m,
                   tarSha, result, outcome, builds, history>>

(* A file that cannot be opened or read, or a write that fails, ends the    *)
(* build, in the middle of a header or of a copy.                           *)
TarAborts ==
    /\ Visiting("tar") \/ pc = "copy"
    /\ Here \in listing \ TarSkips
    /\ \E part \in SUBSET {Here}, f \in BOOLEAN :
          tarball' = [tarball EXCEPT !.bare = @ \cup part, !.finalised = f]
    /\ End("error")
    /\ UNCHANGED <<evidence, audit, manifestFile, result, builds, history>>

TarEnds == Past("tar", "close")

HashBeforeClose ==
    /\ pc = "close"
    /\ Close
    /\ tarSha' = tarball
    /\ pc' = "report"
    /\ UNCHANGED <<evidence, audit, manifestFile, at, listing, header, todo, m,
                   result, outcome, builds, history>>

CloseTarball ==
    /\ pc = "close"
    /\ Close
    /\ pc' = "hash"
    /\ UNCHANGED <<evidence, audit, manifestFile, at, listing, header, todo, m,
                   tarSha, result, outcome, builds, history>>

(* A tarball that cannot be hashed is a warning only: its hash is "".       *)
HashTarball ==
    /\ pc = "hash"
    /\ \/ tarSha' = tarball /\ Quiet
       \/ AppendLine /\ UNCHANGED tarSha
    /\ pc' = "report"
    /\ UNCHANGED <<evidence, manifestFile, tarball, at, listing, header, todo,
                   m, result, outcome, builds, warned, lost, unread, outdated, edits>>

Report ==
    /\ pc = "report"
    /\ AppendLine
    /\ result' = [manifest |-> m, sha |-> tarSha]
    /\ End("ok")
    /\ UNCHANGED <<evidence, manifestFile, tarball, builds, warned, lost,
                   unread, outdated, edits>>

Step ==
    \/ Fetch \/ Token \/ MetadataEnds \/ (\E k \in Keys : Get(k))
    \/ Load \/ WalkFile \/ WalkFails \/ WalkEnds \/ Truncate \/ Write
    \/ Archive \/ TarSkipped \/ TarHeader \/ TarFile \/ TarAborts \/ TarEnds
    \/ CloseTarball \/ HashTarball \/ Report

-----------------------------------------------------------------------------
(* The environment. *)

Crash ==
    /\ pc # "idle"
    /\ End("killed")
    /\ UNCHANGED <<disk, result, builds, history>>

(* Once the last build has ended, nothing that happens matters to one.      *)
Edit ==
    /\ edits < MaxEdits /\ edits' = edits + 1
    /\ pc = "idle" => builds < MaxBuilds

(* acquire, collect or an analyst writes or removes a piece of evidence.    *)
ChangeEvidence(p) ==
    /\ Edit
    /\ \E v \in (Contents \cup {Absent}) \ {evidence[p]} :
          evidence' = [evidence EXCEPT ![p] = v]
    /\ Changes(p)
    /\ outdated' = (outdated \/ (Reading /\ p = AcquireManifest))
    /\ UNCHANGED <<audit, manifestFile, tarball, memory, warned, lost, unread>>

(* Another command in the same case directory logs something.               *)
OthersAppend ==
    /\ Edit
    /\ Grow
    /\ UNCHANGED <<evidence, manifestFile, tarball, memory, warned, lost, unread,
                   outdated>>

Environment == Crash \/ OthersAppend \/ \E p \in Evidence : ChangeEvidence(p)

Next == Begin \/ Step \/ Environment

Spec == Init /\ [][Next]_vars

(* A build that has begun keeps being scheduled; the environment need not   *)
(* do anything.                                                             *)
FairSpec == Spec /\ WF_vars(Step)

-----------------------------------------------------------------------------
(* Properties. *)

TypeOK ==
    /\ evidence \in [Evidence -> Held]
    /\ audit \in Nat
    /\ manifestFile \in Manifests \cup {None, Torn}
    /\ tarball \in Bundles \cup {None}
    /\ pc \in Labels
    /\ at \in 0..Len(Order)
    /\ listing \subseteq Paths \cup {Tarball}
    /\ header \in Contents \cup Nat \cup {None}
    /\ todo \subseteq Keys
    /\ m \in Manifests
    /\ tarSha \in Bundles \cup {None}
    /\ result \in Results \cup {None}
    /\ outcome \in Outcomes
    /\ builds \in 0..MaxBuilds
    /\ warned \subseteq Hashed /\ lost \subseteq Hashed /\ unread \subseteq Paths
    /\ changed \subseteq Hashed
    /\ outdated \in BOOLEAN
    /\ edits \in 0..MaxEdits

Delivered == result # None

(* The hash chain of a delivered bundle, whatever else wrote to the case    *)
(* directory meanwhile: every file the manifest lists is in the tarball     *)
(* once, whole and with the listed hash, unless it changed after it was     *)
(* hashed, or the second walk could not look it up and left it out, of      *)
(* which nobody is told (pkgbuild.go:118-152,300-356).                      *)
HashChain ==
    Delivered => \A a \in result.manifest.artifacts :
        \/ a.path \in changed
        \/ /\ a.path \notin tarball.bare
           /\ {b \in tarball.files : b.path = a.path} =
                 IF a.path \in unread THEN {} ELSE {a}

(* And the converse: the tarball has the content of no file the manifest is *)
(* silent about, unless the build warned of it or it changed.  The warning  *)
(* is in audit.log unless it could not be written (pkgbuild.go:119-140,     *)
(* audit.go:81).                                                            *)
NoSilentOmission ==
    Delivered => \A a \in tarball.files :
                    \/ a \in result.manifest.artifacts
                    \/ a.path \in warned \cup lost \cup changed

(* One manifest: what Build returns is what lies on disk, the hash it       *)
(* returns is that of the finished tarball, and the tarball holds that very *)
(* manifest, whole, or none at all when the second walk could not look      *)
(* manifest.json up; never half of one or another build's                   *)
(* (pkgbuild.go:22-25,154-181,322-324).                                     *)
OneManifest ==
    Delivered =>
        /\ result.manifest = manifestFile
        /\ ManifestJson \notin tarball.bare
        /\ tarball.manifest = IF ManifestJson \in unread THEN None ELSE result.manifest
        /\ result.sha \in {None, tarball}

(* The acquisition section carried into manifest.json comes from the very   *)
(* acquire-manifest.json the tarball holds, so that the two can be          *)
(* cross-checked, unless that was rewritten after Build had parsed it, is a *)
(* link, of which the tarball has the header only, or could not be looked   *)
(* up by the second walk (pkgbuild.go:102-108,135,322-353).                 *)
CarriedForward ==
    Delivered /\ result.manifest.acquisition # Absent
        => \/ outdated
           \/ AcquireManifest \in tarball.bare \cup unread
           \/ [path |-> AcquireManifest, sha |-> result.manifest.acquisition]
                 \in tarball.files

(* Every build ends (in a result, an error or a crash), whatever happens in *)
(* the directory.                                                           *)
BuildEnds == pc # "idle" ~> pc = "idle"

(* docs/forensic-considerations.md:136-137: "Recompute the SHA-256 of each  *)
(* file in the bundle.  Compare against manifest.artifacts[].sha256."  In a *)
(* directory nobody else touches, they would all agree.                     *)
EveryHashAgrees ==
    Delivered => \A a \in tarball.files, b \in result.manifest.artifacts :
                    a.path = b.path => a = b

(* What there is to it: as long as no other command has touched the         *)
(* directory, the only file that may disagree with its listed hash is the   *)
(* audit.log that the build itself warns into (pkgbuild.go:118-140).        *)
OnlyAuditLogDisagrees ==
    Delivered /\ edits = 0 =>
        \A a \in tarball.files, b \in result.manifest.artifacts :
            a.path = b.path => a = b \/ a.path = AuditLog

(* pkgbuild.go:193-195: "If the flag is off, or IMDS is unreachable, or the *)
(* provider returns no data, this returns nil - manifest.cloud is then      *)
(* absent from the JSON output."                                            *)
CloudNeedsData == Delivered => result.manifest.cloud # {}
=============================================================================
