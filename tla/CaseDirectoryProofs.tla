------------------------ MODULE CaseDirectoryProofs ------------------------
(***************************************************************************)
(* Theorems about CaseDirectory, for any number of acquisitions and builds *)
(* in one case directory.                                                  *)
(***************************************************************************)
EXTENDS CaseDirectory, FiniteSetTheorems, TLAPS

Walking   == pc \in {"tar", "copy"}
Archiving == Walking \/ pc \in {"close", "hash", "report"} \/ result # None

WritersType ==
    /\ state \in [Runs -> Writer!States]
    /\ planned \subseteq Runs /\ plans = planned
    /\ image \in Writer!Images \cup {None}
    /\ sum \in [Runs -> Writer!Images \cup {None}]
    /\ record \in Writer!Records \cup {None, Torn}

(* The hash a run will record is of the image, as long as the image is its. *)
Hashes ==
    \A r \in Runs :
        /\ state[r] \in {"saving", "well"} => r \in plans
        /\ state[r] \in {"idle", "busy"} => sum[r] = None
        /\ state[r] \in {"saving", "well"} /\ sum[r] # None
              /\ image # None /\ image.by = r => image = sum[r]

(* The record of a run that ended well is there until another run has       *)
(* planned.                                                                 *)
Recorded ==
    \A r \in Runs : state[r] = "well" =>
        /\ record # None
        /\ \/ record = [run |-> r, image |-> sum[r]]
           \/ \E q \in Runs \ {r} : q \in plans

(* Where the plans are in audit.log.                                        *)
Lines ==
    /\ audit \in Nat /\ line \in [Runs -> Nat]
    /\ \A q \in plans : line[q] \in 1..audit

(* What the archive owes to the runs that had ended well, of what the       *)
(* second walk could look up.                                               *)
Saved(r) == [run |-> r, image |-> sum[r]]
Others(r) == \E q \in Runs \ {r} : q \in plans

RecordIn(r) ==
    Files.record \in unread \/ InBundle([path |-> Files.record, sha |-> Saved(r)])
PlanIn(q) ==
    \/ Files.log \in unread
    \/ \E n \in 1..audit :
          InBundle([path |-> Files.log, sha |-> n]) /\ line[q] \in 1..n

Past(n) == Walking => at >= n

Bundled ==
    /\ "files" \in DOMAIN tarball
    /\ Walking => Files.log \in listing \cup unread
    /\ \A r \in finished :
          /\ Walking => Files.record \in listing \cup unread
          /\ pc = "copy" /\ at = 0 => header = Saved(r) \/ Others(r)
          /\ Past(1) => \/ RecordIn(r)
                        \/ \E q \in plans \ {r} : Past(2) => PlanIn(q)
          /\ \A i \in tarball.files :
                i.path = Files.image /\ i.sha.by = r => sum[r] \in {i.sha, None}

Inv ==
    /\ WritersType /\ Hashes /\ Recorded /\ Lines
    /\ finished \subseteq {r \in Runs : state[r] = "well"}
    /\ at \in 0..4 /\ (pc = "copy" => at \in 0..3)
    /\ pc # "idle" => result = None
    /\ Archiving => Bundled

-----------------------------------------------------------------------------
(* The paths, in the order of the walks. *)
LEMMA Walk ==
  LET order == <<Files.record, Files.log, Files.manifest, Files.image>>
  IN  /\ Len(order) = 4 /\ Files.log # Files.record /\ Files.log # Files.image
      /\ order[1] = Files.record /\ order[2] = Files.log
      /\ order[3] = Files.manifest /\ order[4] = Files.image
      /\ Packager!Paths = {Files.record, Files.log, Files.manifest, Files.image}
      /\ Packager!Evidence = {Files.record, Files.image}
      /\ Packager!Hashed = {Files.record, Files.log, Files.image}
      /\ Packager!TarSkips = {"bundle.tar.gz"}
      /\ "bundle.tar.gz" \notin Packager!Paths
<1>. DEFINE order == <<Files.record, Files.log, Files.manifest, Files.image>>
<1>1. /\ Len(order) = 4
      /\ order[1] = Files.record /\ order[2] = Files.log
      /\ order[3] = Files.manifest /\ order[4] = Files.image
  OBVIOUS
<1>2. 1..Len(order) = {1, 2, 3, 4}
  BY <1>1
<1>3. Packager!Paths = {Files.record, Files.log, Files.manifest, Files.image}
  <2>. HIDE DEF order
  <2>1. {order[n] : n \in 1..Len(order)} = {order[1], order[2], order[3], order[4]}
    BY <1>2
  <2>. QED  BY <1>1, <2>1 DEF Packager!Paths, order
<1>. QED  BY <1>1, <1>3
          DEF Files, Packager!Evidence, Packager!Hashed, Packager!TarSkips

(* What the archive holds it keeps, while the lines of audit.log grow.      *)
LEMMA Stays ==
  ASSUME Bundled, Lines, UNCHANGED <<finished, unread>>,
         "files" \in DOMAIN tarball', tarball'.files = tarball.files,
         finished \subseteq Runs, \A r \in finished : sum'[r] = sum[r],
         plans \subseteq plans', plans \subseteq Runs,
         \A q \in plans : line'[q] = line[q],
         audit' \in Nat, audit <= audit',
         at \in 0..4, Walking' => UNCHANGED <<pc, at, listing, header>>,
         Walking /\ ~Walking' => at = 4
  PROVE  Bundled'
<1>1. ASSUME NEW r \in finished, RecordIn(r) PROVE RecordIn(r)'
  BY <1>1 DEF RecordIn, Saved, InBundle
<1>2. ASSUME NEW q \in plans, PlanIn(q) PROVE PlanIn(q)'
  <2>1. CASE Files.log \in unread
    BY <2>1 DEF PlanIn
  <2>2. ASSUME NEW n \in 1..audit, InBundle([path |-> Files.log, sha |-> n]), line[q] \in 1..n
        PROVE  PlanIn(q)'
    <3>1. n \in 1..audit'
      BY DEF Lines
    <3>2. [path |-> Files.log, sha |-> n] \in tarball'.files
      BY <2>2 DEF InBundle
    <3>3. line'[q] \in 1..n
      BY <1>2, <2>2
    <3>. QED  BY <3>1, <3>2, <3>3 DEF PlanIn, InBundle
  <2>. QED  BY <1>2, <2>1, <2>2 DEF PlanIn
<1>3. /\ Past(1)' => Past(1)
      /\ Past(2)' => Past(2)
  BY DEF Past, Walking
<1>4. ASSUME NEW r \in finished, Past(1)'
      PROVE  RecordIn(r)' \/ \E q \in plans' \ {r} : (Past(2) => PlanIn(q))'
  BY <1>1, <1>2, <1>3, <1>4 DEF Bundled
<1>5. ASSUME NEW r \in finished, NEW i \in tarball'.files,
             i.path = Files.image, i.sha.by = r
      PROVE  sum'[r] \in {i.sha, None}
  BY <1>5 DEF Bundled
<1>6. ASSUME NEW r \in finished, pc' = "copy", at' = 0
      PROVE  (header = Saved(r) \/ Others(r))'
  BY <1>6 DEF Bundled, Saved, Others, Walking
<1>. QED  BY <1>4, <1>5, <1>6 DEF Bundled, Walking

(* It only ever holds more, while nothing else changes.                     *)
LEMMA Grows ==
  ASSUME UNCHANGED <<audit, line, sum>>, unread \subseteq unread',
         tarball.files \subseteq tarball'.files
  PROVE  /\ \A r : RecordIn(r) => RecordIn(r)'
         /\ \A q : PlanIn(q) => PlanIn(q)'
BY DEF RecordIn, PlanIn, Saved, InBundle

-----------------------------------------------------------------------------
(* Acquisitions. *)

(* What one step of acquire does to its own part of the invariant.          *)
LEMMA Writers ==
  ASSUME WritersType, Hashes, Recorded, NEW r \in Runs, Writer!Step(r)
  PROVE  /\ WritersType' /\ Hashes' /\ Recorded'
         /\ \A s \in Runs : state[s] = "well" =>
               state'[s] = "well" /\ sum'[s] = sum[s]
         /\ plans' = plans \/ (r \notin plans /\ plans' = plans \cup {r})
<1>. USE MarksAssumption DEF WritersType, Writer!States, Writer!Move, Writer!Active
<1>1. CASE Writer!Start(r)
  BY <1>1 DEF Writer!Start, Hashes, Recorded
<1>2. CASE Writer!Plan(r)
  BY <1>2 DEF Writer!Plan, Hashes, Recorded
<1>3. CASE Writer!Dump(r)
  BY <1>3 DEF Writer!Dump, Writer!Images, Hashes, Recorded
<1>4. CASE Writer!Complete(r)
  BY <1>4 DEF Writer!Complete
<1>5. CASE Writer!Settle(r)
  BY <1>5 DEF Writer!Settle, Writer!Images, Hashes, Recorded
<1>6. CASE Writer!Tear(r)
  BY <1>6 DEF Writer!Tear, Hashes, Recorded
<1>7. CASE Writer!Save(r)
  BY <1>7 DEF Writer!Save, Writer!Records, Hashes, Recorded
<1>8. CASE Writer!Succeed(r)
  BY <1>8 DEF Writer!Succeed, Writer!Records, Hashes, Recorded
<1>9. CASE Writer!Fail(r)
  BY <1>9 DEF Writer!Fail, Hashes, Recorded
<1>. QED  BY <1>1, <1>2, <1>3, <1>4, <1>5, <1>6, <1>7, <1>8, <1>9
          DEF Writer!Step

(* Of what acquire logs, the plans are counted.                             *)
LEMMA Counted ==
  ASSUME Acquire, audit \in Nat
  PROVE  /\ plans' = plans => audit' = audit
         /\ \A r \in Runs \ plans : plans' = plans \cup {r} => audit' = audit + 1
<1>0. audit' = audit + Cardinality(plans' \ plans)
  BY DEF Acquire
<1>1. ASSUME plans' = plans PROVE audit' = audit
  <2>1. plans' \ plans = {}
    BY <1>1
  <2>2. Cardinality(plans' \ plans) = 0
    BY <2>1, FS_EmptySet
  <2>. QED  BY <1>0, <2>2
<1>2. ASSUME NEW r \in Runs \ plans, plans' = plans \cup {r} PROVE audit' = audit + 1
  <2>1. plans' \ plans = {r}
    BY <1>2
  <2>2. Cardinality(plans' \ plans) = 1
    BY <2>1, FS_Singleton
  <2>. QED  BY <1>0, <2>2
<1>. QED  BY <1>1, <1>2

(* A plan is the last line of audit.log when it is written.                 *)
LEMMA Logged ==
  ASSUME WritersType, Lines, Acquire, NEW r \in Runs,
         plans' = plans \/ (r \notin plans /\ plans' = plans \cup {r})
  PROVE  Lines' /\ audit <= audit' /\ \A q \in plans : line'[q] = line[q]
<1>. USE DEF Lines, WritersType
<1>0. line' = [q \in Runs |-> IF q \in plans' \ plans THEN audit' ELSE line[q]]
  BY DEF Acquire
<1>1. CASE plans' = plans
  <2>1. audit' = audit
    BY <1>1, Counted
  <2>2. line' = [q \in Runs |-> line[q]]
    BY <1>0, <1>1
  <2>3. line' = line
    BY <2>2
  <2>. QED  BY <1>1, <2>1, <2>3
<1>2. CASE r \notin plans /\ plans' = plans \cup {r}
  <2>1. audit' = audit + 1
    BY <1>2, Counted
  <2>2. audit' \in Nat /\ audit <= audit' /\ audit' \in 1..audit'
    BY <2>1
  <2>3. line' = [q \in Runs |-> IF q = r THEN audit' ELSE line[q]]
    BY <1>0, <1>2
  <2>4. line' \in [Runs -> Nat] /\ line'[r] = audit'
    BY <2>2, <2>3
  <2>5. ASSUME NEW q \in plans PROVE line'[q] = line[q] /\ line[q] \in 1..audit'
    BY <1>2, <2>1, <2>3
  <2>6. Lines'
    BY <1>2, <2>2, <2>4, <2>5 DEF Lines
  <2>. QED  BY <2>2, <2>5, <2>6
<1>. QED  BY <1>1, <1>2

(* An acquisition beside a build: what is in the archive stays there.       *)
LEMMA AcquireInv == ASSUME Inv, Acquire PROVE Inv'
<1>1. PICK r \in Runs : Writer!Step(r)
  BY DEF Acquire, Writer!Next
<1>2. /\ WritersType' /\ Hashes' /\ Recorded'
      /\ \A s \in Runs : state[s] = "well" => state'[s] = "well" /\ sum'[s] = sum[s]
      /\ plans' = plans \/ (r \notin plans /\ plans' = plans \cup {r})
  BY <1>1, Writers DEF Inv
<1>3. Lines' /\ audit <= audit' /\ \A q \in plans : line'[q] = line[q]
  BY <1>2, Logged DEF Inv
<1>4. UNCHANGED <<packagerVars, finished>>
  BY DEF Acquire
<1>5. Archiving' => Bundled'
  <2>. SUFFICES ASSUME Archiving PROVE Bundled'
    BY <1>4 DEF Archiving, Walking, packagerVars
  <2>. QED  BY <1>2, <1>3, <1>4, Stays
            DEF Inv, Bundled, Walking, packagerVars, Lines, WritersType
<1>. QED  BY <1>2, <1>3, <1>4, <1>5 DEF Inv, packagerVars

-----------------------------------------------------------------------------
(* Builds. *)

(* A tarball with files keeps them when another field is set.               *)
LEMMA Fields ==
  ASSUME NEW t, NEW x, NEW y, "files" \in DOMAIN t
  PROVE  /\ [t EXCEPT !.bare = y, !.files = x].files = x
         /\ [t EXCEPT !.bare = y, !.manifest = x].files = t.files
         /\ [t EXCEPT !.bare = x].files = t.files
         /\ [t EXCEPT !.finalised = x].files = t.files
         /\ "files" \in DOMAIN [t EXCEPT !.bare = y, !.files = x]
         /\ "files" \in DOMAIN [t EXCEPT !.bare = y, !.manifest = x]
         /\ "files" \in DOMAIN [t EXCEPT !.bare = x]
         /\ "files" \in DOMAIN [t EXCEPT !.finalised = x]
OBVIOUS

(* A step of package leaves what acquisitions hold as it is.                *)
LEMMA Apart ==
  ASSUME Inv, UNCHANGED <<writerVars, line>>, audit' \in {audit, audit + 1}
  PROVE  /\ WritersType' /\ Hashes' /\ Recorded' /\ Lines'
         /\ audit <= audit' /\ audit' \in Nat
<1>. USE DEF Inv, writerVars
<1>1. WritersType' /\ Hashes' /\ Recorded'
  BY DEF WritersType, Hashes, Recorded
<1>2. Lines' /\ audit <= audit' /\ audit' \in Nat
  BY DEF Lines
<1>. QED  BY <1>1, <1>2

(* A build begins: nothing is archived yet.                                 *)
LEMMA BeginInv ==
  ASSUME Inv, UNCHANGED <<writerVars, line>>, Packager!Begin,
         finished' = {r \in Runs : state[r] = "well"}
  PROVE  Inv'
<1>1. /\ audit' \in {audit, audit + 1} /\ result' = None
      /\ pc' \in {"cloud", "load"} /\ at' = at
  BY DEF Packager!Begin
<1>. QED  BY <1>1, Apart DEF Inv, Archiving, Walking, writerVars

(* Up to the archive, and when it fails, nothing is owed.                   *)
LEMMA Early ==
  ASSUME Inv, UNCHANGED <<writerVars, line, finished>>,
         \/ Packager!Fetch \/ Packager!Token \/ Packager!MetadataEnds
         \/ (\E k \in Keys : Packager!Get(k)) \/ Packager!Load
         \/ Packager!WalkFile \/ Packager!WalkFails \/ Packager!WalkEnds
         \/ Packager!Truncate \/ Packager!Write \/ Packager!TarAborts
         \/ Packager!Crash
  PROVE  Inv'
<1>. USE DEF Packager!Asking, Packager!Quiet, Packager!Grow, Packager!AppendLine,
             Packager!disk, Packager!memory, Packager!history, Packager!locals,
             Packager!End, Packager!Visiting, Packager!Past, Packager!Skip
<1>1. /\ audit' \in {audit, audit + 1} /\ result' = result /\ pc # "idle"
      /\ pc' \notin {"tar", "copy", "close", "hash", "report"}
  BY DEF Packager!Fetch, Packager!Token, Packager!MetadataEnds, Packager!Get,
         Packager!Load, Packager!WalkFile, Packager!WalkFails,
         Packager!WalkEnds, Packager!Truncate, Packager!Write,
         Packager!TarAborts, Packager!Crash
<1>2. at' \in {0, at} \/ (at < 4 /\ at' = at + 1)
  BY Walk
  DEF Packager!Fetch, Packager!Token, Packager!MetadataEnds, Packager!Get,
      Packager!Load, Packager!WalkFile, Packager!WalkFails,
      Packager!WalkEnds, Packager!Truncate, Packager!Write,
      Packager!TarAborts, Packager!Crash
<1>3. at' \in 0..4
  BY <1>2 DEF Inv
<1>. QED  BY <1>1, <1>3, Apart DEF Inv, Archiving, Walking, writerVars

(* The second walk lists the record of every run that had ended well.       *)
LEMMA ArchiveInv ==
  ASSUME Inv, UNCHANGED <<writerVars, line, finished>>, Packager!Archive
  PROVE  Inv'
<1>. USE DEF Packager!Archive, Packager!End, Packager!history
<1>1. audit' = audit /\ result' = None /\ at' \in 0..4
  BY DEF Inv
<1>2. CASE pc' = "tar"
  <2>1. at' = 0 /\ listing' = Packager!Present
    BY <1>2
  <2>2. Files.log \in listing'
    BY <2>1 DEF Packager!Present
  <2>3. \A r \in finished : Files.record \in listing'
    <3>1. \A r \in finished : record # None
      BY DEF Inv, Recorded
    <3>2. Files.record \in Packager!Evidence /\ Evidence[Files.record] = record
      BY Walk DEF Evidence
    <3>. QED  BY <2>1, <3>1, <3>2 DEF Packager!Present
  <2>4. "files" \in DOMAIN tarball' /\ tarball'.files = {}
    BY <1>2 DEF Packager!EmptyBundle
  <2>5. Bundled'
    BY <1>2, <2>1, <2>2, <2>3, <2>4 DEF Bundled, Past, Walking
  <2>. QED  BY <1>1, <1>2, <2>5, Apart DEF Inv, writerVars
<1>3. CASE pc' # "tar"
  BY <1>1, <1>3, Apart DEF Inv, Archiving, Walking, writerVars
<1>. QED  BY <1>2, <1>3

(* The path at hand in the second walk. *)
LEMMA AtHand ==
  ASSUME Inv, Walking, at \in 0..3
  PROVE  /\ Bundled /\ Packager!Here \notin Packager!TarSkips
         /\ at = 0 => /\ Packager!Here = Files.record
                      /\ Packager!Content(Packager!Here) = record
         /\ at = 1 => /\ Packager!Here = Files.log
                      /\ Packager!Content(Packager!Here) = audit
         /\ Packager!Here = Files.image => Packager!Content(Packager!Here) = image
<1>1. Packager!Here = <<Files.record, Files.log, Files.manifest, Files.image>>[at + 1]
  BY DEF Packager!Here
<1>2. Bundled
  BY DEF Inv, Archiving
<1>3. Packager!Here \notin Packager!TarSkips
  BY <1>1, Walk DEF Files
<1>. QED  BY <1>1, <1>2, <1>3, Walk DEF Packager!Content, Evidence, Files

(* What the second walk leaves out is unread, if it was there.              *)
LEMMA TarSkippedInv ==
  ASSUME Inv, UNCHANGED <<writerVars, line, finished>>, Packager!TarSkipped
  PROVE  Inv'
<1>1. /\ UNCHANGED <<audit, result, tarball, header>>
      /\ pc = "tar" /\ pc' = "tar" /\ at \in 0..3 /\ at' = at + 1
  BY Walk
  DEF Inv, Packager!TarSkipped, Packager!Visiting, Packager!Skip,
      Packager!disk
<1>2. /\ unread \subseteq unread' /\ listing \subseteq listing' \cup unread'
      /\ Packager!Here \in unread' \/ Packager!Here \notin listing
  BY <1>1, AtHand
  DEF Packager!TarSkipped, Packager!Skip, Packager!OutOfReach, Walking
<1>3. /\ Bundled
      /\ \A r : RecordIn(r) => RecordIn(r)'
      /\ \A q : PlanIn(q) => PlanIn(q)'
  BY <1>1, <1>2, AtHand, Grows DEF Walking, writerVars
<1>4. ASSUME NEW r \in finished
      PROVE  RecordIn(r)' \/ \E q \in plans \ {r} : (Past(2) => PlanIn(q))'
  <2>1. CASE at = 0
    <3>1. Files.record \in unread'
      BY <1>1, <1>2, <1>3, <2>1, AtHand DEF Bundled, Walking
    <3>. QED  BY <3>1 DEF RecordIn
  <2>2. CASE at = 1
    <3>1. Files.log \in unread'
      BY <1>1, <1>2, <1>3, <2>2, AtHand DEF Bundled, Walking
    <3>2. \A q : PlanIn(q)'
      BY <3>1 DEF PlanIn
    <3>. QED  BY <1>1, <1>3, <2>2, <3>2 DEF Bundled, Past, Walking
  <2>3. CASE at > 1
    <3>1. RecordIn(r) \/ \E q \in plans \ {r} : PlanIn(q)
      BY <1>1, <1>3, <2>3 DEF Bundled, Past
    <3>. QED  BY <1>3, <3>1
  <2>. QED  BY <1>1, <2>1, <2>2, <2>3
<1>5. Bundled'
  BY <1>1, <1>2, <1>3, <1>4 DEF Bundled, Walking, writerVars
<1>. QED  BY <1>1, <1>5, Apart DEF Inv, writerVars

(* The record that a header announces is the run's, or another run has      *)
(* planned.                                                                 *)
LEMMA TarHeaderInv ==
  ASSUME Inv, UNCHANGED <<writerVars, line, finished>>, Packager!TarHeader
  PROVE  Inv'
<1>1. /\ UNCHANGED <<audit, result, listing, unread>>
      /\ pc = "tar" /\ at \in 0..3
      /\ tarball' = [tarball EXCEPT !.bare = @ \cup {Packager!Here}]
  BY Walk DEF Inv, Packager!TarHeader, Packager!Visiting, Packager!history
<1>2. Bundled /\ "files" \in DOMAIN tarball' /\ tarball'.files = tarball.files
  BY <1>1, AtHand, Fields DEF Bundled, Walking
<1>3. \A p \in Packager!Evidence : Evidence[p] # Special
  BY MarksAssumption, Walk DEF Inv, WritersType, Evidence
<1>4. pc' = "copy" /\ at' = at
  BY <1>3 DEF Packager!TarHeader
<1>5. \A r : RecordIn(r) => RecordIn(r)'
  BY <1>1, <1>2, Grows DEF writerVars
<1>6. \A q : PlanIn(q) => PlanIn(q)'
  BY <1>1, <1>2, Grows DEF writerVars
<1>7. ASSUME NEW r \in finished, at = 0 PROVE (header = Saved(r) \/ Others(r))'
  <2>1. header' = record
    BY <1>1, <1>4, <1>7, AtHand, Walk DEF Packager!TarHeader, Walking
  <2>. QED  BY <2>1 DEF Inv, Recorded, Saved, Others, writerVars
<1>8. Bundled'
  BY <1>1, <1>2, <1>4, <1>5, <1>6, <1>7 DEF Bundled, Past, Walking, writerVars
<1>. QED  BY <1>1, <1>4, <1>8, Apart DEF Inv, writerVars

(* The record is archived first, audit.log second: a record replaced before *)
(* its copy, or in the middle of it, is told by a plan that is in the log   *)
(* already.                                                                 *)
LEMMA TarFileInv ==
  ASSUME Inv, UNCHANGED <<writerVars, line, finished>>, Packager!TarFile
  PROVE  Inv'
<1>. DEFINE here  == Packager!Here
            entry == [path |-> here, sha |-> Packager!Content(here)]
<1>1. /\ UNCHANGED <<audit, result, listing, unread>>
      /\ pc = "copy" /\ pc' = "tar" /\ at \in 0..3 /\ at' = at + 1
  BY DEF Inv, Packager!TarFile, Packager!history
<1>2. Bundled
  BY <1>1, AtHand DEF Walking
<1>3. \/ /\ here = Files.manifest
         /\ tarball' = [tarball EXCEPT !.bare = @ \ {here}, !.manifest = manifestFile]
      \/ /\ here \in Packager!Hashed /\ Packager!Content(here) # None
         /\ tarball' = [tarball EXCEPT !.bare = @ \ {here}, !.files = @ \cup {entry}]
      \/ /\ here \in Packager!Evidence /\ Packager!Content(here) # header
         /\ tarball' = tarball
  BY Walk DEF Packager!TarFile, Packager!Content, Files
<1>4. /\ "files" \in DOMAIN tarball' /\ tarball.files \subseteq tarball'.files
      /\ \A i \in tarball'.files \ tarball.files :
            i = entry /\ Packager!Content(here) # None
      /\ \/ here = Files.manifest
         \/ entry \in tarball'.files
         \/ here \in Packager!Evidence /\ Packager!Content(here) # header
  <2>1. "files" \in DOMAIN tarball
    BY <1>2 DEF Bundled
  <2>. HIDE DEF here, entry
  <2>2. /\ \A y, x : [tarball EXCEPT !.bare = y, !.files = x].files = x
        /\ \A y, x : [tarball EXCEPT !.bare = y, !.manifest = x].files = tarball.files
        /\ \A y, x : "files" \in DOMAIN [tarball EXCEPT !.bare = y, !.files = x]
        /\ \A y, x : "files" \in DOMAIN [tarball EXCEPT !.bare = y, !.manifest = x]
    BY <2>1, Fields
  <2>3. CASE tarball' = [tarball EXCEPT !.bare = @ \ {here}, !.manifest = manifestFile]
    BY <1>3, <2>1, <2>2, <2>3
  <2>4. CASE tarball' = [tarball EXCEPT !.bare = @ \ {here}, !.files = @ \cup {entry}]
    BY <1>3, <2>1, <2>2, <2>4
  <2>5. CASE tarball' = tarball
    BY <1>3, <2>1, <2>5
  <2>. QED  BY <1>3, <2>3, <2>4, <2>5
<1>5. ASSUME NEW r \in finished
      PROVE  RecordIn(r)' \/ \E q \in plans' \ {r} : (Past(2) => PlanIn(q))'
  <2>1. RecordIn(r) => RecordIn(r)'
    BY <1>1, <1>4, Grows DEF writerVars
  <2>2. CASE at = 0
    <3>1. here = Files.record /\ Packager!Content(here) = record
      BY <1>1, <2>2, AtHand DEF Walking
    <3>2. CASE record = Saved(r) /\ ~Others(r)
      <4>1. [path |-> Files.record, sha |-> Saved(r)] \in tarball'.files
        BY <1>1, <1>2, <1>4, <2>2, <3>1, <3>2, Walk DEF Bundled, Files
      <4>. QED  BY <4>1 DEF RecordIn, InBundle, Saved, writerVars
    <3>3. CASE Others(r)
      BY <1>1, <2>2, <3>3 DEF Past, Walking, Others, writerVars
    <3>. QED  BY <3>2, <3>3 DEF Inv, Recorded, Saved, Others
  <2>3. ASSUME NEW q \in plans \ {r}, at > 0, Past(2) => PlanIn(q)
        PROVE  PlanIn(q)'
    <3>1. CASE at = 1
      <4>1. here = Files.log /\ Packager!Content(here) = audit
        BY <1>1, <3>1, AtHand DEF Walking
      <4>2. audit \in Nat /\ line[q] \in 1..audit
        BY DEF Inv, Lines
      <4>3. [path |-> Files.log, sha |-> audit] \in tarball'.files
        BY <1>4, <4>1, Walk DEF Files
      <4>. QED  BY <1>1, <4>2, <4>3 DEF PlanIn, InBundle
    <3>2. CASE at # 1
      <4>1. PlanIn(q)
        BY <1>1, <2>3, <3>2 DEF Past
      <4>. QED  BY <1>1, <1>4, <4>1, Grows DEF writerVars
    <3>. QED  BY <3>1, <3>2
  <2>4. CASE at > 0
    <3>1. RecordIn(r) \/ \E q \in plans \ {r} : Past(2) => PlanIn(q)
      BY <1>1, <1>2, <2>4 DEF Bundled, Past
    <3>. QED  BY <2>1, <2>3, <2>4, <3>1 DEF writerVars
  <2>. QED  BY <1>1, <2>2, <2>4
<1>6. ASSUME NEW r \in finished, NEW i \in tarball'.files,
             i.path = Files.image, i.sha.by = r
      PROVE  sum'[r] \in {i.sha, None}
  <2>1. CASE i \in tarball.files
    BY <1>2, <1>6, <2>1 DEF Bundled, writerVars
  <2>2. CASE i \notin tarball.files
    <3>1. i = entry /\ Packager!Content(here) # None
      BY <1>4, <2>2
    <3>2. Packager!Content(here) = image
      BY <1>1, <1>6, <3>1, AtHand DEF Walking
    <3>3. i.sha = image /\ image # None /\ state[r] = "well" /\ r \in Runs
      BY <3>1, <3>2 DEF Inv
    <3>. QED  BY <1>6, <3>3 DEF Inv, Hashes, writerVars
  <2>. QED  BY <2>1, <2>2
<1>7. Bundled'
  BY <1>1, <1>2, <1>4, <1>5, <1>6 DEF Bundled, Walking
<1>. QED  BY <1>1, <1>7, Apart DEF Inv, writerVars

(* The rest of a build changes nothing in the archive but its end.          *)
LEMMA Late ==
  ASSUME Inv, UNCHANGED <<writerVars, line, finished>>,
         \/ Packager!TarEnds \/ Packager!CloseTarball
         \/ Packager!HashTarball \/ Packager!Report
  PROVE  Inv'
<1>. USE DEF Packager!TarEnds, Packager!CloseTarball, Packager!HashTarball,
             Packager!Report, Packager!Quiet, Packager!Grow, Packager!AppendLine,
             Packager!Past, Packager!disk, Packager!history, Packager!End
<1>1. /\ audit' \in {audit, audit + 1} /\ at' \in {0, at} /\ unread' = unread
      /\ pc \in {"tar", "close", "hash", "report"} /\ ~Walking' /\ pc' # "copy"
      /\ pc' = "idle" \/ result' = result
  BY DEF Walking
<1>2. /\ "files" \in DOMAIN tarball'
      /\ tarball'.files = tarball.files
  <2>1. tarball' = tarball \/ \E f \in BOOLEAN : tarball' = [tarball EXCEPT !.finalised = f]
    BY DEF Packager!Close
  <2>2. "files" \in DOMAIN tarball
    BY <1>1 DEF Inv, Archiving, Walking, Bundled
  <2>. QED  BY <2>1, <2>2, Fields
<1>3. Walking => at = 4
  BY Walk DEF Walking
<1>4. Bundled'
  BY <1>1, <1>2, <1>3, Apart, Stays
  DEF Inv, Archiving, Walking, WritersType, writerVars
<1>. QED  BY <1>1, <1>4, Apart DEF Inv, writerVars

-----------------------------------------------------------------------------
(* To a build, a step of acquire is a step of the other command. *)

(* An acquisition changes at most one thing a build can notice.             *)
LEMMA Noticed ==
  ASSUME WritersType, NEW r \in Runs, Writer!Step(r)
  PROVE  \/ UNCHANGED <<image, record, plans>>
         \/ UNCHANGED <<image, record>> /\ r \notin plans /\ plans' = plans \cup {r}
         \/ UNCHANGED <<image, plans>> /\ record' # record
                 /\ record' \in Writer!Records \cup {Torn}
         \/ UNCHANGED <<record, plans>> /\ image' # image /\ image' \in Writer!Images
<1>. USE DEF WritersType, Writer!States, Writer!Move, Writer!Images, Writer!Records
<1>1. CASE Writer!Start(r) \/ Writer!Settle(r) \/ Writer!Succeed(r) \/ Writer!Fail(r)
  BY <1>1 DEF Writer!Start, Writer!Settle, Writer!Succeed, Writer!Fail
<1>2. CASE Writer!Plan(r)
  BY <1>2 DEF Writer!Plan
<1>3. CASE Writer!Dump(r) \/ Writer!Complete(r)
  BY <1>3 DEF Writer!Dump, Writer!Complete
<1>4. CASE Writer!Tear(r) \/ Writer!Save(r)
  BY <1>4 DEF Writer!Tear, Writer!Save
<1>. QED  BY <1>1, <1>2, <1>3, <1>4 DEF Writer!Step

(* One piece of evidence is another command's change.                       *)
LEMMA Edited ==
  ASSUME Acquire, plans' = plans, audit \in Nat, NEW p \in Packager!Evidence,
         NEW v \in Packager!Held \ {Special}, v # Evidence[p],
         Evidence' = [Evidence EXCEPT ![p] = v],
         record' # record <=> p = Files.record
  PROVE  Packager!ChangeEvidence(p)
<1>1. audit' = audit
  BY Counted
<1>2. DOMAIN Evidence = {Files.record, Files.image} /\ p \in DOMAIN Evidence
  BY Walk DEF Evidence
<1>3. Evidence'[p] = v /\ \A q \in DOMAIN Evidence \ {p} : Evidence'[q] = Evidence[q]
  BY <1>2
<1>4. Touched = {p}
  BY <1>1, <1>2, <1>3 DEF Touched
<1>5. Packager!Edit
  BY <1>4 DEF Acquire, Notice, Packager!Edit
<1>6. /\ changed' = IF Packager!Reading THEN changed \cup {p} ELSE changed
      /\ outdated' = (outdated \/ (Packager!Reading /\ p = Files.record))
  BY <1>4 DEF Acquire, Notice
<1>. QED  BY <1>1, <1>5, <1>6
          DEF Acquire, Packager!Held, Packager!ChangeEvidence, Packager!Edit,
              Packager!Changes, Packager!memory, Packager!locals,
              packagerVars

(* A line of audit.log is one that another command logs.                    *)
LEMMA Appended ==
  ASSUME Acquire, audit \in Nat, outdated \in BOOLEAN, UNCHANGED <<image, record>>,
         NEW r \in Runs, r \notin plans, plans' = plans \cup {r}
  PROVE  Packager!OthersAppend
<1>1. audit' = audit + 1 /\ audit' # audit
  BY Counted
<1>2. Evidence' = Evidence
  BY DEF Evidence
<1>3. Touched = {Files.log}
  BY <1>1, <1>2 DEF Touched
<1>4. outdated' = outdated
  BY DEF Acquire, Notice
<1>. QED  BY <1>1, <1>2, <1>3, <1>4
          DEF Acquire, Notice, Packager!OthersAppend, Packager!Edit,
              Packager!Grow, Packager!Changes, Packager!memory,
              Packager!locals, packagerVars

(* And a step that touches neither cannot be noticed.                       *)
LEMMA Unnoticed ==
  ASSUME Acquire, audit \in Nat, outdated \in BOOLEAN, UNCHANGED <<image, record, plans>>
  PROVE  UNCHANGED Packager!vars
<1>1. audit' = audit
  BY Counted
<1>2. Evidence' = Evidence
  BY DEF Evidence
<1>3. Touched = {}
  BY <1>1, <1>2 DEF Touched
<1>4. UNCHANGED <<changed, edits, outdated>>
  BY <1>3 DEF Acquire, Notice
<1>. QED  BY <1>1, <1>2, <1>4
          DEF Acquire, Packager!vars, Packager!disk, Packager!memory,
              Packager!locals, Packager!history, packagerVars

-----------------------------------------------------------------------------
LEMMA InitInv == Init => Inv
<1>. SUFFICES ASSUME Init PROVE Inv
  OBVIOUS
<1>. USE DEF Init, Writer!Init, Packager!Init
<1>1. WritersType /\ Hashes /\ Recorded
  BY DEF WritersType, Writer!States, Hashes, Recorded
<1>2. Lines
  BY DEF Lines
<1>. QED  BY <1>1, <1>2 DEF Inv, Archiving, Walking

LEMMA NextInv == Inv /\ [Next]_vars => Inv'
<1>. SUFFICES ASSUME Inv, [Next]_vars PROVE Inv'
  OBVIOUS
<1>1. CASE Acquire
  BY <1>1, AcquireInv
<1>2. CASE Package
  BY <1>2, BeginInv, Early, ArchiveInv, TarSkippedInv, TarHeaderInv,
     TarFileInv, Late
  DEF Package, Packager!Step
<1>3. CASE UNCHANGED vars
  <2>. USE <1>3 DEF vars, packagerVars
  <2>1. Archiving => Bundled'
    BY Stays
    DEF Inv, writerVars, Archiving, Walking, Bundled, WritersType, Lines
  <2>. QED  BY <2>1, Apart DEF Inv, writerVars, Archiving, Walking, Lines
<1>. QED  BY <1>1, <1>2, <1>3 DEF Next

(* Any number of acquisitions may run beside any number of builds.          *)
THEOREM Invariance == Spec => []Inv
BY InitInv, NextInv, PTL DEF Spec

Flag == outdated \in BOOLEAN

LEMMA FlagInv == Flag /\ [Next]_vars => Flag'
<1>. SUFFICES ASSUME Flag, [Next]_vars PROVE Flag'
  OBVIOUS
<1>. USE DEF Flag
<1>1. CASE Acquire
  BY <1>1 DEF Acquire, Notice
<1>2. CASE Package
  BY <1>2
  DEF Package, Packager!Begin, Packager!Step, Packager!Fetch, Packager!Token,
      Packager!MetadataEnds, Packager!Get, Packager!Asking, Packager!Load,
      Packager!WalkFile, Packager!WalkFails, Packager!WalkEnds,
      Packager!Truncate, Packager!Write, Packager!Archive,
      Packager!TarSkipped, Packager!TarHeader, Packager!TarFile,
      Packager!TarAborts, Packager!TarEnds, Packager!CloseTarball,
      Packager!HashTarball, Packager!Report, Packager!Crash, Packager!Past,
      Packager!history
<1>3. CASE UNCHANGED vars
  BY <1>3 DEF vars
<1>. QED  BY <1>1, <1>2, <1>3 DEF Next

LEMMA NextImplements ==
  Inv /\ Flag /\ [Next]_vars => [Packager!Next]_(Packager!vars)
<1>. SUFFICES ASSUME Inv, Flag, [Next]_vars PROVE [Packager!Next]_(Packager!vars)
  OBVIOUS
<1>1. CASE Acquire
  <2>. USE <1>1
  <2>1. WritersType /\ audit \in Nat /\ outdated \in BOOLEAN
    BY DEF Inv, Lines, Flag
  <2>2. PICK r \in Runs : Writer!Step(r)
    BY DEF Acquire, Writer!Next
  <2>3. CASE UNCHANGED <<image, record, plans>>
    BY <2>1, <2>3, Unnoticed
  <2>4. CASE UNCHANGED <<image, record>> /\ r \notin plans /\ plans' = plans \cup {r}
    BY <2>1, <2>4, Appended DEF Packager!Next, Packager!Environment
  <2>5. CASE /\ UNCHANGED <<image, plans>> /\ record' # record
             /\ record' \in Writer!Records \cup {Torn}
    <3>1. Evidence' = [Evidence EXCEPT ![Files.record] = record']
      BY <2>5, Walk DEF Evidence
    <3>2. record' # Evidence[Files.record] /\ record' \in Packager!Held \ {Special}
      BY <2>5, Walk, MarksAssumption DEF Evidence, Packager!Held
    <3>3. Packager!ChangeEvidence(Files.record)
      BY <2>1, <2>5, <3>1, <3>2, Walk, Edited
    <3>. QED  BY <3>3, Walk DEF Packager!Next, Packager!Environment
  <2>6. CASE UNCHANGED <<record, plans>> /\ image' # image /\ image' \in Writer!Images
    <3>1. Evidence' = [Evidence EXCEPT ![Files.image] = image'] /\ Files.image # Files.record
      BY <2>6, Walk DEF Evidence, Files
    <3>2. image' # Evidence[Files.image] /\ image' \in Packager!Held \ {Special}
      BY <2>6, <3>1, Walk, MarksAssumption DEF Evidence, Packager!Held
    <3>3. Packager!ChangeEvidence(Files.image)
      BY <2>1, <2>6, <3>1, <3>2, Walk, Edited
    <3>. QED  BY <3>3, Walk DEF Packager!Next, Packager!Environment
  <2>. QED  BY <2>1, <2>2, <2>3, <2>4, <2>5, <2>6, Noticed
<1>2. CASE Package
  BY <1>2 DEF Package, Packager!Next, Packager!Environment
<1>3. CASE UNCHANGED vars
  BY <1>3
  DEF vars, writerVars, packagerVars, Evidence, Packager!vars, Packager!disk,
      Packager!memory, Packager!locals, Packager!history
<1>. QED  BY <1>1, <1>2, <1>3 DEF Next

(* To a build, an acquisition in the same directory is no more than the     *)
(* other command of Package, which may change a piece of evidence or log a  *)
(* line, so that what Package promises holds beside any number of them      *)
(* (acquire.go:139-173, cli/acquire.go:110-121).                            *)
THEOREM Composition == Spec => ImplementsPackager
<1>1. Init => Packager!Init /\ Flag
  BY DEF Init, Packager!Init, Flag
<1>2. Spec => []Flag
  BY <1>1, FlagInv, PTL DEF Spec
<1>. QED  BY <1>1, <1>2, NextImplements, Invariance, PTL
          DEF Spec, ImplementsPackager, Packager!Spec

(* What is proved of Package alone, with whatever other command beside it,  *)
(* holds of the package of this composition.                                *)
Alone == INSTANCE PackageProofs WITH
    Order <- <<Files.record, Files.log, Files.manifest, Files.image>>,
    Directories <- {{Files.record, Files.log, Files.manifest, Files.image}},
    AuditLog <- Files.log, ManifestJson <- Files.manifest,
    AcquireManifest <- Files.record, Tarball <- "bundle.tar.gz",
    Contents <- Writer!Records \cup Writer!Images \cup {Torn},
    Absent <- None, Garbled <- {Torn},
    evidence <- Evidence

LEMMA Constants == Alone!ConstantsAssumption
<1>. DEFINE order == <<Files.record, Files.log, Files.manifest, Files.image>>
<1>1. Alone!Paths = Packager!Paths /\ Alone!Evidence = Packager!Evidence
  BY DEF Packager!Paths, Alone!Paths, Packager!Evidence, Alone!Evidence
<1>2. order \in Seq(Alone!Paths)
  BY <1>1, Walk
<1>3. \A i, j \in 1..Len(order) : order[i] = order[j] => i = j
  BY Walk DEF Files
<1>4. /\ Alone!Manifests = Packager!Manifests /\ Alone!Bundles = Packager!Bundles
      /\ Alone!Results = Packager!Results
  BY <1>1
  DEF Packager!Manifests, Alone!Manifests, Packager!Bundles, Alone!Bundles,
      Packager!Results, Alone!Results, Packager!Artifacts, Alone!Artifacts,
      Packager!Held, Alone!Held
<1>. QED  BY <1>1, <1>2, <1>3, <1>4, Walk, MarksAssumption
          DEF Alone!ConstantsAssumption, Files

LEMMA AloneInit == Packager!Init => Alone!Inv
<1>1. Packager!Init = Alone!Init
  BY DEF Packager!Init, Alone!Init, Packager!Evidence, Alone!Evidence,
         Packager!Held, Alone!Held, Packager!Paths, Alone!Paths,
         Packager!EmptyManifest, Alone!EmptyManifest, Packager!EmptyBundle,
         Alone!EmptyBundle
<1>. QED  BY <1>1, Constants, Alone!InitInv

LEMMA AloneNext == Alone!Inv /\ [Packager!Next]_(Packager!vars) => Alone!Inv'
<1>1. [Packager!Next]_(Packager!vars) = [Alone!Next]_(Alone!vars)
  BY DEF Packager!Begin, Alone!Begin, Packager!Fetch, Alone!Fetch,
         Packager!Token, Alone!Token, Packager!Get, Alone!Get,
         Packager!MetadataEnds, Alone!MetadataEnds, Packager!Load, Alone!Load,
         Packager!WalkFile, Alone!WalkFile, Packager!WalkFails,
         Alone!WalkFails, Packager!WalkEnds, Alone!WalkEnds,
         Packager!Truncate, Alone!Truncate, Packager!Write, Alone!Write,
         Packager!Archive, Alone!Archive, Packager!TarSkipped,
         Alone!TarSkipped, Packager!TarHeader, Alone!TarHeader,
         Packager!TarFile, Alone!TarFile, Packager!TarAborts, Alone!TarAborts,
         Packager!TarEnds, Alone!TarEnds, Packager!CloseTarball,
         Alone!CloseTarball, Packager!HashTarball, Alone!HashTarball,
         Packager!Report, Alone!Report, Packager!Crash, Alone!Crash,
         Packager!ChangeEvidence, Alone!ChangeEvidence, Packager!OthersAppend,
         Alone!OthersAppend, Packager!Environment, Alone!Environment,
         Packager!Step, Alone!Step, Packager!Next, Alone!Next,
         Packager!Asking, Alone!Asking, Packager!Grow, Alone!Grow,
         Packager!AppendLine, Alone!AppendLine, Packager!Edit, Alone!Edit,
         Packager!Changes, Alone!Changes, Packager!Quiet, Alone!Quiet,
         Packager!Reading, Alone!Reading, Packager!Visiting, Alone!Visiting,
         Packager!Here, Alone!Here, Packager!Behind, Alone!Behind,
         Packager!OutOfReach, Alone!OutOfReach, Packager!Skip, Alone!Skip,
         Packager!Past, Alone!Past, Packager!Close, Alone!Close, Packager!End,
         Alone!End, Packager!Present, Alone!Present, Packager!Content,
         Alone!Content, Packager!disk, Alone!disk, Packager!locals,
         Alone!locals, Packager!memory, Alone!memory, Packager!history,
         Alone!history, Packager!vars, Alone!vars, Packager!TarSkips,
         Alone!TarSkips, Packager!WalkSkips, Alone!WalkSkips,
         Packager!Evidence, Alone!Evidence, Packager!Hashed, Alone!Hashed,
         Packager!Held, Alone!Held, Packager!Paths, Alone!Paths,
         Packager!EmptyManifest, Alone!EmptyManifest, Packager!EmptyBundle,
         Alone!EmptyBundle
<1>. QED  BY <1>1, Constants, Alone!NextInv

(* What package promises it keeps while acquisitions replace the record and *)
(* the image under it and log into the same audit.log: the hash chain, no   *)
(* silent omission, one manifest, and a carried section that is of the      *)
(* bundled record (pkgbuild.go:102-181, acquire.go:139-173).                *)
THEOREM PromisesAreKept ==
  Spec => [](/\ Packager!HashChain /\ Packager!NoSilentOmission
             /\ Packager!OneManifest /\ Packager!CarriedForward)
<1>1. Alone!Inv => /\ Packager!HashChain /\ Packager!NoSilentOmission
                   /\ Packager!OneManifest /\ Packager!CarriedForward
  BY DEF Alone!Inv, Alone!Shipped, Alone!Packed, Alone!Chained, Alone!Owed,
         Alone!Apart, Alone!Reported, Alone!Carried, Alone!Sound,
         Packager!Delivered, Alone!Delivered, Packager!HashChain,
         Packager!NoSilentOmission, Packager!OneManifest,
         Packager!CarriedForward
<1>. QED  BY <1>1, AloneInit, AloneNext, Composition, PTL
          DEF ImplementsPackager, Packager!Spec

(* Where the image in a delivered bundle comes from can be told from the    *)
(* bundle, if only the second walk could look up the record and audit.log:  *)
(* acquire's order, a plan before a record, and package's, the record       *)
(* before audit.log, are enough for it                                      *)
(* (acquire.go:139-173, cli/acquire.go:110-121, pkgbuild.go:300-356).       *)
THEOREM ImagesAreTold == Spec => []Provenance
<1>1. Inv => Provenance
  <2>. SUFFICES ASSUME Inv, Packager!Delivered,
                       {Files.record, Files.log} \cap unread = {},
                       NEW i \in tarball.files,
                       i.path = Files.image, i.sha.by \in finished
                PROVE  \/ \E hash \in {i.sha, None} :
                             InBundle([path |-> Files.record,
                                       sha  |-> [run |-> i.sha.by, image |-> hash]])
                       \/ \E q \in Runs \ {i.sha.by}, n \in 1..audit :
                             InBundle([path |-> Files.log, sha |-> n]) /\ line[q] \in 1..n
    BY DEF Provenance
  <2>1. Bundled /\ pc = "idle"
    BY DEF Inv, Packager!Delivered, Archiving
  <2>2. sum[i.sha.by] \in {i.sha, None}
    BY <2>1 DEF Bundled
  <2>3. RecordIn(i.sha.by) \/ \E q \in plans \ {i.sha.by} : PlanIn(q)
    BY <2>1 DEF Bundled, Past, Walking
  <2>. QED  BY <2>2, <2>3 DEF RecordIn, PlanIn, Saved, Inv, WritersType
<1>. QED  BY <1>1, Invariance, PTL
=============================================================================
