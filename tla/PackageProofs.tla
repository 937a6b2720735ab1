--------------------------- MODULE PackageProofs ---------------------------
(***************************************************************************)
(* Theorems about Package, for any directory, any number of builds and     *)
(* whatever other commands change.                                         *)
(***************************************************************************)
EXTENDS Package, FiniteSetTheorems, TLAPS

Before  == {"cloud", "token", "metadata", "load"}
Closing == {"close", "hash", "report"}

(* The paths behind the first walk. *)
Walked == IF pc = "walk" THEN Behind ELSE Paths

(* What a build has in memory when it has not yet read anything. *)
Fresh ==
    /\ pc \in Before => m.artifacts = {} /\ m.acquisition = Absent
    /\ pc = "metadata" => m.cloud \subseteq Keys
    /\ pc # "idle" => result = None
    /\ pc \notin {"idle", "report"} => tarSha = None
    /\ pc \in Before \cup {"walk", "save", "write", "archive"} => unread = {}

(* What the first walk found of a path still holds, or the path changed.    *)
Known(p) ==
    /\ \A a \in m.artifacts :
          a.path = p => /\ a.sha \notin {Absent, Special} /\ p \in Walked
                        /\ p \in changed \/ a.sha = Content(p)
    /\ p \in Walked => \/ Content(p) \in {Absent, Special}
                       \/ p \in warned \cup lost \cup changed
                       \/ [path |-> p, sha |-> Content(p)] \in m.artifacts
    /\ p \notin Walked => \/ p \in listing \cup warned \cup lost \cup changed
                          \/ Content(p) = Absent

(* The same of the section that Load carried forward. *)
Parsed ==
    m.acquisition # Absent =>
        outdated \/ evidence[AcquireManifest] \in {m.acquisition, Special}

(* What a tarball owes to a manifest. *)
Owed(a) ==
    a.path \notin changed \cup unread =>
        a \in tarball.files /\ a.path \notin tarball.bare
Chained(x) == \A a \in x.artifacts : Owed(a)
Reported(x) ==
    \A a \in tarball.files :
        a \in x.artifacts \/ a.path \in warned \cup lost \cup changed
Carried(x) ==
    x.acquisition # Absent =>
        \/ outdated
        \/ AcquireManifest \in tarball.bare \cup unread
        \/ [path |-> AcquireManifest, sha |-> x.acquisition] \in tarball.files

(* There is nothing in it of what could not be looked up. *)
Apart ==
    \A p \in unread :
        p \notin tarball.bare /\ \A a \in tarball.files : a.path # p

(* In the middle of the second walk: of a path, *)
Listed(p) == p \in listing \cup unread \cup changed \/ Content(p) = Absent

(* of the file at hand, *)
Copying ==
    /\ at < Len(Order) /\ Here \in listing \ TarSkips
    /\ Here \in Hashed => Here \in changed \/ header = Content(Here)

(* and of the archive.  *)
Archived ==
    /\ tarball # None
    /\ ManifestJson \in listing \cup unread /\ \A p \in Hashed : Listed(p)
    /\ listing \cap unread = {} /\ Apart
    /\ \A a \in m.artifacts : a.path \in Behind => Owed(a)
    /\ Reported(m)
    /\ \A a \in tarball.files : a.path \in Behind
    /\ \A p \in tarball.bare \ Behind : pc = "copy" /\ p = Here
    /\ AcquireManifest \in Behind => Carried(m)
    /\ ManifestJson \notin tarball.bare \cap Behind
    /\ tarball.manifest = IF ManifestJson \in Behind \ unread THEN m ELSE None
    /\ pc = "copy" => Copying

(* Behind it. *)
Packed(x) ==
    /\ tarball # None
    /\ Chained(x) /\ Reported(x) /\ Carried(x) /\ Apart
    /\ ManifestJson \notin tarball.bare
    /\ tarball.manifest = IF ManifestJson \in unread THEN None ELSE x

Bundled == Packed(m) /\ tarSha \in {None, tarball}

Shipped ==
    Delivered => /\ Packed(result.manifest)
                 /\ result.manifest = manifestFile
                 /\ result.sha \in {None, tarball}

(* Of every tarball there may be, finished or not. *)
Sound ==
    tarball # None => \A a, b \in tarball.files : a.path = b.path => a = b

(* What there is to tell of a change. *)
Marked ==
    /\ AcquireManifest \in changed => outdated
    /\ edits = 0 => changed \subseteq {AuditLog}

Inv ==
    /\ TypeOK
    /\ Fresh
    /\ Reading => Parsed /\ \A p \in Hashed : Known(p)
    /\ pc \in {"archive", "tar", "copy"} \cup Closing => manifestFile = m
    /\ pc \in {"tar", "copy"} => Archived
    /\ pc \in Closing => Bundled
    /\ Shipped
    /\ Sound
    /\ Marked

-----------------------------------------------------------------------------
(* The paths behind a walk. *)
LEMMA Paths0 ==
  /\ Len(Order) \in Nat
  /\ \A k \in 1..Len(Order) : Order[k] \in Paths
  /\ \A p \in Paths : \E k \in 1..Len(Order) : p = Order[k]
BY ConstantsAssumption DEF Paths

(* The path at hand is new, and then it is behind.                          *)
LEMMA Steps ==
  ASSUME TypeOK, at < Len(Order)
  PROVE  /\ Here \in Paths \ Behind
         /\ at' = at + 1 => Behind' = Behind \cup {Here} /\ at' \in 0..Len(Order)
<1>1. at + 1 \in 1..Len(Order) /\ at \in Nat
  BY Paths0 DEF TypeOK
<1>2. \A k \in 1..at : k \in 1..Len(Order) /\ k # at + 1
  <2>1. Len(Order) \in Nat
    BY Paths0
  <2>. QED  BY <1>1, <2>1
<1>3. Here \in Paths \ Behind
  BY <1>1, <1>2, ConstantsAssumption, Paths0 DEF Here, Behind
<1>4. ASSUME at' = at + 1 PROVE Behind' = Behind \cup {Here}
  <2>1. 1..(at + 1) = 1..at \cup {at + 1}
    BY <1>1
  <2>. QED  BY <1>4, <2>1 DEF Behind, Here
<1>. QED  BY <1>1, <1>3, <1>4

(* Behind the last path are all of them; at the first, none.                *)
LEMMA Ends ==
  /\ at = Len(Order) => Behind = Paths
  /\ at' = 0 => Behind' = {} /\ at' \in 0..Len(Order)
BY Paths0 DEF Behind, Paths

(* What the first walk does not skip is evidence or a command's own file.   *)
LEMMA Walks ==
  ASSUME TypeOK, NEW p \in Paths \ WalkSkips
  PROVE  p \in Hashed
BY DEF WalkSkips, Hashed, Evidence

(* A line in audit.log changes what audit.log is, and nothing else.         *)
LEMMA Line ==
  ASSUME TypeOK, AppendLine
  PROVE  /\ audit' \in Nat
         /\ changed' \subseteq Hashed /\ changed \subseteq changed'
         /\ changed' \subseteq changed \cup {AuditLog}
         /\ ~Reading => changed' = changed
         /\ Reading => AuditLog \in changed' \/ audit' = audit
BY DEF TypeOK, AppendLine, Grow, Quiet, Changes, Hashed

(* What is known of a path stays known while it stays, or seems to change.  *)
LEMMA Knows ==
  ASSUME NEW p, Known(p), m'.artifacts = m.artifacts, Walked' = Walked,
         p \in Walked \/ listing' = listing,
         warned' = warned, lost' = lost, changed \subseteq changed',
         p \in changed' \/ Content(p)' = Content(p)
  PROVE  Known(p)'
BY DEF Known

(* What a build starts from. *)
LEMMA Blank ==
  /\ EmptyManifest \in Manifests
  /\ EmptyBundle \in Bundles /\ EmptyBundle # None
  /\ EmptyBundle.files = {} /\ EmptyBundle.bare = {} /\ EmptyBundle.manifest = None
<1>1. EmptyManifest \in Manifests
  BY DEF EmptyManifest, Manifests, Held
<1>2. EmptyBundle \in Bundles
  BY DEF EmptyBundle, Bundles
<1>. QED  BY <1>1, <1>2, ConstantsAssumption DEF EmptyBundle

(* When a build ends, nothing is left of its variables.                     *)
LEMMA Ended ==
  ASSUME NEW how \in Outcomes, End(how)
  PROVE  /\ pc' = "idle" /\ at' \in 0..Len(Order) /\ listing' = {} /\ todo' = {}
         /\ header' = None /\ m' = EmptyManifest /\ tarSha' = None
         /\ m' \in Manifests /\ outcome' \in Outcomes
BY Paths0, Blank DEF End

(* What it leaves on disk is all there is to look at then.                  *)
LEMMA EndInv ==
  ASSUME Inv, NEW how \in Outcomes, End(how), TypeOK', Shipped', Sound', Marked'
  PROVE  Inv'
BY Ended DEF Inv, Fresh, Before, Closing, Reading

-----------------------------------------------------------------------------
(* The operator and the metadata service. *)
LEMMA BeginInv == ASSUME Inv, Begin PROVE Inv'
<1>. USE ConstantsAssumption DEF Inv, Begin
<1>1. TypeOK'
  <2>1. pc' \in {"cloud", "load"} /\ outdated' \in BOOLEAN
    OBVIOUS
  <2>2. m' \in Manifests
    BY Blank
  <2>3. builds' \in 0..MaxBuilds /\ audit' \in Nat
    BY DEF TypeOK
  <2>. QED  BY <2>1, <2>2, <2>3 DEF TypeOK, Labels
<1>2. Fresh'
  BY DEF Fresh, Before, EmptyManifest
<1>3. (Reading => Parsed /\ \A p \in Hashed : Known(p))'
  BY DEF Reading
<1>4. (pc \in {"archive", "tar", "copy"} \cup Closing => manifestFile = m)'
  BY DEF Closing
<1>5. (pc \in {"tar", "copy"} => Archived)'
  OBVIOUS
<1>6. (pc \in Closing => Bundled)'
  BY DEF Closing
<1>7. Shipped'
  BY DEF Shipped, Delivered, Fresh
<1>8. Sound'
  BY DEF Sound
<1>9. Marked'
  BY DEF Marked
<1>. QED  BY <1>1, <1>2, <1>3, <1>4, <1>5, <1>6, <1>7, <1>8, <1>9

LEMMA FetchInv == ASSUME Inv, Fetch PROVE Inv'
<1>. USE ConstantsAssumption DEF Inv, Fetch, Asking, Quiet
<1>1. TypeOK'
  BY Line DEF TypeOK, Labels
<1>2. Fresh'
  BY DEF Fresh, Before
<1>3. (Reading => Parsed /\ \A p \in Hashed : Known(p))'
  BY DEF Reading
<1>4. (pc \in {"archive", "tar", "copy"} \cup Closing => manifestFile = m)'
  BY DEF Closing
<1>5. (pc \in {"tar", "copy"} => Archived)'
  OBVIOUS
<1>6. (pc \in Closing => Bundled)'
  BY DEF Closing
<1>7. Shipped'
  BY DEF Shipped, Delivered, Fresh
<1>8. Sound'
  BY DEF Sound
<1>9. Marked'
  BY Line DEF Marked, Evidence
<1>. QED  BY <1>1, <1>2, <1>3, <1>4, <1>5, <1>6, <1>7, <1>8, <1>9

LEMMA TokenInv == ASSUME Inv, Token PROVE Inv'
<1>. USE ConstantsAssumption DEF Inv, Token, Asking, Quiet
<1>1. TypeOK'
  BY Line DEF TypeOK, Labels, Manifests
<1>2. Fresh'
  <2>1. /\ m'.artifacts = m.artifacts /\ m'.acquisition = m.acquisition
        /\ (pc' = "metadata" => m'.cloud \subseteq Keys)
    BY DEF Fresh, TypeOK, Manifests
  <2>. QED  BY <2>1 DEF Fresh, Before
<1>3. (Reading => Parsed /\ \A p \in Hashed : Known(p))'
  BY DEF Reading
<1>4. (pc \in {"archive", "tar", "copy"} \cup Closing => manifestFile = m)'
  BY DEF Closing
<1>5. (pc \in {"tar", "copy"} => Archived)'
  OBVIOUS
<1>6. (pc \in Closing => Bundled)'
  BY DEF Closing
<1>7. Shipped'
  BY DEF Shipped, Delivered, Fresh
<1>8. Sound'
  BY DEF Sound
<1>9. Marked'
  BY Line DEF Marked, Evidence
<1>. QED  BY <1>1, <1>2, <1>3, <1>4, <1>5, <1>6, <1>7, <1>8, <1>9

LEMMA GetInv == ASSUME Inv, NEW k \in Keys, Get(k) PROVE Inv'
<1>. USE ConstantsAssumption DEF Inv, Get, Asking, Quiet
<1>1. TypeOK'
  <2>1. m' \in Manifests
    BY DEF Fresh, TypeOK, Manifests
  <2>. QED  BY <2>1 DEF TypeOK, Labels
<1>2. Fresh'
  <2>1. /\ m'.artifacts = m.artifacts /\ m'.acquisition = m.acquisition
        /\ m'.cloud \subseteq Keys
    BY DEF Fresh, TypeOK, Manifests
  <2>. QED  BY <2>1 DEF Fresh, Before
<1>3. (Reading => Parsed /\ \A p \in Hashed : Known(p))'
  BY DEF Reading
<1>4. (pc \in {"archive", "tar", "copy"} \cup Closing => manifestFile = m)'
  BY DEF Closing
<1>5. (pc \in {"tar", "copy"} => Archived)'
  OBVIOUS
<1>6. (pc \in Closing => Bundled)'
  BY DEF Closing
<1>7. Shipped'
  BY DEF Shipped, Delivered, Fresh
<1>8. Sound'
  BY DEF Sound
<1>9. Marked'
  BY DEF Marked
<1>. QED  BY <1>1, <1>2, <1>3, <1>4, <1>5, <1>6, <1>7, <1>8, <1>9

LEMMA MetadataEndsInv == ASSUME Inv, MetadataEnds PROVE Inv'
<1>. USE ConstantsAssumption DEF Inv, MetadataEnds, Asking, Quiet
<1>1. TypeOK'
  BY DEF TypeOK, Labels
<1>2. Fresh'
  BY DEF Fresh, Before
<1>3. (Reading => Parsed /\ \A p \in Hashed : Known(p))'
  BY DEF Reading
<1>4. (pc \in {"archive", "tar", "copy"} \cup Closing => manifestFile = m)'
  BY DEF Closing
<1>5. (pc \in {"tar", "copy"} => Archived)'
  OBVIOUS
<1>6. (pc \in Closing => Bundled)'
  BY DEF Closing
<1>7. Shipped'
  BY DEF Shipped, Delivered, Fresh
<1>8. Sound'
  BY DEF Sound
<1>9. Marked'
  BY DEF Marked
<1>. QED  BY <1>1, <1>2, <1>3, <1>4, <1>5, <1>6, <1>7, <1>8, <1>9

-----------------------------------------------------------------------------
(* The first walk. *)
LEMMA LoadInv == ASSUME Inv, Load PROVE Inv'
<1>. USE ConstantsAssumption DEF Inv, Load, disk, history
<1>1. TypeOK'
  <2>1. m' \in Manifests
    BY DEF TypeOK, Manifests, Held
  <2>2. listing' \subseteq Paths \cup {Tarball}
    BY DEF Present, Evidence
  <2>. QED  BY <2>1, <2>2, Ends DEF TypeOK, Labels
<1>2. Fresh'
  BY DEF Fresh, Before
<1>3. (Reading => Parsed /\ \A p \in Hashed : Known(p))'
  <2>1. Parsed'
    BY DEF Parsed, Fresh, Before, TypeOK, Manifests
  <2>2. m'.artifacts = {} /\ Walked' = {} /\ \A p : Content(p)' = Content(p)
    BY Ends DEF Fresh, Before, Walked, Content, TypeOK, Manifests
  <2>3. \A p \in Hashed : p \in listing' \/ Content(p) = Absent
    BY DEF Present, Content, Hashed
  <2>. QED  BY <2>1, <2>2, <2>3 DEF Known
<1>4. (pc \in {"archive", "tar", "copy"} \cup Closing => manifestFile = m)'
  BY DEF Closing
<1>5. (pc \in {"tar", "copy"} => Archived)'
  OBVIOUS
<1>6. (pc \in Closing => Bundled)'
  BY DEF Closing
<1>7. Shipped'
  BY DEF Shipped, Delivered, Fresh
<1>8. Sound'
  BY DEF Sound
<1>9. Marked'
  BY DEF Marked
<1>. QED  BY <1>1, <1>2, <1>3, <1>4, <1>5, <1>6, <1>7, <1>8, <1>9

LEMMA WalkFileInv == ASSUME Inv, WalkFile PROVE Inv'
<1>. USE ConstantsAssumption DEF Inv, WalkFile, Visiting, disk
<1>0. Here \in Paths \ Behind /\ Behind' = Behind \cup {Here} /\ at' \in 0..Len(Order)
  BY Steps
<1>10. Here \in listing \ WalkSkips => Here \in Hashed
  BY <1>0, Walks DEF TypeOK
<1>1. TypeOK'
  <2>1. changed' \subseteq Hashed
    BY DEF TypeOK
  <2>2. ASSUME NEW a, a = [path |-> Here, sha |-> Content(Here)],
               Here \in Hashed, Content(Here) \notin {Absent, Special}
        PROVE  a \in Artifacts
    <3>1. CASE Here = AuditLog
      BY <2>2, <3>1 DEF TypeOK, Artifacts, Content
    <3>2. CASE Here # AuditLog
      <4>1. Here \in Evidence /\ Content(Here) \in Contents
        BY <2>2, <3>2 DEF TypeOK, Hashed, Content, Held
      <4>. QED  BY <2>2, <4>1 DEF Artifacts
    <3>. QED  BY <3>1, <3>2
  <2>3. ASSUME NEW a \in Artifacts,
               m' = [m EXCEPT !.artifacts = @ \cup {a}]
        PROVE  m' \in Manifests
    BY <2>3 DEF TypeOK, Manifests
  <2>4. m' \in Manifests
    <3>1. CASE UNCHANGED m
      BY <3>1 DEF TypeOK
    <3>2. CASE ~UNCHANGED m
      <4>1. /\ Here \in listing \ WalkSkips
            /\ Content(Here) \notin {Absent, Special}
            /\ m' = [m EXCEPT !.artifacts =
                       @ \cup {[path |-> Here, sha |-> Content(Here)]}]
        BY <3>2
      <4>2. [path |-> Here, sha |-> Content(Here)] \in Artifacts
        BY <1>10, <2>2, <4>1
      <4>. QED  BY <2>3, <4>1, <4>2
    <3>. QED  BY <3>1, <3>2
  <2>. QED  BY <1>0, <2>1, <2>4 DEF TypeOK, Labels
<1>2. Fresh'
  BY DEF Fresh, Before
<1>3. (Reading => Parsed /\ \A p \in Hashed : Known(p))'
  <2>1. Parsed'
    BY DEF Parsed, Reading, TypeOK, Manifests
  <2>2. Walked = Behind /\ Walked' = Walked \cup {Here}
    BY <1>0 DEF Walked
  <2>3. ASSUME NEW p \in Hashed PROVE Known(p)'
    <3>0. Content(p)' = Content(p) /\ Known(p)
      BY <2>3 DEF Content, Reading
    <3>1. CASE /\ Here \in listing \ WalkSkips => Content(Here) = Special
               /\ UNCHANGED <<m, changed>>
      <4>1. p \notin WalkSkips
        BY <2>3 DEF WalkSkips, Hashed, Evidence
      <4>. QED  BY <1>0, <2>2, <3>0, <3>1, <4>1 DEF Known
    <3>2. CASE /\ Here \in listing \ WalkSkips /\ Content(Here) \notin {Absent, Special}
               /\ m' = [m EXCEPT !.artifacts =
                          @ \cup {[path |-> Here, sha |-> Content(Here)]}]
               /\ changed' = changed \ {Here}
      <4>1. m'.artifacts = m.artifacts \cup {[path |-> Here, sha |-> Content(Here)]}
        BY <3>2 DEF TypeOK, Manifests
      <4>2. CASE p = Here
        BY <1>0, <2>2, <3>0, <3>2, <4>1, <4>2 DEF Known
      <4>3. CASE p # Here
        BY <1>0, <2>2, <3>0, <3>2, <4>1, <4>3 DEF Known
      <4>. QED  BY <4>2, <4>3
    <3>. QED  BY <3>1, <3>2
  <2>. QED  BY <2>1, <2>3
<1>4. (pc \in {"archive", "tar", "copy"} \cup Closing => manifestFile = m)'
  BY DEF Closing
<1>5. (pc \in {"tar", "copy"} => Archived)'
  OBVIOUS
<1>6. (pc \in Closing => Bundled)'
  BY DEF Closing
<1>7. Shipped'
  BY DEF Shipped, Delivered, Fresh
<1>8. Sound'
  BY DEF Sound
<1>9. Marked'
  BY DEF Marked
<1>. QED  BY <1>1, <1>2, <1>3, <1>4, <1>5, <1>6, <1>7, <1>8, <1>9

LEMMA WalkFailsInv == ASSUME Inv, WalkFails PROVE Inv'
<1>. USE ConstantsAssumption DEF Inv, WalkFails, Visiting, Skip
<1>0. Here \in Paths \ Behind /\ Behind' = Behind \cup {Here} /\ at' \in 0..Len(Order)
  BY Steps
<1>10. AppendLine
  BY DEF AppendLine
<1>11. PICK d : /\ d \in OutOfReach /\ listing' = listing \ d
                /\ warned' \cup lost' = warned \cup lost \cup (d \cap Hashed)
                /\ warned' \subseteq Hashed /\ lost' \subseteq Hashed
  BY DEF TypeOK
<1>1. TypeOK'
  BY <1>0, <1>10, <1>11, Line DEF TypeOK, Labels
<1>2. Fresh'
  BY DEF Fresh, Before
<1>3. (Reading => Parsed /\ \A p \in Hashed : Known(p))'
  <2>1. Parsed'
    BY DEF Parsed, Reading
  <2>2. Walked = Behind /\ Walked' = Walked \cup {Here} /\ Here \in d
    BY <1>0, <1>11 DEF Walked, OutOfReach
  <2>3. ASSUME NEW p \in Hashed PROVE Known(p)'
    <3>1. changed \subseteq changed' /\ (p \in changed' \/ Content(p)' = Content(p))
      BY <1>10, Line DEF Content, Reading
    <3>2. Known(p)
      BY <2>3 DEF Reading
    <3>. QED  BY <1>0, <1>11, <2>2, <2>3, <3>1, <3>2 DEF Known
  <2>. QED  BY <2>1, <2>3
<1>4. (pc \in {"archive", "tar", "copy"} \cup Closing => manifestFile = m)'
  BY DEF Closing
<1>5. (pc \in {"tar", "copy"} => Archived)'
  OBVIOUS
<1>6. (pc \in Closing => Bundled)'
  BY DEF Closing
<1>7. Shipped'
  BY DEF Shipped, Delivered, Fresh
<1>8. Sound'
  BY DEF Sound
<1>9. Marked'
  BY <1>10, Line DEF Marked, Evidence
<1>. QED  BY <1>1, <1>2, <1>3, <1>4, <1>5, <1>6, <1>7, <1>8, <1>9

LEMMA WalkEndsInv == ASSUME Inv, WalkEnds PROVE Inv'
<1>. USE ConstantsAssumption DEF Inv, WalkEnds, Past, disk, history
<1>1. TypeOK'
  BY Ends DEF TypeOK, Labels
<1>2. Fresh'
  BY DEF Fresh, Before
<1>3. (Reading => Parsed /\ \A p \in Hashed : Known(p))'
  <2>. SUFFICES ASSUME Reading' PROVE (Parsed /\ \A p \in Hashed : Known(p))'
    OBVIOUS
  <2>1. Walked' = Walked /\ \A p \in Hashed : p \in Walked
    BY Ends DEF Walked, Behind, Hashed, Evidence
  <2>. QED  BY <2>1, Knows DEF Parsed, Reading, Content
<1>4. (pc \in {"archive", "tar", "copy"} \cup Closing => manifestFile = m)'
  BY DEF Closing
<1>5. (pc \in {"tar", "copy"} => Archived)'
  OBVIOUS
<1>6. (pc \in Closing => Bundled)'
  BY DEF Closing
<1>7. Shipped'
  BY DEF Shipped, Delivered, Fresh
<1>8. Sound'
  BY DEF Sound
<1>9. Marked'
  BY DEF Marked
<1>. QED  BY <1>1, <1>2, <1>3, <1>4, <1>5, <1>6, <1>7, <1>8, <1>9

-----------------------------------------------------------------------------
(* The manifest and the tarball. *)
LEMMA TruncateInv == ASSUME Inv, Truncate PROVE Inv'
<1>. USE ConstantsAssumption DEF Inv, Truncate, locals, history
<1>1. TypeOK'
  BY Ended DEF TypeOK, Labels, Outcomes, End
<1>2. Shipped' /\ Sound' /\ Marked'
  BY DEF Shipped, Delivered, Fresh, Sound, Marked
<1>3. CASE End("error")
  BY <1>1, <1>2, <1>3, EndInv DEF Outcomes
<1>4. CASE pc' = "write" /\ UNCHANGED locals
  <2>1. Fresh'
    BY <1>4 DEF Fresh, Before
  <2>2. (Reading => Parsed /\ \A p \in Hashed : Known(p))'
    <3>1. Walked' = Walked /\ \A p \in Hashed : p \in Walked
      BY <1>4 DEF Walked, Hashed, Evidence
    <3>. QED  BY <1>4, <3>1, Knows DEF Parsed, Reading, Content
  <2>. QED  BY <1>1, <1>2, <1>4, <2>1, <2>2 DEF Closing
<1>. QED  BY <1>3, <1>4

LEMMA WriteInv == ASSUME Inv, Write PROVE Inv'
<1>. USE ConstantsAssumption DEF Inv, Write, locals, history
<1>1. TypeOK'
  BY Ended DEF TypeOK, Labels, Outcomes, End
<1>2. Shipped' /\ Sound' /\ Marked'
  BY DEF Shipped, Delivered, Fresh, Sound, Marked
<1>3. CASE End("error")
  BY <1>1, <1>2, <1>3, EndInv DEF Outcomes
<1>4. CASE pc' = "archive" /\ UNCHANGED locals
  <2>1. Fresh'
    BY <1>4 DEF Fresh, Before
  <2>2. (Reading => Parsed /\ \A p \in Hashed : Known(p))'
    <3>1. Walked' = Walked /\ \A p \in Hashed : p \in Walked
      BY <1>4 DEF Walked, Hashed, Evidence
    <3>. QED  BY <1>4, <3>1, Knows DEF Parsed, Reading, Content
  <2>3. manifestFile' = m'
    BY <1>4 DEF End
  <2>. QED  BY <1>1, <1>2, <1>4, <2>1, <2>2, <2>3 DEF Closing
<1>. QED  BY <1>3, <1>4

LEMMA ArchiveInv == ASSUME Inv, Archive PROVE Inv'
<1>. USE ConstantsAssumption DEF Inv, Archive, history
<1>1. TypeOK'
  <2>1. tarball' \in Bundles \cup {None}
    BY Blank DEF TypeOK
  <2>2. CASE End("error")
    BY <2>1, <2>2, Ended DEF TypeOK, Labels, Outcomes
  <2>3. CASE pc' = "tar"
    <3>1. /\ at' = 0 /\ listing' = Present
          /\ UNCHANGED <<header, todo, m, tarSha, outcome>>
      BY <2>3 DEF End
    <3>2. listing' \subseteq Paths \cup {Tarball}
      BY <3>1 DEF TypeOK, Present, Evidence
    <3>. QED  BY <2>1, <2>3, <3>1, <3>2, Ends DEF TypeOK, Labels
  <2>. QED  BY <2>2, <2>3 DEF End
<1>2. Shipped' /\ Marked'
  BY DEF Shipped, Delivered, Fresh, Marked
<1>3. Sound'
  BY Blank DEF Sound
<1>4. CASE End("error")
  BY <1>1, <1>2, <1>3, <1>4, EndInv DEF Outcomes
<1>5. CASE pc' = "tar"
  <2>1. Fresh'
    BY <1>5 DEF Fresh, Before, End
  <2>2. (Reading => Parsed /\ \A p \in Hashed : Known(p))'
    <3>1. Walked' = Walked /\ \A p \in Hashed : p \in Walked
      BY <1>5 DEF Walked, Hashed, Evidence
    <3>. QED  BY <1>5, <3>1, Knows DEF Parsed, Reading, Content, End
  <2>3. Archived'
    <3>1. Behind' = {} /\ tarball' = EmptyBundle /\ listing' = Present
      BY <1>5, Ends DEF End
    <3>2. \A p \in Hashed : Listed(p)'
      BY <3>1 DEF Listed, Present, Content, Hashed
    <3>3. ManifestJson \in listing'
      BY <3>1 DEF Present, TypeOK
    <3>4. tarball' # None
      BY <3>1, Blank
    <3>5. unread' = {}
      BY DEF Fresh
    <3>. QED  BY <1>5, <3>1, <3>2, <3>3, <3>4, <3>5, Blank
              DEF Archived, Reported, Apart
  <2>4. manifestFile' = m'
    BY <1>5 DEF End
  <2>. QED  BY <1>1, <1>2, <1>3, <1>5, <2>1, <2>2, <2>3, <2>4 DEF Closing
<1>. QED  BY <1>4, <1>5

(* What is left out is either known to be unread or was not there to read.  *)
LEMMA TarSkippedInv == ASSUME Inv, TarSkipped PROVE Inv'
<1>. USE ConstantsAssumption DEF Inv, disk
<1>a. /\ pc = "tar" /\ at < Len(Order) /\ at' = at + 1
      /\ UNCHANGED <<disk, pc, header, todo, m, tarSha, result, outcome,
                     builds, warned, lost, changed, outdated, edits>>
  BY DEF TarSkipped, Visiting, Skip
<1>0. Here \in Paths \ Behind /\ Behind' = Behind \cup {Here} /\ at' \in 0..Len(Order)
  BY <1>a, Steps
<1>b. PICK d \in SUBSET Paths :
         /\ listing' = listing \ d /\ unread' = unread \cup d /\ d \cap Behind = {}
         /\ (Here \in d) \/ (Here \notin listing \ TarSkips)
  <2>1. CASE Here \notin listing \ TarSkips /\ UNCHANGED <<listing, unread>>
    <3>1. listing' = listing \ {} /\ unread' = unread \cup {} /\ {} \cap Behind = {}
      BY <2>1
    <3>. QED  BY <2>1, <3>1
  <2>2. CASE \E d \in OutOfReach : Skip(d) /\ unread' = unread \cup d
    BY <1>0, <2>2 DEF OutOfReach, Skip
  <2>. QED  BY <2>1, <2>2 DEF TarSkipped
<1>10. /\ \A p \in Paths : p \in listing => p \in listing' \/ p \in unread'
       /\ \A p \in unread' \ unread : p \notin Behind /\ p \notin listing'
       /\ unread \cap listing = {} => unread' \cap listing' = {}
       /\ unread \subseteq unread' /\ listing' \subseteq listing
       /\ Here \notin TarSkips => Here \notin listing'
       /\ unread' \subseteq Paths
  BY <1>0, <1>b DEF TypeOK
<1>1. TypeOK'
  BY <1>a, <1>0, <1>10 DEF TypeOK, Labels
<1>2. Fresh'
  BY <1>a DEF Fresh, Before
<1>3. (Reading => Parsed /\ \A p \in Hashed : Known(p))'
  <2>1. Walked' = Walked /\ \A p \in Hashed : p \in Walked
    BY <1>a DEF Walked, Hashed, Evidence
  <2>. QED  BY <1>a, <2>1, Knows DEF Parsed, Reading, Content
<1>4. (pc \in {"archive", "tar", "copy"} \cup Closing => manifestFile = m)'
  BY <1>a DEF Closing
<1>5. (pc \in {"tar", "copy"} => Archived)'
  <2>. USE <1>a
  <2>1. Archived /\ \A p : Content(p)' = Content(p)
    BY DEF Content
  <2>2. Here \in unread' \/ (Here \in Hashed => Here \in changed \/ Content(Here) = Absent)
    BY <1>0, <1>10, <2>1 DEF Archived, Listed, Hashed, Evidence, TarSkips
  <2>3. Apart'
    BY <1>10, <2>1 DEF Archived, Apart
  <2>4. \A p \in Hashed : Listed(p)'
    BY <1>10, <2>1 DEF Archived, Listed, Hashed, Evidence
  <2>5. \A a \in m.artifacts : a.path \in Behind' => Owed(a)'
    <3>. SUFFICES ASSUME NEW a \in m.artifacts, a.path \in Behind' PROVE Owed(a)'
      OBVIOUS
    <3>1. CASE a.path \in Behind
      BY <1>10, <2>1, <3>1 DEF Archived, Owed
    <3>2. CASE a.path = Here
      <4>1. a.path \in Hashed
        BY DEF TypeOK, Manifests, Artifacts, Hashed
      <4>2. a.sha # Absent /\ (a.path \in changed \/ a.sha = Content(a.path))
        BY <4>1 DEF Known, Reading
      <4>. QED  BY <2>2, <3>2, <4>1, <4>2 DEF Owed
    <3>. QED  BY <1>0, <3>1, <3>2
  <2>6. (AcquireManifest \in Behind => Carried(m))'
    <3>1. CASE AcquireManifest \in Behind
      BY <1>10, <2>1, <3>1 DEF Archived, Carried
    <3>2. CASE AcquireManifest = Here
      <4>1. Here \in Hashed /\ Content(Here) = evidence[Here]
        BY <3>2 DEF Hashed, Content, Evidence
      <4>2. Parsed
        BY DEF Reading
      <4>. QED  BY <2>2, <3>2, <4>1, <4>2 DEF Carried, Parsed, Marked
    <3>. QED  BY <1>0, <3>1, <3>2
  <2>7. ManifestJson \in Behind' \ unread' <=> ManifestJson \in Behind \ unread
    BY <1>0, <1>10, <2>1 DEF Archived, TarSkips
  <2>8. ManifestJson \in listing' \cup unread' /\ listing' \cap unread' = {}
    BY <1>10, <2>1 DEF Archived
  <2>9. \A p \in tarball.bare \ Behind : FALSE
    BY <2>1 DEF Archived
  <2>10. ManifestJson \notin tarball'.bare \cap Behind'
    BY <1>0, <2>1, <2>9 DEF Archived
  <2>. QED  BY <1>0, <2>1, <2>3, <2>4, <2>5, <2>6, <2>7, <2>8, <2>9, <2>10
            DEF Archived, Reported
<1>6. (pc \in Closing => Bundled)'
  BY <1>a DEF Closing
<1>7. Shipped'
  BY <1>a DEF Shipped, Delivered, Fresh
<1>8. Sound'
  BY <1>a DEF Sound
<1>9. Marked'
  BY <1>a DEF Marked
<1>. QED  BY <1>1, <1>2, <1>3, <1>4, <1>5, <1>6, <1>7, <1>8, <1>9

(* A header promises no more than lies there, or is the whole entry.        *)
LEMMA TarHeaderInv == ASSUME Inv, TarHeader PROVE Inv'
<1>. USE ConstantsAssumption DEF Inv, TarHeader, Visiting, history
<1>0. /\ Here \in Paths \ Behind
      /\ at' = at + 1 => Behind' = Behind \cup {Here} /\ at' \in 0..Len(Order)
  BY Steps
<1>10. /\ tarball \in Bundles /\ tarball' \in Bundles
       /\ tarball' = [tarball EXCEPT !.bare = @ \cup {Here}]
       /\ tarball'.files = tarball.files /\ tarball'.manifest = tarball.manifest
       /\ tarball'.bare = tarball.bare \cup {Here}
  <2>1. tarball \in Bundles
    BY DEF TypeOK, Archived
  <2>2. tarball.bare \cup {Here} \in SUBSET Paths
    BY <1>0, <2>1 DEF Bundles
  <2>. QED  BY <2>1, <2>2 DEF Bundles
<1>11. /\ \A p : Content(p)' = Content(p)
       /\ Archived
  BY DEF Content
<1>1. TypeOK'
  <2>1. header' \in Contents \cup Nat \cup {None}
    BY DEF TypeOK, Held, Hashed, Content
  <2>. QED  BY <1>0, <1>10, <2>1 DEF TypeOK, Labels
<1>2. Fresh'
  BY DEF Fresh, Before
<1>3. (Reading => Parsed /\ \A p \in Hashed : Known(p))'
  <2>1. Walked' = Walked /\ \A p \in Hashed : p \in Walked
    BY DEF Walked, Hashed, Evidence
  <2>. QED  BY <2>1, Knows DEF Parsed, Reading, Content
<1>4. (pc \in {"archive", "tar", "copy"} \cup Closing => manifestFile = m)'
  BY DEF Closing
<1>5. (pc \in {"tar", "copy"} => Archived)'
  <2>1. Apart' /\ \A p \in Hashed : Listed(p)'
    BY <1>10, <1>11 DEF Archived, Apart, Listed
  <2>2. \A a \in m.artifacts : a.path \in Behind => Owed(a)'
    BY <1>0, <1>10, <1>11 DEF Archived, Owed
  <2>3. AcquireManifest \in Behind => Carried(m)'
    BY <1>0, <1>10, <1>11 DEF Archived, Carried
  <2>4. Reported(m)'
    BY <1>10, <1>11 DEF Archived, Reported
  <2>5. CASE Here \in Evidence /\ evidence[Here] = Special /\ at' = at + 1 /\ pc' = pc
    <3>1. \A a \in m.artifacts : a.path = Here => Owed(a)'
      <4>. SUFFICES ASSUME NEW a \in m.artifacts, a.path = Here PROVE Owed(a)'
        OBVIOUS
      <4>1. Known(Here) /\ Content(Here) = Special
        BY <2>5 DEF Reading, Hashed, Content, Evidence
      <4>. QED  BY <4>1 DEF Known, Owed
    <3>2. AcquireManifest = Here => Carried(m)'
      BY <1>10 DEF Carried
    <3>3. ManifestJson # Here
      BY <2>5 DEF Evidence
    <3>. QED  BY <1>0, <1>10, <1>11, <2>1, <2>2, <2>3, <2>4, <2>5, <3>1, <3>2,
                 <3>3
              DEF Archived
  <2>6. CASE pc' = "copy" /\ UNCHANGED at
    <3>1. Behind' = Behind /\ Here' = Here
      BY <2>6 DEF Behind, Here
    <3>2. Copying'
      BY <1>11, <2>6, <3>1 DEF Copying
    <3>. QED  BY <1>0, <1>10, <1>11, <2>1, <2>2, <2>3, <2>4, <2>6, <3>1, <3>2
              DEF Archived
  <2>. QED  BY <2>5, <2>6
<1>6. (pc \in Closing => Bundled)'
  BY DEF Closing
<1>7. Shipped'
  BY DEF Shipped, Delivered, Fresh
<1>8. Sound'
  BY <1>10, <1>11 DEF Sound, Archived
<1>9. Marked'
  BY DEF Marked
<1>. QED  BY <1>1, <1>2, <1>3, <1>4, <1>5, <1>6, <1>7, <1>8, <1>9

(* A file that did not change meanwhile is copied whole.                    *)
LEMMA TarFileInv == ASSUME Inv, TarFile PROVE Inv'
<1>. USE ConstantsAssumption DEF Inv, TarFile, history
<1>. DEFINE entry == [path |-> Here, sha |-> Content(Here)]
<1>a. Archived /\ Copying /\ \A p : Content(p)' = Content(p)
  BY DEF Archived, Content
<1>0. /\ Here \in Paths \ Behind /\ Behind' = Behind \cup {Here} /\ at' \in 0..Len(Order)
      /\ Here \in listing \ (TarSkips \cup unread)
  BY <1>a, Steps DEF Copying, Archived
<1>10. tarball \in Bundles /\ m \in Manifests
  BY <1>a DEF TypeOK, Archived
<1>11. /\ tarball' \in Bundles
       /\ \/ /\ Here = ManifestJson /\ tarball'.bare = tarball.bare \ {Here}
             /\ tarball'.files = tarball.files /\ tarball'.manifest = m
          \/ /\ Here \in Hashed /\ Content(Here) \notin {Absent, Special}
             /\ tarball'.bare = tarball.bare \ {Here}
             /\ tarball'.files = tarball.files \cup {entry}
             /\ tarball'.manifest = tarball.manifest
          \/ Here \in Evidence /\ evidence[Here] # header /\ tarball' = tarball
  <2>1. CASE /\ Here = ManifestJson
             /\ tarball' = [tarball EXCEPT !.bare = @ \ {Here}, !.manifest = manifestFile]
    BY <1>10, <2>1 DEF Bundles
  <2>2. CASE /\ Here \in Hashed /\ Content(Here) \notin {Absent, Special}
             /\ tarball' = [tarball EXCEPT !.bare = @ \ {Here}, !.files = @ \cup {entry}]
    <3>1. entry \in Artifacts
      BY <2>2 DEF TypeOK, Artifacts, Hashed, Content, Held
    <3>. HIDE DEF entry
    <3>. QED  BY <1>10, <2>2, <3>1 DEF Bundles
  <2>3. CASE Here \in Evidence /\ evidence[Here] \notin {header, Absent} /\ tarball' = tarball
    BY <1>10, <2>3
  <2>. QED  BY <2>1, <2>2, <2>3
<1>1. TypeOK'
  BY <1>0, <1>11 DEF TypeOK, Labels
<1>2. Fresh'
  BY DEF Fresh, Before
<1>3. (Reading => Parsed /\ \A p \in Hashed : Known(p))'
  <2>1. Walked' = Walked /\ \A p \in Hashed : p \in Walked
    BY DEF Walked, Hashed, Evidence
  <2>. QED  BY <2>1, Knows DEF Parsed, Reading, Content
<1>4. (pc \in {"archive", "tar", "copy"} \cup Closing => manifestFile = m)'
  BY DEF Closing
<1>5. (pc \in {"tar", "copy"} => Archived)'
  <2>. USE <1>a
  <2>1. /\ Here = ManifestJson \/ Here \in Hashed
        /\ ManifestJson \notin Hashed
    BY <1>11 DEF Hashed, Evidence
  <2>2. /\ tarball.files \subseteq tarball'.files /\ tarball'.bare \subseteq tarball.bare
        /\ tarball.bare \subseteq tarball'.bare \cup {Here}
        /\ \A a \in tarball'.files : a \in tarball.files \/ a = entry
    BY <1>11
  <2>3. Here \in Hashed => \/ /\ entry \in tarball'.files /\ Here \notin tarball'.bare
                              /\ Content(Here) # Special
                           \/ Here \in changed /\ tarball' = tarball
    <3>1. Here \in Evidence => Content(Here) = evidence[Here]
      BY DEF Content, Evidence
    <3>. QED  BY <1>11, <2>1, <3>1 DEF Copying, Hashed
  <2>4. Apart'
    BY <1>0, <2>2 DEF Archived, Apart
  <2>5. \A p \in Hashed : Listed(p)'
    BY DEF Archived, Listed
  <2>6. \A a \in m.artifacts : a.path \in Behind' => Owed(a)'
    <3>. SUFFICES ASSUME NEW a \in m.artifacts, a.path \in Behind' PROVE Owed(a)'
      OBVIOUS
    <3>1. CASE a.path \in Behind
      BY <2>2, <3>1 DEF Archived, Owed
    <3>2. CASE a.path = Here
      <4>1. a.path \in Hashed /\ a = [path |-> a.path, sha |-> a.sha]
        BY <1>10 DEF Manifests, Artifacts, Hashed
      <4>2. a.path \in changed \/ a.sha = Content(a.path)
        BY <4>1 DEF Known, Reading
      <4>. QED  BY <2>3, <3>2, <4>1, <4>2 DEF Owed
    <3>. QED  BY <1>0, <3>1, <3>2
  <2>7. Reported(m)'
    <3>1. ASSUME Here \in Hashed, Content(Here) \notin {Absent, Special}
          PROVE  entry \in m.artifacts \/ Here \in warned \cup lost \cup changed
      BY <1>0, <3>1 DEF Known, Walked, Reading
    <3>2. \A a \in tarball'.files :
             \/ a \in tarball.files
             \/ a = entry /\ Here \in Hashed /\ Content(Here) \notin {Absent, Special}
      BY <1>11
    <3>. QED  BY <3>1, <3>2 DEF Archived, Reported
  <2>8. (AcquireManifest \in Behind => Carried(m))'
    <3>1. CASE AcquireManifest \in Behind
      BY <1>0, <2>2, <3>1 DEF Archived, Carried
    <3>2. CASE AcquireManifest = Here
      <4>1. Here \in Hashed /\ Content(Here) = evidence[Here] /\ Here # ManifestJson
        BY <3>2 DEF Hashed, Content, Evidence
      <4>2. Parsed
        BY DEF Reading
      <4>3. CASE entry \in tarball'.files /\ Content(Here) # Special
        BY <3>2, <4>1, <4>2, <4>3 DEF Carried, Parsed
      <4>4. CASE Here \in changed
        BY <3>2, <4>4 DEF Carried, Marked
      <4>. QED  BY <1>11, <2>3, <4>1, <4>3, <4>4
    <3>. QED  BY <1>0, <3>1, <3>2
  <2>9. ManifestJson \notin tarball'.bare \cap Behind'
    <3>1. Here = ManifestJson => ManifestJson \notin tarball'.bare
      BY <1>11, <2>1 DEF Evidence
    <3>. QED  BY <1>0, <2>2, <3>1 DEF Archived
  <2>10. tarball'.manifest = IF ManifestJson \in Behind' \ unread' THEN m' ELSE None
    <3>1. CASE Here = ManifestJson
      <4>1. tarball'.manifest = m
        BY <1>11, <2>1, <3>1 DEF Evidence
      <4>. QED  BY <1>0, <3>1, <4>1
    <3>2. CASE Here # ManifestJson
      <4>1. tarball'.manifest = tarball.manifest
        BY <1>11, <3>2
      <4>. QED  BY <1>0, <3>2, <4>1 DEF Archived
    <3>. QED  BY <3>1, <3>2
  <2>11. \A p \in tarball'.bare \ Behind' : FALSE
    BY <1>0, <2>2 DEF Archived
  <2>12. \A a \in tarball'.files : a.path \in Behind'
    BY <1>0, <2>2 DEF Archived
  <2>13. tarball' # None /\ pc' # "copy"
    BY <1>11
  <2>. QED  BY <2>4, <2>5, <2>6, <2>7, <2>8, <2>9, <2>10, <2>11, <2>12, <2>13
            DEF Archived
<1>6. (pc \in Closing => Bundled)'
  BY DEF Closing
<1>7. Shipped'
  BY DEF Shipped, Delivered, Fresh
<1>8. Sound'
  <2>1. \A a \in tarball'.files : a \in tarball.files \/ a = entry
    BY <1>11
  <2>2. \A a \in tarball.files : a.path # Here
    BY <1>0, <1>a DEF Archived
  <2>. QED  BY <1>a, <2>1, <2>2 DEF Sound, Archived
<1>9. Marked'
  BY DEF Marked
<1>. QED  BY <1>1, <1>2, <1>3, <1>4, <1>5, <1>6, <1>7, <1>8, <1>9

LEMMA TarAbortsInv == ASSUME Inv, TarAborts PROVE Inv'
<1>. USE ConstantsAssumption DEF Inv
<1>0. /\ pc \in {"tar", "copy"} /\ at < Len(Order) /\ End("error")
      /\ UNCHANGED <<evidence, audit, manifestFile, result, builds, history>>
  <2>1. Visiting("tar") \/ pc = "copy"
    BY DEF TarAborts
  <2>2. pc \in {"tar", "copy"} /\ at < Len(Order)
    BY <2>1 DEF Visiting, Archived, Copying
  <2>. QED  BY <2>2 DEF TarAborts
<1>1. tarball \in Bundles /\ Here \in Paths
  BY <1>0, Steps DEF TypeOK, Archived
<1>2. tarball' \in Bundles /\ tarball'.files = tarball.files
  <2>1. PICK part \in SUBSET {Here}, f \in BOOLEAN :
           tarball' = [tarball EXCEPT !.bare = @ \cup part, !.finalised = f]
    BY DEF TarAborts
  <2>2. tarball.bare \cup part \in SUBSET Paths
    BY <1>1 DEF Bundles
  <2>3. [tarball EXCEPT !.bare = tarball.bare \cup part, !.finalised = f] \in Bundles
    BY <1>1, <2>2 DEF Bundles
  <2>. QED  BY <1>1, <2>1, <2>3 DEF Bundles
<1>3. TypeOK'
  BY <1>0, <1>2, Ended DEF TypeOK, Labels, Outcomes, history
<1>4. Shipped' /\ Marked'
  BY <1>0 DEF Shipped, Delivered, Fresh, Marked, history
<1>5. Sound'
  BY <1>0, <1>2 DEF Sound, Archived
<1>. QED  BY <1>0, <1>3, <1>4, <1>5, EndInv DEF Outcomes

LEMMA TarEndsInv == ASSUME Inv, TarEnds PROVE Inv'
<1>. USE ConstantsAssumption DEF Inv, TarEnds, Past, disk, history
<1>1. TypeOK'
  BY Ends DEF TypeOK, Labels
<1>2. Fresh'
  BY DEF Fresh, Before
<1>3. (Reading => Parsed /\ \A p \in Hashed : Known(p))'
  BY DEF Reading
<1>4. (pc \in {"archive", "tar", "copy"} \cup Closing => manifestFile = m)'
  BY DEF Closing
<1>5. (pc \in {"tar", "copy"} => Archived)'
  OBVIOUS
<1>6. (pc \in Closing => Bundled)'
  <2>1. Behind = Paths
    BY Ends
  <2>2. \A a \in m.artifacts : a.path \in Paths
    BY DEF TypeOK, Manifests, Artifacts, Evidence
  <2>3. Packed(m)
    BY <2>1, <2>2 DEF Archived, Packed, Chained, Evidence
  <2>. QED  BY <2>3
            DEF Packed, Bundled, Chained, Owed, Reported, Carried, Apart,
                Fresh, Closing
<1>7. Shipped'
  BY DEF Shipped, Delivered, Fresh
<1>8. Sound'
  BY DEF Sound
<1>9. Marked'
  BY DEF Marked
<1>. QED  BY <1>1, <1>2, <1>3, <1>4, <1>5, <1>6, <1>7, <1>8, <1>9

LEMMA CloseTarballInv == ASSUME Inv, CloseTarball PROVE Inv'
<1>. USE ConstantsAssumption DEF Inv, CloseTarball, Close, history
<1>0. tarball \in Bundles /\ Bundled /\ tarSha = None
  BY DEF TypeOK, Bundled, Packed, Closing, Fresh
<1>10. /\ tarball' \in Bundles /\ tarball'.files = tarball.files
       /\ tarball'.bare = tarball.bare /\ tarball'.manifest = tarball.manifest
  <2>1. PICK f \in BOOLEAN : tarball' = [tarball EXCEPT !.finalised = f]
    OBVIOUS
  <2>. QED  BY <1>0, <2>1 DEF Bundles
<1>1. TypeOK'
  BY <1>10 DEF TypeOK, Labels
<1>2. Fresh'
  BY DEF Fresh, Before
<1>3. (Reading => Parsed /\ \A p \in Hashed : Known(p))'
  BY DEF Reading
<1>4. (pc \in {"archive", "tar", "copy"} \cup Closing => manifestFile = m)'
  BY DEF Closing
<1>5. (pc \in {"tar", "copy"} => Archived)'
  OBVIOUS
<1>6. (pc \in Closing => Bundled)'
  BY <1>0, <1>10 DEF Bundled, Packed, Chained, Owed, Reported, Carried, Apart
<1>7. Shipped'
  BY DEF Shipped, Delivered, Fresh
<1>8. Sound'
  BY <1>0, <1>10 DEF Sound
<1>9. Marked'
  BY DEF Marked
<1>. QED  BY <1>1, <1>2, <1>3, <1>4, <1>5, <1>6, <1>7, <1>8, <1>9

LEMMA HashTarballInv == ASSUME Inv, HashTarball PROVE Inv'
<1>. USE ConstantsAssumption DEF Inv, HashTarball
<1>0. AppendLine /\ changed' = changed
  BY Line DEF AppendLine, Reading, Quiet
<1>1. TypeOK'
  BY <1>0, Line DEF TypeOK, Labels, Bundled, Packed, Closing
<1>2. Fresh'
  BY DEF Fresh, Before
<1>3. (Reading => Parsed /\ \A p \in Hashed : Known(p))'
  BY DEF Reading
<1>4. (pc \in {"archive", "tar", "copy"} \cup Closing => manifestFile = m)'
  BY DEF Closing
<1>5. (pc \in {"tar", "copy"} => Archived)'
  OBVIOUS
<1>6. (pc \in Closing => Bundled)'
  BY <1>0
  DEF Bundled, Packed, Chained, Owed, Reported, Carried, Apart, Closing
<1>7. Shipped'
  BY DEF Shipped, Delivered, Fresh
<1>8. Sound'
  BY DEF Sound
<1>9. Marked'
  BY <1>0 DEF Marked
<1>. QED  BY <1>1, <1>2, <1>3, <1>4, <1>5, <1>6, <1>7, <1>8, <1>9

LEMMA ReportInv == ASSUME Inv, Report PROVE Inv'
<1>. USE ConstantsAssumption DEF Inv, Report
<1>0. changed' = changed /\ audit' \in Nat /\ Bundled
  BY Line DEF Reading, Closing
<1>1. TypeOK'
  <2>1. result' \in Results
    BY <1>0 DEF TypeOK, Results, Bundled, Packed
  <2>. QED  BY <1>0, <2>1, Ended DEF TypeOK, Labels, Outcomes
<1>2. Shipped'
  <2>1. result' # None /\ result'.manifest = m /\ result'.sha = tarSha /\ manifestFile = m
    BY <1>0 DEF TypeOK, Results, Bundled, Packed, Closing
  <2>. QED  BY <1>0, <2>1
            DEF Shipped, Bundled, Packed, Chained, Owed, Reported, Carried,
                Apart
<1>3. Sound' /\ Marked'
  BY <1>0 DEF Sound, Marked
<1>. QED  BY <1>1, <1>2, <1>3, EndInv DEF Outcomes

-----------------------------------------------------------------------------
(* The environment. *)
LEMMA CrashInv == ASSUME Inv, Crash PROVE Inv'
<1>. USE ConstantsAssumption DEF Inv, Crash, disk, history
<1>1. TypeOK'
  BY Ended DEF TypeOK, Labels, Outcomes
<1>2. Shipped' /\ Sound' /\ Marked'
  BY DEF Shipped, Delivered, Fresh, Sound, Marked
<1>. QED  BY <1>1, <1>2, EndInv DEF Outcomes

LEMMA ChangeEvidenceInv ==
  ASSUME Inv, NEW path \in Evidence, ChangeEvidence(path) PROVE Inv'
<1>. USE ConstantsAssumption DEF Inv
<1>0. /\ changed \subseteq changed' /\ evidence' \in [Evidence -> Held]
      /\ edits' = edits + 1 /\ edits' \in 0..MaxEdits
      /\ outdated' = (outdated \/ (Reading /\ path = AcquireManifest))
      /\ UNCHANGED <<audit, manifestFile, tarball, pc, at, listing, header, todo, m,
                     tarSha, result, outcome, builds, warned, lost, unread>>
      /\ \A q \in Evidence \ {path} : evidence'[q] = evidence[q]
      /\ changed' = IF Reading THEN changed \cup {path} ELSE changed
  BY DEF TypeOK, ChangeEvidence, Edit, Changes, memory, locals, Held
<1>10. Reading => \A q \in Hashed : q \in changed' \/ Content(q)' = Content(q)
  BY <1>0 DEF Content, Hashed
<1>1. TypeOK'
  BY <1>0 DEF TypeOK, Hashed
<1>2. Fresh'
  BY <1>0 DEF Fresh, Before
<1>3. (Reading => Parsed /\ \A p \in Hashed : Known(p))'
  <2>. SUFFICES ASSUME Reading PROVE (Parsed /\ \A p \in Hashed : Known(p))'
    BY <1>0 DEF Reading
  <2>1. Walked' = Walked
    BY <1>0 DEF Walked, Behind
  <2>2. Parsed'
    BY <1>0 DEF Parsed, TypeOK
  <2>. QED  BY <2>1, <2>2, <1>0, <1>10, Knows
<1>4. (pc \in {"archive", "tar", "copy"} \cup Closing => manifestFile = m)'
  BY <1>0 DEF Closing
<1>5. (pc \in {"tar", "copy"} => Archived)'
  <2>. SUFFICES ASSUME pc \in {"tar", "copy"}, Archived PROVE Archived'
    BY <1>0
  <2>1. \A q \in Hashed : q \in changed' \/ Content(q)' = Content(q)
    BY <1>10 DEF Reading
  <2>2. Behind' = Behind /\ Here' = Here
    BY <1>0 DEF Behind, Here
  <2>3. Copying => Copying'
    BY <1>0, <2>1, <2>2 DEF Copying
  <2>4. (\A p \in Hashed : Listed(p)) => \A p \in Hashed : Listed(p)'
    BY <1>0, <2>1 DEF Listed
  <2>. QED  BY <1>0, <2>2, <2>3, <2>4
            DEF Archived, Apart, Owed, Reported, Carried
<1>6. (pc \in Closing => Bundled)'
  BY <1>0 DEF Bundled, Packed, Chained, Owed, Reported, Carried, Apart
<1>7. Shipped'
  BY <1>0
  DEF Shipped, Delivered, Packed, Chained, Owed, Reported, Carried, Apart
<1>8. Sound'
  BY <1>0 DEF Sound
<1>9. Marked'
  <2>1. edits' # 0
    BY <1>0 DEF TypeOK
  <2>. QED  BY <1>0, <2>1 DEF Marked
<1>. QED  BY <1>1, <1>2, <1>3, <1>4, <1>5, <1>6, <1>7, <1>8, <1>9

LEMMA OthersAppendInv == ASSUME Inv, OthersAppend PROVE Inv'
<1>. USE ConstantsAssumption DEF Inv
<1>a. AppendLine /\ edits' = edits + 1 /\ edits' \in 0..MaxEdits
  BY DEF TypeOK, OthersAppend, Edit, AppendLine
<1>0. /\ audit' \in Nat /\ changed \subseteq changed' /\ changed' \subseteq Hashed
      /\ ~Reading => changed' = changed
      /\ UNCHANGED <<evidence, manifestFile, tarball, pc, at, listing, header, todo, m,
                     tarSha, result, outcome, builds, warned, lost, unread, outdated>>
  BY <1>a, Line DEF OthersAppend, memory, locals
<1>10. Reading => \A q \in Hashed : q \in changed' \/ Content(q)' = Content(q)
  BY <1>a, <1>0, Line DEF Content
<1>1. TypeOK'
  BY <1>a, <1>0 DEF TypeOK
<1>2. Fresh'
  BY <1>0 DEF Fresh, Before
<1>3. (Reading => Parsed /\ \A p \in Hashed : Known(p))'
  <2>. SUFFICES ASSUME Reading PROVE (Parsed /\ \A p \in Hashed : Known(p))'
    BY <1>0 DEF Reading
  <2>1. Walked' = Walked
    BY <1>0 DEF Walked, Behind
  <2>2. Parsed'
    BY <1>0 DEF Parsed, TypeOK
  <2>. QED  BY <2>1, <2>2, <1>0, <1>10, Knows
<1>4. (pc \in {"archive", "tar", "copy"} \cup Closing => manifestFile = m)'
  BY <1>0 DEF Closing
<1>5. (pc \in {"tar", "copy"} => Archived)'
  <2>. SUFFICES ASSUME pc \in {"tar", "copy"}, Archived PROVE Archived'
    BY <1>0
  <2>1. \A q \in Hashed : q \in changed' \/ Content(q)' = Content(q)
    BY <1>10 DEF Reading
  <2>2. Behind' = Behind /\ Here' = Here
    BY <1>0 DEF Behind, Here
  <2>3. Copying => Copying'
    BY <1>0, <2>1, <2>2 DEF Copying
  <2>4. (\A p \in Hashed : Listed(p)) => \A p \in Hashed : Listed(p)'
    BY <1>0, <2>1 DEF Listed
  <2>. QED  BY <1>0, <2>2, <2>3, <2>4
            DEF Archived, Apart, Owed, Reported, Carried
<1>6. (pc \in Closing => Bundled)'
  BY <1>0 DEF Bundled, Packed, Chained, Owed, Reported, Carried, Apart
<1>7. Shipped'
  BY <1>0
  DEF Shipped, Delivered, Packed, Chained, Owed, Reported, Carried, Apart
<1>8. Sound'
  BY <1>0 DEF Sound
<1>9. Marked'
  <2>1. edits' # 0
    BY <1>a DEF TypeOK
  <2>. QED  BY <1>a, <1>0, <2>1, Line DEF Marked, Evidence
<1>. QED  BY <1>1, <1>2, <1>3, <1>4, <1>5, <1>6, <1>7, <1>8, <1>9

LEMMA StutterInv == ASSUME Inv, UNCHANGED vars PROVE Inv'
<1>. USE DEF vars, disk, memory, locals, history
<1>1. Behind' = Behind /\ Walked' = Walked /\ Reading' = Reading /\ Here' = Here
  BY DEF Behind, Walked, Reading, Here
<1>2. \A p : (Known(p)' <=> Known(p)) /\ (Listed(p)' <=> Listed(p))
  BY <1>1 DEF Known, Listed, Content
<1>3. TypeOK' /\ Fresh' /\ (Reading => Parsed)'
  BY DEF Inv, TypeOK, Fresh, Parsed, Reading
<1>4. (pc \in {"tar", "copy"} => Archived)'
  BY <1>1, <1>2
  DEF Inv, Archived, Copying, Owed, Reported, Carried, Apart, Content
<1>5. (pc \in Closing => Bundled)' /\ Shipped'
  BY DEF Inv, Bundled, Shipped, Delivered, Packed, Chained, Owed, Reported,
         Carried, Apart
<1>6. Sound' /\ Marked'
  BY DEF Inv, Sound, Marked
<1>. QED  BY <1>1, <1>2, <1>3, <1>4, <1>5, <1>6 DEF Inv

(* The invariant holds from the start, and through every step. *)
LEMMA InitInv == Init => Inv
<1>. SUFFICES ASSUME Init PROVE Inv
  OBVIOUS
<1>. USE ConstantsAssumption DEF Init
<1>1. TypeOK
  <2>1. at \in 0..Len(Order) /\ builds \in 0..MaxBuilds /\ edits \in 0..MaxEdits
    BY Paths0
  <2>2. m \in Manifests /\ tarball \in Bundles \cup {None}
    BY Blank
  <2>. QED  BY <2>1, <2>2 DEF TypeOK, Labels, Outcomes
<1>2. Sound /\ Marked
  BY Blank DEF Sound, Marked
<1>. QED  BY <1>1, <1>2
          DEF Inv, Fresh, Before, Closing, Reading, Shipped, Delivered

LEMMA NextInv == Inv /\ [Next]_vars => Inv'
BY InitInv, BeginInv, FetchInv, TokenInv, GetInv, MetadataEndsInv, LoadInv,
   WalkFileInv, WalkFailsInv, WalkEndsInv, TruncateInv, WriteInv, ArchiveInv,
   TarSkippedInv, TarHeaderInv, TarFileInv, TarAbortsInv, TarEndsInv,
   CloseTarballInv, HashTarballInv, ReportInv, CrashInv, ChangeEvidenceInv,
   OthersAppendInv, StutterInv
DEF Next, Step, Environment

-----------------------------------------------------------------------------
(* The invariant is inductive, whatever other commands change in the        *)
(* directory between any two steps of a build.                              *)
THEOREM Invariance == Spec => []Inv
BY InitInv, NextInv, PTL DEF Spec

(* Every variable keeps its type: no build lists what is not evidence.      *)
THEOREM TypeCorrect == Spec => []TypeOK
<1>1. Inv => TypeOK
  BY DEF Inv
<1>. QED  BY <1>1, Invariance, PTL

(* Everything the manifest lists is in the delivered tarball once, whole    *)
(* and with the hash it lists, unless it changed meanwhile or the second    *)
(* walk could not look it up: but for that, the two walks agree             *)
(* (pkgbuild.go:118-152,300-356).                                           *)
THEOREM ChainHolds == Spec => []HashChain
<1>1. Inv => HashChain
  BY DEF Inv, HashChain, Shipped, Packed, Chained, Owed, Apart, Sound
<1>. QED  BY <1>1, Invariance, PTL

(* While nobody else writes to the directory, what a build delivers agrees  *)
(* with the hashes it lists but for the log of its own warnings             *)
(* (pkgbuild.go:118-140).                                                   *)
THEOREM OnlyTheLogMayDiffer == Spec => []OnlyAuditLogDisagrees
<1>1. Inv => OnlyAuditLogDisagrees
  BY DEF Inv, OnlyAuditLogDisagrees, Shipped, Packed, Chained, Owed, Apart,
         Sound, Marked
<1>. QED  BY <1>1, Invariance, PTL

(* Every file whose content the delivered tarball has is in its manifest,   *)
(* or was warned about, if only in a line that audit.log could not take, or *)
(* changed meanwhile (pkgbuild.go:119-140, audit.go:81).                    *)
THEOREM NothingSilent == Spec => []NoSilentOmission
<1>1. Inv => NoSilentOmission
  BY DEF Inv, NoSilentOmission, Shipped, Packed, Reported
<1>. QED  BY <1>1, Invariance, PTL

(* The manifest on disk and the one reported are one, and the delivered     *)
(* tarball has that one, whole, or none when the second walk could not look *)
(* manifest.json up (pkgbuild.go:22-25,154-181,322-324).                    *)
THEOREM ManifestsAgree == Spec => []OneManifest
<1>1. Inv => OneManifest
  BY DEF Inv, OneManifest, Shipped, Packed
<1>. QED  BY <1>1, Invariance, PTL

(* The acquisition section carried into the manifest is of the acquire      *)
(* manifest in the tarball, unless that was replaced meanwhile, is a link,  *)
(* or could not be looked up by the second walk                             *)
(* (pkgbuild.go:102-108,135,322-353).                                       *)
THEOREM CarriedIsBundled == Spec => []CarriedForward
<1>1. Inv => CarriedForward
  BY DEF Inv, CarriedForward, Shipped, Packed, Carried
<1>. QED  BY <1>1, Invariance, PTL

-----------------------------------------------------------------------------
(* A build ends. *)

(* How many steps a build has left, at most. *)
Stages ==
    LET n == Len(Order)
    IN  [idle |-> 0, report |-> 1, hash |-> 2, close |-> 3, copy |-> 3, tar |-> 4,
         archive |-> 2 * n + 5, write |-> 2 * n + 6, save |-> 2 * n + 7,
         walk |-> 2 * n + 8, load |-> 3 * n + 9, metadata |-> 3 * n + 10,
         token |-> 3 * n + 11 + Cardinality(Keys),
         cloud |-> 3 * n + 12 + Cardinality(Keys)]

StepsLeft ==
    Stages[pc] + CASE pc = "walk" -> Len(Order) - at
                   [] pc \in {"tar", "copy"} -> 2 * (Len(Order) - at)
                   [] pc = "metadata" -> Cardinality(todo)
                   [] OTHER -> 0

(* It is a number, and none are left just when no build is in progress.     *)
StepsCount == StepsLeft \in Nat /\ (StepsLeft = 0 <=> pc = "idle")

(* Whatever changes of a build brings it nearer to its end: nothing another *)
(* command does takes it back or keeps it waiting (pkgbuild.go:64-181).     *)
StepsRunOut == [][pc # "idle" /\ ~UNCHANGED memory => StepsLeft' < StepsLeft]_vars

(* The keys that are left are counted. *)
LEMMA Counted ==
  ASSUME IsFiniteSet(Keys)
  PROVE  /\ Cardinality(Keys) \in Nat
         /\ \A S \in SUBSET Keys :
              /\ Cardinality(S) \in 0..Cardinality(Keys)
              /\ \A k \in S : Cardinality(S \ {k}) = Cardinality(S) - 1
<1>1. Cardinality(Keys) \in Nat
  BY FS_CardinalityType
<1>2. ASSUME NEW S \in SUBSET Keys
      PROVE  Cardinality(S) \in 0..Cardinality(Keys) /\ IsFiniteSet(S)
  <2>1. IsFiniteSet(S) /\ Cardinality(S) <= Cardinality(Keys)
    BY FS_Subset
  <2>. QED  BY <1>1, <2>1, FS_CardinalityType
<1>3. ASSUME NEW S \in SUBSET Keys, NEW k \in S
      PROVE  Cardinality(S \ {k}) = Cardinality(S) - 1
  BY <1>2, FS_RemoveElement
<1>. QED  BY <1>1, <1>2, <1>3

LEMMA Countable == ASSUME IsFiniteSet(Keys), TypeOK PROVE StepsCount
<1>1. /\ Len(Order) \in Nat /\ Len(Order) - at \in Nat
      /\ Cardinality(Keys) \in Nat /\ Cardinality(todo) \in Nat
  BY Paths0, Counted DEF TypeOK
<1>2. Stages[pc] \in Nat /\ (Stages[pc] = 0 <=> pc = "idle")
  <2>. USE <1>1 DEF Stages
  <2>1. CASE pc \in {"idle", "report", "hash", "close", "copy", "tar"}
    BY <2>1
  <2>2. CASE pc \in {"archive", "write", "save", "walk"}
    BY <2>2
  <2>3. CASE pc \in {"load", "metadata", "token", "cloud"}
    BY <2>3
  <2>. QED  BY <2>1, <2>2, <2>3 DEF TypeOK, Labels
<1>3. CASE pc = "metadata"
  BY <1>1, <1>2, <1>3 DEF StepsCount, StepsLeft
<1>4. CASE pc \in {"walk", "tar", "copy"}
  BY <1>1, <1>2, <1>4 DEF StepsCount, StepsLeft
<1>5. CASE pc \notin {"metadata", "walk", "tar", "copy"}
  BY <1>2, <1>5 DEF StepsCount, StepsLeft
<1>. QED  BY <1>3, <1>4, <1>5

(* The steps of a build, and its end by a signal. *)
LEMMA Nearer ==
  ASSUME IsFiniteSet(Keys), TypeOK, Step \/ Crash PROVE StepsLeft' < StepsLeft
<1>1. /\ Len(Order) \in Nat /\ at \in 0..Len(Order)
      /\ Cardinality(Keys) \in Nat /\ Cardinality(todo) \in 0..Cardinality(Keys)
  BY Paths0, Counted DEF TypeOK
<1>. USE DEF StepsLeft, Stages
<1>2. CASE Fetch
  <2>1. pc = "cloud" /\ pc' \in {"token", "load"}
    BY <1>2 DEF Fetch, Asking
  <2>. QED  BY <1>1, <2>1
<1>3. CASE Token
  <2>1. CASE pc' = "metadata"
    <3>1. pc = "token" /\ todo' = Keys
      BY <1>3, <2>1 DEF Token, Asking
    <3>. QED  BY <1>1, <2>1, <3>1
  <2>2. CASE pc' = "load"
    <3>1. pc = "token"
      BY <1>3, <2>2 DEF Token, Asking
    <3>. QED  BY <1>1, <2>2, <3>1
  <2>. QED  BY <1>3, <2>1, <2>2 DEF Token, Asking
<1>4. CASE \E k \in Keys : Get(k)
  BY <1>1, <1>4, Counted DEF Get, Asking, TypeOK
<1>5. CASE MetadataEnds
  BY <1>1, <1>5 DEF MetadataEnds, Asking
<1>6. CASE Load
  BY <1>1, <1>6 DEF Load
<1>7. CASE WalkFile
  BY <1>1, <1>7 DEF WalkFile, Visiting
<1>71. CASE WalkFails
  <2>1. pc = "walk" /\ pc' = "walk" /\ at' = at + 1
    BY <1>71 DEF WalkFails, Visiting, Skip
  <2>. QED  BY <1>1, <2>1
<1>8. CASE WalkEnds
  BY <1>1, <1>8 DEF WalkEnds, Past
<1>9. CASE Truncate
  BY <1>1, <1>9 DEF Truncate, End
<1>10. CASE Write
  BY <1>1, <1>10 DEF Write, End
<1>11. CASE Archive
  BY <1>1, <1>11 DEF Archive, End
<1>111. CASE TarSkipped
  <2>1. pc = "tar" /\ pc' = "tar" /\ at' = at + 1
    BY <1>111 DEF TarSkipped, Visiting, Skip
  <2>. QED  BY <1>1, <2>1
<1>112. CASE TarHeader
  <2>1. pc = "tar" /\ \/ pc' = "tar" /\ at' = at + 1
                      \/ pc' = "copy" /\ at' = at
    BY <1>112 DEF TarHeader, Visiting
  <2>2. CASE pc' = "tar" /\ at' = at + 1
    BY <1>1, <2>1, <2>2
  <2>3. CASE pc' = "copy" /\ at' = at
    BY <1>1, <2>1, <2>3
  <2>. QED  BY <2>1, <2>2, <2>3
<1>12. CASE TarFile
  <2>1. pc = "copy" /\ pc' = "tar" /\ at' = at + 1
    BY <1>12 DEF TarFile
  <2>. QED  BY <1>1, <2>1
<1>13. CASE TarAborts
  <2>1. StepsLeft \in Nat /\ StepsLeft # 0 /\ StepsLeft' = 0
    <3>1. pc # "idle" /\ pc' = "idle"
      BY <1>13 DEF TarAborts, Visiting, End
    <3>. QED  BY <3>1, Countable DEF StepsCount
  <2>. QED  BY <2>1
<1>14. CASE TarEnds
  BY <1>1, <1>14 DEF TarEnds, Past
<1>15. CASE CloseTarball
  BY <1>1, <1>15 DEF CloseTarball
<1>16. CASE HashTarball
  BY <1>1, <1>16 DEF HashTarball
<1>17. CASE Report
  BY <1>1, <1>17 DEF Report, End
<1>18. CASE Crash
  <2>1. StepsLeft \in Nat /\ StepsLeft # 0 /\ StepsLeft' = 0
    BY <1>18, Countable DEF Crash, End, StepsCount
  <2>. QED  BY <2>1
<1>. QED  BY <1>2, <1>3, <1>4, <1>5, <1>6, <1>7, <1>71, <1>8, <1>9, <1>10,
             <1>11, <1>111, <1>112, <1>12, <1>13, <1>14, <1>15, <1>16, <1>17,
             <1>18
          DEF Step

(* Every build ends, after at most 12 + 3 * Len(Order) + Cardinality(Keys)  *)
(* steps of its own, whatever other commands do to the directory: only the  *)
(* paths of a listing and the keys are looped over                          *)
(* (pkgbuild.go:118-152,300-356, ec2/imds.go:100-107).                      *)
THEOREM BuildsEnd ==
  ASSUME IsFiniteSet(Keys) PROVE Spec => []StepsCount /\ StepsRunOut
<1>1. TypeOK => StepsCount
  BY Countable
<1>2. TypeOK /\ [Next]_vars =>
        [pc # "idle" /\ ~UNCHANGED memory => StepsLeft' < StepsLeft]_vars
  BY Nearer DEF Next, Environment, Begin, ChangeEvidence, OthersAppend
<1>. QED  BY <1>1, <1>2, TypeCorrect, PTL DEF Spec, StepsRunOut
=============================================================================
