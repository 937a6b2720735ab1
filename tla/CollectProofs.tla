--------------------------- MODULE CollectProofs ---------------------------
(***************************************************************************)
(* Theorems about Collect, for any items, any paths however they share     *)
(* their names, and any number of runs.                                    *)
(***************************************************************************)
EXTENDS Collect, FiniteSetTheorems, TLAPS

Copying == {"copy", "blocked"}
Past    == {"mkdirFiles", "visit", "save", "write", "report"} \cup Copying
Behind  == {Items[k] : k \in 1..at}

(* What the executor may answer, of this run or of another.                 *)
AllAnswers == [failed : BOOLEAN, text : {"empty", "part", "whole"}]

(* What the output of a row holds.                                          *)
TextOf(failed) == IF failed THEN "part" ELSE "whole"

(* What a run has in memory.                                                *)
Memory ==
    /\ Running => outcome = None /\ run \in 1..MaxRuns
    /\ pc \in {"idle", "mkdir"} => at = 0 /\ rows = {}
    /\ pc = "store" => /\ at < Len(Items)
                       /\ answer \in AllAnswers
                       /\ ~dry => answer.text = TextOf(answer.failed)
    /\ pc \in {"call", "store", "mkdirFiles"} => \A r \in rows : r.of \in ItemSet
    /\ pc \in Past => at = Len(Items)
    /\ pc \in Copying => source \in todo
    /\ pc \notin Copying => left = {}
    /\ \A r \in rows : r.of \notin todo

(* The items behind it have a row each, and their warnings.                 *)
Counted ==
    /\ \A i \in Behind : \E r \in rows : r.of = i
    /\ \A r \in rows : r.of \in ItemSet => r.of \in Behind /\ ~r.skipped
    /\ \A r, s \in rows : r.of \in ItemSet /\ r.of = s.of => r = s

Warned ==
    \A i \in ItemSet \ Optional :
        Row(i, TRUE, FALSE) \in rows => <<i, "warn">> \in log \/ i \in unlogged

(* Their outputs are those of their rows.                                   *)
Stored ==
    ~dry => \A r \in rows : r.of \in ItemSet \ unwritten =>
                outputs[r.of] = [run |-> run, text |-> TextOf(r.failed)]

(* A signal is about to fail an item, or has.                               *)
Cut ==
    cancelled /\ ~dry /\ Running =>
        \/ pc \in {"mkdir", "call"} /\ at < Len(Items)
        \/ pc = "store" /\ answer.failed
        \/ \E i \in ItemSet : Row(i, TRUE, FALSE) \in rows

(* GoodCopyIsWhole of the rows so far: the path that is being copied is one *)
(* of its name already, but the name need not be whole.                     *)
Named(n) == {s \in Sources : Dest[s] = n /\ \E r \in rows : r.of = s}
Good(n)  == \A s \in Named(n) : Row(s, FALSE, FALSE) \in rows
Owner(s) == [run |-> run, source |-> s]
Owners(n) ==
    Named(n) \cup (IF pc \in Copying /\ n = Dest[source] THEN {source} ELSE {})

Whole(n) ==
    Named(n) # {} /\ Good(n) =>
        \E s \in Named(n) : \A f \in listed[s] : copies[<<n, f>>] = Owner(s)

Fresh(n) ==
    Good(n) => \A s \in Named(n) : \A f \in listed[s] :
                  copies[<<n, f>>] \in [run : {run}, source : Owners(n)]

Kept ==
    /\ \A n \in Names : Whole(n) \/ (pc \in Copying /\ n = Dest[source])
    /\ \A n \in Names : Fresh(n)
    /\ pc \in Copying =>
          \A f \in listed[source] \ left : copies[<<Dest[source], f>>] = Owner(source)

(* The record on disk is of an earlier run until this one saves its own.    *)
Dated ==
    /\ Saved => /\ manifest.run <= run
                /\ Running /\ pc # "report" => manifest.run < run
    /\ pc = "report" => Saved /\ manifest.run = run

(* What the record on disk promises.                                        *)
Record ==
    /\ EveryItemIsAccounted /\ OutputsAreOfTheRow
    /\ GoodCopyIsWhole /\ CutShortIsVisible

Inv ==
    /\ TypeOK
    /\ Memory /\ Counted /\ Warned /\ Stored /\ Cut /\ Kept /\ Dated
    /\ Record /\ SuccessIsRecorded

-----------------------------------------------------------------------------
(* The items behind the run. *)
LEMMA Lengths ==
  Len(Items) \in Nat /\ \A k \in 1..Len(Items) : Items[k] \in ItemSet
BY ConstantsAssumption DEF ItemSet

(* The item at hand is new, and then it is behind.                          *)
LEMMA Steps ==
  ASSUME TypeOK, at < Len(Items)
  PROVE  /\ Item \in ItemSet \ Behind
         /\ at' = at + 1 => Behind' = Behind \cup {Item} /\ at' \in 0..Len(Items)
<1>1. at + 1 \in 1..Len(Items) /\ at \in Nat /\ Len(Items) \in Nat
  BY Lengths DEF TypeOK
<1>2. \A k \in 1..at : k \in 1..Len(Items) /\ k # at + 1
  BY <1>1
<1>3. Item \in ItemSet \ Behind
  BY <1>1, <1>2, ConstantsAssumption, Lengths DEF Item, Behind
<1>4. ASSUME at' = at + 1 PROVE Behind' = Behind \cup {Item}
  <2>1. 1..(at + 1) = 1..at \cup {at + 1}
    BY <1>1
  <2>. QED  BY <1>4, <2>1 DEF Behind, Item
<1>. QED  BY <1>1, <1>3, <1>4

(* Behind the last item are all of them; at the first, none.                *)
LEMMA Ends ==
  /\ at = Len(Items) => Behind = ItemSet
  /\ at' = 0 => Behind' = {} /\ at' \in 0..Len(Items)
BY Lengths DEF Behind, ItemSet

(* A run that ends, or one that begins, holds nothing.                      *)
LEMMA Nothing ==
  ASSUME at' = 0, rows' = {}, pc' \in {"idle", "mkdir"}
  PROVE  Counted' /\ Warned' /\ Stored' /\ Kept'
<1>1. Counted'
  BY Ends DEF Counted
<1>2. Kept'
  BY DEF Kept, Whole, Fresh, Named, Copying
<1>. QED  BY <1>1, <1>2 DEF Warned, Stored

(* What the record on disk says stays true while it is of an earlier run,   *)
(* and while no other run begins and nothing is written.                    *)
LEMMA Settled ==
  ASSUME Record, manifest' = manifest,
         \/ Saved => manifest.run # run'
         \/ UNCHANGED <<outputs, copies, log, request, history>>
  PROVE  Record'
<1>. USE DEF Record, Saved
<1>1. CASE Saved => manifest.run # run'
  BY <1>1
  DEF EveryItemIsAccounted, OutputsAreOfTheRow, GoodCopyIsWhole,
      CutShortIsVisible
<1>2. CASE UNCHANGED <<outputs, copies, log, request, history>>
  <2>. USE <1>2 DEF request, history
  <2>1. EveryItemIsAccounted'
    BY DEF EveryItemIsAccounted
  <2>2. OutputsAreOfTheRow' /\ CutShortIsVisible'
    BY DEF OutputsAreOfTheRow, CutShortIsVisible
  <2>3. GoodCopyIsWhole'
    <3>1. ASSUME NEW n PROVE WholeIfGood(n)' <=> WholeIfGood(n)
      <4>1. Told(n)' = Told(n)
        BY DEF Told
      <4>. QED  BY <4>1 DEF WholeIfGood
    <3>. QED  BY <3>1 DEF GoodCopyIsWhole
  <2>. QED  BY <2>1, <2>2, <2>3
<1>. QED  BY <1>1, <1>2

(* A record that is torn says nothing.                                      *)
LEMMA Unsaved == ASSUME ~Saved' PROVE Record'
BY DEF Record, EveryItemIsAccounted, OutputsAreOfTheRow, GoodCopyIsWhole,
       CutShortIsVisible

(* Until a run saves its own record, the one on disk is of an earlier run.  *)
LEMMA Older ==
  ASSUME TypeOK, Dated, Running, pc # "report", Saved
  PROVE  manifest.run # run
BY DEF TypeOK, Dated, Saved, Manifests

(* However a run ends, it leaves what there is to the next.                 *)
LEMMA Ended ==
  ASSUME Inv, Running, NEW how, End(how), how \in {"error", "killed"},
         UNCHANGED <<manifest, log, request, history>>,
         outputs' \in [ItemSet -> Outputs \cup {None}],
         copies' \in [Places -> Copies \cup {None, Torn}],
         pc = "report" => UNCHANGED <<outputs, copies>>
  PROVE  Inv'
<1>. USE DEF Inv, End, request, history
<1>1. TypeOK'
  BY Ends DEF TypeOK, Labels
<1>2. Memory' /\ Cut'
  BY DEF Memory, Cut, Past, Copying, Running
<1>3. Counted' /\ Warned' /\ Stored' /\ Kept'
  BY Nothing
<1>4. Dated'
  BY DEF Dated, Saved, Running
<1>5. Record'
  BY Settled, Older
<1>6. SuccessIsRecorded'
  BY DEF SuccessIsRecorded
<1>. QED  BY <1>1, <1>2, <1>3, <1>4, <1>5, <1>6

(* A step that tells nothing new of the items, and saves nothing.           *)
LEMMA Same ==
  ASSUME Inv, Running, pc # "report", pc' \notin {"idle", "report"},
         UNCHANGED <<outputs, log, manifest, run, dry, outcome, at, unwritten, unlogged>>,
         rows \subseteq rows', \A r \in rows' : r.of \in ItemSet => r \in rows
  PROVE  Counted' /\ Warned' /\ Stored' /\ Dated' /\ Record' /\ SuccessIsRecorded'
<1>. USE DEF Inv
<1>1. Counted'
  <2>1. Behind' = Behind
    BY DEF Behind
  <2>2. Counted /\ rows \subseteq rows'
    OBVIOUS
  <2>. QED  BY <2>1, <2>2 DEF Counted
<1>2. Warned'
  <2>1. \A i \in ItemSet : Row(i, TRUE, FALSE).of = i
    BY DEF Row
  <2>. QED  BY <2>1 DEF Warned
<1>3. Stored'
  BY DEF Stored
<1>4. Dated'
  BY DEF Dated, Saved, Running
<1>5. Record'
  BY Settled, Older DEF Saved
<1>6. SuccessIsRecorded'
  BY ConstantsAssumption DEF SuccessIsRecorded, Memory
<1>. QED  BY <1>1, <1>2, <1>3, <1>4, <1>5, <1>6

(* A step that tells nothing new of the copies.                             *)
LEMMA Keeps ==
  ASSUME Kept, UNCHANGED <<rows, copies, listed, run>>,
         \/ pc \in Copying /\ pc' \in Copying /\ UNCHANGED <<source, left>>
         \/ pc \notin Copying /\ pc' \notin Copying
  PROVE  Kept'
<1>1. \A n : /\ Named(n)' = Named(n) /\ (Good(n)' <=> Good(n))
             /\ Owners(n)' = Owners(n) /\ (Whole(n)' <=> Whole(n))
  BY DEF Named, Good, Owners, Whole, Owner
<1>2. \A n : Fresh(n)' <=> Fresh(n)
  BY <1>1 DEF Fresh
<1>. QED  BY <1>1, <1>2 DEF Kept, Owner

-----------------------------------------------------------------------------
(* The operator and the executor. *)
LEMMA BeginInv == ASSUME Inv, Begin PROVE Inv'
<1>. USE ConstantsAssumption DEF Inv, Begin, End, work
<1>1. TypeOK'
  <2>1. dry' \in BOOLEAN
    BY Zenon
  <2>2. at' \in 0..Len(Items) /\ run' \in 0..MaxRuns
    BY Ends DEF TypeOK
  <2>3. /\ listed' \in [Sources -> SUBSET Files]
        /\ \A s \in Sources : listed'[s] \subseteq Entries[s]
    OBVIOUS
  <2>4. left' = {}
    BY DEF Memory, Copying
  <2>5. CASE UNCHANGED work
    BY <2>1, <2>2, <2>3, <2>4, <2>5 DEF TypeOK, Labels
  <2>6. CASE End("error")
    BY <2>1, <2>2, <2>3, <2>4, <2>6 DEF TypeOK, Labels
  <2>. QED  BY <2>5, <2>6
<1>2. Memory'
  BY DEF Memory, Past, Copying, Running, TypeOK
<1>3. Counted' /\ Warned' /\ Stored' /\ Kept'
  BY Nothing DEF Memory
<1>4. Cut'
  BY DEF Cut, Running
<1>5. Dated'
  BY DEF Dated, Saved, Running, TypeOK, Manifests
<1>6. Record'
  <2>1. Saved => manifest.run # run'
    BY DEF Dated, Saved, TypeOK, Manifests
  <2>. QED  BY <2>1, Settled
<1>7. SuccessIsRecorded'
  BY DEF SuccessIsRecorded, Saved, Memory, Running
<1>. QED  BY <1>1, <1>2, <1>3, <1>4, <1>5, <1>6, <1>7

LEMMA MkdirInv == ASSUME Inv, Mkdir PROVE Inv'
<1>. USE DEF Inv, Mkdir, Goto, disk, request, history, work
<1>1. CASE End("error")
  BY <1>1, Ended DEF Running, TypeOK
<1>2. CASE Goto("call") /\ UNCHANGED work
  <2>. USE <1>2
  <2>1. TypeOK'
    BY DEF TypeOK, Labels
  <2>2. Memory' /\ Cut'
    BY DEF Memory, Cut, Past, Copying, Running
  <2>3. Kept'
    BY Keeps DEF Copying
  <2>. QED  BY <2>1, <2>2, <2>3, Same DEF Running
<1>. QED  BY <1>1, <1>2

LEMMA CallInv == ASSUME Inv, Call PROVE Inv'
<1>. USE DEF Inv, Call, Goto, disk, request, history
<1>1. answer' \in AllAnswers
  <2>1. answer' \in Answers
    OBVIOUS
  <2>2. Answers \subseteq AllAnswers
    <3>1. \A f \in BOOLEAN, x \in {"empty", "part", "whole"} :
             [failed |-> f, text |-> x] \in AllAnswers
      BY DEF AllAnswers
    <3>. QED  BY <3>1, Zenon DEF Answers
  <2>. QED  BY <2>1, <2>2
<1>2. /\ ~dry => answer'.text = TextOf(answer'.failed)
      /\ ~dry /\ cancelled => answer'.failed
  BY DEF Answers, TextOf
<1>3. TypeOK'
  BY <1>1 DEF TypeOK, Labels, AllAnswers
<1>4. Memory'
  <2>1. ~dry => answer'.text = TextOf(answer'.failed)
    BY <1>2, Zenon
  <2>. QED  BY <1>1, <2>1 DEF Memory, Past, Copying, Running
<1>5. Cut'
  BY <1>2, Zenon DEF Cut, Running
<1>6. Kept'
  BY Keeps DEF Copying
<1>. QED  BY <1>3, <1>4, <1>5, <1>6, Same DEF Running

LEMMA StoreInv == ASSUME Inv, Store PROVE Inv'
<1>. USE ConstantsAssumption DEF Inv, Store, Goto, request
<1>. DEFINE row == Row(Item, answer.failed, FALSE)
<1>1. /\ Item \in ItemSet \ Behind /\ Behind' = Behind \cup {Item}
      /\ at' = at + 1 /\ at' \in 0..Len(Items)
      /\ answer \in AllAnswers /\ run \in 1..MaxRuns
  BY Steps DEF Memory, Running
<1>2. /\ rows' = rows \cup {row} /\ row \in Rows
      /\ row.of = Item /\ row.failed = answer.failed /\ ~row.skipped
  BY <1>1 DEF Row, Rows, AllAnswers
<1>3. TypeOK'
  <2>1. outputs' \in [ItemSet -> Outputs \cup {None}]
    <3>1. \A x \in {"empty", answer.text} : [run |-> run, text |-> x] \in Outputs
      BY <1>1 DEF Outputs, AllAnswers
    <3>2. \/ outputs' = outputs
          \/ \E x \in {"empty", answer.text} :
                outputs' = [outputs EXCEPT ![Item] = [run |-> run, text |-> x]]
      BY DEF Spoil
    <3>. QED  BY <1>1, <3>1, <3>2 DEF TypeOK
  <2>2. log' \subseteq Events
    BY <1>1 DEF TypeOK, Events, Level
  <2>3. rows' \subseteq Rows
    BY <1>2 DEF TypeOK
  <2>4. unwritten' \subseteq ItemSet /\ unlogged' \subseteq ItemSet
    BY <1>1 DEF TypeOK
  <2>. QED  BY <1>1, <2>1, <2>2, <2>3, <2>4 DEF TypeOK, Labels
<1>4. Memory'
  <2>1. todo \subseteq Sources /\ Item \notin Sources
    BY <1>1 DEF TypeOK
  <2>. QED  BY <1>1, <1>2, <2>1 DEF Memory, Past, Copying, Running
<1>5. Counted'
  <2>1. \A r \in rows : r.of # Item
    BY <1>1 DEF Counted
  <2>2. \A r \in rows' : r.of \in ItemSet => r.of \in Behind' /\ ~r.skipped
    BY <1>1, <1>2 DEF Counted
  <2>3. \A i \in Behind' : \E r \in rows' : r.of = i
    BY <1>1, <1>2 DEF Counted
  <2>4. \A r, s \in rows' : r.of \in ItemSet /\ r.of = s.of => r = s
    BY <1>2, <2>1 DEF Counted
  <2>. QED  BY <2>2, <2>3, <2>4 DEF Counted
<1>6. Warned'
  <2>. SUFFICES ASSUME NEW i \in ItemSet \ Optional, Row(i, TRUE, FALSE) \in rows'
                PROVE  (<<i, "warn">> \in log \/ i \in unlogged)'
    BY DEF Warned
  <2>1. CASE Row(i, TRUE, FALSE) \in rows
    BY <2>1 DEF Warned
  <2>2. CASE Row(i, TRUE, FALSE) = row
    BY <1>1, <2>2 DEF Row, Level
  <2>. QED  BY <1>2, <2>1, <2>2
<1>7. Stored'
  <2>. SUFFICES ASSUME ~dry, NEW r \in rows', r.of \in ItemSet \ unwritten'
                PROVE  outputs'[r.of] = [run |-> run, text |-> TextOf(r.failed)]
    BY DEF Stored
  <2>1. unwritten \subseteq unwritten'
    OBVIOUS
  <2>2. CASE r \in rows
    <3>1. r.of # Item
      BY <1>1, <2>2 DEF Counted
    <3>2. outputs'[r.of] = outputs[r.of]
      BY <3>1 DEF TypeOK, Spoil
    <3>. QED  BY <2>1, <2>2, <3>2 DEF Stored
  <2>3. CASE r = row
    <3>1. outputs' = [outputs EXCEPT ![Item] = [run |-> run, text |-> answer.text]]
      BY <1>2, <2>3
    <3>2. answer.text = TextOf(r.failed) /\ r.of = Item
      BY <1>2, <2>3 DEF Memory
    <3>. QED  BY <1>1, <3>1, <3>2 DEF TypeOK
  <2>. QED  BY <1>2, <2>2, <2>3
<1>8. Cut'
  <2>1. CASE \E i \in ItemSet : Row(i, TRUE, FALSE) \in rows
    BY <1>2, <2>1 DEF Cut
  <2>2. CASE answer.failed
    BY <1>1, <1>2, <2>2 DEF Cut
  <2>. QED  BY <2>1, <2>2 DEF Cut, Running
<1>9. Kept'
  <2>1. \A r \in rows' : r.of \in ItemSet
    BY <1>1, <1>2 DEF Memory
  <2>2. \A n : Named(n)' = {}
    BY <2>1 DEF Named
  <2>. QED  BY <2>2 DEF Kept, Whole, Fresh, Copying
<1>10. Dated'
  BY DEF Dated, Saved, Running
<1>11. Record'
  BY Settled, Older DEF Saved, Running
<1>12. SuccessIsRecorded'
  BY DEF SuccessIsRecorded, Memory, Running
<1>. QED  BY <1>3, <1>4, <1>5, <1>6, <1>7, <1>8, <1>9, <1>10, <1>11, <1>12

LEMMA ItemsEndInv == ASSUME Inv, ItemsEnd PROVE Inv'
<1>. USE DEF Inv, ItemsEnd, Goto, disk, request, history, work
<1>1. TypeOK'
  BY DEF TypeOK, Labels
<1>2. Memory'
  BY DEF Memory, Past, Copying, Running
<1>3. Cut'
  <2>1. ~(at < Len(Items))
    BY Lengths
  <2>. QED  BY <2>1 DEF Cut, Running
<1>4. Kept'
  BY Keeps DEF Copying
<1>. QED  BY <1>1, <1>2, <1>3, <1>4, Same DEF Running

LEMMA MkdirFilesInv == ASSUME Inv, MkdirFiles PROVE Inv'
<1>. USE DEF Inv, MkdirFiles, Goto, disk, request, history
<1>1. CASE End("error")
  BY <1>1, Ended DEF Running, TypeOK
<1>2. CASE Goto("visit") /\ todo' = Sources /\ UNCHANGED <<at, answer, source, left, rows>>
  <2>. USE <1>2
  <2>1. TypeOK'
    BY DEF TypeOK, Labels
  <2>2. Memory' /\ Cut'
    BY ConstantsAssumption DEF Memory, Cut, Past, Copying, Running
  <2>3. Kept'
    BY Keeps DEF Copying
  <2>. QED  BY <2>1, <2>2, <2>3, Same DEF Running
<1>. QED  BY <1>1, <1>2

-----------------------------------------------------------------------------
(* The adapter's paths. *)
LEMMA AbsentInv == ASSUME Inv, NEW s \in Sources, Absent(s) PROVE Inv'
<1>. USE DEF Inv, Absent, disk, request, history, control
<1>1. TypeOK'
  BY DEF TypeOK, Labels
<1>2. Memory' /\ Cut'
  BY DEF Memory, Cut, Past, Copying, Running
<1>3. Kept'
  BY Keeps DEF Copying
<1>. QED  BY <1>1, <1>2, <1>3, Same DEF Running

(* The row of a path is the first of that path.                             *)
LEMMA Added ==
  ASSUME TypeOK, Memory, NEW s \in todo, NEW failed \in BOOLEAN,
         NEW skipped \in BOOLEAN, rows' = rows \cup {Row(s, failed, skipped)}
  PROVE  /\ s \in Sources /\ s \notin ItemSet
         /\ rows' \subseteq Rows /\ rows \subseteq rows'
         /\ \A r \in rows' : r.of \in ItemSet => r \in rows
         /\ \A r \in rows' : r.of \notin todo \ {s}
         /\ \A n : /\ n = Dest[s] => Named(n)' = Named(n) \cup {s}
                   /\ n # Dest[s] => Named(n)' = Named(n) /\ (Good(n)' <=> Good(n))
                   /\ Good(n)' => Good(n) /\ (n = Dest[s] => ~failed /\ ~skipped)
<1>1. /\ s \in Sources /\ s \notin ItemSet
      /\ Row(s, failed, skipped) \in Rows /\ Row(s, failed, skipped).of = s
  BY ConstantsAssumption DEF TypeOK, Row, Rows
<1>2. \A r \in rows : r.of # s
  BY DEF Memory
<1>3. \A x \in Sources :
         /\ Row(x, FALSE, FALSE).of = x
         /\ x # s => (Row(x, FALSE, FALSE) \in rows' <=> Row(x, FALSE, FALSE) \in rows)
         /\ Row(s, FALSE, FALSE) \in rows' => ~failed /\ ~skipped
  BY <1>2 DEF Row
<1>4. \A n : /\ n = Dest[s] => Named(n)' = Named(n) \cup {s}
             /\ n # Dest[s] => Named(n)' = Named(n)
             /\ s \notin Named(n)
  BY <1>1, <1>2 DEF Named
<1>5. ASSUME NEW n PROVE Good(n)' => Good(n) /\ (n = Dest[s] => ~failed /\ ~skipped)
  BY <1>1, <1>3, <1>4 DEF Good, Named
<1>6. ASSUME NEW n, n # Dest[s] PROVE Good(n)' <=> Good(n)
  BY <1>3, <1>4, <1>6 DEF Good, Named
<1>7. rows' \subseteq Rows /\ \A r \in rows' : r.of \notin todo \ {s}
  BY <1>1 DEF TypeOK, Memory
<1>. QED  BY <1>1, <1>4, <1>5, <1>6, <1>7

LEMMA SkipInDryRunInv ==
  ASSUME Inv, NEW s \in Sources, SkipInDryRun(s) PROVE Inv'
<1>. USE DEF Inv, SkipInDryRun, disk, request, history, control
<1>1. s \in todo /\ rows' = rows \cup {Row(s, FALSE, TRUE)}
  OBVIOUS
<1>2. TypeOK'
  BY <1>1, Added DEF TypeOK, Labels
<1>3. Memory' /\ Cut'
  BY <1>1, Added DEF Memory, Cut, Past, Copying, Running
<1>4. Kept'
  <2>. SUFFICES ASSUME NEW n \in Names PROVE Whole(n)' /\ Fresh(n)'
    BY DEF Kept, Copying
  <2>1. CASE n = Dest[s]
    BY <1>1, <2>1, Added DEF Whole, Fresh
  <2>2. CASE n # Dest[s]
    <3>1. Named(n)' = Named(n) /\ (Good(n)' <=> Good(n)) /\ Owners(n)' = Owners(n)
      BY <1>1, <2>2, Added DEF Owners, Copying
    <3>2. Whole(n) /\ Fresh(n)
      BY DEF Kept, Copying
    <3>. QED  BY <3>1, <3>2 DEF Whole, Fresh, Owner
  <2>. QED  BY <2>1, <2>2
<1>. QED  BY <1>1, <1>2, <1>3, <1>4, Added, Same DEF Running

(* What a path holds is listed for the first time.                          *)
LEMMA VisitInv == ASSUME Inv, NEW s \in Sources, Visit(s) PROVE Inv'
<1>. USE DEF Inv, Visit, Goto, disk, request
<1>1. /\ left' \subseteq Entries[s] /\ listed'[s] = left'
      /\ \A x \in Sources \ {s} : listed'[x] = listed[x]
  BY DEF TypeOK
<1>2. TypeOK'
  <2>1. left' \subseteq Files
    BY <1>1 DEF Files
  <2>2. /\ listed' \in [Sources -> SUBSET Files]
        /\ \A x \in Sources : listed'[x] \subseteq Entries[x]
    BY <1>1, <2>1 DEF TypeOK
  <2>. QED  BY <1>1, <2>2 DEF TypeOK, Labels
<1>3. Memory' /\ Cut'
  BY DEF Memory, Cut, Past, Copying, Running
<1>4. Kept'
  <2>1. ASSUME NEW n PROVE Named(n)' = Named(n) /\ s \notin Named(n) /\ (Good(n)' <=> Good(n))
    BY DEF Named, Good, Memory
  <2>2. ASSUME NEW n \in Names PROVE Whole(n)'
    <3>1. Whole(n)
      BY DEF Kept, Copying
    <3>. SUFFICES ASSUME Named(n) # {}, Good(n)
                  PROVE  \E x \in Named(n) : \A f \in listed'[x] :
                            copies[<<n, f>>] = Owner(x)
      BY <2>1 DEF Whole, Owner
    <3>2. PICK x \in Named(n) : \A f \in listed[x] : copies[<<n, f>>] = Owner(x)
      BY <3>1 DEF Whole
    <3>3. listed'[x] = listed[x]
      BY <1>1, <2>1 DEF Named
    <3>. QED  BY <3>2, <3>3
  <2>3. ASSUME NEW n \in Names PROVE Fresh(n)'
    <3>1. Fresh(n) /\ Owners(n) \subseteq Owners(n)'
      BY <2>1 DEF Kept, Copying, Owners
    <3>. QED  BY <1>1, <2>1, <3>1 DEF Fresh, Named
  <2>. QED  BY <1>1, <2>2, <2>3 DEF Kept, Copying
<1>. QED  BY <1>2, <1>3, <1>4, Same DEF Running

LEMMA CopyFileInv == ASSUME Inv, CopyFile PROVE Inv'
<1>. USE DEF Inv, CopyFile, request, history, control
<1>1. PICK f \in left : /\ copies' = [copies EXCEPT ![Place(f)] = Owner(source)]
                        /\ left' = left \ {f}
  BY DEF Owner
<1>2. /\ source \in Sources /\ Dest[source] \in Names
      /\ f \in listed[source] /\ Place(f) \in Places
  BY <1>1, ConstantsAssumption DEF TypeOK, Place, Places
<1>3. /\ copies'[Place(f)] = Owner(source)
      /\ \A p \in Places \ {Place(f)} : copies'[p] = copies[p]
  BY <1>1, <1>2 DEF TypeOK
<1>4. TypeOK'
  <2>1. Owner(source) \in Copies
    BY <1>2 DEF Owner, Copies, Memory, Running
  <2>2. copies' \in [Places -> Copies \cup {None, Torn}]
    BY <1>1, <2>1 DEF TypeOK
  <2>. QED  BY <1>1, <2>2 DEF TypeOK, Labels
<1>5. Memory' /\ Cut'
  BY DEF Memory, Cut, Past, Copying, Running
<1>6. Kept'
  <2>1. ASSUME NEW n
        PROVE  Named(n)' = Named(n) /\ (Good(n)' <=> Good(n)) /\ Owners(n)' = Owners(n)
    BY DEF Named, Good, Owners
  <2>2. ASSUME NEW x \in Sources, NEW g \in listed[x], <<Dest[x], g>> # Place(f)
        PROVE  copies'[<<Dest[x], g>>] = copies[<<Dest[x], g>>]
    BY <1>3, <2>2 DEF Places, TypeOK
  <2>3. ASSUME NEW n \in Names, n # Dest[source] PROVE Whole(n)'
    <3>1. Whole(n)
      BY <2>3 DEF Kept
    <3>. SUFFICES ASSUME Named(n) # {}, Good(n)
                  PROVE  \E x \in Named(n) : \A g \in listed[x] :
                            copies'[<<n, g>>] = Owner(x)
      BY <2>1 DEF Whole, Owner
    <3>2. PICK x \in Named(n) : \A g \in listed[x] : copies[<<n, g>>] = Owner(x)
      BY <3>1 DEF Whole
    <3>3. ASSUME NEW g \in listed[x] PROVE copies'[<<n, g>>] = copies[<<n, g>>]
      BY <2>2, <2>3 DEF Named, Place
    <3>. QED  BY <3>2, <3>3
  <2>4. ASSUME NEW n \in Names PROVE Fresh(n)'
    <3>. SUFFICES ASSUME Good(n), NEW s \in Named(n), NEW g \in listed[s]
                  PROVE  copies'[<<n, g>>] \in [run : {run}, source : Owners(n)]
      BY <2>1 DEF Fresh
    <3>1. Fresh(n) /\ s \in Sources /\ Dest[s] = n
      BY DEF Kept, Named
    <3>2. CASE <<n, g>> = Place(f)
      BY <1>3, <3>2 DEF Owner, Owners, Place, Copying
    <3>3. CASE <<n, g>> # Place(f)
      BY <2>2, <3>1, <3>3 DEF Fresh
    <3>. QED  BY <3>2, <3>3
  <2>5. ASSUME NEW g \in listed[source] \ left'
        PROVE  copies'[<<Dest[source], g>>] = Owner(source)
    <3>1. CASE g = f
      BY <1>3, <3>1 DEF Place
    <3>2. CASE g # f
      <4>1. g \in listed[source] \ left
        BY <1>1, <3>2
      <4>. QED  BY <1>2, <2>2, <3>2, <4>1 DEF Kept, Copying, Place
    <3>. QED  BY <3>1, <3>2
  <2>. QED  BY <2>3, <2>4, <2>5 DEF Kept, Copying, Owner
<1>. QED  BY <1>4, <1>5, <1>6, Same DEF Running

(* The path whose copy has ended is one of its name, and the name is its.   *)
LEMMA CopyEndsInv == ASSUME Inv, CopyEnds PROVE Inv'
<1>. USE DEF Inv, CopyEnds, CopyDone, Goto, disk, request, history
<1>1. source \in todo /\ rows' = rows \cup {Row(source, FALSE, FALSE)}
  BY DEF Memory, Copying
<1>2. TypeOK'
  BY <1>1, Added DEF TypeOK, Labels
<1>3. Memory' /\ Cut'
  BY <1>1, Added DEF Memory, Cut, Past, Copying, Running
<1>4. Kept'
  <2>. SUFFICES ASSUME NEW n \in Names PROVE Whole(n)' /\ Fresh(n)'
    BY DEF Kept, Copying
  <2>1. Fresh(n)
    BY DEF Kept
  <2>2. CASE n = Dest[source]
    <3>1. /\ Named(n)' = Named(n) \cup {source} /\ Owners(n)' = Owners(n)
          /\ Good(n)' => Good(n)
      BY <1>1, <2>2, Added DEF Owners, Copying
    <3>2. \A f \in listed[source] : copies[<<n, f>>] = Owner(source)
      BY <2>2 DEF Kept, Copying
    <3>3. source \in Owners(n)
      BY <2>2 DEF Owners, Copying
    <3>. QED  BY <2>1, <3>1, <3>2, <3>3 DEF Whole, Fresh, Owner
  <2>3. CASE n # Dest[source]
    <3>1. Named(n)' = Named(n) /\ (Good(n)' <=> Good(n)) /\ Whole(n)
      BY <1>1, <2>3, Added DEF Kept
    <3>2. Owners(n)' = Owners(n)
      BY <2>3, <3>1 DEF Owners, Copying
    <3>. QED  BY <2>1, <3>1, <3>2 DEF Whole, Fresh, Owner
  <2>. QED  BY <2>2, <2>3
<1>. QED  BY <1>1, <1>2, <1>3, <1>4, Added, Same DEF Running

LEMMA CopyFailsInv == ASSUME Inv, CopyFails PROVE Inv'
<1>. USE DEF Inv, CopyFails, CopyDone, Goto, request, history
<1>1. source \in todo /\ rows' = rows \cup {Row(source, TRUE, FALSE)}
  BY DEF Memory, Copying
<1>2. /\ copies' \in [Places -> Copies \cup {None, Torn}]
      /\ \A p \in Places : copies'[p] = copies[p] \/ \E f : p = Place(f)
  BY DEF TypeOK, Tear
<1>3. TypeOK'
  BY <1>1, <1>2, Added DEF TypeOK, Labels
<1>4. Memory' /\ Cut'
  BY <1>1, Added DEF Memory, Cut, Past, Copying, Running
<1>5. Kept'
  <2>. SUFFICES ASSUME NEW n \in Names PROVE Whole(n)' /\ Fresh(n)'
    BY DEF Kept, Copying
  <2>1. CASE n = Dest[source]
    BY <1>1, <2>1, Added DEF Whole, Fresh
  <2>2. CASE n # Dest[source]
    <3>1. Named(n)' = Named(n) /\ (Good(n)' <=> Good(n)) /\ Whole(n) /\ Fresh(n)
      BY <1>1, <2>2, Added DEF Kept
    <3>2. Owners(n)' = Owners(n)
      BY <2>2, <3>1 DEF Owners, Copying
    <3>3. ASSUME NEW s \in Named(n), NEW f \in listed[s]
          PROVE  copies'[<<n, f>>] = copies[<<n, f>>]
      BY <1>2, <2>2 DEF Named, Places, Place, TypeOK
    <3>. QED  BY <3>1, <3>2, <3>3 DEF Whole, Fresh, Owner
  <2>. QED  BY <2>1, <2>2
<1>. QED  BY <1>1, <1>3, <1>4, <1>5, Added, Same DEF Running

LEMMA CopyBlocksInv == ASSUME Inv, CopyBlocks PROVE Inv'
<1>. USE DEF Inv, CopyBlocks, Goto, disk, request, history, work
<1>1. TypeOK'
  BY DEF TypeOK, Labels
<1>2. Memory' /\ Cut'
  BY DEF Memory, Cut, Past, Copying, Running
<1>3. Kept'
  BY Keeps DEF Copying
<1>. QED  BY <1>1, <1>2, <1>3, Same DEF Running

LEMMA VisitsEndInv == ASSUME Inv, VisitsEnd PROVE Inv'
<1>. USE DEF Inv, VisitsEnd, Goto, disk, request, history, work
<1>1. TypeOK'
  BY DEF TypeOK, Labels
<1>2. Memory' /\ Cut'
  BY DEF Memory, Cut, Past, Copying, Running
<1>3. Kept'
  BY Keeps DEF Copying
<1>. QED  BY <1>1, <1>2, <1>3, Same DEF Running

-----------------------------------------------------------------------------
(* The record. *)
LEMMA TruncateInv == ASSUME Inv, Truncate PROVE Inv'
<1>. USE ConstantsAssumption DEF Inv, Truncate, Goto, request, history, work
<1>1. CASE End("error") /\ UNCHANGED manifest
  BY <1>1, Ended DEF Running, TypeOK
<1>2. CASE manifest' = Torn /\ Goto("write") /\ UNCHANGED work
  <2>. USE <1>2
  <2>1. TypeOK'
    BY DEF TypeOK, Labels
  <2>2. Memory' /\ Cut'
    BY DEF Memory, Cut, Past, Copying, Running
  <2>3. Counted' /\ Warned' /\ Stored'
    BY DEF Counted, Warned, Stored, Behind
  <2>4. Kept'
    BY Keeps DEF Copying
  <2>5. ~Saved'
    BY DEF Saved
  <2>6. Record'
    BY <2>5, Unsaved
  <2>7. Dated' /\ SuccessIsRecorded'
    BY <2>5 DEF Dated, SuccessIsRecorded, Memory, Running
  <2>. QED  BY <2>1, <2>2, <2>3, <2>4, <2>6, <2>7
<1>. QED  BY <1>1, <1>2

(* The record tells of what the run has done.                               *)
LEMMA WriteInv == ASSUME Inv, Write PROVE Inv'
<1>. USE DEF Inv, Write, Goto, request, history, work
<1>1. CASE End("error") /\ UNCHANGED manifest
  BY <1>1, Ended DEF Running, TypeOK
<1>2. CASE manifest' = [run |-> run, rows |-> rows] /\ Goto("report") /\ UNCHANGED work
  <2>. USE <1>2
  <2>1. manifest'.rows = rows /\ manifest'.run = run /\ manifest' \in Manifests
    BY DEF TypeOK, Manifests, Memory, Running
  <2>2. TypeOK'
    BY <2>1 DEF TypeOK, Labels
  <2>3. Memory' /\ Cut'
    BY DEF Memory, Cut, Past, Copying, Running
  <2>4. Counted' /\ Warned' /\ Stored'
    BY DEF Counted, Warned, Stored, Behind
  <2>5. Kept'
    BY Keeps DEF Copying
  <2>6. EveryItemIsAccounted'
    <3>1. Behind = ItemSet
      BY Ends DEF Memory, Past
    <3>2. ASSUME NEW i \in ItemSet
          PROVE  /\ \E r \in rows : r.of = i
                 /\ \A r, s \in rows : r.of = i /\ s.of = i => r = s
      BY <3>1 DEF Counted
    <3>. QED  BY <2>1, <3>2 DEF EveryItemIsAccounted, Warned
  <2>7. OutputsAreOfTheRow'
    BY <2>1 DEF OutputsAreOfTheRow, Stored, TextOf
  <2>8. GoodCopyIsWhole'
    <3>1. ASSUME NEW n \in Names, Named(n) # {}, Good(n)
          PROVE  /\ \E s \in Named(n) : \A f \in listed[s] :
                       copies[<<n, f>>] = Owner(s)
                 /\ \A s \in Named(n) : \A f \in listed[s] :
                       copies[<<n, f>>] \in [run : {run}, source : Named(n)]
      <4>1. Whole(n) /\ Fresh(n) /\ Owners(n) = Named(n)
        BY DEF Kept, Copying, Owners
      <4>. QED  BY <3>1, <4>1 DEF Whole, Fresh
    <3>2. ASSUME NEW n \in Names PROVE WholeIfGood(n)'
      <4>1. Told(n)' = Named(n)
        BY <2>1 DEF Named, Told
      <4>. QED  BY <2>1, <3>1, <4>1 DEF WholeIfGood, Good, Owner
    <3>. QED  BY <3>2 DEF GoodCopyIsWhole
  <2>9. CutShortIsVisible'
    BY <2>1 DEF CutShortIsVisible, Cut, Running
  <2>10. Dated' /\ SuccessIsRecorded'
    BY <2>1 DEF Dated, Saved, SuccessIsRecorded, TypeOK
  <2>. QED  BY <2>2, <2>3, <2>4, <2>5, <2>6, <2>7, <2>8, <2>9, <2>10
            DEF Record
<1>. QED  BY <1>1, <1>2

LEMMA ReportInv == ASSUME Inv, Report PROVE Inv'
<1>. USE DEF Inv, Report, End, disk, request, history
<1>1. TypeOK'
  BY Ends DEF TypeOK, Labels
<1>2. Memory' /\ Cut'
  BY DEF Memory, Cut, Past, Copying, Running
<1>3. Counted' /\ Warned' /\ Stored' /\ Kept'
  BY Nothing
<1>4. Dated' /\ SuccessIsRecorded'
  BY DEF Dated, Saved, Running, SuccessIsRecorded
<1>5. Record'
  BY Settled
<1>. QED  BY <1>1, <1>2, <1>3, <1>4, <1>5

-----------------------------------------------------------------------------
(* The environment. *)
LEMMA InterruptInv == ASSUME Inv, Interrupt PROVE Inv'
<1>. USE DEF Inv, Interrupt, disk, control, work, history
<1>1. TypeOK'
  BY DEF TypeOK, Labels
<1>2. Memory' /\ Cut'
  BY DEF Memory, Cut, Past, Copying, Running
<1>3. Kept'
  BY Keeps DEF Copying
<1>. QED  BY <1>1, <1>2, <1>3, Same DEF Running

LEMMA CrashInv == ASSUME Inv, Crash PROVE Inv'
<1>. USE DEF Inv, Crash, request, history
<1>1. outputs' \in [ItemSet -> Outputs \cup {None}]
  <2>1. pc = "store" => Item \in ItemSet /\ run \in 1..MaxRuns
    BY Steps DEF Memory, Running
  <2>. QED  BY <2>1 DEF TypeOK, Spoil, Outputs
<1>2. copies' \in [Places -> Copies \cup {None, Torn}]
  BY DEF TypeOK, Tear
<1>. QED  BY <1>1, <1>2, Ended

LEMMA StutterInv == ASSUME Inv, UNCHANGED vars PROVE Inv'
<1>. USE DEF Inv, vars, disk, request, control, work, history
<1>1. TypeOK'
  BY DEF TypeOK
<1>2. (Memory /\ Counted /\ Warned /\ Stored)'
  BY DEF Memory, Counted, Warned, Stored, Behind, Running
<1>3. Cut' /\ Dated' /\ SuccessIsRecorded'
  BY DEF Cut, Dated, Saved, Running, SuccessIsRecorded
<1>4. Kept'
  BY Keeps
<1>5. Record'
  BY Settled
<1>. QED  BY <1>1, <1>2, <1>3, <1>4, <1>5

(* The invariant holds from the start, and through every step. *)
LEMMA InitInv == Init => Inv
<1>. SUFFICES ASSUME Init PROVE Inv
  OBVIOUS
<1>. USE ConstantsAssumption DEF Init
<1>1. at \in 0..Len(Items) /\ Behind = {}
  BY Lengths DEF Behind
<1>2. TypeOK
  <2>1. /\ outputs \in [ItemSet -> Outputs \cup {None}]
        /\ copies \in [Places -> Copies \cup {None, Torn}]
        /\ listed \in [Sources -> SUBSET Files]
    OBVIOUS
  <2>2. run \in 0..MaxRuns
    OBVIOUS
  <2>. QED  BY <1>1, <2>1, <2>2 DEF TypeOK, Labels
<1>3. Memory /\ Counted /\ Warned /\ Stored /\ Cut
  BY <1>1 DEF Memory, Counted, Warned, Stored, Cut, Running, Past, Copying
<1>4. Kept
  BY DEF Kept, Whole, Fresh, Named, Copying
<1>5. ~Saved
  BY DEF Saved
<1>6. Record
  BY <1>5
  DEF Record, EveryItemIsAccounted, OutputsAreOfTheRow, GoodCopyIsWhole,
      CutShortIsVisible
<1>. QED  BY <1>2, <1>3, <1>4, <1>5, <1>6 DEF Inv, Dated, SuccessIsRecorded

LEMMA NextInv == Inv /\ [Next]_vars => Inv'
BY BeginInv, MkdirInv, CallInv, StoreInv, ItemsEndInv, MkdirFilesInv,
   AbsentInv, SkipInDryRunInv, VisitInv, CopyFileInv, CopyEndsInv,
   CopyFailsInv, CopyBlocksInv, VisitsEndInv, TruncateInv, WriteInv,
   ReportInv, InterruptInv, CrashInv, StutterInv
DEF Next, Step

-----------------------------------------------------------------------------
(* The invariant is inductive: what is on disk and what the run holds      *)
(* agree, whatever item, path, signal, crash or failed write comes next.   *)
THEOREM Invariance == Spec => []Inv
BY InitInv, NextInv, PTL DEF Spec

(* Every variable keeps its type, and of a source nothing is left to copy   *)
(* but what was found there.                                                *)
THEOREM TypeCorrect == Spec => []TypeOK
<1>1. Inv => TypeOK
  BY DEF Inv
<1>. QED  BY <1>1, Invariance, PTL

(* For any list of items, each has exactly one row in a saved record, and a *)
(* mandatory one that failed its warning, if it could be written            *)
(* (collector.go:72-76,166-192).                                            *)
THEOREM Accounted == Spec => []EveryItemIsAccounted
<1>1. Inv => EveryItemIsAccounted
  BY DEF Inv, Record
<1>. QED  BY <1>1, Invariance, PTL

(* However many runs shared the directory, the outputs next to the record   *)
(* of the last run are the ones its rows tell of, but for those it could    *)
(* not write (collector.go:154-165).                                        *)
THEOREM OutputsMatch == Spec => []OutputsAreOfTheRow
<1>1. Inv => OutputsAreOfTheRow
  BY DEF Inv, Record
<1>. QED  BY <1>1, Invariance, PTL

(* However many paths share a sanitised name, in any order of visits, and   *)
(* whatever earlier runs left there, a name without a failed copy holds all *)
(* of one path, and of every path each file it held, of this run            *)
(* (collector.go:222-239,246-285).                                          *)
THEOREM CopiesAreWhole == Spec => []GoodCopyIsWhole
<1>1. Inv => GoodCopyIsWhole
  BY DEF Inv, Record
<1>. QED  BY <1>1, Invariance, PTL

(* A signal that comes while items are left fails one of them, and the      *)
(* record shows it (main.go:34-41, collector.go:73).                        *)
THEOREM SignalShows == Spec => []CutShortIsVisible
<1>1. Inv => CutShortIsVisible
  BY DEF Inv, Record
<1>. QED  BY <1>1, Invariance, PTL

(* Success is never reported of a run whose record is not on disk           *)
(* (collect.go:86-97).                                                      *)
THEOREM Recorded == Spec => []SuccessIsRecorded
<1>1. Inv => SuccessIsRecorded
  BY DEF Inv
<1>. QED  BY <1>1, Invariance, PTL

-----------------------------------------------------------------------------
(* A run ends. *)

(* What some paths take, at most, if none holds more than most files.       *)
Toll(S, most) == Cardinality(S) * (most + 3)

(* How many steps a run has left, at most.                                  *)
StepsLeft(most) ==
    LET paths == Toll(todo, most)
        items == Toll(Sources, most) + 6 + 2 * (Len(Items) - at)
    IN  CASE pc = "mkdir"      -> items + 1
          [] pc = "call"       -> items
          [] pc = "store"      -> items - 1
          [] pc = "mkdirFiles" -> items - 1
          [] pc = "visit"      -> paths + 4
          [] pc = "copy"       -> paths + 3 - most + Cardinality(left)
          [] pc = "blocked"    -> paths + 2 - most
          [] pc = "save"       -> 3
          [] pc = "write"      -> 2
          [] pc = "report"     -> 1
          [] OTHER             -> 0

(* It is a number, and none are left just when no run is in progress.       *)
StepsCount(most) ==
    StepsLeft(most) \in Nat /\ (StepsLeft(most) = 0 <=> ~Running)

(* Whatever changes of a run brings it nearer to its end: no item is tried  *)
(* twice, no path visited again, and a copy that has blocked is left by a   *)
(* signal alone (collector.go:60-192,198-319).                              *)
StepsRunOut(most) ==
    [][Running /\ ~UNCHANGED <<control, work>> =>
          StepsLeft(most)' < StepsLeft(most)]_vars

(* The paths that are left are counted.                                     *)
LEMMA Tolls ==
  ASSUME IsFiniteSet(Sources), NEW most \in Nat, NEW S \in SUBSET Sources
  PROVE  /\ Toll(S, most) \in Nat
         /\ \A s \in S : Toll(S \ {s}, most) = Toll(S, most) - (most + 3)
         /\ S # {} => Toll(S, most) >= most + 3
<1>. DEFINE c == most + 3
<1>1. IsFiniteSet(S) /\ Cardinality(S) \in Nat /\ c \in Nat
  BY FS_Subset, FS_CardinalityType
<1>2. ASSUME NEW n \in Nat PROVE n * c \in Nat /\ (n - 1) * c = n * c - c
  BY <1>1
<1>3. ASSUME NEW s \in S
      PROVE  /\ Cardinality(S \ {s}) \in Nat
             /\ Cardinality(S \ {s}) = Cardinality(S) - 1
  BY <1>1, FS_RemoveElement, FS_CardinalityType
<1>4. Toll(S, most) \in Nat
  BY <1>1, <1>2 DEF Toll
<1>5. ASSUME NEW s \in S
      PROVE  Toll(S \ {s}, most) \in Nat /\ Toll(S \ {s}, most) = Toll(S, most) - c
  BY <1>1, <1>2, <1>3 DEF Toll
<1>6. ASSUME S # {} PROVE Toll(S, most) >= c
  <2>1. PICK s \in S : TRUE
    BY <1>6
  <2>2. Toll(S \ {s}, most) \in Nat /\ Toll(S \ {s}, most) = Toll(S, most) - c
    BY <1>5, <2>1
  <2>3. \A x, y \in Nat, z \in Nat : x = y - z => y >= z
    OBVIOUS
  <2>. QED  BY <1>1, <1>4, <2>2, <2>3
<1>. QED  BY <1>4, <1>5, <1>6

(* What is left of a path.                                                  *)
LEMMA Lefts ==
  ASSUME TypeOK, NEW most \in Nat,
         \A s \in Sources : IsFiniteSet(Entries[s]) /\ Cardinality(Entries[s]) <= most
  PROVE  /\ Cardinality(left) \in 0..most
         /\ left = {} <=> Cardinality(left) = 0
         /\ \A f \in left : Cardinality(left \ {f}) = Cardinality(left) - 1
         /\ \A s \in Sources : \A T \in SUBSET Entries[s] : Cardinality(T) \in 0..most
<1>1. ASSUME NEW s \in Sources, NEW T \in SUBSET Entries[s]
      PROVE  IsFiniteSet(T) /\ Cardinality(T) \in 0..most
  <2>1. /\ IsFiniteSet(T) /\ Cardinality(T) <= Cardinality(Entries[s])
        /\ Cardinality(T) \in Nat /\ Cardinality(Entries[s]) \in Nat
    BY FS_Subset, FS_CardinalityType
  <2>. QED  BY <2>1
<1>2. CASE left = {}
  BY <1>1, <1>2, FS_EmptySet
<1>3. CASE left # {}
  <2>1. source \in Sources /\ left \in SUBSET Entries[source]
    BY <1>3 DEF TypeOK
  <2>2. IsFiniteSet(left) /\ Cardinality(left) \in 0..most
    BY <1>1, <2>1
  <2>. QED  BY <1>1, <1>3, <2>2, FS_EmptySet, FS_RemoveElement
<1>. QED  BY <1>2, <1>3

LEMMA Countable ==
  ASSUME IsFiniteSet(Sources), NEW most \in Nat, Inv,
         \A s \in Sources : IsFiniteSet(Entries[s]) /\ Cardinality(Entries[s]) <= most
  PROVE  StepsCount(most)
<1>. USE DEF StepsCount, StepsLeft, Running
<1>1. /\ Len(Items) - at \in Nat /\ Toll(Sources, most) \in Nat
      /\ Toll(todo, most) \in Nat /\ Cardinality(left) \in 0..most
  BY Lengths, Tolls, Lefts DEF Inv, TypeOK
<1>2. CASE pc \in Copying
  <2>1. Toll(todo, most) >= most + 3
    BY <1>2, Tolls DEF Inv, TypeOK, Memory
  <2>2. CASE pc = "copy"
    BY <1>1, <2>1, <2>2
  <2>3. CASE pc = "blocked"
    BY <1>1, <2>1, <2>3
  <2>. QED  BY <1>2, <2>2, <2>3 DEF Copying
<1>3. CASE pc \notin Copying
  <2>1. pc \in Labels
    BY DEF Inv, TypeOK
  <2>2. CASE pc = "mkdir"  BY <1>1, <2>2
  <2>3. CASE pc = "call"  BY <1>1, <2>3
  <2>4. CASE pc = "store"  BY <1>1, <2>4
  <2>5. CASE pc = "mkdirFiles"  BY <1>1, <2>5
  <2>6. CASE pc = "visit"  BY <1>1, <2>6
  <2>7. CASE pc \in {"save", "write", "report", "idle"}  BY <2>7
  <2>. QED  BY <1>3, <2>1, <2>2, <2>3, <2>4, <2>5, <2>6, <2>7
            DEF Labels, Copying
<1>. QED  BY <1>2, <1>3

LEMMA Nearer ==
  ASSUME IsFiniteSet(Sources), NEW most \in Nat, Inv,
         \A s \in Sources : IsFiniteSet(Entries[s]) /\ Cardinality(Entries[s]) <= most,
         Step \/ Crash
  PROVE  StepsLeft(most)' < StepsLeft(most)
<1>1. /\ Len(Items) \in Nat /\ at \in 0..Len(Items) /\ Cardinality(left) \in 0..most
      /\ Toll(Sources, most) \in Nat /\ Toll(todo, most) \in Nat
      /\ StepsLeft(most) \in Nat
  BY Lengths, Tolls, Lefts, Countable DEF Inv, TypeOK, StepsCount
<1>. USE DEF StepsLeft
<1>2. CASE Crash \/ pc' = "idle"
  <2>1. Running /\ pc' = "idle"
    BY <1>2
    DEF Crash, End, Running, Step, Mkdir, Call, Store, ItemsEnd, MkdirFiles,
        Absent, SkipInDryRun, Visit, CopyFile, CopyEnds, CopyFails,
        CopyBlocks, VisitsEnd, Truncate, Write, Report
  <2>2. StepsLeft(most) # 0 /\ StepsLeft(most)' = 0
    BY <2>1, Countable DEF StepsCount
  <2>. HIDE DEF StepsLeft
  <2>. QED  BY <1>1, <2>2
<1>3. CASE Mkdir /\ pc' = "call"
  BY <1>1, <1>3 DEF Mkdir, Goto, End, work
<1>4. CASE Call
  BY <1>1, <1>4 DEF Call, Goto
<1>5. CASE Store
  BY <1>1, <1>5 DEF Store, Goto, Inv, Memory
<1>6. CASE ItemsEnd
  BY <1>1, <1>6 DEF ItemsEnd, Goto, work
<1>7. CASE MkdirFiles /\ pc' = "visit"
  BY <1>1, <1>7 DEF MkdirFiles, Goto, End, Inv, Memory, Past
<1>8. CASE \E s \in Sources : Absent(s) \/ SkipInDryRun(s)
  <2>1. PICK s \in todo : todo' = todo \ {s} /\ pc = "visit" /\ pc' = "visit"
    BY <1>8 DEF Absent, SkipInDryRun, control
  <2>2. Toll(todo', most) = Toll(todo, most) - (most + 3)
    BY <2>1, Tolls DEF Inv, TypeOK
  <2>. QED  BY <1>1, <2>1, <2>2
<1>9. CASE \E s \in Sources : Visit(s)
  <2>1. Cardinality(left') \in 0..most /\ pc = "visit" /\ pc' = "copy" /\ todo' = todo
    BY <1>9, Lefts DEF Visit, Goto, Inv
  <2>. QED  BY <1>1, <2>1
<1>10. CASE CopyFile
  <2>1. /\ left # {} /\ Cardinality(left') = Cardinality(left) - 1
        /\ pc = "copy" /\ pc' = "copy" /\ todo' = todo
    BY <1>10, Lefts DEF CopyFile, control, Inv
  <2>. QED  BY <1>1, <2>1
<1>11. CASE CopyEnds \/ CopyFails
  <2>1. source \in todo /\ todo' = todo \ {source} /\ pc = "copy" /\ pc' = "visit"
    BY <1>11 DEF CopyEnds, CopyFails, CopyDone, Goto, Inv, Memory, Copying
  <2>2. Toll(todo', most) = Toll(todo, most) - (most + 3)
    BY <2>1, Tolls DEF Inv, TypeOK
  <2>. QED  BY <1>1, <2>1, <2>2
<1>12. CASE CopyBlocks
  <2>1. Cardinality(left) # 0
    BY <1>12, Lefts DEF CopyBlocks, Inv
  <2>. QED  BY <1>1, <1>12, <2>1 DEF CopyBlocks, Goto, work
<1>13. CASE VisitsEnd
  BY <1>1, <1>13 DEF VisitsEnd, Goto
<1>14. CASE (Truncate \/ Write \/ Report) /\ pc' # "idle"
  BY <1>14 DEF Truncate, Write, Report, End, Goto
<1>15. Mkdir => pc' \in {"call", "idle"}
  BY DEF Mkdir, Goto, End
<1>16. MkdirFiles => pc' \in {"visit", "idle"}
  BY DEF MkdirFiles, Goto, End
<1>. QED  BY <1>2, <1>3, <1>4, <1>5, <1>6, <1>7, <1>8, <1>9, <1>10, <1>11,
             <1>12, <1>13, <1>14, <1>15, <1>16
          DEF Step

(* Every run of collect ends or blocks on a FIFO, after a number of steps   *)
(* that its items and the files it copies bound, whichever of them fail     *)
(* (collector.go:60-192,198-319).                                           *)
THEOREM RunsEnd ==
  ASSUME IsFiniteSet(Sources), NEW most \in Nat,
         \A s \in Sources : IsFiniteSet(Entries[s]) /\ Cardinality(Entries[s]) <= most
  PROVE  Spec => []StepsCount(most) /\ StepsRunOut(most)
<1>. DEFINE Count   == StepsCount(most)
            Advance == Running /\ ~UNCHANGED <<control, work>> =>
                          StepsLeft(most)' < StepsLeft(most)
<1>1. Inv => Count
  BY Countable
<1>2. Inv /\ [Next]_vars => [Advance]_vars
  BY Nearer DEF Next, Begin, Interrupt, Running, work
<1>. HIDE DEF Count, Advance
<1>3. Spec => []Count /\ [][Advance]_vars
  BY <1>1, <1>2, Invariance, PTL DEF Spec
<1>. QED  BY <1>3 DEF Count, Advance, StepsRunOut
=============================================================================
