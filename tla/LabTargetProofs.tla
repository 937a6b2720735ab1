--------------------------- MODULE LabTargetProofs ---------------------------
(***************************************************************************)
(* Theorems about LabTarget, for any number of children and connections.   *)
(***************************************************************************)
EXTENDS LabTarget, TLAPS

-----------------------------------------------------------------------------
(* The inductive invariant. *)

Listening == {"listenTCP", "listenUDP", "serve", "closeTCP", "closeUDP", "join"}

(* Which children there are. *)
Spawned ==
    /\ pc = "boot" => started = 0
    /\ pc = "abort" => started < Children
    /\ pc \in Listening \cup {"status", "tell", "wait"} => started = Children
    /\ \A i \in Kids : i > started <=> kid[i] = "none"

(* Which goroutines may run, and which sockets are open. *)
Serves ==
    /\ pc \in {"boot", "spawn", "abort", "status", "listenTCP"} =>
           socket["tcp"] = "none" /\ socket["udp"] = "none"
    /\ pc = "listenUDP" => socket["tcp"] = "open" /\ socket["udp"] = "none"
    /\ pc \in {"serve", "closeTCP"} => socket["tcp"] = "open" /\ socket["udp"] = "open"
    /\ pc = "closeUDP" => socket["tcp"] = "closed" /\ socket["udp"] = "open"
    /\ pc = "join" => socket["tcp"] = "closed" /\ socket["udp"] = "closed"
    /\ pc \in {"closeTCP", "closeUDP", "join"} => done
    /\ pc \in {"tell", "wait", "ended"} => socket["tcp"] # "open" /\ socket["udp"] # "open"
    /\ pc \notin {"serve", "closeTCP", "closeUDP", "join"} =>
           \A s \in Servers : server[s] # "up"

(* How far the loops over the children are. *)
Behind ==
    /\ told # {} => pc \in {"abort", "tell", "wait", "ended"}
    /\ pc = "abort" => \A i \in 1..at : i \in told
    /\ pc = "wait" => \A i \in 1..at : kid[i] = "reaped"

(* Who is listed in parent-status.json. *)
Listed == socket["tcp"] # "none" \/ pc \in Listening => status = Kids

(* The first part of NobodyForgotten. *)
WaitedFor ==
    pc = "ended" /\ outcome # "killed" =>
        \A i \in 1..started : \/ kid[i] = "reaped"
                              \/ started < Children /\ i \in told

Inv == TypeOK /\ Spawned /\ Serves /\ Behind /\ Listed /\ WaitedFor

-----------------------------------------------------------------------------
(* What the helpers do. *)
LEMMA Delivery ==
  ASSUME TypeOK, Spawned, NEW S \in SUBSET Kids, Deliver(S)
  PROVE  /\ kid' \in [Kids -> KidStates] /\ asked' \subseteq Kids
         /\ \A i \in Kids : /\ kid'[i] = "none" <=> kid[i] = "none"
                            /\ kid'[i] = "reaped" <=> kid[i] = "reaped"
BY DEF TypeOK, Spawned, Deliver, KidStates

LEMMA Vanishing ==
  ASSUME TypeOK, Vanish
  PROVE  /\ server' \in [Servers -> {"off", "up", "down"}]
         /\ socket' \in [{"tcp", "udp"} -> {"none", "open", "closed"}]
         /\ conns' \in 0..MaxConns
         /\ \A s \in Servers : server'[s] # "up"
         /\ \A s \in {"tcp", "udp"} : /\ socket'[s] # "open"
                                      /\ socket'[s] = "none" <=> socket[s] = "none"
BY ConstantsAssumption DEF TypeOK, Vanish

LEMMA InitInv == Init => Inv
<1>. SUFFICES ASSUME Init PROVE Inv
  OBVIOUS
<1>. USE ConstantsAssumption DEF Init
<1>1. TypeOK
  <2>1. limited \in BOOLEAN /\ done \in BOOLEAN
    BY Zenon
  <2>2. pc \in Labels /\ server \in [Servers -> {"off", "up", "down"}]
    BY DEF Labels
  <2>3. socket \in [{"tcp", "udp"} -> {"none", "open", "closed"}]
    OBVIOUS
  <2>4. started \in 0..Children /\ at \in 0..started /\ conns \in 0..MaxConns
    OBVIOUS
  <2>5. kid \in [Kids -> KidStates]
    BY DEF KidStates
  <2>. QED  BY <2>1, <2>2, <2>3, <2>4, <2>5 DEF TypeOK
<1>2. Spawned /\ Serves /\ Behind /\ Listed /\ WaitedFor
  BY DEF Spawned, Serves, Behind, Listed, WaitedFor, Kids, Servers, Listening
<1>. QED  BY <1>1, <1>2 DEF Inv

(* runParent up to the loops over the children. *)
LEMMA BootInv == ASSUME Inv, Boot PROVE Inv'
<1>. USE ConstantsAssumption DEF Inv, TypeOK, Boot, Goto, End, servers, children
<1>1. TypeOK'  BY DEF Labels
<1>2. Spawned'
  BY DEF Spawned, Listening
<1>3. Serves' /\ Behind' /\ Listed'
  BY DEF Serves, Behind, Listed, Listening, Servers
<1>4. WaitedFor'
  BY DEF WaitedFor, Spawned
<1>. QED  BY <1>1, <1>2, <1>3, <1>4

LEMMA SpawnInv == ASSUME Inv, Spawn PROVE Inv'
<1>. USE ConstantsAssumption DEF Inv, TypeOK, Spawn, servers
<1>1. started + 1 \in Kids
  BY DEF Kids
<1>2. (started \in 0..Children /\ at \in 0..started /\ conns \in 0..MaxConns)'
  OBVIOUS
<1>3. kid' \in [Kids -> KidStates]
  BY DEF KidStates
<1>4. TypeOK'
  BY <1>2, <1>3 DEF Labels
<1>5. Spawned'
  <2>1. CASE /\ kid' = [kid EXCEPT ![started + 1] = "starting"]
             /\ started' = started + 1 /\ pc' = "spawn"
    <3>1. \A i \in Kids : i > started + 1 <=> i > started /\ i # started + 1
      BY DEF Kids
    <3>. QED  BY <1>1, <2>1, <3>1 DEF Spawned, Listening
  <2>2. CASE UNCHANGED <<started, kid>> /\ pc' = "abort"
    BY <2>2 DEF Spawned, Listening
  <2>. QED  BY <2>1, <2>2
<1>6. Serves' /\ Listed'
  BY DEF Serves, Listed, Listening, Servers
<1>7. Behind'
  BY DEF Behind
<1>8. WaitedFor'
  BY DEF WaitedFor
<1>. QED  BY <1>4, <1>5, <1>6, <1>7, <1>8

LEMMA ListenInv == ASSUME Inv, SpawnEnds \/ WriteStatus \/ ListenTCP \/ ListenUDP PROVE Inv'
<1>0. 1..started \subseteq Kids /\ status \subseteq Kids
  BY ConstantsAssumption DEF Inv, TypeOK, Kids
<1>. USE ConstantsAssumption DEF Inv, Goto, Unwind, servers, children
<1>1. at' = at \/ at' = 0
  BY DEF SpawnEnds, WriteStatus, ListenTCP, ListenUDP
<1>2. started' = started /\ conns' = conns
  BY DEF SpawnEnds, WriteStatus, ListenTCP, ListenUDP
<1>3. status' = status \/ status' = 1..started
  BY DEF SpawnEnds, WriteStatus, ListenTCP, ListenUDP
<1>4. (started \in 0..Children /\ at \in 0..started /\ conns \in 0..MaxConns)'
  BY <1>1, <1>2 DEF TypeOK
<1>5. status' \subseteq Kids
  BY <1>0, <1>3
<1>. USE DEF TypeOK, SpawnEnds, WriteStatus, ListenTCP, ListenUDP
<1>6. TypeOK'
  BY <1>4, <1>5 DEF Labels, Servers
<1>7. Spawned' /\ Behind' /\ WaitedFor'
  BY DEF Spawned, Behind, WaitedFor, Listening, Kids
<1>8. Serves'
  BY DEF Serves, Servers
<1>9. Listed'
  BY DEF Listed, Serves, Spawned, Listening, Kids
<1>. QED  BY <1>6, <1>7, <1>8, <1>9

LEMMA StopInv == ASSUME Inv, Stop \/ CloseTCP \/ CloseUDP \/ Join PROVE Inv'
<1>. USE ConstantsAssumption
     DEF Inv, TypeOK, Spawned, Serves, Behind, Listed, WaitedFor, Labels, Kids,
         Servers, Listening, Goto, Unwind, servers, children
<1>1. CASE Stop  BY <1>1 DEF Stop
<1>2. CASE CloseTCP  BY <1>2 DEF CloseTCP
<1>3. CASE CloseUDP  BY <1>3 DEF CloseUDP
<1>4. CASE Join  BY <1>4 DEF Join
<1>. QED  BY <1>1, <1>2, <1>3, <1>4

(* The loops over the children, and the end. *)
LEMMA TellInv == ASSUME Inv, Tell PROVE Inv'
<1>. USE ConstantsAssumption DEF Inv, Tell, servers
<1>1. at + 1 \in Kids /\ 1..(at + 1) = 1..at \cup {at + 1}
  BY DEF TypeOK, Kids
<1>2. /\ kid' \in [Kids -> KidStates] /\ asked' \subseteq Kids
      /\ \A i \in Kids : /\ kid'[i] = "none" <=> kid[i] = "none"
                         /\ kid'[i] = "reaped" <=> kid[i] = "reaped"
  BY <1>1, Delivery
<1>3. (started \in 0..Children /\ at \in 0..started)'
  BY DEF TypeOK
<1>4. TypeOK'
  BY <1>1, <1>2, <1>3 DEF TypeOK
<1>5. Behind'
  BY <1>1 DEF Behind
<1>6. Spawned' /\ Serves' /\ Listed' /\ WaitedFor'
  BY <1>2 DEF Spawned, Serves, Listed, WaitedFor, Listening
<1>. QED  BY <1>4, <1>5, <1>6

LEMMA CleanupInv == ASSUME Inv, Abort \/ TellEnds \/ Wait \/ WaitEnds PROVE Inv'
<1>. USE ConstantsAssumption
     DEF Inv, TypeOK, Spawned, Serves, Behind, Listed, WaitedFor, Labels, Kids,
         Servers, Listening, servers, children
<1>1. CASE Abort  BY <1>1, Vanishing DEF Abort, End
<1>2. CASE TellEnds  BY <1>2 DEF TellEnds
<1>3. CASE Wait  BY <1>3 DEF Wait, KidStates
<1>4. CASE WaitEnds  BY <1>4, Vanishing DEF WaitEnds, End
<1>. QED  BY <1>1, <1>2, <1>3, <1>4

(* The goroutines. *)
LEMMA ReturnInv == ASSUME Inv, NEW s \in Servers, Return(s) PROVE Inv'
<1>. USE DEF Inv, Return, parent, children
<1>1. TypeOK'
  BY DEF TypeOK
<1>2. Spawned' /\ Serves' /\ Behind' /\ Listed' /\ WaitedFor'
  BY DEF TypeOK, Spawned, Serves, Behind, Listed, WaitedFor, Servers
<1>. QED  BY <1>1, <1>2

LEMMA ConnectionInv == ASSUME Inv, Accept \/ Answer PROVE Inv'
<1>. USE DEF Inv, Accept, Answer, parent, children
<1>1. conns' \in 0..MaxConns
  BY ConstantsAssumption DEF TypeOK
<1>2. TypeOK'
  BY <1>1 DEF TypeOK
<1>3. Spawned' /\ Serves' /\ Behind' /\ Listed' /\ WaitedFor'
  BY DEF Spawned, Serves, Behind, Listed, WaitedFor
<1>. QED  BY <1>2, <1>3

(* A child. *)
LEMMA KidInv ==
  ASSUME Inv, NEW i \in Kids, NEW from \in Alive,
         NEW to \in {"ready", "beating", "dead"}, KidStep(i, from, to)
  PROVE  Inv'
<1>. USE DEF Inv, TypeOK, KidStep, Alive, parent, servers
<1>1. TypeOK'
  BY DEF KidStates
<1>2. 1..at \subseteq Kids /\ 1..started \subseteq Kids
  BY ConstantsAssumption DEF Kids
<1>3. Spawned' /\ Serves' /\ Listed'
  BY DEF Spawned, Serves, Listed
<1>4. Behind'
  BY <1>2 DEF Behind
<1>5. WaitedFor'
  BY <1>2 DEF WaitedFor
<1>. QED  BY <1>1, <1>3, <1>4, <1>5

(* Signals, the time limit, kills. *)
LEMMA SignalInv == ASSUME Inv, NEW S \in SUBSET Kids, Signal(S) PROVE Inv'
<1>1. 1..at \subseteq Kids /\ 1..started \subseteq Kids
  BY ConstantsAssumption DEF Inv, TypeOK, Kids
<1>. QED
  BY <1>1, ConstantsAssumption, Delivery
  DEF Inv, TypeOK, Spawned, Serves, Behind, Listed, WaitedFor, Labels,
      Listening, Signal, End, servers

LEMMA KillInv == ASSUME Inv, TimeIsUp \/ Crash PROVE Inv'
<1>. USE ConstantsAssumption
     DEF Inv, TypeOK, Spawned, Serves, Behind, Listed, WaitedFor, Labels, Kids,
         Servers, Listening, parent, servers, children
<1>1. CASE TimeIsUp  BY <1>1 DEF TimeIsUp
<1>2. CASE Crash  BY <1>2, Vanishing DEF Crash, End
<1>. QED  BY <1>1, <1>2

LEMMA NextInv == Inv /\ [Next]_vars => Inv'
<1>. SUFFICES ASSUME Inv, [Next]_vars PROVE Inv'
  OBVIOUS
<1>1. CASE UNCHANGED vars
  <2>. USE <1>1 DEF vars, parent, servers, children, Inv
  <2>1. TypeOK'
    BY DEF TypeOK
  <2>2. Spawned' /\ Serves' /\ Behind' /\ Listed' /\ WaitedFor'
    BY DEF Spawned, Serves, Behind, Listed, WaitedFor
  <2>. QED  BY <2>1, <2>2
<1>2. CASE Main
  BY <1>2, BootInv, SpawnInv, ListenInv, StopInv, TellInv, CleanupInv DEF Main
<1>3. CASE Serving \/ Accept \/ \E s \in {"tcp", "udp"} : ServerFails(s)
  BY <1>3, ReturnInv, ConnectionInv
  DEF Serving, ServerStops, ServerFails, BeatStops, Servers
<1>4. ASSUME NEW i \in Kids, Kid(i) \/ KidCrashes(i) PROVE Inv'
  BY <1>4, KidInv DEF Kid, Handle, Report, KidStops, KidCrashes, Alive
<1>5. CASE Interrupt
  BY <1>5, SignalInv DEF Interrupt
<1>6. CASE TimeIsUp \/ Crash
  BY <1>6, KillInv
<1>. QED  BY <1>1, <1>2, <1>3, <1>4, <1>5, <1>6 DEF Next

-----------------------------------------------------------------------------
(* Theorems. *)

(* The inductive invariant holds in every behaviour; the theorems below are *)
(* its consequences.                                                        *)
THEOREM Invariance == Spec => []Inv
BY InitInv, NextInv, PTL DEF Spec

(* Every variable has its type.                                             *)
THEOREM TypeCorrect == Spec => []TypeOK
<1>1. Inv => TypeOK
  BY DEF Inv
<1>. QED  BY <1>1, Invariance, PTL

(* For any number of children: none is forgotten by a parent that was not   *)
(* killed, and none that lives is missing from parent-status.json once a    *)
(* listener was opened (main.go:127-136,233-238,244-254).                   *)
THEOREM NoneForgotten == Spec => []NobodyForgotten
<1>1. Inv => NobodyForgotten
  BY DEF Inv, Listed, WaitedFor, NobodyForgotten
<1>. QED  BY <1>1, Invariance, PTL

(* The shutdown goes from the outside in (main.go:167-172,257-311).         *)
THEOREM ShutdownOrder == Spec => []OutsideIn
<1>1. Inv => OutsideIn
  BY DEF Inv, TypeOK, Serves, Behind, OutsideIn, Labels, Servers
<1>. QED  BY <1>1, Invariance, PTL

-----------------------------------------------------------------------------
(* How the parent comes to its end. *)

(* The most steps of its main goroutine that are left.                      *)
StepsLeft ==
    CASE pc = "boot"      -> 3 * Children + 12
      [] pc = "spawn"     -> 3 * Children - started + 11
      [] pc = "abort"     -> started - at + 1
      [] pc = "status"    -> 2 * Children + 10
      [] pc = "listenTCP" -> 2 * Children + 9
      [] pc = "listenUDP" -> 2 * Children + 8
      [] pc = "serve"     -> 2 * Children + 7
      [] pc = "closeTCP"  -> 2 * Children + 6
      [] pc = "closeUDP"  -> 2 * Children + 5
      [] pc = "join"      -> 2 * Children + 4
      [] pc = "tell"      -> 2 * Children - at + 3
      [] pc = "wait"      -> Children - at + 2
      [] OTHER            -> 0

StepsCount == StepsLeft \in Nat /\ (StepsLeft = 0 <=> pc = "ended")

(* Whatever it does, and whatever kills it, brings it nearer to its end.    *)
StepsRunOut == [][~UNCHANGED parent => StepsLeft' < StepsLeft]_vars

(* Where it waits, whom it waits for is there and has been told: at the     *)
(* join each goroutine has returned, or can as the context is done and the  *)
(* socket it reads is closed; at the wait each child has ended, or its      *)
(* context is done.  None of them waits for the parent.                     *)
NobodyWaitsInVain ==
    /\ pc = "join" =>
          done /\ \A s \in Servers : \/ server[s] = "down"
                                     \/ /\ server[s] = "up"
                                        /\ s = "beat" \/ socket[s] = "closed"
    /\ pc = "wait" => \A i \in 1..started : kid[i] \in {"dead", "reaped"} \/ i \in asked

(* What this rests on: SIGTERM is not lost on a child, whether it has a     *)
(* handler yet or not, and the loop that sends it leaves none out.          *)
Heard ==
    /\ \A i \in told : i \in asked \/ kid[i] \in {"dead", "reaped"}
    /\ pc = "tell" => 1..at \subseteq told
    /\ pc = "wait" => 1..started \subseteq told
    /\ pc \in {"serve", "closeTCP", "closeUDP", "join"} =>
          \A s \in Servers : server[s] # "off"

LEMMA HeardByKids ==
  ASSUME Inv, Heard, NEW S \in SUBSET Kids, Deliver(S), UNCHANGED told
  PROVE  \A i \in told' : i \in asked' \/ kid'[i] \in {"dead", "reaped"}
BY DEF Inv, TypeOK, Heard, Deliver

LEMMA TellHeard == ASSUME Inv, Heard, Tell PROVE Heard'
<1>1. at + 1 \in Kids /\ kid[at + 1] # "none" /\ 1..(at + 1) = 1..at \cup {at + 1}
  BY ConstantsAssumption DEF Inv, TypeOK, Spawned, Tell, Kids
<1>2. ASSUME NEW i \in told' PROVE i \in asked' \/ kid'[i] \in {"dead", "reaped"}
  <2>1. i \in Kids /\ kid[i] \in KidStates
    BY <1>1 DEF Inv, TypeOK, Tell
  <2>2. CASE i = at + 1
    BY <1>1, <2>1, <2>2 DEF Tell, Deliver, KidStates
  <2>3. CASE i # at + 1
    BY <2>1, <2>3 DEF Tell, Deliver, Heard
  <2>. QED  BY <2>2, <2>3
<1>. QED  BY <1>1, <1>2 DEF Heard, Tell, servers

LEMMA HeardInv == Inv /\ Heard /\ [Next]_vars => Heard'
<1>. SUFFICES ASSUME Inv, Heard, [Next]_vars PROVE Heard'
  OBVIOUS
<1>. USE DEF Heard, Inv, TypeOK
<1>1. CASE Boot \/ Spawn \/ SpawnEnds \/ WriteStatus \/ ListenTCP
  <2>1. told = {} /\ told' = {}
    BY <1>1 DEF Boot, Spawn, SpawnEnds, WriteStatus, ListenTCP, Behind
  <2>2. pc' \notin {"serve", "closeTCP", "closeUDP", "join", "wait"}
        /\ (pc' = "tell" => at' = 0)
    BY <1>1
    DEF Boot, Spawn, SpawnEnds, WriteStatus, ListenTCP, Goto, Unwind, End
  <2>. QED  BY <2>1, <2>2
<1>2. CASE ListenUDP \/ Stop \/ CloseTCP \/ CloseUDP \/ Join
  BY <1>2
  DEF ListenUDP, Stop, CloseTCP, CloseUDP, Join, Goto, Unwind, servers,
      children
<1>3. CASE Tell
  BY <1>3, TellHeard
<1>4. CASE Abort \/ TellEnds \/ Wait \/ WaitEnds
  BY <1>4 DEF Abort, TellEnds, Wait, WaitEnds, End, servers, children
<1>5. CASE Serving \/ Accept \/ \E s \in {"tcp", "udp"} : ServerFails(s)
  BY <1>5
  DEF Serving, ServerStops, ServerFails, BeatStops, Return, Accept, Answer,
      parent, children, Servers
<1>6. ASSUME NEW i \in Kids, Kid(i) \/ KidCrashes(i) PROVE Heard'
  BY <1>6
  DEF Kid, Handle, Report, KidStops, KidCrashes, KidStep, Alive, parent,
      servers
<1>7. CASE Interrupt
  <2>1. PICK S \in SUBSET Kids : Signal(S)
    BY <1>7 DEF Interrupt
  <2>. QED  BY <2>1, HeardByKids DEF Signal, End, servers
<1>8. CASE TimeIsUp \/ Crash
  BY <1>8 DEF TimeIsUp, Crash, End, parent, servers, children
<1>9. CASE UNCHANGED vars
  BY <1>9 DEF vars, parent, servers, children
<1>. QED  BY <1>1, <1>2, <1>3, <1>4, <1>5, <1>6, <1>7, <1>8, <1>9
          DEF Next, Main

LEMMA Countable == ASSUME Inv PROVE StepsCount
BY ConstantsAssumption DEF Inv, TypeOK, Labels, StepsCount, StepsLeft

LEMMA Nearer == ASSUME Inv, Next, ~UNCHANGED parent PROVE StepsLeft' < StepsLeft
<1>1. /\ Children \in Nat /\ started \in 0..Children /\ at \in 0..started
      /\ StepsLeft \in Nat /\ (pc # "ended" => StepsLeft # 0)
  BY ConstantsAssumption, Countable DEF Inv, TypeOK, StepsCount
<1>. USE <1>1
<1>2. CASE pc' = "ended" /\ pc # "ended"
  BY <1>2 DEF StepsLeft
<1>3. CASE Boot \/ Spawn \/ SpawnEnds \/ WriteStatus
  BY <1>2, <1>3
  DEF Boot, Spawn, SpawnEnds, WriteStatus, Goto, Unwind, End, StepsLeft, Inv,
      Spawned, Listening
<1>4. CASE ListenTCP \/ ListenUDP \/ Stop \/ CloseTCP \/ CloseUDP \/ Join
  BY <1>4
  DEF ListenTCP, ListenUDP, Stop, CloseTCP, CloseUDP, Join, Goto, Unwind,
      StepsLeft
<1>5. CASE Tell \/ TellEnds \/ Wait
  BY <1>5 DEF Tell, TellEnds, Wait, StepsLeft, Inv, Spawned, Listening
<1>6. CASE Abort \/ WaitEnds \/ Crash
  BY <1>2, <1>6 DEF Abort, WaitEnds, Crash, End
<1>7. CASE Interrupt
  BY <1>2, <1>7 DEF Interrupt, Signal, End, parent
<1>8. CASE \/ Serving \/ Accept \/ TimeIsUp \/ \E s \in {"tcp", "udp"} : ServerFails(s)
           \/ \E i \in Kids : Kid(i) \/ KidCrashes(i)
  BY <1>8
  DEF Serving, ServerStops, ServerFails, BeatStops, Return, Accept, Answer,
      TimeIsUp, Kid, Handle, Report, KidStops, KidCrashes, KidStep
<1>. QED  BY <1>3, <1>4, <1>5, <1>6, <1>7, <1>8 DEF Next, Main

(* The parent has at most 3 * Children + 12 steps, whoever fails or signals *)
(* when (main.go:102-173).                                                  *)
THEOREM ParentEnds == Spec => []StepsCount /\ StepsRunOut
<1>1. Inv /\ [Next]_vars => [~UNCHANGED parent => StepsLeft' < StepsLeft]_vars
  BY Nearer
<1>. QED  BY <1>1, Countable, Invariance, PTL DEF Spec, StepsRunOut

(* And it never waits for somebody who does not stop: there is no deadlock  *)
(* between the parent, its goroutines and its children                      *)
(* (main.go:167-172,244-254).                                               *)
THEOREM NoWaitInVain == Spec => []NobodyWaitsInVain
<1>1. Init => Heard
  BY DEF Init, Heard
<1>2. Spec => []Heard
  BY <1>1, HeardInv, Invariance, PTL DEF Spec
<1>3. Inv /\ Heard => NobodyWaitsInVain
  BY DEF Inv, TypeOK, Serves, Heard, NobodyWaitsInVain, Servers
<1>. QED  BY <1>2, <1>3, Invariance, PTL
=============================================================================
