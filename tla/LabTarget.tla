----------------------------- MODULE LabTarget -----------------------------
(***************************************************************************)
(* `ir-lab-target`, the process that stands in for a live host: a parent   *)
(* starts child processes, serves TCP and UDP, writes heartbeats, and on a *)
(* signal or at its time limit takes all of it down again.                 *)
(*                                                                         *)
(* Three kinds of actor interleave: the parent's main goroutine, its three *)
(* server goroutines, and the children, each of which installs its signal  *)
(* handler some time after it was started.  A signal may reach the parent  *)
(* alone or the whole group (Ctrl-C, pkill), at any time; any of them may  *)
(* be killed.                                                              *)
(*                                                                         *)
(* A definition that differs from the next one by a plausible bug stands   *)
(* before it; nothing refers to it.  PROJECT.json pairs each with the      *)
(* property that notices the bug.                                          *)
(***************************************************************************)
EXTENDS Naturals

CONSTANTS
    Children,   \* --children
    MaxConns    \* bound: TCP connections being answered at once

ASSUME ConstantsAssumption == Children \in Nat /\ MaxConns \in Nat

Kids    == 1..Children
Servers == {"tcp", "udp", "beat"}

Labels == {"boot", "spawn", "abort", "status", "listenTCP", "listenUDP", "serve",
           "closeTCP", "closeUDP", "join", "tell", "wait", "ended"}

KidStates == {"none",      \* not started
              "starting",  \* started; a signal has its default effect
              "ready",     \* NotifyContext has run
              "beating",   \* in heartbeatLoop
              "dead",      \* ended, not waited for
              "reaped"}

Alive == {"starting", "ready", "beating"}

VARIABLES
    limited,   \* is --runtime given?
    pc,        \* where the parent's main goroutine is
    outcome,   \* how the parent ended: "ok", "error", "killed", "none" before that
    done,      \* is ctx.Done() closed?
    started,   \* the number of children started
    at,        \* children behind the loop that signals or waits
    server,    \* [Servers -> {"off", "up", "down"}], the parent's goroutines
    socket,    \* [{"tcp", "udp"} -> {"none", "open", "closed"}]
    conns,     \* TCP connections being answered
    kid,       \* [Kids -> KidStates]
    asked,     \* the children whose context is done
    told,      \* history: the children the parent sent SIGTERM
    status     \* the children that parent-status.json lists, {} before it is written

parent   == <<limited, pc, outcome, started, at>>
servers  == <<server, socket, conns>>
children == <<kid, asked>>
vars     == <<parent, done, servers, children, told, status>>

Init ==
    /\ limited \in BOOLEAN
    /\ pc = "boot" /\ outcome = "none" /\ done = FALSE
    /\ started = 0 /\ at = 0
    /\ server = [s \in Servers |-> "off"]
    /\ socket = [s \in {"tcp", "udp"} |-> "none"] /\ conns = 0
    /\ kid = [i \in Kids |-> "none"] /\ asked = {} /\ told = {}
    /\ status = {}

-----------------------------------------------------------------------------
(* Helpers. *)

Goto(label) == pc' = label /\ UNCHANGED <<outcome, at>>

(* A return from runParent with what its result will be.  From the point    *)
(* where children were started the deferred waitChildren comes first.       *)
Unwind(how) == pc' = "tell" /\ outcome' = how /\ at' = 0

End(how) == pc' = "ended" /\ outcome' = how /\ UNCHANGED at

(* The end of the process takes its goroutines and sockets with it.         *)
Vanish ==
    /\ server' = [s \in Servers |-> IF server[s] = "up" THEN "down" ELSE server[s]]
    /\ socket' = [s \in {"tcp", "udp"} |-> IF socket[s] = "open" THEN "closed" ELSE socket[s]]
    /\ conns' = 0

(* SIGTERM or SIGINT for a set of children.                                 *)
Deliver(s) ==
    /\ kid' = [i \in Kids |-> IF i \in s /\ kid[i] = "starting" THEN "dead" ELSE kid[i]]
    /\ asked' = asked \cup {i \in s : kid[i] \in {"ready", "beating"}}

-----------------------------------------------------------------------------
(* runParent. *)

(* Flags, the state directory, NotifyContext.                               *)
Boot ==
    /\ pc = "boot"
    /\ \/ Goto("spawn")
       \/ End("error")
    /\ UNCHANGED <<limited, started, done, servers, children, told, status>>

SpawnBlindly ==
    /\ pc = "spawn" /\ started < Children
    /\ \/ /\ started' = started + 1
          /\ kid' = [kid EXCEPT ![started + 1] = "starting"]
          /\ UNCHANGED <<pc, outcome, at>>
       \/ End("error") /\ UNCHANGED <<started, kid>>
    /\ UNCHANGED <<limited, done, servers, asked, told, status>>

(* cmd.Start for the next child.  When it fails the children started so far *)
(* are signalled, and the error returned at once.                           *)
Spawn ==
    /\ pc = "spawn" /\ started < Children
    /\ \/ /\ started' = started + 1
          /\ kid' = [kid EXCEPT ![started + 1] = "starting"]
          /\ UNCHANGED <<pc, outcome, at>>
       \/ pc' = "abort" /\ at' = 0 /\ UNCHANGED <<outcome, started, kid>>
    /\ UNCHANGED <<limited, done, servers, asked, told, status>>

SpawnEnds ==
    /\ pc = "spawn" /\ started = Children
    /\ Goto("status")
    /\ UNCHANGED <<limited, started, done, servers, children, told, status>>

WriteStatus ==
    /\ pc = "status"
    /\ \/ status' = 1..started /\ Goto("listenTCP")
       \/ Unwind("error") /\ UNCHANGED status
    /\ UNCHANGED <<limited, started, done, servers, children, told>>

ListenTCP ==
    /\ pc = "listenTCP"
    /\ \/ socket' = [socket EXCEPT !["tcp"] = "open"] /\ Goto("listenUDP")
       \/ Unwind("error") /\ UNCHANGED socket
    /\ UNCHANGED <<limited, started, done, server, conns, children, told, status>>

(* On success the three goroutines are started.                             *)
ListenUDP ==
    /\ pc = "listenUDP"
    /\ \/ /\ socket' = [socket EXCEPT !["udp"] = "open"]
          /\ server' = [s \in Servers |-> "up"]
          /\ Goto("serve")
       \/ /\ socket' = [socket EXCEPT !["tcp"] = "closed"]
          /\ Unwind("error") /\ UNCHANGED server
    /\ UNCHANGED <<limited, started, done, conns, children, told, status>>

StopWithoutClosing ==
    /\ pc = "serve" /\ done
    /\ Goto("join")
    /\ UNCHANGED <<limited, started, done, servers, children, told, status>>

(* <-ctx.Done()                                                             *)
Stop ==
    /\ pc = "serve" /\ done
    /\ Goto("closeTCP")
    /\ UNCHANGED <<limited, started, done, servers, children, told, status>>

CloseTCP ==
    /\ pc = "closeTCP"
    /\ socket' = [socket EXCEPT !["tcp"] = "closed"]
    /\ Goto("closeUDP")
    /\ UNCHANGED <<limited, started, done, server, conns, children, told, status>>

CloseUDP ==
    /\ pc = "closeUDP"
    /\ socket' = [socket EXCEPT !["udp"] = "closed"]
    /\ Goto("join")
    /\ UNCHANGED <<limited, started, done, server, conns, children, told, status>>

JoinNobody ==
    /\ pc = "join"
    /\ Unwind("ok")
    /\ UNCHANGED <<limited, started, done, servers, children, told, status>>

(* wg.Wait(), which does not count the connections being answered.          *)
Join ==
    /\ pc = "join" /\ \A s \in Servers : server[s] = "down"
    /\ Unwind("ok")
    /\ UNCHANGED <<limited, started, done, servers, children, told, status>>

TellOneMore ==
    /\ pc \in {"abort", "tell"} /\ at <= started
    /\ Deliver({at + 1})
    /\ told' = told \cup {at + 1}
    /\ at' = at + 1
    /\ UNCHANGED <<limited, pc, outcome, started, done, servers, status>>

(* The loops that send SIGTERM to the next child: spawnChildren's on a      *)
(* failed start, and the deferred cleanup's.                                *)
Tell ==
    /\ pc \in {"abort", "tell"} /\ at < started
    /\ Deliver({at + 1})
    /\ told' = told \cup {at + 1}
    /\ at' = at + 1
    /\ UNCHANGED <<limited, pc, outcome, started, done, servers, status>>

(* The error of a failed start ends the process without waiting.            *)
Abort ==
    /\ pc = "abort" /\ at = started
    /\ End("error") /\ Vanish
    /\ UNCHANGED <<limited, started, done, children, told, status>>

TellEnds ==
    /\ pc = "tell" /\ at = started
    /\ pc' = "wait" /\ at' = 0
    /\ UNCHANGED <<limited, outcome, started, done, servers, children, told, status>>

(* child.Wait(), in the order they were started.                            *)
Wait ==
    /\ pc = "wait" /\ at < started /\ kid[at + 1] = "dead"
    /\ kid' = [kid EXCEPT ![at + 1] = "reaped"]
    /\ at' = at + 1
    /\ UNCHANGED <<limited, pc, outcome, started, done, servers, asked, told, status>>

WaitEnds ==
    /\ pc = "wait" /\ at = started
    /\ End(outcome) /\ Vanish
    /\ UNCHANGED <<limited, started, done, children, told, status>>

Main ==
    \/ Boot \/ Spawn \/ SpawnEnds \/ WriteStatus \/ ListenTCP \/ ListenUDP
    \/ Stop \/ CloseTCP \/ CloseUDP \/ Join
    \/ Tell \/ Abort \/ TellEnds \/ Wait \/ WaitEnds

-----------------------------------------------------------------------------
(* The goroutines. *)

Return(s) ==
    /\ server[s] = "up" /\ server' = [server EXCEPT ![s] = "down"]
    /\ UNCHANGED <<parent, done, socket, conns, children, told, status>>

(* serveTCP: a connection gets a goroutine of its own.                      *)
Accept ==
    /\ server["tcp"] = "up" /\ socket["tcp"] = "open" /\ conns < MaxConns
    /\ conns' = conns + 1
    /\ UNCHANGED <<parent, done, server, socket, children, told, status>>

Answer ==
    /\ conns > 0
    /\ conns' = conns - 1
    /\ UNCHANGED <<parent, done, server, socket, children, told, status>>

(* An error of Accept or ReadFrom ends the loop if the context is done, and *)
(* otherwise changes nothing.  On a closed socket there is always an error, *)
(* on an open one there may be one, or (UDP) the deadline passes.           *)
ServerStops(s) == socket[s] = "closed" /\ done /\ Return(s)

ServerFails(s) == socket[s] = "open" /\ done /\ Return(s)

(* heartbeatLoop's select, once ctx is done; a tick that is ready too may   *)
(* be taken first, which changes nothing here.                              *)
BeatStops == done /\ Return("beat")

Serving == BeatStops \/ Answer \/ \E s \in {"tcp", "udp"} : ServerStops(s)

-----------------------------------------------------------------------------
(* A child. *)

KidStep(i, from, to) ==
    /\ kid[i] = from /\ kid' = [kid EXCEPT ![i] = to]
    /\ UNCHANGED <<parent, done, servers, asked, told, status>>

Handle(i) == KidStep(i, "starting", "ready")

(* Its status file, whose failure ends it; then heartbeats.                 *)
Report(i) == KidStep(i, "ready", "beating") \/ KidStep(i, "ready", "dead")

KidStops(i) == i \in asked /\ KidStep(i, "beating", "dead")

Kid(i) == Handle(i) \/ Report(i) \/ KidStops(i)

-----------------------------------------------------------------------------
(* The environment. *)

(* To the parent a signal before NotifyContext is deadly; later ones are    *)
(* taken once, since cancel is deferred to the very end.                    *)
Signal(s) ==
    /\ pc # "ended"
    /\ IF pc = "boot" THEN End("killed") /\ UNCHANGED done
                      ELSE done' = TRUE /\ UNCHANGED <<pc, outcome, at>>
    /\ Deliver(s)
    /\ UNCHANGED <<limited, started, servers, told, status>>

(* Ctrl-C and pkill reach the group, kill the parent only.                  *)
Interrupt == Signal({}) \/ Signal(Kids)

(* context.WithTimeout                                                      *)
TimeIsUp ==
    /\ limited /\ pc \notin {"boot", "ended"}
    /\ done' = TRUE
    /\ UNCHANGED <<parent, servers, children, told, status>>

Crash ==
    /\ pc # "ended"
    /\ End("killed") /\ Vanish
    /\ UNCHANGED <<limited, started, done, children, told, status>>

KidCrashes(i) == \E from \in Alive : KidStep(i, from, "dead")

Next ==
    \/ Main \/ Serving \/ Accept
    \/ \E s \in {"tcp", "udp"} : ServerFails(s)
    \/ \E i \in Kids : Kid(i) \/ KidCrashes(i)
    \/ Interrupt \/ TimeIsUp \/ Crash

Spec == Init /\ [][Next]_vars

(* The Go runtime schedules the goroutines, the kernel the processes, and a *)
(* read of a closed socket returns; a connection has a deadline, and the    *)
(* limit's timer fires.  Nothing is assumed of signals, peers or errors.    *)
FairSpec ==
    /\ Spec
    /\ WF_vars(Main) /\ WF_vars(TimeIsUp)
    /\ WF_vars(BeatStops) /\ WF_vars(Answer)
    /\ \A s \in {"tcp", "udp"} : WF_vars(ServerStops(s))
    /\ \A i \in Kids : WF_vars(Kid(i))

-----------------------------------------------------------------------------
(* Properties. *)

TypeOK ==
    /\ limited \in BOOLEAN
    /\ pc \in Labels /\ outcome \in {"none", "ok", "error", "killed"}
    /\ done \in BOOLEAN
    /\ started \in 0..Children /\ at \in 0..started
    /\ server \in [Servers -> {"off", "up", "down"}]
    /\ socket \in [{"tcp", "udp"} -> {"none", "open", "closed"}]
    /\ conns \in 0..MaxConns
    /\ kid \in [Kids -> KidStates]
    /\ asked \subseteq Kids /\ told \subseteq Kids
    /\ status \subseteq Kids

(* No child is forgotten.  A parent that was not killed has waited for      *)
(* every child it started or, when one could not be started, has told the   *)
(* others to stop.  And whoever finds a listener, or what a killed parent   *)
(* left, finds the live children in parent-status.json                      *)
(* (main.go:127-136,233-238,244-254).                                       *)
NobodyForgotten ==
    /\ pc = "ended" /\ outcome # "killed" =>
          \A i \in 1..started : \/ kid[i] = "reaped"
                                \/ started < Children /\ i \in told
    /\ \A i \in Kids :
          kid[i] \in Alive /\ socket["tcp"] # "none" => i \in status

(* Shutdown goes from the outside in: when a child is told to stop, no      *)
(* server goroutine runs and no socket is open any more; and no server is   *)
(* left on a closed socket with a context that lives, where its loop would  *)
(* spin on the error (main.go:167-172,257-311).                             *)
OutsideIn ==
    /\ told # {} => /\ \A s \in Servers : server[s] # "up"
                    /\ \A s \in DOMAIN socket : socket[s] # "open"
    /\ \A s \in DOMAIN socket : server[s] = "up" /\ socket[s] = "closed" => done

(* Everything stops: the parent ends after a signal and after its time is   *)
(* up, however the servers, the peers and the children stand; and a parent  *)
(* that was not killed leaves no child running (main.go:102-173,244-254).  *)
StopEnds ==
    /\ done ~> pc = "ended"
    /\ pc = "serve" /\ limited ~> pc = "ended"
    /\ pc = "ended" /\ outcome # "killed" ~> \A i \in Kids : kid[i] \notin Alive
=============================================================================
