----------------------------- MODULE CaseWriter -----------------------------
(***************************************************************************)
(* What `kernledger acquire` promises the case directory: the order in     *)
(* which a plan, an image, its hash, a record and a success may follow one *)
(* another, one invocation at a time.  Acquire implements it (see there);  *)
(* CaseDirectory composes it with `kernledger package`.                    *)
(***************************************************************************)
CONSTANTS
    Runs,       \* the invocations
    Lossy,      \* may a line of audit.log be lost?
    Lagging,    \* may an image be completed after its hash was taken?
    None, Torn

VARIABLES
    state,      \* [Runs -> States]
    planned,    \* the invocations that got past their plan
    plans,      \* those whose plan is in audit.log
    image,      \* the file at --output
    sum,        \* [Runs -> Images \cup {None}], the image hash each will record
    record      \* acquire-manifest.json

vars == <<state, planned, plans, image, sum, record>>

States  == {"idle", "busy", "saving", "well", "failed", "killed"}
Images  == [by : Runs, full : BOOLEAN]
Records == [run : Runs, image : Images \cup {None}]

Init ==
    /\ state = [r \in Runs |-> "idle"]
    /\ planned = {} /\ plans = {}
    /\ image = None /\ sum = [r \in Runs |-> None] /\ record = None

Active(r) == state[r] \in {"busy", "saving"}

Move(r, from, to) == state[r] = from /\ state' = [state EXCEPT ![r] = to]

Start(r) ==
    /\ \A s \in Runs : ~Active(s)
    /\ Move(r, "idle", "busy")
    /\ UNCHANGED <<planned, plans, image, sum, record>>

(* A dry run has nothing left but its record.                               *)
Plan(r) ==
    /\ \E next \in {"busy", "saving"} : Move(r, "busy", next)
    /\ r \notin planned /\ planned' = planned \cup {r}
    /\ plans' \in {plans \cup {r}} \cup (IF Lossy THEN {plans} ELSE {})
    /\ UNCHANGED <<image, sum, record>>

(* No image without a plan; but an insmod outlives a killed invocation.     *)
Dump(r) ==
    /\ r \in planned /\ state[r] \in {"busy", "killed"}
    /\ image' \in [by : {r}, full : BOOLEAN]
    /\ UNCHANGED <<state, planned, plans, sum, record>>

Complete(r) ==
    /\ Lagging /\ image = [by |-> r, full |-> FALSE]
    /\ image' = [by |-> r, full |-> TRUE]
    /\ UNCHANGED <<state, planned, plans, sum, record>>

(* The image is settled, and the hash is of it or missing.                  *)
Settle(r) ==
    /\ Move(r, "busy", "saving") /\ r \in planned
    /\ sum' \in {sum} \cup {[sum EXCEPT ![r] = i] : i \in {image} \cap [by : {r}, full : BOOLEAN]}
    /\ UNCHANGED <<planned, plans, image, record>>

Tear(r) ==
    /\ state[r] = "saving" /\ record' = Torn
    /\ UNCHANGED <<state, planned, plans, image, sum>>

Save(r) ==
    /\ record = Torn /\ record' = [run |-> r, image |-> sum[r]]
    /\ state[r] = "saving"
    /\ UNCHANGED state \/ Move(r, "saving", "failed")
    /\ UNCHANGED <<planned, plans, image, sum>>

(* Success is of the record on disk.                                        *)
Succeed(r) ==
    /\ record = [run |-> r, image |-> sum[r]]
    /\ Move(r, "saving", "well")
    /\ UNCHANGED <<planned, plans, image, sum, record>>

Fail(r) ==
    /\ \E from \in {"idle", "busy", "saving"}, to \in {"failed", "killed"} : Move(r, from, to)
    /\ \A s \in Runs \ {r} : ~Active(s)
    /\ UNCHANGED <<planned, plans, image, sum, record>>

Step(r) ==
    \/ Start(r) \/ Plan(r) \/ Dump(r) \/ Complete(r) \/ Settle(r)
    \/ Tear(r) \/ Save(r) \/ Succeed(r) \/ Fail(r)

Next == \E r \in Runs : Step(r)

Spec == Init /\ [][Next]_vars
=============================================================================
