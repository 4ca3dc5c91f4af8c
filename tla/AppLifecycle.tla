---------------------------- MODULE AppLifecycle ----------------------------
(***************************************************************************)
(* What the manager promises its clients about one server's lifetime,      *)
(* without locks, pids, goroutines or a table: an app has a phase and at   *)
(* most one instance that is meant to run; it is launched only when it has *)
(* none, and is called stopped or failed only after its instance is gone   *)
(* or has been told to go.                                                 *)
(***************************************************************************)
CONSTANTS Apps, Instances

VARIABLES
    phase,   \* app -> what the table, or the call launching it, says of it
    inst     \* app -> its instances nobody told to stop

vars == <<phase, inst>>

Down == {"absent", "declared", "stopped", "failed"}
Phase == Down \cup {"launched", "running"}

TypeOK ==
    /\ phase \in [Apps -> Phase]
    /\ inst \in [Apps -> SUBSET Instances]

Init ==
    /\ phase \in [Apps -> {"absent", "declared"}]
    /\ inst = [a \in Apps |-> {}]

Becomes(a, p) == phase' = [phase EXCEPT ![a] = p]

Launch(a, i) ==
    /\ phase[a] \in Down /\ inst[a] = {}
    /\ inst' = [inst EXCEPT ![a] = {i}]
    /\ Becomes(a, "launched")

LaunchFails(a) ==
    /\ phase[a] \in Down /\ inst[a] = {}
    /\ Becomes(a, "failed")
    /\ UNCHANGED inst

(* The call that launched the app reports it as running, even if the       *)
(* instance did not live to see that.                                      *)
Confirm(a) ==
    /\ phase[a] = "launched"
    /\ Becomes(a, "running")
    /\ UNCHANGED inst

(* The instance exits, or is told to. *)
Leave(a) ==
    /\ inst[a] # {}
    /\ inst' = [inst EXCEPT ![a] = {}]
    /\ UNCHANGED phase

(* A running app without an instance is recorded as such. *)
Settle(a) ==
    /\ phase[a] = "running" /\ inst[a] = {}
    /\ \E p \in {"stopped", "failed", "absent"} : Becomes(a, p)
    /\ UNCHANGED inst

Forget(a) ==
    /\ phase[a] \in Down
    /\ Becomes(a, "absent")
    /\ UNCHANGED inst

Next == \E a \in Apps :
    \/ \E i \in Instances : Launch(a, i)
    \/ LaunchFails(a) \/ Confirm(a) \/ Leave(a) \/ Settle(a) \/ Forget(a)

SafeSpec == Init /\ [][Next]_vars

Liveness == \A a \in Apps : WF_vars(Settle(a))

Spec == SafeSpec /\ Liveness
=============================================================================
