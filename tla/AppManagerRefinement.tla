------------------------ MODULE AppManagerRefinement ------------------------
(* AppManager implements AppLifecycle while its server lives, the table    *)
(* answers and pids are not reused.                                        *)
EXTENDS AppManager

(* What a record says of its app. *)
PhaseIn(r) ==
    IF r = NoRecord THEN "absent"
    ELSE CASE r.status = "RUNNING" -> "running"
           [] r.status = "STOPPED" -> "stopped"
           [] r.status = "ERROR"   -> "failed"
           [] r.status = ""        -> "declared"

(* What is known of an app: a process that a call has started and not yet  *)
(* recorded, else what its record says.                                    *)
PhaseOf(a) ==
    IF \E t \in Threads : pc[t] = "started" /\ call[t].app = a THEN "launched"
    ELSE PhaseIn(db[a])

InstancesOf(a) == {i \in Procs : proc[i].state = "live" /\ proc[i].app = a}

Lifecycle == INSTANCE AppLifecycle
    WITH Instances <- Procs,
         phase <- [a \in Apps |-> PhaseOf(a)],
         inst  <- [a \in Apps |-> InstancesOf(a)]

(* The manager's calls, its waitForExit goroutines and the exits of the    *)
(* processes, in any interleaving, only do what the life cycle allows.     *)
ImplementsLifecycle == Lifecycle!SafeSpec

(* An app whose process has gone is eventually recorded as not running.    *)
SettlesEventually == Lifecycle!Liveness
-----------------------------------------------------------------------------
(* What the refinement needs beyond IInv: only a RUNNING record has a pid, *)
(* one of a process of its app, so that a stop and an exit that is         *)
(* reported take an app from RUNNING; and no process loses its goroutine.  *)
RowInv ==
    /\ \A a \in Apps :
        /\ Owned(db[a], a)
        /\ db[a] # NoRecord /\ db[a].pid # NoPid => db[a].status = "RUNNING"
    /\ \A t \in Threads : pc[t] = "stopping" => db[call[t].app].pid # NoPid
    /\ crashes = 0 => \A i \in Procs : waiter[i] # "lost"
=============================================================================
