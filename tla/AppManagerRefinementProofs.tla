--------------------- MODULE AppManagerRefinementProofs ---------------------
(***************************************************************************)
(* AppManager implements AppLifecycle, for any number of apps, threads,    *)
(* processes and pids: each step of the manager is one step of the life    *)
(* cycle or none, from IInv and RowInv.                                    *)
(***************************************************************************)
EXTENDS AppManagerRefinement, AppManagerProofs

(* The server lives, the table answers and pids are not reused. *)
Untroubled == MaxCrashes = 0 /\ MaxFaults = 0 /\ ~PidReuse

-----------------------------------------------------------------------------
(* RowInv *)

LEMMA InitRowInv == Init => RowInv
  BY DEF Init, RowInv, Owned, Declared

(* Pids are only saved in RUNNING rows, and by whoever holds mu. *)
LEMMA RowStep == IInv /\ RowInv /\ Step => RowInv'
<1> SUFFICES ASSUME IInv, RowInv, Step
             PROVE  RowInv'
  OBVIOUS
<1>1. /\ ControlInv /\ TypeOK /\ LockInv /\ SnapInv
      /\ \A t \in Threads : call[t].app \in Apps
  BY CallFacts DEF IInv, ControlInv, Typed, TypeOK
<1>2. ASSUME NEW a \in Apps
      PROVE  /\ Owned(db[a], a)'
             /\ db'[a] # NoRecord /\ db'[a].pid # NoPid =>
                    db'[a].status = "RUNNING"
  <2> SUFFICES ASSUME db'[a] # NoRecord, db'[a].pid # NoPid
               PROVE  /\ db'[a].status = "RUNNING"
                      /\ \E i \in Procs : /\ proc'[i].state # "none"
                                          /\ proc'[i].app = a
                                          /\ proc'[i].pid = db'[a].pid
    BY DEF Owned
  <2>1. /\ db'[a].status = "RUNNING"
        /\ \E i \in Procs : /\ proc[i].state # "none" /\ proc[i].app = a
                            /\ proc[i].pid = db'[a].pid
    <3>1. CASE db'[a] = db[a]
      BY <3>1 DEF RowInv, Owned
    <3>2. CASE db'[a] # db[a]
      BY <1>1, <3>2, PidSaved
    <3>3. QED
      BY <3>1, <3>2
  <2>2. QED
    BY <1>1, <2>1, ProcessKept
<1>3. ASSUME NEW t \in Threads, pc'[t] = "stopping"
      PROVE  db'[call'[t].app].pid # NoPid
  <2> USE <1>1, <1>3, ConstantsAssumption
          DEF TypeOK, LockInv, Critical, vars, osVars, threadVars, waiterVars,
              Return, Locks, Saved, SaveFailed, GetApp
  <2>1. ASSUME NEW u \in Threads, ThreadLocks(u)
        PROVE  db'[call'[t].app].pid # NoPid
    <3>1. CASE StopSignal(u)
      BY <3>1 DEF StopSignal
    <3>2. CASE StartPrepare(u)
      BY <3>2 DEF StartPrepare
    <3>3. CASE DeleteRemove(u)
      BY <3>3 DEF DeleteRemove
    <3>4. CASE StartAlreadyRunning(u) \/ StartRefused(u)
      BY <3>4 DEF StartAlreadyRunning, StartRefused
    <3>5. CASE StopNothing(u) \/ DeleteUnknown(u)
      BY <3>5 DEF StopNothing, DeleteUnknown
    <3>6. QED
      BY <2>1, <3>1, <3>2, <3>3, <3>4, <3>5 DEF ThreadLocks
  <2>2. CASE \E u \in Threads : ThreadRuns(u)
    BY <2>2 DEF ThreadRuns, StartExec, StartExecFails, StartSave, StopSave,
                DeleteSave
  <2>3. CASE \E u \in Threads : Reply(u) \/ \E c \in Call : Asks(u, c)
    BY <2>3 DEF Reply, Asks, RowInv
  <2>4. CASE \E i \in Procs : WaiterLocks(i) \/ WaiterRuns(i) \/ ProcExit(i)
    BY <2>4 DEF WaiterLocks, WaiterIgnores, WaiterReads, WaiterRuns,
                WaiterReap, WaiterSaves, ProcExit, RowInv
  <2>5. CASE ServerRestart
    BY <2>5 DEF ServerRestart
  <2>6. CASE UNCHANGED vars
    BY <2>6 DEF RowInv
  <2>7. QED
    BY <2>1, <2>2, <2>3, <2>4, <2>5, <2>6 DEF Step
<1>4. ASSUME crashes' = 0, NEW i \in Procs
      PROVE  waiter'[i] # "lost"
  <2> USE <1>1, <1>4 DEF TypeOK, RowInv, vars, osVars, threadVars, waiterVars
  <2>1. CASE \E u \in Threads : ThreadLocks(u)
    BY <2>1 DEF ThreadLocks, StartAlreadyRunning, StartPrepare, StartRefused,
                StopNothing, StopSignal, DeleteUnknown, DeleteRemove
  <2>2. CASE \E u \in Threads : ThreadRuns(u)
    BY <2>2 DEF ThreadRuns, StartExec, StartExecFails, StartSave, StopSave,
                DeleteSave
  <2>3. CASE \E u \in Threads : Reply(u) \/ \E c \in Call : Asks(u, c)
    BY <2>3 DEF Reply, Asks
  <2>4. CASE \E j \in Procs : WaiterLocks(j) \/ WaiterRuns(j) \/ ProcExit(j)
    BY <2>4 DEF WaiterLocks, WaiterIgnores, WaiterReads, WaiterRuns,
                WaiterReap, WaiterSaves, ProcExit
  <2>5. CASE ServerRestart
    BY <2>5 DEF ServerRestart
  <2>6. CASE UNCHANGED vars
    BY <2>6
  <2>7. QED
    BY <2>1, <2>2, <2>3, <2>4, <2>5, <2>6 DEF Step
<1>5. QED
  BY <1>2, <1>3, <1>4 DEF RowInv

(* Only RUNNING rows have a pid, that of a process of the app. *)
THEOREM RowInvariant == Spec => [](IInv /\ RowInv)
<1>1. IInv /\ RowInv /\ [Next]_vars => RowInv'
  BY RowStep, NextIsStep
<1>2. QED
  BY <1>1, InitRowInv, Invariance, PTL DEF Spec

-----------------------------------------------------------------------------
(* Phases and instances *)

(* A phase depends on the row of the app and on the calls that started a   *)
(* process; while nobody is "started", on the row alone.                   *)
LEMMA PhaseKept ==
    ASSUME NEW a \in Apps, db'[a] = db[a],
           \A t \in Threads : /\ pc[t] = "started" <=> pc'[t] = "started"
                              /\ pc[t] = "started" => call'[t].app = call[t].app
    PROVE  PhaseOf(a)' = PhaseOf(a)
<1>1. PhaseIn(db[a])' = PhaseIn(db[a])
  BY DEF PhaseIn
<1>2. QED
  BY <1>1 DEF PhaseOf

(* A record that does not say RUNNING is down. *)
LEMMA PhaseDown ==
    ASSUME NEW r \in Record \cup {NoRecord}
    PROVE  /\ r = NoRecord => PhaseIn(r) = "absent"
           /\ r # NoRecord /\ r.status = "RUNNING" => PhaseIn(r) = "running"
           /\ r # NoRecord /\ r.status = "STOPPED" => PhaseIn(r) = "stopped"
           /\ r # NoRecord /\ r.status = "ERROR" => PhaseIn(r) = "failed"
           /\ IsRunning(r) \/ PhaseIn(r) \in Lifecycle!Down
<1>1. r = NoRecord \/ (r # NoRecord /\ r.status \in Status)
  BY DEF Record
<1>2. QED
  BY <1>1 DEF PhaseIn, IsRunning, Lifecycle!Down, Status

(* One app changes its phase, or its instances. *)
LEMMA Becoming ==
    ASSUME NEW a \in Apps, NEW p, PhaseOf(a)' = p,
           \A b \in Apps : b # a => PhaseOf(b)' = PhaseOf(b)
    PROVE  Lifecycle!Becomes(a, p)
  BY DEF Lifecycle!Becomes

LEMMA SamePhases ==
    ASSUME \A b \in Apps : PhaseOf(b)' = PhaseOf(b)
    PROVE  UNCHANGED [b \in Apps |-> PhaseOf(b)]
  OBVIOUS

LEMMA SameInstances ==
    ASSUME \A i \in Procs : /\ proc'[i].state = "live" <=> proc[i].state = "live"
                            /\ proc[i].state = "live" =>
                                  proc'[i].app = proc[i].app
    PROVE  UNCHANGED [b \in Apps |-> InstancesOf(b)]
<1>1. \A b \in Apps : InstancesOf(b)' = InstancesOf(b)
  BY DEF InstancesOf
<1>2. QED
  BY <1>1

(* While a call that has not started a process yet, or a goroutine, holds  *)
(* mu, or nobody does, phases are what the rows say.                       *)
LEMMA PhaseIsRow ==
    ASSUME LockInv, \A t \in Threads : mu = t => pc[t] # "started",
           NEW a \in Apps
    PROVE  PhaseOf(a) = PhaseIn(db[a])
  BY DEF LockInv, Critical, PhaseOf

(* What holds in every state of an untroubled manager. *)
Usual ==
    /\ ControlInv /\ LifeInv /\ SnapInv /\ RowInv
    /\ crashes = 0 /\ faults = 0 /\ ~PidReuse
    /\ \A i \in Procs : proc[i].state = "live" =>
           Tracked(i) \/ waiter[i] = "unborn"
    /\ \A a \in Apps : \A i, j \in InstancesOf(a) : i = j

LEMMA InvUsual == Untroubled /\ IInv /\ RowInv => Usual
<1> SUFFICES ASSUME Untroubled, IInv, RowInv
             PROVE  Usual
  OBVIOUS
<1>1. ControlInv /\ LifeInv /\ SnapInv /\ TypeOK
  BY DEF IInv, ControlInv, Typed
<1>2. crashes = 0 /\ faults = 0 /\ ~PidReuse
  BY <1>1 DEF Untroubled, TypeOK
<1>3. \A i \in Procs : waiter[i] # "lost"
  BY <1>2 DEF RowInv
<1>4. \A a \in Apps : \A i, j \in InstancesOf(a) : i = j
  BY <1>1, <1>2, <1>3, LifeIsSingle DEF SingleInstance, InstancesOf
<1>5. QED
  BY <1>1, <1>2, <1>3, <1>4 DEF Usual, Tracked

(* A call that is about to write has no instance of its app but its child. *)
LEMMA WriterHasNone ==
    ASSUME Usual, NEW t \in Threads, pc[t] \in Critical, pc[t] # "started"
    PROVE  /\ InstancesOf(call[t].app) = {}
           /\ \A a \in Apps : PhaseOf(a) = PhaseIn(db[a])
<1>1. LockInv /\ ChildInv /\ CallInv
  BY DEF Usual, ControlInv, LifeInv
<1>2. \A u \in Threads : pc[u] \in Critical => u = t
  BY <1>1 DEF LockInv
<1>3. \A i \in Procs : waiter[i] # "unborn"
  BY <1>1, <1>2 DEF ChildInv, Critical
<1>4. \A i \in Procs : Tracked(i) => proc[i].app # call[t].app
  BY <1>1 DEF CallInv, Usual
<1>5. InstancesOf(call[t].app) = {}
  BY <1>3, <1>4 DEF Usual, InstancesOf
<1>6. \A u \in Threads : mu = u => pc[u] # "started"
  BY <1>1, <1>2 DEF LockInv
<1>7. QED
  BY <1>1, <1>5, <1>6, PhaseIsRow

(* The process that a SIGTERM reaches is the only instance of its app. *)
LEMMA Leaving ==
    ASSUME Usual, NEW i \in Procs, proc[i].state = "live",
           \A j \in Procs : j # i => proc'[j] = proc[j],
           proc'[i].state # "live",
           UNCHANGED [b \in Apps |-> PhaseOf(b)]
    PROVE  \E a \in Apps : Lifecycle!Leave(a)
<1>1. PICK a \in Apps : a = proc[i].app
  BY DEF Usual, ControlInv, Typed, TypeOK
<1>2. i \in InstancesOf(a)
  BY <1>1 DEF InstancesOf
<1>3. InstancesOf(a)' = {}
  <2> SUFFICES ASSUME NEW k \in Procs, proc'[k].state = "live", proc'[k].app = a
               PROVE  FALSE
    BY DEF InstancesOf
  <2>1. k # i /\ k \in InstancesOf(a)
    BY DEF InstancesOf
  <2>2. \A j, m \in InstancesOf(a) : j = m
    BY <1>1, Zenon DEF Usual
  <2>3. QED
    BY <1>2, <2>1, <2>2, Zenon
<1>4. ASSUME NEW b \in Apps, b # a
      PROVE  InstancesOf(b)' = InstancesOf(b)
  BY <1>1, <1>4 DEF InstancesOf
<1>5. [b \in Apps |-> InstancesOf(b)]' =
          [[b \in Apps |-> InstancesOf(b)] EXCEPT ![a] = {}]
  BY <1>1, <1>3, <1>4, Zenon
<1>6. [b \in Apps |-> InstancesOf(b)][a] # {}
  BY <1>2
<1>7. QED
  BY <1>5, <1>6 DEF Lifecycle!Leave

-----------------------------------------------------------------------------
(* Steps *)

LEMMA RefinesInit == Init => Lifecycle!Init
<1> SUFFICES ASSUME Init
             PROVE  Lifecycle!Init
  OBVIOUS
<1>1. ASSUME NEW a \in Apps
      PROVE  PhaseOf(a) \in {"absent", "declared"} /\ InstancesOf(a) = {}
  <2>1. db[a] = NoRecord \/ (db[a] # NoRecord /\ db[a].status = "")
    BY ConstantsAssumption DEF Init, Declared
  <2>2. PhaseIn(db[a]) \in {"absent", "declared"}
    BY <2>1 DEF PhaseIn
  <2>3. QED
    BY <2>2 DEF Init, PhaseOf, InstancesOf
<1>2. QED
  BY <1>1 DEF Lifecycle!Init

(* Nothing that a life cycle knows changes. *)
Unseen == UNCHANGED Lifecycle!vars

(* The steps that take mu; a stop or a delete tells an instance to go. *)
LEMMA LocksRefines ==
    ASSUME Usual, NEW t \in Threads, ThreadLocks(t)
    PROVE  Lifecycle!Next \/ Unseen
<1> USE DEF osVars, threadVars, waiterVars, Return, Locks
<1>1. TypeOK /\ LockInv /\ ProcInv /\ ChildInv /\ LiveIsRecorded /\ RowInv
      /\ mu = Free /\ pc[t] = "called"
  BY DEF Usual, ControlInv, Typed, LifeInv, ThreadLocks, StartAlreadyRunning,
         StartPrepare, StartRefused, StopNothing, StopSignal, DeleteUnknown,
         DeleteRemove
<1>2. /\ UNCHANGED <<db, call>>
      /\ \E p \in PC : p # "started" /\ pc' = [pc EXCEPT ![t] = p]
  BY DEF ThreadLocks, StartAlreadyRunning, StartPrepare, StartRefused,
         StopNothing, StopSignal, DeleteUnknown, DeleteRemove, PC
<1>3. \A u \in Threads : pc[u] = "started" <=> pc'[u] = "started"
  BY <1>1, <1>2 DEF TypeOK
<1>4. \A b \in Apps : PhaseOf(b)' = PhaseOf(b)
  BY <1>2, <1>3, PhaseKept
<1>5. UNCHANGED [b \in Apps |-> PhaseOf(b)]
  BY <1>4, SamePhases
<1>6. proc' = proc \/ \E r : /\ r \in {db[a] : a \in Apps} /\ r # NoRecord
                             /\ proc' = Signalled(r.pid)
  <2>1. call[t].app \in Apps
    BY <1>1, CallFacts DEF TypeOK
  <2>2. QED
    BY <2>1 DEF ThreadLocks, StartAlreadyRunning, StartPrepare, StartRefused,
         StopNothing, StopSignal, DeleteUnknown, DeleteRemove
<1>7. CASE \A i \in Procs : /\ proc'[i].state = "live" <=> proc[i].state = "live"
                            /\ proc[i].state = "live" =>
                                  proc'[i].app = proc[i].app
  BY <1>5, <1>7, SameInstances DEF Unseen, Lifecycle!vars
<1>8. ASSUME NEW p, proc' = Signalled(p),
             NEW i \in Procs, proc[i].state = "live", proc[i].pid = p
      PROVE  Lifecycle!Next
  <2>1. \A j \in Procs : j # i => proc'[j] = proc[j]
    BY <1>1, <1>8 DEF Signalled, ProcInv, Usual
  <2>2. proc'[i].state # "live"
    BY <1>1, <1>8 DEF Signalled, TypeOK
  <2>3. QED
    BY <1>5, <1>8, <2>1, <2>2, Leaving DEF Lifecycle!Next
<1>9. ASSUME NEW p, proc' = Signalled(p),
             \A i \in Procs : ~(proc[i].state = "live" /\ proc[i].pid = p)
      PROVE  proc' = proc
  BY <1>1, <1>9 DEF Signalled, TypeOK
<1>10. QED
  BY <1>6, <1>7, <1>8, <1>9

(* A start launches, or fails to, and confirms. *)
LEMMA StartRefines ==
    ASSUME Usual, Usual', NEW t \in Threads,
           \/ \E i \in Procs, p \in Pids : StartExec(t, i, p)
           \/ StartExecFails(t) \/ StartSave(t)
    PROVE  Lifecycle!Next
<1> DEFINE a == call[t].app
<1>1. /\ TypeOK /\ Typed /\ LockInv /\ ProcInv /\ ChildInv /\ CallInv
      /\ a \in Apps /\ faults = 0 /\ faults' = 0 /\ ~PidReuse
      /\ snap[t] \in Record \cup {NoRecord}
  BY CallFacts DEF Usual, ControlInv, Typed, LifeInv, TypeOK
<1>2. \A u \in Threads : pc[u] \in Critical /\ pc[t] \in Critical => u = t
  BY <1>1 DEF LockInv
<1>3. ASSUME pc[t] = "exec"
      PROVE  /\ InstancesOf(a) = {} /\ PhaseOf(a) \in Lifecycle!Down
             /\ \A b \in Apps : PhaseOf(b) = PhaseIn(db[b])
             /\ \A u \in Threads : pc[u] # "started"
  <2>1. InstancesOf(a) = {} /\ \A b \in Apps : PhaseOf(b) = PhaseIn(db[b])
    BY <1>3, WriterHasNone DEF Critical
  <2>2. ~IsRunning(db[a])
    BY <1>1, <1>3 DEF CallInv
  <2>3. db[a] \in Record \cup {NoRecord}
    BY <1>1 DEF TypeOK
  <2>4. PhaseOf(a) \in Lifecycle!Down
    BY <1>1, <2>1, <2>2, <2>3, PhaseDown
  <2>5. \A u \in Threads : pc[u] # "started"
    BY <1>2, <1>3 DEF Critical
  <2>6. QED
    BY <2>1, <2>4, <2>5
<1>4. ASSUME NEW i \in Procs, NEW p \in Pids, StartExec(t, i, p)
      PROVE  Lifecycle!Launch(a, i)
  <2> USE <1>1, <1>4 DEF StartExec
  <2>1. InstancesOf(a)' = {i}
    BY <1>3 DEF InstancesOf, TypeOK
  <2>2. \A b \in Apps : b # a => InstancesOf(b)' = InstancesOf(b)
    BY DEF InstancesOf, TypeOK
  <2>3. PhaseOf(a)' = "launched"
    BY DEF PhaseOf, TypeOK
  <2>4. ASSUME NEW b \in Apps, b # a
        PROVE  PhaseOf(b)' = PhaseOf(b)
    <3>1. \A u \in Threads : pc'[u] = "started" => u = t
      BY <1>3 DEF TypeOK
    <3>2. PhaseOf(b)' = PhaseIn(db[b])'
      BY <2>4, <3>1 DEF PhaseOf
    <3>3. QED
      BY <1>3, <3>2
  <2>5. QED
    BY <1>3, <2>1, <2>2, <2>3, <2>4, Becoming DEF Lifecycle!Launch
<1>5. ASSUME NEW s \in {"ERROR", "RUNNING"}, NEW q \in Pids \cup {NoPid},
             db' = [db EXCEPT ![a] = NewRecord(t, s, q)],
             \A u \in Threads : pc'[u] # "started",
             \A b \in Apps : b # a => PhaseOf(b) = PhaseIn(db[b])
      PROVE  Lifecycle!Becomes(a, IF s = "ERROR" THEN "failed" ELSE "running")
  <2>1. /\ NewRecord(t, s, q) \in Record
        /\ NewRecord(t, s, q).status = s
    <3>1. s \in Status
      BY DEF Status
    <3>2. snap[t] \in Record \cup {NoRecord}
      BY <1>1
    <3>3. QED
      BY <3>1, <3>2, NewRecordFacts
  <2>2. \A b \in Apps : PhaseOf(b)' = PhaseIn(db[b])'
    BY <1>5 DEF PhaseOf
  <2>3. db'[a] \in Record /\ db'[a].status = s
    BY <1>1, <1>5, <2>1 DEF TypeOK
  <2>4. PhaseIn(db'[a]) = IF s = "ERROR" THEN "failed" ELSE "running"
    BY <2>3, PhaseDown, ConstantsAssumption
  <2>5. \A b \in Apps : b # a => db'[b] = db[b]
    BY <1>1, <1>5 DEF TypeOK
  <2>6. QED
    BY <1>1, <1>5, <2>2, <2>4, <2>5, Becoming
<1>6. ASSUME StartExecFails(t)
      PROVE  Lifecycle!LaunchFails(a)
  <2>1. /\ pc[t] = "exec" /\ proc' = proc
        /\ db' = [db EXCEPT ![a] = NewRecord(t, "ERROR", NoPid)]
        /\ pc' = [pc EXCEPT ![t] = "failed"]
    BY <1>1, <1>6 DEF StartExecFails, Saved, SaveFailed, Return, osVars
  <2>2. \A u \in Threads : pc'[u] # "started"
    BY <1>1, <1>3, <2>1 DEF TypeOK
  <2>3. Lifecycle!Becomes(a, "failed")
    BY <1>3, <1>5, <2>1, <2>2
  <2>4. UNCHANGED [b \in Apps |-> InstancesOf(b)]
    BY <2>1, SameInstances
  <2>5. QED
    BY <1>3, <1>1, <2>1, <2>3, <2>4 DEF Lifecycle!LaunchFails
<1>7. ASSUME StartSave(t)
      PROVE  Lifecycle!Confirm(a)
  <2>1. /\ pc[t] = "started" /\ proc' = proc
        /\ db' = [db EXCEPT ![a] = NewRecord(t, "RUNNING", proc[child[t]].pid)]
        /\ pc' = [pc EXCEPT ![t] = "ok"]
    BY <1>1, <1>7 DEF StartSave, Saved, SaveFailed, Return, osVars
  <2>2. \A u \in Threads : pc[u] = "started" => u = t
    BY <1>2, <2>1 DEF Critical
  <2>3. \A u \in Threads : pc'[u] # "started"
    BY <1>1, <2>1, <2>2 DEF TypeOK
  <2>4. PhaseOf(a) = "launched"
    BY <2>1 DEF PhaseOf
  <2>5. \A b \in Apps : b # a => PhaseOf(b) = PhaseIn(db[b])
    BY <2>2 DEF PhaseOf
  <2>6. proc[child[t]].pid \in Pids \cup {NoPid}
    BY <1>1, <2>1 DEF ChildInv, TypeOK
  <2>7. Lifecycle!Becomes(a, "running")
    BY <1>5, <2>1, <2>3, <2>5, <2>6
  <2>8. UNCHANGED [b \in Apps |-> InstancesOf(b)]
    BY <2>1, SameInstances
  <2>9. QED
    BY <1>1, <2>4, <2>7, <2>8 DEF Lifecycle!Confirm
<1>8. QED
  BY <1>1, <1>4, <1>6, <1>7 DEF Lifecycle!Next

(* The save that ends a stop, a delete or a reported exit: the row of an   *)
(* app without instances becomes r.                                        *)
LEMMA SaveRefines ==
    ASSUME Usual, NEW a \in Apps, NEW r \in Record \cup {NoRecord},
           InstancesOf(a) = {}, \A b \in Apps : PhaseOf(b) = PhaseIn(db[b]),
           db' = [db EXCEPT ![a] = r], proc' = proc,
           \A t \in Threads : pc'[t] # "started",
           \/ r = NoRecord
           \/ /\ r # NoRecord /\ IsRunning(db[a])
              /\ r.status \in {"STOPPED", "ERROR"}
    PROVE  Lifecycle!Next
<1>1. TypeOK /\ db[a] \in Record \cup {NoRecord}
  BY DEF Usual, ControlInv, Typed, TypeOK
<1>2. PhaseIn(r) \in {"stopped", "failed", "absent"}
  BY PhaseDown
<1>3. \A b \in Apps : PhaseOf(b)' = PhaseIn(db[b])'
  BY DEF PhaseOf
<1>4. db'[a] = r /\ \A b \in Apps : b # a => db'[b] = db[b]
  BY <1>1 DEF TypeOK
<1>5. Lifecycle!Becomes(a, PhaseIn(r))
  BY <1>3, <1>4, Becoming
<1>6. UNCHANGED [b \in Apps |-> InstancesOf(b)]
  BY SameInstances
<1>7. CASE IsRunning(db[a])
  <2>1. PhaseOf(a) = "running"
    BY <1>1, <1>7, PhaseDown DEF IsRunning
  <2>2. Lifecycle!Settle(a)
    BY <1>2, <1>5, <1>6, <2>1 DEF Lifecycle!Settle
  <2>3. QED
    BY <2>2 DEF Lifecycle!Next
<1>8. CASE ~IsRunning(db[a])
  <2>1. PhaseOf(a) \in Lifecycle!Down
    BY <1>1, <1>8, PhaseDown
  <2>2. PhaseIn(r) = "absent"
    BY <1>8, PhaseDown
  <2>3. Lifecycle!Forget(a)
    BY <1>5, <1>6, <2>1, <2>2 DEF Lifecycle!Forget
  <2>4. QED
    BY <2>3 DEF Lifecycle!Next
<1>9. QED
  BY <1>7, <1>8

LEMMA StopSaveRefines ==
    ASSUME Usual, Usual', NEW t \in Threads, StopSave(t) \/ DeleteSave(t)
    PROVE  Lifecycle!Next
<1> DEFINE a == call[t].app
<1>1. /\ TypeOK /\ Typed /\ LockInv /\ SnapInv /\ RowInv
      /\ a \in Apps /\ faults = 0 /\ faults' = 0
  BY CallFacts DEF Usual, ControlInv, Typed, TypeOK
<1>2. pc[t] \in {"stopping", "deleting"} /\ proc' = proc
  BY DEF StopSave, DeleteSave, osVars
<1>3. InstancesOf(a) = {} /\ \A b \in Apps : PhaseOf(b) = PhaseIn(db[b])
  BY <1>2, WriterHasNone DEF Critical
<1>4. \A u \in Threads : pc'[u] # "started"
  <2>1. \A u \in Threads : pc[u] # "started"
    BY <1>1, <1>2 DEF LockInv, Critical
  <2>2. QED
    BY <1>1, <2>1 DEF StopSave, DeleteSave, Return, TypeOK
<1>5. CASE StopSave(t)
  <2>1. pc[t] = "stopping" /\ db' = [db EXCEPT ![a] = StopRecord(snap[t])]
    BY <1>1, <1>5 DEF StopSave, Saved, SaveFailed
  <2>2. snap[t] = db[a] /\ db[a] # NoRecord /\ db[a].pid # NoPid
    BY <1>1, <2>1 DEF SnapInv, RowInv
  <2>3. IsRunning(db[a]) /\ db[a] \in Record
    BY <1>1, <2>2 DEF RowInv, IsRunning, TypeOK
  <2>4. /\ StopRecord(snap[t]) \in Record
        /\ StopRecord(snap[t]).status = "STOPPED"
    BY <2>2, <2>3, RecordFacts
  <2>5. StopRecord(snap[t]) # NoRecord
    BY <2>4, ConstantsAssumption
  <2>6. QED
    BY <1>1, <1>2, <1>3, <1>4, <2>1, <2>3, <2>4, <2>5, SaveRefines
<1>6. CASE DeleteSave(t)
  <2>1. db' = [db EXCEPT ![a] = NoRecord]
    BY <1>1, <1>6 DEF DeleteSave, Saved, SaveFailed
  <2>2. QED
    BY <1>1, <1>2, <1>3, <1>4, <2>1, SaveRefines
<1>7. QED
  BY <1>5, <1>6

LEMMA ExitSaveRefines ==
    ASSUME Usual, Usual', NEW i \in Procs, WaiterSaves(i)
    PROVE  Lifecycle!Next
<1> DEFINE a == proc[i].app
<1>1. /\ TypeOK /\ LockInv /\ ProcInv /\ ChildInv /\ SnapInv /\ RowInv
      /\ LiveIsRecorded
      /\ a \in Apps /\ faults = 0 /\ faults' = 0 /\ ~PidReuse
  BY DEF Usual, ControlInv, Typed, LifeInv, TypeOK
<1>2. /\ waiter[i] = "recording" /\ mu = i /\ proc' = proc /\ pc' = pc
      /\ db' = [db EXCEPT ![a] = ExitRecord(wsnap[i])]
  BY <1>1 DEF WaiterSaves, Saved, SaveFailed, LockInv, osVars, threadVars
<1>3. /\ db[a] # NoRecord /\ db[a].pid = proc[i].pid /\ wsnap[i] = db[a]
      /\ proc[i].state = "gone" /\ proc[i].pid \in Pids
  BY <1>1, <1>2 DEF SnapInv, StillActive, ProcInv
<1>4. \A t \in Threads : pc[t] \notin Critical
  BY <1>1, <1>2, ConstantsAssumption DEF LockInv
<1>5. IsRunning(db[a]) /\ db[a] \in Record
  BY <1>1, <1>3, ConstantsAssumption DEF RowInv, IsRunning, TypeOK
<1>6. InstancesOf(a) = {}
  <2> SUFFICES ASSUME NEW j \in Procs, proc[j].state = "live", proc[j].app = a
               PROVE  FALSE
    BY DEF InstancesOf
  <2>1. waiter[j] # "unborn"
    BY <1>1, <1>4 DEF ChildInv, Critical
  <2>2. Recorded(j)
    BY <1>1, <2>1 DEF LiveIsRecorded, Usual
  <2>3. QED
    BY <1>1, <1>3, <2>2 DEF Recorded, ProcInv
<1>7. \A b \in Apps : PhaseOf(b) = PhaseIn(db[b])
  BY <1>4 DEF PhaseOf, Critical
<1>8. /\ ExitRecord(wsnap[i]) \in Record
      /\ ExitRecord(wsnap[i]).status \in {"STOPPED", "ERROR"}
  BY <1>3, <1>5, RecordFacts
<1>9. ExitRecord(wsnap[i]) # NoRecord
  BY <1>8, ConstantsAssumption
<1>10. \A t \in Threads : pc'[t] # "started"
  BY <1>2, <1>4 DEF Critical
<1>11. QED
  BY <1>1, <1>2, <1>5, <1>6, <1>7, <1>8, <1>9, <1>10, SaveRefines

(* A process that exits without having been told to leaves. *)
LEMMA ExitRefines ==
    ASSUME Usual, NEW i \in Procs, ProcExit(i)
    PROVE  Lifecycle!Next \/ Unseen
<1> USE DEF ProcExit, threadVars
<1>1. TypeOK
  BY DEF Usual, ControlInv, Typed
<1>2. /\ \A j \in Procs : j # i => proc'[j] = proc[j]
      /\ proc'[i].state # "live"
  BY <1>1 DEF TypeOK
<1>3. \A b \in Apps : PhaseOf(b)' = PhaseOf(b)
  BY PhaseKept
<1>4. UNCHANGED [b \in Apps |-> PhaseOf(b)]
  BY <1>3, SamePhases
<1>5. CASE proc[i].state = "live"
  BY <1>2, <1>4, <1>5, Leaving DEF Lifecycle!Next
<1>6. CASE proc[i].state # "live"
  <2>1. \A j \in Procs : /\ proc'[j].state = "live" <=> proc[j].state = "live"
                         /\ proc[j].state = "live" => proc'[j].app = proc[j].app
    BY <1>2, <1>6
  <2>2. QED
    BY <1>4, <2>1, SameInstances DEF Unseen, Lifecycle!vars
<1>7. QED
  BY <1>5, <1>6

(* Requests, replies and goroutines that only read are not seen. *)
LEMMA UnseenSteps ==
    ASSUME Usual,
           \/ \E t \in Threads : Reply(t) \/ \E c \in Call : Asks(t, c)
           \/ \E i \in Procs : WaiterLocks(i) \/ WaiterReap(i)
           \/ UNCHANGED vars
    PROVE  Unseen
<1> USE DEF vars, osVars, threadVars, waiterVars, Critical
<1>1. TypeOK
  BY DEF Usual, ControlInv, Typed
<1>2. /\ db' = db
      /\ \A t \in Threads : /\ pc[t] = "started" <=> pc'[t] = "started"
                            /\ pc[t] = "started" => call'[t].app = call[t].app
  BY <1>1 DEF TypeOK, Reply, Asks, WaiterLocks, WaiterIgnores, WaiterReads,
              WaiterReap
<1>3. \A j \in Procs : /\ proc'[j].state = "live" <=> proc[j].state = "live"
                       /\ proc[j].state = "live" => proc'[j].app = proc[j].app
  <2>1. proc' = proc \/ \E i \in Procs : WaiterReap(i)
    BY DEF Reply, Asks, WaiterLocks, WaiterIgnores, WaiterReads
  <2>2. QED
    BY <1>1, <2>1 DEF TypeOK, WaiterReap
<1>4. \A b \in Apps : PhaseOf(b)' = PhaseOf(b)
  BY <1>2, PhaseKept
<1>5. QED
  BY <1>3, <1>4, SamePhases, SameInstances DEF Unseen, Lifecycle!vars

LEMMA RefinesStep ==
    ASSUME Untroubled, Usual, Usual', [Next]_vars
    PROVE  [Lifecycle!Next]_(Lifecycle!vars)
<1>1. Step
  BY NextIsStep
<1>2. ~ServerRestart
  BY DEF Untroubled, ServerRestart, Usual
<1>3. ASSUME NEW t \in Threads, ThreadRuns(t)
      PROVE  Lifecycle!Next
  BY <1>3, StartRefines, StopSaveRefines DEF ThreadRuns
<1>4. ASSUME NEW i \in Procs, WaiterRuns(i)
      PROVE  Lifecycle!Next \/ Unseen
  BY <1>4, ExitSaveRefines, UnseenSteps DEF WaiterRuns
<1>5. Lifecycle!Next \/ Unseen
  BY <1>1, <1>2, <1>3, <1>4, LocksRefines, ExitRefines, UnseenSteps DEF Step
<1>6. QED
  BY <1>5 DEF Unseen

(* While the server lives, the table answers and no pid is reused, every   *)
(* step of StartApp, StopApp, DeleteApp and waitForExit, whatever they     *)
(* interleave, is one that the life cycle of an app allows, or none.       *)
THEOREM LifecycleImplemented ==
    MaxCrashes = 0 /\ MaxFaults = 0 /\ ~PidReuse => (Spec => ImplementsLifecycle)
<1> SUFFICES ASSUME Untroubled
             PROVE  Spec => ImplementsLifecycle
  BY DEF Untroubled
<1>1. IInv /\ RowInv => Usual
  BY InvUsual
<1>2. Usual /\ Usual' /\ [Next]_vars => [Lifecycle!Next]_(Lifecycle!vars)
  BY RefinesStep
<1>3. QED
  BY <1>1, <1>2, RefinesInit, RowInvariant, PTL
     DEF Spec, ImplementsLifecycle, Lifecycle!SafeSpec
=============================================================================
