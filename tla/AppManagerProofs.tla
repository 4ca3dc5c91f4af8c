-------------------------- MODULE AppManagerProofs --------------------------
(***************************************************************************)
(* Proofs about AppManager, for any number of apps, threads, processes,    *)
(* pids, crashes and faults.  IInv is inductive: one lemma per part shows  *)
(* that every step keeps it, with one case per action.                     *)
(***************************************************************************)
EXTENDS AppManager, TLAPS

(* A thread takes on a call: a request, or the second half of a restart.   *)
Asks(t, c) ==
    /\ pc[t] \notin Critical
    /\ pc' = [pc EXCEPT ![t] = "called"]
    /\ call' = [call EXCEPT ![t] = c]
    /\ UNCHANGED <<db, osVars, waiterVars, mu, snap, child, crashes, faults>>

(* The steps of the manager, by itself or under those who use it. *)
Step ==
    \/ \E t \in Threads : \/ \E c \in Call : Asks(t, c)
                          \/ ThreadLocks(t) \/ ThreadRuns(t) \/ Reply(t)
    \/ \E i \in Procs : WaiterLocks(i) \/ WaiterRuns(i) \/ ProcExit(i)
    \/ ServerRestart
    \/ UNCHANGED vars

LEMMA RequestAsks ==
    ASSUME NEW t \in Threads, NEW c, Request(t, c)
    PROVE  Asks(t, c)
  BY DEF Request, Asks, Critical

LEMMA NextIsStep == [Next]_vars => Step
  BY RequestAsks, ConstantsAssumption DEF Next, Step

LEMMA CallFacts ==
    ASSUME NEW c \in Call
    PROVE  c.app \in Apps /\ c.flag \in BOOLEAN
  BY DEF Call

LEMMA NoCallIsCall == NoCall \in Call
<1>1. (CHOOSE a \in Apps : TRUE) \in Apps
  BY ConstantsAssumption
<1>2. QED
  BY <1>1 DEF NoCall, Call

(* What a stop and a reported exit make of a record. *)
LEMMA RecordFacts ==
    ASSUME NEW r \in Record
    PROVE  /\ r.exposed \in BOOLEAN
           /\ StopRecord(r) \in Record
           /\ StopRecord(r).status = "STOPPED"
           /\ ExitRecord(r) \in Record
           /\ ExitRecord(r).status = IF r.status = "STOPPED" THEN "STOPPED"
                                                            ELSE "ERROR"
  BY DEF Record, Status, ExitRecord, StopRecord

(* What a start makes of the record it read. *)
LEMMA NewRecordFacts ==
    ASSUME NEW t, snap[t] \in Record \cup {NoRecord},
           NEW s \in Status, NEW p \in Pids \cup {NoPid}
    PROVE  /\ NewRecord(t, s, p) \in Record
           /\ NewRecord(t, s, p).status = s
           /\ NewRecord(t, s, p).pid = p
<1>1. Exposed(snap[t]) \in BOOLEAN
  BY RecordFacts DEF Exposed
<1>2. QED
  BY <1>1 DEF NewRecord, Record

(* The records the four critical sections are about to save. *)
LEMMA TypedRecords ==
    ASSUME Typed
    PROVE  /\ \A t \in Threads :
               /\ pc[t] = "exec" => NewRecord(t, "ERROR", NoPid) \in Record
               /\ pc[t] = "started" =>
                     NewRecord(t, "RUNNING", proc[child[t]].pid) \in Record
               /\ pc[t] = "stopping" =>
                     /\ StopRecord(snap[t]) \in Record
                     /\ ~IsRunning(StopRecord(snap[t]))
           /\ \A i \in Procs : waiter[i] = "recording" =>
               /\ ExitRecord(wsnap[i]) \in Record
               /\ ~IsRunning(ExitRecord(wsnap[i]))
<1> USE DEF Typed, Taken, TypeOK
<1>1. ASSUME NEW t \in Threads
      PROVE  NewRecord(t, "ERROR", NoPid) \in Record
  BY NewRecordFacts DEF Status
<1>2. ASSUME NEW t \in Threads, pc[t] = "started"
      PROVE  NewRecord(t, "RUNNING", proc[child[t]].pid) \in Record
  <2>1. child[t] \in Procs
    BY <1>2
  <2>2. proc[child[t]].pid \in Pids \cup {NoPid}
    BY <2>1
  <2>3. snap[t] \in Record \cup {NoRecord} /\ "RUNNING" \in Status
    BY DEF Status
  <2>4. QED
    BY <2>2, <2>3, NewRecordFacts
<1>3. ASSUME NEW t \in Threads, pc[t] = "stopping"
      PROVE  /\ StopRecord(snap[t]) \in Record
             /\ ~IsRunning(StopRecord(snap[t]))
  <2>1. snap[t] \in Record
    BY <1>3
  <2>2. QED
    BY <2>1, RecordFacts DEF IsRunning
<1>4. ASSUME NEW i \in Procs, waiter[i] = "recording"
      PROVE  /\ ExitRecord(wsnap[i]) \in Record
             /\ ~IsRunning(ExitRecord(wsnap[i]))
  <2>1. wsnap[i] \in Record
    BY <1>4
  <2>2. QED
    BY <2>1, RecordFacts DEF IsRunning
<1>5. QED
  BY <1>1, <1>2, <1>3, <1>4

LEMMA InvTyped == IInv => Typed
  BY DEF IInv, ControlInv

(* What an attempt to write or remove files leaves. *)
LEMMA DiskFacts ==
    ASSUME TypeOK, NEW a \in Apps
    PROVE  /\ WritesIngress(a) \/ RemovesIngress(a) \/ UNCHANGED <<conf, stray>> =>
                  conf' \in [Apps -> BOOLEAN] /\ stray' \subseteq Apps
           /\ RemovesDirectory(a) => deployed' \in [Apps -> BOOLEAN]
<1>1. ASSUME WritesIngress(a) \/ RemovesIngress(a) \/ UNCHANGED <<conf, stray>>
      PROVE  conf' \in [Apps -> BOOLEAN] /\ stray' \subseteq Apps
  BY <1>1 DEF TypeOK, WritesIngress, RemovesIngress
<1>2. ASSUME RemovesDirectory(a)
      PROVE  deployed' \in [Apps -> BOOLEAN]
  <2>1. deployed[a] \in BOOLEAN
    BY DEF TypeOK
  <2>2. PICK left \in BOOLEAN : deployed' = [deployed EXCEPT ![a] = left]
    BY <1>2, <2>1, Zenon DEF RemovesDirectory
  <2>3. QED
    BY <2>2 DEF TypeOK
<1>3. QED
  BY <1>1, <1>2

(* Every step keeps the types of what it changes. *)
LEMMA TypeStep == Typed /\ Step => TypeOK'
<1> SUFFICES ASSUME Typed, TypeOK, Step
             PROVE  TypeOK'
  BY DEF Typed
<1> USE ConstantsAssumption
        DEF TypeOK, vars, osVars, threadVars, waiterVars, Return, Locks
<1>1. ASSUME NEW t \in Threads, StartAlreadyRunning(t)
      PROVE  TypeOK'
  <2>1. pc' \in [Threads -> PC]
    BY <1>1 DEF StartAlreadyRunning, PC
  <2>2. QED
    BY <1>1, <2>1 DEF StartAlreadyRunning
<1>2. ASSUME NEW t \in Threads, StartPrepare(t)
      PROVE  TypeOK'
  <2>1. deployed' \in [Apps -> BOOLEAN]
    <3>1. deployed[call[t].app] \in BOOLEAN
      BY CallFacts
    <3>2. PICK bin \in BOOLEAN :
            deployed' = [deployed EXCEPT ![call[t].app] = bin]
      BY <1>2, <3>1, Zenon DEF StartPrepare
    <3>3. QED
      BY <3>2
  <2>2. conf' \in [Apps -> BOOLEAN] /\ stray' \subseteq Apps
    BY <1>2, CallFacts, DiskFacts DEF StartPrepare
  <2>3. snap' \in [Threads -> Record \cup {NoRecord}]
    BY <1>2, CallFacts DEF StartPrepare
  <2>4. pc' \in [Threads -> PC]
    BY <1>2 DEF StartPrepare, PC
  <2>5. faults' \in 0..MaxFaults
    BY <1>2 DEF StartPrepare, GetApp
  <2>6. QED
    BY <1>2, <2>1, <2>2, <2>3, <2>4, <2>5 DEF StartPrepare, GetApp
<1>3. ASSUME NEW t \in Threads, StartRefused(t)
      PROVE  TypeOK'
  <2>1. pc' \in [Threads -> PC]
    BY <1>3 DEF StartRefused, PC
  <2>2. faults' \in 0..MaxFaults
    BY <1>3 DEF StartRefused, GetApp
  <2>3. deployed' \in [Apps -> BOOLEAN]
    <3>1. /\ deployed[call[t].app] \in BOOLEAN
          /\ (deployed[call[t].app] \/ call[t].cmd # "none") \in BOOLEAN
      BY CallFacts
    <3>2. PICK bin \in BOOLEAN :
            deployed' = [deployed EXCEPT ![call[t].app] = bin]
      BY <1>3, <3>1, Zenon DEF StartRefused
    <3>3. QED
      BY <3>2
  <2>4. QED
    BY <1>3, <2>1, <2>2, <2>3 DEF StartRefused, GetApp
<1>4. ASSUME NEW t \in Threads, StopNothing(t)
      PROVE  TypeOK'
  <2>1. pc' \in [Threads -> PC]
    BY <1>4 DEF StopNothing, PC
  <2>2. faults' \in 0..MaxFaults
    BY <1>4 DEF StopNothing, GetApp
  <2>3. QED
    BY <1>4, <2>1, <2>2 DEF StopNothing, GetApp
<1>5. ASSUME NEW t \in Threads, StopSignal(t)
      PROVE  TypeOK'
  <2>1. proc' \in [Procs -> [state : ProcState, pid : Pids \cup {NoPid}, app : Apps]]
    BY <1>5 DEF StopSignal, ProcState, Signalled
  <2>2. conf' \in [Apps -> BOOLEAN] /\ stray' \subseteq Apps
    BY <1>5, CallFacts, DiskFacts DEF StopSignal
  <2>3. snap' \in [Threads -> Record \cup {NoRecord}]
    BY <1>5, CallFacts DEF StopSignal
  <2>4. pc' \in [Threads -> PC]
    BY <1>5 DEF StopSignal, PC
  <2>5. QED
    BY <1>5, <2>1, <2>2, <2>3, <2>4 DEF StopSignal, Signalled
<1>6. ASSUME NEW t \in Threads, DeleteUnknown(t)
      PROVE  TypeOK'
  <2>1. deployed' \in [Apps -> BOOLEAN]
    BY <1>6, CallFacts, DiskFacts DEF DeleteUnknown
  <2>2. pc' \in [Threads -> PC]
    BY <1>6 DEF DeleteUnknown, PC
  <2>3. faults' \in 0..MaxFaults
    BY <1>6 DEF DeleteUnknown, GetApp
  <2>4. QED
    BY <1>6, <2>1, <2>2, <2>3 DEF DeleteUnknown, GetApp
<1>7. ASSUME NEW t \in Threads, DeleteRemove(t)
      PROVE  TypeOK'
  <2>1. proc' \in [Procs -> [state : ProcState, pid : Pids \cup {NoPid}, app : Apps]]
    BY <1>7 DEF DeleteRemove, ProcState, Signalled
  <2>2. conf' \in [Apps -> BOOLEAN] /\ stray' \subseteq Apps
    BY <1>7, CallFacts, DiskFacts DEF DeleteRemove
  <2>3. deployed' \in [Apps -> BOOLEAN]
    BY <1>7, CallFacts, DiskFacts DEF DeleteRemove
  <2>4. pc' \in [Threads -> PC]
    BY <1>7 DEF DeleteRemove, PC
  <2>5. QED
    BY <1>7, <2>1, <2>2, <2>3, <2>4 DEF DeleteRemove, Signalled
<1>8. ASSUME NEW t \in Threads, NEW i \in Procs, NEW p \in Pids,
             StartExec(t, i, p)
      PROVE  TypeOK'
  <2>1. proc' \in [Procs -> [state : ProcState, pid : Pids \cup {NoPid}, app : Apps]]
    BY <1>8, CallFacts DEF StartExec, ProcState
  <2>2. waiter' \in [Procs -> WaiterState]
    BY <1>8 DEF StartExec, WaiterState
  <2>3. child' \in [Threads -> Procs \cup {NoProc}]
    BY <1>8 DEF StartExec
  <2>4. pc' \in [Threads -> PC]
    BY <1>8 DEF StartExec, PC
  <2>5. QED
    BY <1>8, <2>1, <2>2, <2>3, <2>4 DEF StartExec
<1>9. ASSUME NEW t \in Threads, StartExecFails(t)
      PROVE  TypeOK'
  <2>1. db' \in [Apps -> Record \cup {NoRecord}]
    BY <1>9, TypedRecords DEF StartExecFails, Saved, SaveFailed
  <2>2. pc' \in [Threads -> PC]
    BY <1>9 DEF StartExecFails, PC
  <2>3. faults' \in 0..MaxFaults
    BY <1>9 DEF StartExecFails, Saved, SaveFailed
  <2>4. QED
    BY <1>9, <2>1, <2>2, <2>3 DEF StartExecFails, Saved, SaveFailed
<1>10. ASSUME NEW t \in Threads, StartSave(t)
      PROVE  TypeOK'
  <2>1. db' \in [Apps -> Record \cup {NoRecord}]
    BY <1>10, TypedRecords DEF StartSave, Saved, SaveFailed
  <2>2. waiter' \in [Procs -> WaiterState]
    BY <1>10 DEF StartSave, WaiterState
  <2>3. pc' \in [Threads -> PC]
    BY <1>10 DEF StartSave, PC
  <2>4. faults' \in 0..MaxFaults
    BY <1>10 DEF StartSave, Saved, SaveFailed
  <2>5. QED
    BY <1>10, <2>1, <2>2, <2>3, <2>4 DEF StartSave, Saved, SaveFailed
<1>11. ASSUME NEW t \in Threads, StopSave(t)
      PROVE  TypeOK'
  <2>1. db' \in [Apps -> Record \cup {NoRecord}]
    BY <1>11, TypedRecords DEF StopSave, Saved, SaveFailed
  <2>2. pc' \in [Threads -> PC]
    BY <1>11 DEF StopSave, PC
  <2>3. faults' \in 0..MaxFaults
    BY <1>11 DEF StopSave, Saved, SaveFailed
  <2>4. QED
    BY <1>11, <2>1, <2>2, <2>3 DEF StopSave, Saved, SaveFailed
<1>12. ASSUME NEW t \in Threads, DeleteSave(t)
      PROVE  TypeOK'
  <2>1. db' \in [Apps -> Record \cup {NoRecord}]
    BY <1>12, TypedRecords DEF DeleteSave, Saved, SaveFailed
  <2>2. pc' \in [Threads -> PC]
    BY <1>12 DEF DeleteSave, PC
  <2>3. faults' \in 0..MaxFaults
    BY <1>12 DEF DeleteSave, Saved, SaveFailed
  <2>4. QED
    BY <1>12, <2>1, <2>2, <2>3 DEF DeleteSave, Saved, SaveFailed
<1>13. ASSUME NEW t \in Threads, Reply(t)
      PROVE  TypeOK'
  <2>1. pc' \in [Threads -> PC]
    BY <1>13 DEF Reply, PC
  <2>2. call' \in [Threads -> Call]
    BY <1>13, NoCallIsCall DEF Reply
  <2>3. snap' \in [Threads -> Record \cup {NoRecord}]
    BY <1>13, CallFacts DEF Reply
  <2>4. child' \in [Threads -> Procs \cup {NoProc}]
    BY <1>13 DEF Reply
  <2>5. QED
    BY <1>13, <2>1, <2>2, <2>3, <2>4 DEF Reply
<1>14. ASSUME NEW t \in Threads, NEW c \in Call, Asks(t, c)
      PROVE  TypeOK'
  <2>1. pc' \in [Threads -> PC]
    BY <1>14 DEF Asks, PC
  <2>2. call' \in [Threads -> Call]
    BY <1>14, NoCallIsCall DEF Asks
  <2>3. QED
    BY <1>14, <2>1, <2>2 DEF Asks
<1>15. ASSUME NEW i \in Procs, WaiterIgnores(i)
      PROVE  TypeOK'
  <2>1. waiter' \in [Procs -> WaiterState]
    BY <1>15 DEF WaiterIgnores, WaiterState
  <2>2. faults' \in 0..MaxFaults
    BY <1>15 DEF WaiterIgnores, GetApp
  <2>3. QED
    BY <1>15, <2>1, <2>2 DEF WaiterIgnores, GetApp
<1>16. ASSUME NEW i \in Procs, WaiterReads(i)
      PROVE  TypeOK'
  <2>1. wsnap' \in [Procs -> Record \cup {NoRecord}]
    BY <1>16, CallFacts DEF WaiterReads
  <2>2. waiter' \in [Procs -> WaiterState]
    BY <1>16 DEF WaiterReads, WaiterState
  <2>3. QED
    BY <1>16, <2>1, <2>2 DEF WaiterReads
<1>17. ASSUME NEW i \in Procs, WaiterReap(i)
      PROVE  TypeOK'
  <2>1. proc' \in [Procs -> [state : ProcState, pid : Pids \cup {NoPid}, app : Apps]]
    <3>1. proc[i] \in [state : ProcState, pid : Pids \cup {NoPid}, app : Apps]
      OBVIOUS
    <3>2. [proc[i] EXCEPT !.state = "gone"] \in
              [state : ProcState, pid : Pids \cup {NoPid}, app : Apps]
      BY <3>1 DEF ProcState
    <3>3. proc' = [proc EXCEPT ![i] = [proc[i] EXCEPT !.state = "gone"]]
      BY <1>17 DEF WaiterReap
    <3>4. QED
      BY <3>2, <3>3
  <2>2. waiter' \in [Procs -> WaiterState]
    BY <1>17 DEF WaiterReap, WaiterState
  <2>3. QED
    BY <1>17, <2>1, <2>2 DEF WaiterReap
<1>18. ASSUME NEW i \in Procs, WaiterSaves(i)
      PROVE  TypeOK'
  <2>1. db' \in [Apps -> Record \cup {NoRecord}]
    BY <1>18, TypedRecords DEF WaiterSaves, Saved, SaveFailed
  <2>2. waiter' \in [Procs -> WaiterState]
    BY <1>18 DEF WaiterSaves, WaiterState
  <2>3. wsnap' \in [Procs -> Record \cup {NoRecord}]
    BY <1>18, CallFacts DEF WaiterSaves
  <2>4. faults' \in 0..MaxFaults
    BY <1>18 DEF WaiterSaves, Saved, SaveFailed
  <2>5. QED
    BY <1>18, <2>1, <2>2, <2>3, <2>4 DEF WaiterSaves, Saved, SaveFailed
<1>19. ASSUME NEW i \in Procs, ProcExit(i)
      PROVE  TypeOK'
  <2>1. proc' \in [Procs -> [state : ProcState, pid : Pids \cup {NoPid}, app : Apps]]
    BY <1>19 DEF ProcExit, ProcState
  <2>2. QED
    BY <1>19, <2>1 DEF ProcExit
<1>20. ASSUME ServerRestart
      PROVE  TypeOK'
  <2>1. proc' \in [Procs -> [state : ProcState, pid : Pids \cup {NoPid}, app : Apps]]
    BY <1>20 DEF ServerRestart, ProcState
  <2>2. waiter' \in [Procs -> WaiterState]
    BY <1>20 DEF ServerRestart, WaiterState
  <2>3. wsnap' \in [Procs -> Record \cup {NoRecord}]
    BY <1>20, CallFacts DEF ServerRestart
  <2>4. pc' \in [Threads -> PC]
    BY <1>20 DEF ServerRestart, PC
  <2>5. call' \in [Threads -> Call]
    BY <1>20, NoCallIsCall DEF ServerRestart
  <2>6. snap' \in [Threads -> Record \cup {NoRecord}]
    BY <1>20, CallFacts DEF ServerRestart
  <2>7. child' \in [Threads -> Procs \cup {NoProc}]
    BY <1>20 DEF ServerRestart
  <2>8. crashes' \in 0..MaxCrashes
    BY <1>20 DEF ServerRestart
  <2>9. QED
    BY <1>20, <2>1, <2>2, <2>3, <2>4, <2>5, <2>6, <2>7, <2>8 DEF ServerRestart
<1>21. CASE UNCHANGED vars
  BY <1>21
<1>22. QED
  BY <1>1, <1>2, <1>3, <1>4, <1>5, <1>6, <1>7, <1>8, <1>9, <1>10, <1>11, <1>12,
     <1>13, <1>14, <1>15, <1>16, <1>17, <1>18, <1>19, <1>20, <1>21
     DEF Step, ThreadLocks, ThreadRuns, WaiterLocks, WaiterRuns

(* What the types rest on is taken by the steps that enter "started",      *)
(* "stopping" and "recording", and kept until these are left.              *)
LEMMA TypedStep == Typed /\ Step => Typed'
<1> SUFFICES ASSUME Typed, Step
             PROVE  Typed'
  OBVIOUS
<1>1. TypeOK'
  BY TypeStep
<1>2. ASSUME NEW t \in Threads
      PROVE  /\ pc'[t] = "started" => child'[t] \in Procs
             /\ pc'[t] = "stopping" => snap'[t] # NoRecord
  <2> USE DEF Typed, Taken, TypeOK, vars, osVars, threadVars, waiterVars, Return,
              Locks
  <2>1. ASSUME NEW u \in Threads, ThreadLocks(u)
        PROVE  /\ pc'[t] = "started" => child'[t] \in Procs
               /\ pc'[t] = "stopping" => snap'[t] # NoRecord
    <3>1. CASE StartPrepare(u)
      BY <3>1 DEF StartPrepare
    <3>2. CASE StopSignal(u)
      BY <3>2 DEF StopSignal
    <3>3. CASE DeleteRemove(u)
      BY <3>3 DEF DeleteRemove
    <3>4. CASE StartAlreadyRunning(u) \/ StartRefused(u)
      BY <3>4 DEF StartAlreadyRunning, StartRefused
    <3>5. CASE StopNothing(u) \/ DeleteUnknown(u)
      BY <3>5 DEF StopNothing, DeleteUnknown
    <3>6. QED
      BY <2>1, <3>1, <3>2, <3>3, <3>4, <3>5 DEF ThreadLocks
  <2>2. CASE \E u \in Threads : ThreadRuns(u)
    BY <2>2 DEF ThreadRuns, StartExec, StartExecFails, StartSave, StopSave,
                DeleteSave
  <2>3. CASE \E u \in Threads : Reply(u) \/ \E c \in Call : Asks(u, c)
    BY <2>3 DEF Reply, Asks
  <2>4. CASE \E i \in Procs : WaiterLocks(i) \/ WaiterRuns(i) \/ ProcExit(i)
    BY <2>4 DEF WaiterLocks, WaiterIgnores, WaiterReads, WaiterRuns,
                WaiterReap, WaiterSaves, ProcExit
  <2>5. CASE ServerRestart
    BY <2>5 DEF ServerRestart
  <2>6. CASE UNCHANGED vars
    BY <2>6
  <2>7. QED
    BY <2>1, <2>2, <2>3, <2>4, <2>5, <2>6 DEF Step
<1>3. ASSUME NEW i \in Procs, waiter'[i] = "recording"
      PROVE  wsnap'[i] # NoRecord
  <2> USE <1>3 DEF Typed, Taken, TypeOK, vars, osVars, threadVars, waiterVars
  <2>1. CASE \E u \in Threads : ThreadLocks(u)
    BY <2>1 DEF ThreadLocks, StartAlreadyRunning, StartPrepare, StartRefused,
                StopNothing, StopSignal, DeleteUnknown, DeleteRemove
  <2>2. CASE \E u \in Threads : ThreadRuns(u)
    BY <2>2 DEF ThreadRuns, StartExec, StartExecFails, StartSave, StopSave,
                DeleteSave
  <2>3. CASE \E u \in Threads : Reply(u) \/ \E c \in Call : Asks(u, c)
    BY <2>3 DEF Reply, Asks
  <2>4. CASE \E j \in Procs : WaiterLocks(j) \/ WaiterRuns(j) \/ ProcExit(j)
    BY <2>4 DEF WaiterLocks, WaiterIgnores, WaiterReads, StillActive,
                WaiterRuns, WaiterReap, WaiterSaves, ProcExit
  <2>5. CASE ServerRestart
    BY <2>5 DEF ServerRestart
  <2>6. CASE UNCHANGED vars
    BY <2>6
  <2>7. QED
    BY <2>1, <2>2, <2>3, <2>4, <2>5, <2>6 DEF Step
<1>4. QED
  BY <1>1, <1>2, <1>3 DEF Typed, Taken

(* The lock is taken and given back together with the critical section. *)
LEMMA LockStep == TypeOK /\ LockInv /\ Step => LockInv'
<1> SUFFICES ASSUME TypeOK, LockInv, Step
             PROVE  LockInv'
  OBVIOUS
<1> USE ConstantsAssumption, CallFacts
        DEF TypeOK, LockInv, Critical, vars, osVars, threadVars, waiterVars,
            Return, Locks, Saved, SaveFailed, GetApp
<1>1. ASSUME NEW t \in Threads, StartAlreadyRunning(t) PROVE LockInv'
  BY <1>1 DEF StartAlreadyRunning
<1>2. ASSUME NEW t \in Threads, StartPrepare(t) PROVE LockInv'
  BY <1>2 DEF StartPrepare
<1>3. ASSUME NEW t \in Threads, StartRefused(t) PROVE LockInv'
  BY <1>3 DEF StartRefused
<1>4. ASSUME NEW t \in Threads, StopNothing(t) PROVE LockInv'
  BY <1>4 DEF StopNothing
<1>5. ASSUME NEW t \in Threads, StopSignal(t) PROVE LockInv'
  BY <1>5 DEF StopSignal
<1>6. ASSUME NEW t \in Threads, DeleteUnknown(t) PROVE LockInv'
  BY <1>6 DEF DeleteUnknown
<1>7. ASSUME NEW t \in Threads, DeleteRemove(t) PROVE LockInv'
  BY <1>7 DEF DeleteRemove
<1>8. ASSUME NEW t \in Threads, NEW i \in Procs, NEW p \in Pids,
             StartExec(t, i, p)
      PROVE  LockInv'
  BY <1>8 DEF StartExec
<1>9. ASSUME NEW t \in Threads, StartExecFails(t) PROVE LockInv'
  BY <1>9 DEF StartExecFails
<1>10. ASSUME NEW t \in Threads, StartSave(t) PROVE LockInv'
  BY <1>10 DEF StartSave
<1>11. ASSUME NEW t \in Threads, StopSave(t) PROVE LockInv'
  BY <1>11 DEF StopSave
<1>12. ASSUME NEW t \in Threads, DeleteSave(t) PROVE LockInv'
  BY <1>12 DEF DeleteSave
<1>13. ASSUME NEW t \in Threads, Reply(t) PROVE LockInv'
  BY <1>13 DEF Reply
<1>14. ASSUME NEW t \in Threads, NEW c \in Call, Asks(t, c)
      PROVE  LockInv'
  BY <1>14 DEF Asks
<1>15. ASSUME NEW i \in Procs, WaiterIgnores(i) PROVE LockInv'
  BY <1>15 DEF WaiterIgnores
<1>16. ASSUME NEW i \in Procs, WaiterReads(i) PROVE LockInv'
  BY <1>16 DEF WaiterReads
<1>17. ASSUME NEW i \in Procs, WaiterReap(i) PROVE LockInv'
  BY <1>17 DEF WaiterReap
<1>18. ASSUME NEW i \in Procs, WaiterSaves(i) PROVE LockInv'
  BY <1>18 DEF WaiterSaves
<1>19. ASSUME NEW i \in Procs, ProcExit(i) PROVE LockInv'
  BY <1>19 DEF ProcExit
<1>20. ASSUME ServerRestart PROVE LockInv'
  BY <1>20 DEF ServerRestart
<1>21. CASE UNCHANGED vars
  BY <1>21
<1>22. QED
  BY <1>1, <1>2, <1>3, <1>4, <1>5, <1>6, <1>7, <1>8, <1>9, <1>10, <1>11, <1>12,
     <1>13, <1>14, <1>15, <1>16, <1>17, <1>18, <1>19, <1>20, <1>21
     DEF Step, ThreadLocks, ThreadRuns, WaiterLocks, WaiterRuns

(* Nobody writes the table while another is in its critical section. *)
LEMMA SnapStep == IInv /\ Step => SnapInv'
<1> SUFFICES ASSUME IInv, Step
             PROVE  SnapInv'
  OBVIOUS
<1> USE ConstantsAssumption, CallFacts
        DEF IInv, ControlInv, Typed, TypeOK, LockInv, Critical, SnapInv, ProcInv, StillActive,
            Signalled, vars, osVars, threadVars, waiterVars,
            Return, Locks, Saved, SaveFailed, GetApp
<1>1. ASSUME NEW t \in Threads, StartAlreadyRunning(t) PROVE SnapInv'
  BY <1>1 DEF StartAlreadyRunning
<1>2. ASSUME NEW t \in Threads, StartPrepare(t) PROVE SnapInv'
  BY <1>2 DEF StartPrepare
<1>3. ASSUME NEW t \in Threads, StartRefused(t) PROVE SnapInv'
  BY <1>3 DEF StartRefused
<1>4. ASSUME NEW t \in Threads, StopNothing(t) PROVE SnapInv'
  BY <1>4 DEF StopNothing
<1>5. ASSUME NEW t \in Threads, StopSignal(t) PROVE SnapInv'
  BY <1>5 DEF StopSignal
<1>6. ASSUME NEW t \in Threads, DeleteUnknown(t) PROVE SnapInv'
  BY <1>6 DEF DeleteUnknown
<1>7. ASSUME NEW t \in Threads, DeleteRemove(t) PROVE SnapInv'
  <2>1. /\ \A s \in Threads : pc[s] \notin Critical
        /\ \A j \in Procs : waiter[j] # "recording"
    BY <1>7 DEF DeleteRemove
  <2>2. \A s \in Threads : pc'[s] \in Critical => s = t /\ pc'[s] = "deleting"
    BY <1>7, <2>1 DEF DeleteRemove
  <2>3. conf'[call'[t].app] => call'[t].app \in stray'
    BY <1>7 DEF DeleteRemove, RemovesIngress
  <2>4. \A j \in Procs : waiter'[j] # "recording"
    BY <1>7, <2>1 DEF DeleteRemove
  <2>5. QED
    BY <2>2, <2>3, <2>4
<1>8. ASSUME NEW t \in Threads, NEW i \in Procs, NEW p \in Pids,
             StartExec(t, i, p)
      PROVE  SnapInv'
  BY <1>8 DEF StartExec
<1>9. ASSUME NEW t \in Threads, StartExecFails(t) PROVE SnapInv'
  BY <1>9 DEF StartExecFails
<1>10. ASSUME NEW t \in Threads, StartSave(t) PROVE SnapInv'
  BY <1>10 DEF StartSave
<1>11. ASSUME NEW t \in Threads, StopSave(t) PROVE SnapInv'
  BY <1>11 DEF StopSave
<1>12. ASSUME NEW t \in Threads, DeleteSave(t) PROVE SnapInv'
  BY <1>12 DEF DeleteSave
<1>13. ASSUME NEW t \in Threads, Reply(t) PROVE SnapInv'
  BY <1>13 DEF Reply
<1>14. ASSUME NEW t \in Threads, NEW c \in Call, Asks(t, c)
      PROVE  SnapInv'
  BY <1>14 DEF Asks
<1>15. ASSUME NEW i \in Procs, WaiterIgnores(i) PROVE SnapInv'
  BY <1>15 DEF WaiterIgnores
<1>16. ASSUME NEW i \in Procs, WaiterReads(i) PROVE SnapInv'
  BY <1>16 DEF WaiterReads
<1>17. ASSUME NEW i \in Procs, WaiterReap(i) PROVE SnapInv'
  BY <1>17 DEF WaiterReap
<1>18. ASSUME NEW i \in Procs, WaiterSaves(i) PROVE SnapInv'
  BY <1>18 DEF WaiterSaves
<1>19. ASSUME NEW i \in Procs, ProcExit(i) PROVE SnapInv'
  BY <1>19 DEF ProcExit
<1>20. ASSUME ServerRestart PROVE SnapInv'
  BY <1>20 DEF ServerRestart
<1>21. CASE UNCHANGED vars
  BY <1>21
<1>22. QED
  BY <1>1, <1>2, <1>3, <1>4, <1>5, <1>6, <1>7, <1>8, <1>9, <1>10, <1>11, <1>12,
     <1>13, <1>14, <1>15, <1>16, <1>17, <1>18, <1>19, <1>20, <1>21
     DEF Step, ThreadLocks, ThreadRuns, WaiterLocks, WaiterRuns

(* Pids stay unique, goroutines and process states in step. *)
LEMMA ProcStep == TypeOK /\ ProcInv /\ ChildInv /\ Step => ProcInv'
<1> SUFFICES ASSUME TypeOK, ProcInv, ChildInv, Step
             PROVE  ProcInv'
  OBVIOUS
<1> USE ConstantsAssumption, CallFacts
        DEF TypeOK, ProcInv, Signalled, FreshPid, Running,
            vars, osVars, threadVars, waiterVars,
            Return, Locks, Saved, SaveFailed, GetApp
<1>1. ASSUME NEW t \in Threads, StartAlreadyRunning(t) PROVE ProcInv'
  BY <1>1 DEF StartAlreadyRunning
<1>2. ASSUME NEW t \in Threads, StartPrepare(t) PROVE ProcInv'
  BY <1>2 DEF StartPrepare
<1>3. ASSUME NEW t \in Threads, StartRefused(t) PROVE ProcInv'
  BY <1>3 DEF StartRefused
<1>4. ASSUME NEW t \in Threads, StopNothing(t) PROVE ProcInv'
  BY <1>4 DEF StopNothing
<1>5. ASSUME NEW t \in Threads, StopSignal(t) PROVE ProcInv'
  BY <1>5 DEF StopSignal
<1>6. ASSUME NEW t \in Threads, DeleteUnknown(t) PROVE ProcInv'
  BY <1>6 DEF DeleteUnknown
<1>7. ASSUME NEW t \in Threads, DeleteRemove(t) PROVE ProcInv'
  BY <1>7 DEF DeleteRemove
<1>8. ASSUME NEW t \in Threads, NEW i \in Procs, NEW p \in Pids,
             StartExec(t, i, p)
      PROVE  ProcInv'
  BY <1>8 DEF StartExec
<1>9. ASSUME NEW t \in Threads, StartExecFails(t) PROVE ProcInv'
  BY <1>9 DEF StartExecFails
<1>10. ASSUME NEW t \in Threads, StartSave(t) PROVE ProcInv'
  <2>1. child[t] \in Procs /\ waiter[child[t]] = "unborn"
    BY <1>10 DEF StartSave, ChildInv
  <2>2. QED
    BY <1>10, <2>1 DEF StartSave
<1>11. ASSUME NEW t \in Threads, StopSave(t) PROVE ProcInv'
  BY <1>11 DEF StopSave
<1>12. ASSUME NEW t \in Threads, DeleteSave(t) PROVE ProcInv'
  BY <1>12 DEF DeleteSave
<1>13. ASSUME NEW t \in Threads, Reply(t) PROVE ProcInv'
  BY <1>13 DEF Reply
<1>14. ASSUME NEW t \in Threads, NEW c \in Call, Asks(t, c)
      PROVE  ProcInv'
  BY <1>14 DEF Asks
<1>15. ASSUME NEW i \in Procs, WaiterIgnores(i) PROVE ProcInv'
  BY <1>15 DEF WaiterIgnores
<1>16. ASSUME NEW i \in Procs, WaiterReads(i) PROVE ProcInv'
  BY <1>16 DEF WaiterReads
<1>17. ASSUME NEW i \in Procs, WaiterReap(i) PROVE ProcInv'
  BY <1>17 DEF WaiterReap
<1>18. ASSUME NEW i \in Procs, WaiterSaves(i) PROVE ProcInv'
  BY <1>18 DEF WaiterSaves
<1>19. ASSUME NEW i \in Procs, ProcExit(i) PROVE ProcInv'
  BY <1>19 DEF ProcExit
<1>20. ASSUME ServerRestart PROVE ProcInv'
  BY <1>20 DEF ServerRestart
<1>21. CASE UNCHANGED vars
  BY <1>21
<1>22. QED
  BY <1>1, <1>2, <1>3, <1>4, <1>5, <1>6, <1>7, <1>8, <1>9, <1>10, <1>11, <1>12,
     <1>13, <1>14, <1>15, <1>16, <1>17, <1>18, <1>19, <1>20, <1>21
     DEF Step, ThreadLocks, ThreadRuns, WaiterLocks, WaiterRuns

(* Only the call that started it knows a process that is not recorded. *)
LEMMA ChildStep == TypeOK /\ LockInv /\ ProcInv /\ ChildInv /\ Step => ChildInv'
<1> SUFFICES ASSUME TypeOK, LockInv, ProcInv, ChildInv, Step
             PROVE  ChildInv'
  OBVIOUS
<1> USE ConstantsAssumption, CallFacts
        DEF TypeOK, LockInv, Critical, ProcInv, ChildInv, Signalled,
            Running, vars, osVars, threadVars, waiterVars,
            Return, Locks, Saved, SaveFailed, GetApp
<1>1. ASSUME NEW t \in Threads, StartAlreadyRunning(t) PROVE ChildInv'
  BY <1>1 DEF StartAlreadyRunning
<1>2. ASSUME NEW t \in Threads, StartPrepare(t) PROVE ChildInv'
  BY <1>2 DEF StartPrepare
<1>3. ASSUME NEW t \in Threads, StartRefused(t) PROVE ChildInv'
  BY <1>3 DEF StartRefused
<1>4. ASSUME NEW t \in Threads, StopNothing(t) PROVE ChildInv'
  BY <1>4 DEF StopNothing
<1>5. ASSUME NEW t \in Threads, StopSignal(t) PROVE ChildInv'
  BY <1>5 DEF StopSignal
<1>6. ASSUME NEW t \in Threads, DeleteUnknown(t) PROVE ChildInv'
  BY <1>6 DEF DeleteUnknown
<1>7. ASSUME NEW t \in Threads, DeleteRemove(t) PROVE ChildInv'
  BY <1>7 DEF DeleteRemove
<1>8. ASSUME NEW t \in Threads, NEW i \in Procs, NEW p \in Pids,
             StartExec(t, i, p)
      PROVE  ChildInv'
  BY <1>8 DEF StartExec
<1>9. ASSUME NEW t \in Threads, StartExecFails(t) PROVE ChildInv'
  BY <1>9 DEF StartExecFails
<1>10. ASSUME NEW t \in Threads, StartSave(t) PROVE ChildInv'
  BY <1>10 DEF StartSave
<1>11. ASSUME NEW t \in Threads, StopSave(t) PROVE ChildInv'
  BY <1>11 DEF StopSave
<1>12. ASSUME NEW t \in Threads, DeleteSave(t) PROVE ChildInv'
  BY <1>12 DEF DeleteSave
<1>13. ASSUME NEW t \in Threads, Reply(t) PROVE ChildInv'
  BY <1>13 DEF Reply
<1>14. ASSUME NEW t \in Threads, NEW c \in Call, Asks(t, c)
      PROVE  ChildInv'
  BY <1>14 DEF Asks
<1>15. ASSUME NEW i \in Procs, WaiterIgnores(i) PROVE ChildInv'
  BY <1>15 DEF WaiterIgnores
<1>16. ASSUME NEW i \in Procs, WaiterReads(i) PROVE ChildInv'
  BY <1>16 DEF WaiterReads
<1>17. ASSUME NEW i \in Procs, WaiterReap(i) PROVE ChildInv'
  BY <1>17 DEF WaiterReap
<1>18. ASSUME NEW i \in Procs, WaiterSaves(i) PROVE ChildInv'
  BY <1>18 DEF WaiterSaves
<1>19. ASSUME NEW i \in Procs, ProcExit(i) PROVE ChildInv'
  BY <1>19 DEF ProcExit
<1>20. ASSUME ServerRestart PROVE ChildInv'
  BY <1>20 DEF ServerRestart
<1>21. CASE UNCHANGED vars
  BY <1>21
<1>22. QED
  BY <1>1, <1>2, <1>3, <1>4, <1>5, <1>6, <1>7, <1>8, <1>9, <1>10, <1>11, <1>12,
     <1>13, <1>14, <1>15, <1>16, <1>17, <1>18, <1>19, <1>20, <1>21
     DEF Step, ThreadLocks, ThreadRuns, WaiterLocks, WaiterRuns

(* What a call found out before it writes stays true until it does. *)
LEMMA CallStep ==
    ControlInv /\ CallInv /\ LiveIsRecorded /\ Step => CallInv'
<1> SUFFICES ASSUME ControlInv, CallInv, LiveIsRecorded, Step
             PROVE  CallInv'
  OBVIOUS
<1> USE ConstantsAssumption, CallFacts
        DEF ControlInv, Typed, TypeOK, LockInv, Critical, ProcInv, IsRunning,
            Recorded, Tracked, Signalled, Running, CallInv, LiveIsRecorded,
            StillActive, vars, osVars, threadVars, waiterVars,
            Return, Locks, Saved, SaveFailed, GetApp
<1>1. ASSUME NEW t \in Threads, StartAlreadyRunning(t) PROVE CallInv'
  BY <1>1 DEF StartAlreadyRunning
<1>2. ASSUME NEW t \in Threads, StartPrepare(t) PROVE CallInv'
  BY <1>2 DEF StartPrepare
<1>3. ASSUME NEW t \in Threads, StartRefused(t) PROVE CallInv'
  BY <1>3 DEF StartRefused
<1>4. ASSUME NEW t \in Threads, StopNothing(t) PROVE CallInv'
  BY <1>4 DEF StopNothing
<1>5. ASSUME NEW t \in Threads, StopSignal(t) PROVE CallInv'
  BY <1>5 DEF StopSignal
<1>6. ASSUME NEW t \in Threads, DeleteUnknown(t) PROVE CallInv'
  BY <1>6 DEF DeleteUnknown
<1>7. ASSUME NEW t \in Threads, DeleteRemove(t) PROVE CallInv'
  BY <1>7 DEF DeleteRemove
<1>8. ASSUME NEW t \in Threads, NEW i \in Procs, NEW p \in Pids,
             StartExec(t, i, p)
      PROVE  CallInv'
  BY <1>8 DEF StartExec
<1>9. ASSUME NEW t \in Threads, StartExecFails(t) PROVE CallInv'
  BY <1>9 DEF StartExecFails
<1>10. ASSUME NEW t \in Threads, StartSave(t) PROVE CallInv'
  BY <1>10 DEF StartSave
<1>11. ASSUME NEW t \in Threads, StopSave(t) PROVE CallInv'
  BY <1>11 DEF StopSave
<1>12. ASSUME NEW t \in Threads, DeleteSave(t) PROVE CallInv'
  BY <1>12 DEF DeleteSave
<1>13. ASSUME NEW t \in Threads, Reply(t) PROVE CallInv'
  BY <1>13 DEF Reply
<1>14. ASSUME NEW t \in Threads, NEW c \in Call, Asks(t, c)
      PROVE  CallInv'
  BY <1>14 DEF Asks
<1>15. ASSUME NEW i \in Procs, WaiterIgnores(i) PROVE CallInv'
  BY <1>15 DEF WaiterIgnores
<1>16. ASSUME NEW i \in Procs, WaiterReads(i) PROVE CallInv'
  BY <1>16 DEF WaiterReads
<1>17. ASSUME NEW i \in Procs, WaiterReap(i) PROVE CallInv'
  BY <1>17 DEF WaiterReap
<1>18. ASSUME NEW i \in Procs, WaiterSaves(i) PROVE CallInv'
  BY <1>18 DEF WaiterSaves
<1>19. ASSUME NEW i \in Procs, ProcExit(i) PROVE CallInv'
  BY <1>19 DEF ProcExit
<1>20. ASSUME ServerRestart PROVE CallInv'
  BY <1>20 DEF ServerRestart
<1>21. CASE UNCHANGED vars
  BY <1>21
<1>22. QED
  BY <1>1, <1>2, <1>3, <1>4, <1>5, <1>6, <1>7, <1>8, <1>9, <1>10, <1>11, <1>12,
     <1>13, <1>14, <1>15, <1>16, <1>17, <1>18, <1>19, <1>20, <1>21
     DEF Step, ThreadLocks, ThreadRuns, WaiterLocks, WaiterRuns

(* No step takes a live, recorded process out of the table. *)
LEMMA LiveStep ==
    ControlInv /\ CallInv /\ LiveIsRecorded /\ Step => LiveIsRecorded'
<1> SUFFICES ASSUME ControlInv, CallInv, LiveIsRecorded, Step
             PROVE  LiveIsRecorded'
  OBVIOUS
<1> USE ConstantsAssumption, CallFacts
        DEF ControlInv, Typed, TypeOK, LockInv, Critical, ProcInv, IsRunning,
            Recorded, Tracked, Signalled, Running, CallInv, LiveIsRecorded,
            StillActive, vars, osVars, threadVars, waiterVars,
            Return, Locks, Saved, SaveFailed, GetApp
<1>1. ASSUME NEW t \in Threads, StartAlreadyRunning(t) PROVE LiveIsRecorded'
  BY <1>1 DEF StartAlreadyRunning
<1>2. ASSUME NEW t \in Threads, StartPrepare(t) PROVE LiveIsRecorded'
  BY <1>2 DEF StartPrepare
<1>3. ASSUME NEW t \in Threads, StartRefused(t) PROVE LiveIsRecorded'
  BY <1>3 DEF StartRefused
<1>4. ASSUME NEW t \in Threads, StopNothing(t) PROVE LiveIsRecorded'
  BY <1>4 DEF StopNothing
<1>5. ASSUME NEW t \in Threads, StopSignal(t) PROVE LiveIsRecorded'
  BY <1>5 DEF StopSignal
<1>6. ASSUME NEW t \in Threads, DeleteUnknown(t) PROVE LiveIsRecorded'
  BY <1>6 DEF DeleteUnknown
<1>7. ASSUME NEW t \in Threads, DeleteRemove(t) PROVE LiveIsRecorded'
  BY <1>7 DEF DeleteRemove
<1>8. ASSUME NEW t \in Threads, NEW i \in Procs, NEW p \in Pids,
             StartExec(t, i, p)
      PROVE  LiveIsRecorded'
  BY <1>8 DEF StartExec
<1>9. ASSUME NEW t \in Threads, StartExecFails(t) PROVE LiveIsRecorded'
  BY <1>9 DEF StartExecFails
<1>10. ASSUME NEW t \in Threads, StartSave(t) PROVE LiveIsRecorded'
  <2> DEFINE a == call[t].app
             new == NewRecord(t, "RUNNING", proc[child[t]].pid)
  <2> SUFFICES ASSUME faults' = 0, ~PidReuse, NEW j \in Procs, Tracked(j)'
               PROVE  Recorded(j)'
    OBVIOUS
  <2>1. /\ child[t] \in Procs
        /\ waiter[child[t]] = "unborn"
        /\ proc[child[t]].app = a
    BY <1>10 DEF StartSave, ChildInv
  <2>2. faults = 0 /\ db' = [db EXCEPT ![a] = new]
    BY <1>10 DEF StartSave
  <2>3. new # NoRecord /\ IsRunning(new) /\ new.pid = proc[child[t]].pid
    <3>1. new \in Record
      BY <1>10, TypedRecords DEF StartSave
    <3>2. new.status = "RUNNING" /\ new.pid = proc[child[t]].pid
      BY DEF NewRecord
    <3>3. QED
      BY <3>1, <3>2
  <2>4. a \in Apps
    OBVIOUS
  <2>5. CASE j = child[t]
    BY <1>10, <2>1, <2>2, <2>3, <2>4, <2>5 DEF StartSave
  <2>6. CASE j # child[t]
    <3>1. Tracked(j)
      BY <1>10, <2>1, <2>6 DEF StartSave
    <3>2. Recorded(j)
      BY <2>2, <3>1
    <3>3. proc[j].app # a
      BY <1>10, <2>2, <3>1 DEF StartSave
    <3>4. QED
      BY <1>10, <2>2, <3>2, <3>3 DEF StartSave
  <2>7. QED
    BY <2>5, <2>6
<1>11. ASSUME NEW t \in Threads, StopSave(t) PROVE LiveIsRecorded'
  BY <1>11 DEF StopSave
<1>12. ASSUME NEW t \in Threads, DeleteSave(t) PROVE LiveIsRecorded'
  BY <1>12 DEF DeleteSave
<1>13. ASSUME NEW t \in Threads, Reply(t) PROVE LiveIsRecorded'
  BY <1>13 DEF Reply
<1>14. ASSUME NEW t \in Threads, NEW c \in Call, Asks(t, c)
      PROVE  LiveIsRecorded'
  BY <1>14 DEF Asks
<1>15. ASSUME NEW i \in Procs, WaiterIgnores(i) PROVE LiveIsRecorded'
  BY <1>15 DEF WaiterIgnores
<1>16. ASSUME NEW i \in Procs, WaiterReads(i) PROVE LiveIsRecorded'
  BY <1>16 DEF WaiterReads
<1>17. ASSUME NEW i \in Procs, WaiterReap(i) PROVE LiveIsRecorded'
  BY <1>17 DEF WaiterReap
<1>18. ASSUME NEW i \in Procs, WaiterSaves(i) PROVE LiveIsRecorded'
  BY <1>18 DEF WaiterSaves
<1>19. ASSUME NEW i \in Procs, ProcExit(i) PROVE LiveIsRecorded'
  BY <1>19 DEF ProcExit
<1>20. ASSUME ServerRestart PROVE LiveIsRecorded'
  BY <1>20 DEF ServerRestart
<1>21. CASE UNCHANGED vars
  BY <1>21
<1>22. QED
  BY <1>1, <1>2, <1>3, <1>4, <1>5, <1>6, <1>7, <1>8, <1>9, <1>10, <1>11, <1>12,
     <1>13, <1>14, <1>15, <1>16, <1>17, <1>18, <1>19, <1>20, <1>21
     DEF Step, ThreadLocks, ThreadRuns, WaiterLocks, WaiterRuns

(* The process that lets a RUNNING record be. *)
Keeps(i, a) ==
    /\ proc[i].app = a
    /\ (Attended(i) /\ Recorded(i)) \/ waiter[i] = "unborn"

(* A RUNNING record keeps a process that is attended or to be recorded. *)
LEMMA HasProcessStep ==
    ControlInv /\ RunningHasProcess /\ Step => RunningHasProcess'
<1> SUFFICES ASSUME ControlInv, RunningHasProcess, Step,
                    crashes' = 0, faults' = 0, ~PidReuse,
                    NEW b \in Apps, IsRunning(db'[b])
             PROVE  \E j \in Procs : Keeps(j, b)'
  BY DEF RunningHasProcess, Keeps
<1> DEFINE Goal == \E j \in Procs : Keeps(j, b)'
<1> USE ConstantsAssumption, CallFacts
        DEF ControlInv, Typed, TypeOK, LockInv, Critical, ProcInv, Recorded,
            Signalled, Running, Keeps, Attended, StillActive,
            vars, osVars, threadVars, waiterVars, Return, Locks, GetApp
<1>0. ASSUME crashes = 0, faults = 0, db'[b] = db[b]
      PROVE  \E j \in Procs : Keeps(j, b)
  BY <1>0 DEF RunningHasProcess
<1>1. ASSUME NEW t \in Threads, StartAlreadyRunning(t) PROVE Goal
  BY <1>0, <1>1 DEF StartAlreadyRunning
<1>2. ASSUME NEW t \in Threads, StartPrepare(t) PROVE Goal
  BY <1>0, <1>2 DEF StartPrepare
<1>3. ASSUME NEW t \in Threads, StartRefused(t) PROVE Goal
  BY <1>0, <1>3 DEF StartRefused
<1>4. ASSUME NEW t \in Threads, StopNothing(t) PROVE Goal
  BY <1>0, <1>4 DEF StopNothing
<1>5. ASSUME NEW t \in Threads, StopSignal(t) PROVE Goal
  BY <1>0, <1>5 DEF StopSignal
<1>6. ASSUME NEW t \in Threads, DeleteUnknown(t) PROVE Goal
  BY <1>0, <1>6 DEF DeleteUnknown
<1>7. ASSUME NEW t \in Threads, DeleteRemove(t) PROVE Goal
  BY <1>0, <1>7 DEF DeleteRemove
<1>8. ASSUME NEW t \in Threads, NEW i \in Procs, NEW p \in Pids,
             StartExec(t, i, p)
      PROVE  Goal
  BY <1>0, <1>8 DEF StartExec
<1>9. ASSUME NEW t \in Threads, StartExecFails(t) PROVE Goal
  <2> DEFINE a == call[t].app
  <2>1. crashes = 0 /\ faults = 0 /\ db' = [db EXCEPT ![a] = NewRecord(t, "ERROR", NoPid)]
    BY <1>9 DEF StartExecFails, Saved, SaveFailed
  <2>2. ~IsRunning(NewRecord(t, "ERROR", NoPid))
    BY <1>9 DEF NewRecord, IsRunning
  <2>3. b # a /\ db'[b] = db[b]
    BY <2>1, <2>2
  <2>4. PICK j \in Procs : Keeps(j, b)
    BY <1>0, <2>1, <2>3
  <2>5. Keeps(j, b)'
    BY <1>9, <2>3, <2>4 DEF StartExecFails
  <2>6. QED
    BY <2>5
<1>10. ASSUME NEW t \in Threads, StartSave(t) PROVE Goal
  <2> DEFINE a == call[t].app
             new == NewRecord(t, "RUNNING", proc[child[t]].pid)
  <2>1. crashes = 0 /\ faults = 0 /\ db' = [db EXCEPT ![a] = new]
    BY <1>10 DEF StartSave, Saved, SaveFailed
  <2>2. PICK k \in Procs : /\ k = child[t]
                          /\ waiter[k] = "unborn"
                          /\ proc[k].app = a
    BY <1>10 DEF StartSave, ChildInv
  <2>3. \A j \in Procs : waiter[j] = "unborn" => j = k
    BY <1>10, <2>2 DEF StartSave, ChildInv
  <2>4. CASE b = a
    <3>1. new.pid = proc[k].pid
      BY <2>2 DEF NewRecord
    <3>2. Attended(k)' /\ proc'[k].app = b
      BY <1>10, <2>2, <2>4 DEF StartSave
    <3>3. db'[b] = new
      BY <2>1, <2>4
    <3>4. Recorded(k)'
      BY <1>10, <2>4, <3>1, <3>2, <3>3 DEF StartSave
    <3>5. QED
      BY <2>2, <3>2, <3>4
  <2>5. CASE b # a
    <3>1. db'[b] = db[b]
      BY <2>1, <2>5
    <3>2. PICK j \in Procs : Keeps(j, b)
      BY <1>0, <2>1, <3>1
    <3>3. proc[j].app = b /\ Attended(j) /\ Recorded(j)
      BY <2>2, <2>3, <2>5, <3>2
    <3>4. proc'[j].app = b /\ Attended(j)' /\ Recorded(j)'
      BY <1>10, <2>2, <2>5, <3>1, <3>3 DEF StartSave
    <3>5. QED
      BY <3>4
  <2>6. QED
    BY <2>4, <2>5
<1>11. ASSUME NEW t \in Threads, StopSave(t) PROVE Goal
  <2> DEFINE a == call[t].app
  <2>1. crashes = 0 /\ faults = 0 /\ db' = [db EXCEPT ![a] = StopRecord(snap[t])]
    BY <1>11 DEF StopSave, Saved, SaveFailed
  <2>2. ~IsRunning(StopRecord(snap[t]))
    BY <1>11, TypedRecords DEF StopSave
  <2>3. b # a /\ db'[b] = db[b]
    BY <2>1, <2>2
  <2>4. PICK j \in Procs : Keeps(j, b)
    BY <1>0, <2>1, <2>3
  <2>5. Keeps(j, b)'
    BY <1>11, <2>3, <2>4 DEF StopSave
  <2>6. QED
    BY <2>5
<1>12. ASSUME NEW t \in Threads, DeleteSave(t) PROVE Goal
  <2> DEFINE a == call[t].app
  <2>1. crashes = 0 /\ faults = 0 /\ db' = [db EXCEPT ![a] = NoRecord]
    BY <1>12 DEF DeleteSave, Saved, SaveFailed
  <2>2. ~IsRunning(NoRecord)
    BY <1>12 DEF IsRunning
  <2>3. b # a /\ db'[b] = db[b]
    BY <2>1, <2>2
  <2>4. PICK j \in Procs : Keeps(j, b)
    BY <1>0, <2>1, <2>3
  <2>5. Keeps(j, b)'
    BY <1>12, <2>3, <2>4 DEF DeleteSave
  <2>6. QED
    BY <2>5
<1>13. ASSUME NEW t \in Threads, Reply(t) PROVE Goal
  BY <1>0, <1>13 DEF Reply
<1>14. ASSUME NEW t \in Threads, NEW c \in Call, Asks(t, c) PROVE Goal
  BY <1>0, <1>14 DEF Asks
<1>15. ASSUME NEW i \in Procs, WaiterIgnores(i) PROVE Goal
  <2>1. ~Recorded(i) /\ waiter[i] = "reaped" /\ crashes = 0 /\ faults = 0
    BY <1>15 DEF WaiterIgnores, IsRunning
  <2>2. PICK j \in Procs : Keeps(j, b)
    BY <1>0, <1>15, <2>1 DEF WaiterIgnores
  <2>3. j # i
    BY <2>1, <2>2
  <2>4. QED
    BY <1>15, <2>2, <2>3 DEF WaiterIgnores
<1>16. ASSUME NEW i \in Procs, WaiterReads(i) PROVE Goal
  BY <1>0, <1>16 DEF WaiterReads
<1>17. ASSUME NEW i \in Procs, WaiterReap(i) PROVE Goal
  BY <1>0, <1>17 DEF WaiterReap
<1>18. ASSUME NEW i \in Procs, WaiterSaves(i) PROVE Goal
  <2> DEFINE a == proc[i].app
  <2>1. crashes = 0 /\ faults = 0 /\ db' = [db EXCEPT ![a] = ExitRecord(wsnap[i])]
    BY <1>18 DEF WaiterSaves, Saved, SaveFailed
  <2>2. ~IsRunning(ExitRecord(wsnap[i]))
    BY <1>18, TypedRecords DEF WaiterSaves
  <2>3. b # a /\ db'[b] = db[b]
    BY <2>1, <2>2
  <2>4. PICK j \in Procs : Keeps(j, b)
    BY <1>0, <2>1, <2>3
  <2>5. Keeps(j, b)'
    BY <1>18, <2>3, <2>4 DEF WaiterSaves
  <2>6. QED
    BY <2>5
<1>19. ASSUME NEW i \in Procs, ProcExit(i) PROVE Goal
  BY <1>0, <1>19 DEF ProcExit
<1>20. ASSUME ServerRestart PROVE Goal
  BY <1>20 DEF ServerRestart
<1>21. CASE UNCHANGED vars
  BY <1>0, <1>21
<1>22. QED
  BY <1>1, <1>2, <1>3, <1>4, <1>5, <1>6, <1>7, <1>8, <1>9, <1>10, <1>11, <1>12,
     <1>13, <1>14, <1>15, <1>16, <1>17, <1>18, <1>19, <1>20, <1>21
     DEF Step, ThreadLocks, ThreadRuns, WaiterLocks, WaiterRuns

(* Until its call records it, the app of a new process is not RUNNING. *)
LEMMA StartedStep ==
    ControlInv /\ CallInv /\ StartedInv /\ Step => StartedInv'
<1> SUFFICES ASSUME ControlInv, CallInv, StartedInv, Step,
                    faults' = 0, ~PidReuse,
                    NEW t \in Threads, pc'[t] = "started"
             PROVE  ~IsRunning(db'[call'[t].app])
  BY DEF StartedInv
<1> USE ConstantsAssumption
        DEF ControlInv, Typed, TypeOK, LockInv, Critical,
            vars, osVars, threadVars, waiterVars, Return, Locks
<1>1. ASSUME NEW u \in Threads, ThreadLocks(u)
      PROVE  ~IsRunning(db'[call'[t].app])
  <2>1. pc[t] # "started" /\ pc[u] = "called"
    BY <1>1 DEF ThreadLocks, StartAlreadyRunning, StartPrepare, StartRefused,
                StopNothing, StopSignal, DeleteUnknown, DeleteRemove
  <2>2. CASE StartPrepare(u)
    BY <2>1, <2>2 DEF StartPrepare
  <2>3. CASE StopSignal(u) \/ DeleteRemove(u)
    BY <2>1, <2>3 DEF StopSignal, DeleteRemove
  <2>4. CASE StartAlreadyRunning(u) \/ StartRefused(u)
    BY <2>1, <2>4 DEF StartAlreadyRunning, StartRefused
  <2>5. CASE StopNothing(u) \/ DeleteUnknown(u)
    BY <2>1, <2>5 DEF StopNothing, DeleteUnknown
  <2>6. QED
    BY <1>1, <2>2, <2>3, <2>4, <2>5 DEF ThreadLocks
<1>2. ASSUME NEW u \in Threads, NEW i \in Procs, NEW p \in Pids,
             StartExec(u, i, p)
      PROVE  ~IsRunning(db'[call'[t].app])
  BY <1>2 DEF StartExec, CallInv
<1>3. ASSUME NEW u \in Threads,
             StartExecFails(u) \/ StartSave(u) \/ StopSave(u) \/ DeleteSave(u)
      PROVE  ~IsRunning(db'[call'[t].app])
  <2>1. pc[u] \in Critical /\ pc'[u] # "started"
    BY <1>3 DEF StartExecFails, StartSave, StopSave, DeleteSave
  <2>2. t # u /\ pc'[t] = pc[t]
    BY <1>3, <2>1 DEF StartExecFails, StartSave, StopSave, DeleteSave
  <2>3. QED
    BY <2>1, <2>2
<1>4. CASE \E u \in Threads : Reply(u) \/ \E c \in Call : Asks(u, c)
  BY <1>4 DEF Reply, Asks, StartedInv
<1>5. ASSUME NEW i \in Procs, WaiterLocks(i) \/ WaiterReap(i) \/ ProcExit(i)
      PROVE  ~IsRunning(db'[call'[t].app])
  BY <1>5 DEF WaiterLocks, WaiterIgnores, WaiterReads, WaiterReap, ProcExit,
              StartedInv, GetApp
<1>6. ASSUME NEW i \in Procs, WaiterSaves(i)
      PROVE  ~IsRunning(db'[call'[t].app])
  BY <1>6 DEF WaiterSaves
<1>7. CASE ServerRestart
  BY <1>7 DEF ServerRestart
<1>8. CASE UNCHANGED vars
  BY <1>8 DEF StartedInv
<1>9. QED
  BY <1>1, <1>2, <1>3, <1>4, <1>5, <1>6, <1>7, <1>8
     DEF Step, ThreadRuns, WaiterRuns

LEMMA ControlStep == ControlInv /\ Step => ControlInv'
  BY TypedStep, LockStep, ProcStep, ChildStep DEF ControlInv, Typed

LEMMA LifeStep == ControlInv /\ LifeInv /\ Step => LifeInv'
  BY CallStep, LiveStep, HasProcessStep DEF LifeInv

(* A row that is saved keeps port and domain, unless the read failed that  *)
(* it comes from.                                                          *)
LEMMA SaveKeepsIngress ==
    ASSUME TypeOK, IngressHasRecord, NEW a \in Apps, NEW r \in Record,
           faults = 0 /\ Exposed(db[a]) => r.exposed,
           Saved(a, r) \/ SaveFailed, UNCHANGED <<conf, stray>>
    PROVE  IngressHasRecord'
<1> USE ConstantsAssumption DEF TypeOK
<1>1. CASE SaveFailed
  BY <1>1 DEF SaveFailed, IngressHasRecord
<1>2. CASE Saved(a, r)
  <2>1. r # NoRecord /\ db' = [db EXCEPT ![a] = r] /\ faults' = faults
    BY <1>2 DEF Saved
  <2>2. QED
    BY <2>1 DEF IngressHasRecord, Exposed
<1>3. QED
  BY <1>1, <1>2

(* The row goes only after the ingress file, or what a failing removal left. *)
LEMMA IngressStep == IInv /\ Step => IngressHasRecord'
<1> SUFFICES ASSUME IInv, Step
             PROVE  IngressHasRecord'
  OBVIOUS
<1> USE ConstantsAssumption, CallFacts
        DEF IInv, ControlInv, Typed, TypeOK, LockInv, Critical, SnapInv, StillActive,
            IngressHasRecord, Exposed, vars, osVars, threadVars, waiterVars,
            Return, Locks, Saved, SaveFailed, GetApp
<1>1. ASSUME NEW t \in Threads, StartAlreadyRunning(t)
      PROVE  IngressHasRecord'
  BY <1>1 DEF StartAlreadyRunning
<1>2. ASSUME NEW t \in Threads, StartPrepare(t) PROVE IngressHasRecord'
  BY <1>2 DEF StartPrepare, WritesIngress
<1>3. ASSUME NEW t \in Threads, StartRefused(t) PROVE IngressHasRecord'
  BY <1>3 DEF StartRefused
<1>4. ASSUME NEW t \in Threads, StopNothing(t) PROVE IngressHasRecord'
  BY <1>4 DEF StopNothing
<1>5. ASSUME NEW t \in Threads, StopSignal(t) PROVE IngressHasRecord'
  BY <1>5 DEF StopSignal, RemovesIngress
<1>6. ASSUME NEW t \in Threads, DeleteUnknown(t) PROVE IngressHasRecord'
  BY <1>6 DEF DeleteUnknown
<1>7. ASSUME NEW t \in Threads, DeleteRemove(t) PROVE IngressHasRecord'
  BY <1>7 DEF DeleteRemove, RemovesIngress
<1>8. ASSUME NEW t \in Threads, NEW i \in Procs, NEW p \in Pids,
             StartExec(t, i, p)
      PROVE  IngressHasRecord'
  BY <1>8 DEF StartExec
<1>9. ASSUME NEW t \in Threads, StartExecFails(t) PROVE IngressHasRecord'
  <2> DEFINE r == NewRecord(t, "ERROR", NoPid)
  <2>1. /\ r \in Record
        /\ faults = 0 => snap[t] = db[call[t].app]
        /\ Saved(call[t].app, r) \/ SaveFailed
        /\ UNCHANGED <<conf, stray>>
    BY <1>9, TypedRecords DEF StartExecFails
  <2>2. r.exposed = Exposed(snap[t])
    BY DEF NewRecord
  <2> HIDE DEF r
  <2>3. QED
    BY <2>1, <2>2, SaveKeepsIngress
<1>10. ASSUME NEW t \in Threads, StartSave(t) PROVE IngressHasRecord'
  <2> DEFINE r == NewRecord(t, "RUNNING", proc[child[t]].pid)
  <2>1. /\ r \in Record
        /\ faults = 0 => snap[t] = db[call[t].app]
        /\ Saved(call[t].app, r) \/ SaveFailed
        /\ UNCHANGED <<conf, stray>>
    BY <1>10, TypedRecords DEF StartSave
  <2>2. r.exposed = Exposed(snap[t])
    BY DEF NewRecord
  <2> HIDE DEF r
  <2>3. QED
    BY <2>1, <2>2, SaveKeepsIngress
<1>11. ASSUME NEW t \in Threads, StopSave(t) PROVE IngressHasRecord'
  <2> DEFINE r == StopRecord(snap[t])
  <2>1. /\ r \in Record
        /\ snap[t] \in Record /\ snap[t] = db[call[t].app]
        /\ Saved(call[t].app, r) \/ SaveFailed
        /\ UNCHANGED <<conf, stray>>
    BY <1>11, TypedRecords DEF StopSave
  <2>2. r.exposed = snap[t].exposed
    BY <2>1 DEF StopRecord, Record
  <2> HIDE DEF r
  <2>3. QED
    BY <2>1, <2>2, SaveKeepsIngress
<1>12. ASSUME NEW t \in Threads, DeleteSave(t) PROVE IngressHasRecord'
  BY <1>12 DEF DeleteSave
<1>13. ASSUME NEW t \in Threads, Reply(t) PROVE IngressHasRecord'
  BY <1>13 DEF Reply
<1>14. ASSUME NEW t \in Threads, NEW c \in Call, Asks(t, c)
      PROVE  IngressHasRecord'
  BY <1>14 DEF Asks
<1>15. ASSUME NEW i \in Procs, WaiterIgnores(i) PROVE IngressHasRecord'
  BY <1>15 DEF WaiterIgnores
<1>16. ASSUME NEW i \in Procs, WaiterReads(i) PROVE IngressHasRecord'
  BY <1>16 DEF WaiterReads
<1>17. ASSUME NEW i \in Procs, WaiterReap(i) PROVE IngressHasRecord'
  BY <1>17 DEF WaiterReap
<1>18. ASSUME NEW i \in Procs, WaiterSaves(i) PROVE IngressHasRecord'
  <2> DEFINE r == ExitRecord(wsnap[i])
  <2>1. /\ r \in Record
        /\ wsnap[i] \in Record /\ wsnap[i] = db[proc[i].app]
        /\ Saved(proc[i].app, r) \/ SaveFailed
        /\ UNCHANGED <<conf, stray>>
    BY <1>18, TypedRecords DEF WaiterSaves
  <2>2. r.exposed = wsnap[i].exposed
    BY <2>1 DEF ExitRecord, Record
  <2> HIDE DEF r
  <2>3. QED
    BY <2>1, <2>2, SaveKeepsIngress
<1>19. ASSUME NEW i \in Procs, ProcExit(i) PROVE IngressHasRecord'
  BY <1>19 DEF ProcExit
<1>20. ASSUME ServerRestart PROVE IngressHasRecord'
  BY <1>20 DEF ServerRestart
<1>21. CASE UNCHANGED vars
  BY <1>21
<1>22. QED
  BY <1>1, <1>2, <1>3, <1>4, <1>5, <1>6, <1>7, <1>8, <1>9, <1>10, <1>11, <1>12,
     <1>13, <1>14, <1>15, <1>16, <1>17, <1>18, <1>19, <1>20, <1>21
     DEF Step, ThreadLocks, ThreadRuns, WaiterLocks, WaiterRuns

(* Only the saves of a start write over STOPPED or an absent row. *)
LEMMA UndoneStep == IInv /\ Step => UndoneByStart
<1> SUFFICES ASSUME IInv, Step
             PROVE  UndoneByStart
  OBVIOUS
<1> USE ConstantsAssumption, CallFacts
        DEF IInv, ControlInv, Typed, TypeOK, LockInv, Critical, SnapInv, StillActive, Undone,
            UndoneByStart, Starting, vars, osVars, threadVars, waiterVars,
            Return, Locks, Saved, SaveFailed, GetApp
<1>1. ASSUME NEW t \in Threads, StartAlreadyRunning(t) PROVE UndoneByStart
  BY <1>1 DEF StartAlreadyRunning
<1>2. ASSUME NEW t \in Threads, StartPrepare(t) PROVE UndoneByStart
  BY <1>2 DEF StartPrepare
<1>3. ASSUME NEW t \in Threads, StartRefused(t) PROVE UndoneByStart
  BY <1>3 DEF StartRefused
<1>4. ASSUME NEW t \in Threads, StopNothing(t) PROVE UndoneByStart
  BY <1>4 DEF StopNothing
<1>5. ASSUME NEW t \in Threads, StopSignal(t) PROVE UndoneByStart
  BY <1>5 DEF StopSignal
<1>6. ASSUME NEW t \in Threads, DeleteUnknown(t) PROVE UndoneByStart
  BY <1>6 DEF DeleteUnknown
<1>7. ASSUME NEW t \in Threads, DeleteRemove(t) PROVE UndoneByStart
  BY <1>7 DEF DeleteRemove
<1>8. ASSUME NEW t \in Threads, NEW i \in Procs, NEW p \in Pids,
             StartExec(t, i, p)
      PROVE  UndoneByStart
  BY <1>8 DEF StartExec
<1>9. ASSUME NEW t \in Threads, StartExecFails(t) PROVE UndoneByStart
  BY <1>9 DEF StartExecFails
<1>10. ASSUME NEW t \in Threads, StartSave(t) PROVE UndoneByStart
  BY <1>10 DEF StartSave
<1>11. ASSUME NEW t \in Threads, StopSave(t) PROVE UndoneByStart
  <2>1. snap[t] \in Record /\ snap[t] = db[call[t].app]
    BY <1>11 DEF StopSave
  <2>2. StopRecord(snap[t]).status = "STOPPED"
    BY <2>1, RecordFacts
  <2>3. QED
    BY <1>11, <2>1, <2>2 DEF StopSave
<1>12. ASSUME NEW t \in Threads, DeleteSave(t) PROVE UndoneByStart
  BY <1>12 DEF DeleteSave
<1>13. ASSUME NEW t \in Threads, Reply(t) PROVE UndoneByStart
  BY <1>13 DEF Reply
<1>14. ASSUME NEW t \in Threads, NEW c \in Call, Asks(t, c)
      PROVE  UndoneByStart
  BY <1>14 DEF Asks
<1>15. ASSUME NEW i \in Procs, WaiterIgnores(i) PROVE UndoneByStart
  BY <1>15 DEF WaiterIgnores
<1>16. ASSUME NEW i \in Procs, WaiterReads(i) PROVE UndoneByStart
  BY <1>16 DEF WaiterReads
<1>17. ASSUME NEW i \in Procs, WaiterReap(i) PROVE UndoneByStart
  BY <1>17 DEF WaiterReap
<1>18. ASSUME NEW i \in Procs, WaiterSaves(i) PROVE UndoneByStart
  <2>1. wsnap[i] \in Record /\ wsnap[i] = db[proc[i].app]
    BY <1>18 DEF WaiterSaves
  <2>2. wsnap[i].status = "STOPPED" => ExitRecord(wsnap[i]).status = "STOPPED"
    BY <2>1, RecordFacts
  <2>3. QED
    BY <1>18, <2>1, <2>2 DEF WaiterSaves
<1>19. ASSUME NEW i \in Procs, ProcExit(i) PROVE UndoneByStart
  BY <1>19 DEF ProcExit
<1>20. ASSUME ServerRestart PROVE UndoneByStart
  BY <1>20 DEF ServerRestart
<1>21. CASE UNCHANGED vars
  BY <1>21
<1>22. QED
  BY <1>1, <1>2, <1>3, <1>4, <1>5, <1>6, <1>7, <1>8, <1>9, <1>10, <1>11, <1>12,
     <1>13, <1>14, <1>15, <1>16, <1>17, <1>18, <1>19, <1>20, <1>21
     DEF Step, ThreadLocks, ThreadRuns, WaiterLocks, WaiterRuns

(* A process that has been started stays what it is, whoever steps: its    *)
(* entry is only replaced by StartExec, and that takes an unused one.      *)
LEMMA ProcessKept ==
    ASSUME TypeOK, Step, NEW i \in Procs, proc[i].state # "none"
    PROVE  /\ proc'[i].state # "none"
           /\ proc'[i].app = proc[i].app /\ proc'[i].pid = proc[i].pid
<1> USE DEF TypeOK, osVars, threadVars, waiterVars
<1>1. ASSUME NEW p
      PROVE  /\ Signalled(p)[i].state # "none"
             /\ Signalled(p)[i].app = proc[i].app
             /\ Signalled(p)[i].pid = proc[i].pid
  BY DEF Signalled
<1>2. CASE \E t \in Threads : ThreadLocks(t)
  <2>1. proc' = proc \/ \E p : proc' = Signalled(p)
    BY <1>2
       DEF ThreadLocks, StartAlreadyRunning, StartPrepare, StartRefused,
           StopNothing, StopSignal, DeleteUnknown, DeleteRemove
  <2>2. CASE proc' = proc
    BY <2>2
  <2>3. CASE \E p : proc' = Signalled(p)
    BY <1>1, <2>3
  <2>4. QED
    BY <2>1, <2>2, <2>3
<1>3. CASE \E t \in Threads : ThreadRuns(t)
  BY <1>3 DEF ThreadRuns, StartExec, StartExecFails, StartSave, StopSave,
              DeleteSave
<1>4. CASE \E t \in Threads : Reply(t) \/ \E c \in Call : Asks(t, c)
  BY <1>4 DEF Reply, Asks
<1>5. CASE \E j \in Procs : WaiterLocks(j) \/ WaiterRuns(j) \/ ProcExit(j)
  <2>1. PICK j \in Procs : WaiterLocks(j) \/ WaiterRuns(j) \/ ProcExit(j)
    BY <1>5
  <2>2. CASE WaiterLocks(j) \/ WaiterSaves(j)
    BY <2>2 DEF WaiterLocks, WaiterIgnores, WaiterReads, WaiterSaves
  <2>3. CASE WaiterReap(j) \/ ProcExit(j)
    <3>1. PICK s \in {"gone", "zombie"} :
              proc' = [proc EXCEPT ![j].state = s]
      BY <2>3 DEF WaiterReap, ProcExit
    <3>2. QED
      BY <3>1
  <2>4. QED
    BY <2>1, <2>2, <2>3 DEF WaiterRuns
<1>6. CASE ServerRestart
  BY <1>6 DEF ServerRestart
<1>7. CASE UNCHANGED vars
  BY <1>7 DEF vars
<1>8. QED
  BY <1>2, <1>3, <1>4, <1>5, <1>6, <1>7 DEF Step

(* The only pid the manager saves is that of the process a call has just   *)
(* started, in the row of its app, as RUNNING.                             *)
LEMMA PidSaved ==
    ASSUME ControlInv, Step, NEW a \in Apps,
           db'[a] # NoRecord, db'[a].pid # NoPid
    PROVE  \/ db'[a] = db[a]
           \/ /\ db'[a].status = "RUNNING"
              /\ \E i \in Procs : /\ proc[i].state # "none" /\ proc[i].app = a
                                  /\ proc[i].pid = db'[a].pid
<1> USE ConstantsAssumption
        DEF ControlInv, Typed, TypeOK, osVars, threadVars, waiterVars,
            Saved, SaveFailed
<1>1. CASE \E t \in Threads : ThreadLocks(t)
  BY <1>1
     DEF ThreadLocks, StartAlreadyRunning, StartPrepare, StartRefused,
         StopNothing, StopSignal, DeleteUnknown, DeleteRemove
<1>2. CASE \E t \in Threads, i \in Procs, p \in Pids : StartExec(t, i, p)
  BY <1>2 DEF StartExec
<1>3. ASSUME NEW t \in Threads, StartExecFails(t)
      PROVE  db'[a] = db[a]
  <2>1. NewRecord(t, "ERROR", NoPid).pid = NoPid
    BY DEF NewRecord
  <2>2. QED
    BY <1>3, <2>1 DEF StartExecFails
<1>4. ASSUME NEW t \in Threads, StartSave(t)
      PROVE  \/ db'[a] = db[a]
             \/ /\ db'[a].status = "RUNNING"
                /\ \E i \in Procs : /\ proc[i].state # "none" /\ proc[i].app = a
                                    /\ proc[i].pid = db'[a].pid
  <2>1. /\ child[t] \in Procs /\ proc[child[t]].app = call[t].app
        /\ proc[child[t]].state # "none"
    BY <1>4 DEF StartSave, ChildInv, ProcInv
  <2>2. CASE db' = [db EXCEPT ![call[t].app] =
                        NewRecord(t, "RUNNING", proc[child[t]].pid)]
    <3>1. CASE a = call[t].app
      <4>1. db'[a].status = "RUNNING" /\ db'[a].pid = proc[child[t]].pid
        BY <2>2, <3>1 DEF NewRecord
      <4>2. QED
        BY <2>1, <3>1, <4>1
    <3>2. QED
      BY <2>2, <3>1
  <2>3. QED
    BY <1>4, <2>2 DEF StartSave
<1>5. ASSUME NEW t \in Threads, StopSave(t)
      PROVE  db'[a] = db[a]
  <2>1. snap[t] \in Record
    BY <1>5 DEF StopSave, Taken
  <2>2. StopRecord(snap[t]).pid = NoPid
    BY <2>1 DEF StopRecord, Record
  <2>3. QED
    BY <1>5, <2>2 DEF StopSave
<1>6. ASSUME NEW t \in Threads, DeleteSave(t)
      PROVE  db'[a] = db[a]
  BY <1>6 DEF DeleteSave
<1>7. CASE \E t \in Threads : Reply(t) \/ \E c \in Call : Asks(t, c)
  BY <1>7 DEF Reply, Asks
<1>8. CASE \E j \in Procs : WaiterLocks(j) \/ WaiterReap(j) \/ ProcExit(j)
  BY <1>8 DEF WaiterLocks, WaiterIgnores, WaiterReads, WaiterReap, ProcExit
<1>9. ASSUME NEW i \in Procs, WaiterSaves(i)
      PROVE  db'[a] = db[a]
  <2>1. wsnap[i] \in Record
    BY <1>9 DEF WaiterSaves, Taken
  <2>2. ExitRecord(wsnap[i]).pid = NoPid
    BY <2>1 DEF ExitRecord, Record
  <2>3. QED
    BY <1>9, <2>2 DEF WaiterSaves
<1>10. CASE ServerRestart \/ UNCHANGED vars
  BY <1>10 DEF ServerRestart, vars
<1>11. QED
  BY <1>1, <1>2, <1>3, <1>4, <1>5, <1>6, <1>7, <1>8, <1>9, <1>10
     DEF Step, ThreadRuns, WaiterRuns

(* SIGTERM is sent by a stop or a delete, to the pid in the app's row. *)
LEMMA SignalSent ==
    ASSUME ControlInv, Step, NEW i \in Procs,
           proc[i].state = "live", proc'[i].state = "term"
    PROVE  \E t \in Threads : /\ call[t].op \in {"stop", "delete"}
                              /\ db[call[t].app] # NoRecord
                              /\ db[call[t].app].pid = proc[i].pid
<1> USE DEF ControlInv, Typed, TypeOK, osVars, threadVars, waiterVars
<1>1. ASSUME NEW t \in Threads, StopSignal(t) \/ DeleteRemove(t)
      PROVE  /\ call[t].op \in {"stop", "delete"}
             /\ db[call[t].app] # NoRecord
             /\ db[call[t].app].pid = proc[i].pid
  BY <1>1 DEF StopSignal, DeleteRemove, Locks, Signalled
<1>2. CASE \E t \in Threads : \/ StartAlreadyRunning(t) \/ StartPrepare(t)
                              \/ StartRefused(t) \/ StopNothing(t)
                              \/ DeleteUnknown(t)
  BY <1>2 DEF StartAlreadyRunning, StartPrepare, StartRefused, StopNothing,
              DeleteUnknown
<1>3. CASE \E t \in Threads : ThreadRuns(t)
  BY <1>3 DEF ThreadRuns, StartExec, StartExecFails, StartSave, StopSave,
              DeleteSave
<1>4. CASE \E t \in Threads : Reply(t) \/ \E c \in Call : Asks(t, c)
  BY <1>4 DEF Reply, Asks
<1>5. CASE \E j \in Procs : WaiterLocks(j) \/ WaiterRuns(j) \/ ProcExit(j)
  BY <1>5 DEF WaiterLocks, WaiterIgnores, WaiterReads, WaiterRuns,
              WaiterReap, WaiterSaves, ProcExit
<1>6. CASE ServerRestart \/ UNCHANGED vars
  BY <1>6 DEF ServerRestart, vars
<1>7. QED
  BY <1>1, <1>2, <1>3, <1>4, <1>5, <1>6 DEF Step, ThreadLocks

-----------------------------------------------------------------------------
(* What others than the manager do, who write the table without mu. *)

Others == UNCHANGED <<proc, waiterVars, mu, threadVars>>

(* The manager by itself does not depend on what the table says. *)
LEMMA OthersKeepControl == ControlInv /\ Others /\ TypeOK' => ControlInv'
<1> SUFFICES ASSUME ControlInv, Others, TypeOK'
             PROVE  ControlInv'
  OBVIOUS
<1> USE DEF ControlInv, Others, waiterVars, threadVars
<1>1. Typed'
  BY DEF Typed, Taken
<1>2. LockInv' /\ ProcInv' /\ ChildInv'
  BY DEF LockInv, ProcInv, ChildInv
<1>3. QED
  BY <1>1, <1>2

(* Nobody writes the table. *)
LEMMA OthersKeepLife ==
    ASSUME LifeInv, Others, UNCHANGED <<db, crashes>>,
           faults' = 0 => faults = 0
    PROVE  LifeInv' /\ (StartedInv => StartedInv')
<1> USE DEF Others, waiterVars, threadVars
<1>1. LiveIsRecorded'
  BY DEF LifeInv, LiveIsRecorded, Tracked, Recorded
<1>2. CallInv'
  BY DEF LifeInv, CallInv, Tracked, StillActive
<1>3. RunningHasProcess'
  BY DEF LifeInv, RunningHasProcess, Attended, Recorded
<1>4. QED
  BY <1>1, <1>2, <1>3 DEF LifeInv, StartedInv

(* A row that says the same of the app's process as before, or the first   *)
(* row of an app, which does not say that it runs.                         *)
SameLife(r, old) ==
    \/ r # NoRecord /\ old # NoRecord /\ r.status = old.status /\ r.pid = old.pid
    \/ old = NoRecord /\ ~IsRunning(r)

LEMMA RowKeepsLife ==
    ASSUME TypeOK, LifeInv, Others, UNCHANGED crashes, faults' = 0 => faults = 0,
           NEW a \in Apps, NEW r, db' = [db EXCEPT ![a] = r], SameLife(r, db[a])
    PROVE  LifeInv' /\ (StartedInv => StartedInv')
<1> USE DEF Others, waiterVars, threadVars
<1>1. ASSUME NEW b \in Apps
      PROVE  /\ IsRunning(db'[b]) <=> IsRunning(db[b])
             /\ IsRunning(db[b]) \/ db[b] # NoRecord =>
                    db'[b] # NoRecord /\ db'[b].pid = db[b].pid
  BY DEF TypeOK, SameLife, IsRunning
<1>2. ASSUME NEW i \in Procs
      PROVE  proc[i].app \in Apps
  BY DEF TypeOK
<1>3. ASSUME NEW t \in Threads
      PROVE  call[t].app \in Apps
  BY CallFacts DEF TypeOK
<1>4. \A i \in Procs : /\ Tracked(i)' <=> Tracked(i)
                       /\ Attended(i)' <=> Attended(i)
                       /\ Recorded(i) => Recorded(i)'
                       /\ StillActive(i, db[proc[i].app]) =>
                              StillActive(i, db[proc[i].app])'
  BY <1>1, <1>2 DEF Tracked, Attended, Recorded, StillActive
<1>5. LiveIsRecorded'
  BY <1>4 DEF LifeInv, LiveIsRecorded
<1>6. CallInv'
  BY <1>1, <1>2, <1>3, <1>4 DEF LifeInv, CallInv
<1>7. RunningHasProcess'
  BY <1>1, <1>2, <1>4 DEF LifeInv, RunningHasProcess
<1>8. StartedInv => StartedInv'
  BY <1>1, <1>3 DEF StartedInv
<1>9. QED
  BY <1>5, <1>6, <1>7, <1>8 DEF LifeInv

(* What a running process i of the app says of itself: that it runs, its   *)
(* pid, or neither.                                                        *)
SaysOf(i, r, old) ==
    /\ r # NoRecord
    /\ IF old = NoRecord
       THEN r.pid \in {NoPid, proc[i].pid}
       ELSE r.status \in {old.status, "RUNNING"} /\ r.pid \in {old.pid, proc[i].pid}

LEMMA ReportKeepsLife ==
    ASSUME ControlInv, LifeInv, Others, UNCHANGED crashes, faults' = 0 => faults = 0,
           NEW i \in Procs, proc[i].state = "live", waiter[i] # "lost",
           NEW r, db' = [db EXCEPT ![proc[i].app] = r],
           SaysOf(i, r, db[proc[i].app])
    PROVE  LifeInv'
<1> DEFINE a == proc[i].app
<1> USE DEF Others, waiterVars, threadVars
<1>1. TypeOK /\ a \in Apps
  BY DEF ControlInv, Typed, TypeOK
<1>2. CASE faults' # 0 \/ PidReuse
  BY <1>2 DEF LifeInv, CallInv, LiveIsRecorded, RunningHasProcess
<1>3. CASE faults = 0 /\ ~PidReuse /\ Tracked(i)
  <2>1. IsRunning(db[a]) /\ db[a].pid = proc[i].pid
    BY <1>3 DEF LifeInv, LiveIsRecorded, Recorded
  <2>2. SameLife(r, db[a])
    BY <2>1 DEF SaysOf, SameLife, IsRunning
  <2>3. QED
    BY <1>1, <2>2, RowKeepsLife
<1>4. CASE faults = 0 /\ ~PidReuse /\ waiter[i] = "unborn"
  <2>1. PICK t \in Threads : /\ pc[t] = "started" /\ mu = t
                            /\ call[t].app = a /\ child[t] = i
    BY <1>4 DEF ControlInv, ChildInv, LockInv, Critical
  <2>2. /\ \A u \in Threads : pc[u] \in Critical => u = t
        /\ \A j \in Procs : waiter[j] # "recording"
    BY <2>1, ConstantsAssumption DEF ControlInv, LockInv
  <2>3. \A j \in Procs : Tracked(j) => proc[j].app # a
    BY <1>4, <2>1 DEF LifeInv, CallInv, Critical
  <2>4. \A j \in Procs : proc[j].app \in Apps /\ Tracked(j)' = Tracked(j)
    BY <1>1 DEF TypeOK, Tracked
  <2>5. \A b \in Apps : b # a => db'[b] = db[b]
    BY <1>1 DEF TypeOK
  <2>6. CallInv'
    BY <2>1, <2>2, <2>3, <2>4 DEF CallInv, Critical
  <2>7. LiveIsRecorded'
    BY <1>4, <2>3, <2>4, <2>5 DEF LifeInv, LiveIsRecorded, Recorded
  <2>8. RunningHasProcess'
    BY <1>4, <2>5 DEF LifeInv, RunningHasProcess, Recorded, Attended
  <2>9. QED
    BY <2>6, <2>7, <2>8 DEF LifeInv
<1>5. QED
  BY <1>2, <1>3, <1>4 DEF Tracked

-----------------------------------------------------------------------------
LEMMA InitIInv == Init => IInv
<1> SUFFICES ASSUME Init
             PROVE  IInv
  OBVIOUS
<1> USE ConstantsAssumption DEF Init
<1>1. TypeOK
  <2>1. (CHOOSE a \in Apps : TRUE) \in Apps
    OBVIOUS
  <2>2. Declared \subseteq Record
    BY DEF Declared
  <2>3. QED
    BY <2>1, <2>2, NoCallIsCall DEF TypeOK, ProcState, WaiterState, PC
<1>2. Taken /\ LockInv /\ SnapInv /\ ProcInv /\ ChildInv /\ StartedInv
  BY DEF Taken, LockInv, Critical, SnapInv, ProcInv, ChildInv, StartedInv
<1>3. CallInv /\ LiveIsRecorded /\ IngressHasRecord
  BY DEF CallInv, Critical, LiveIsRecorded, Tracked, IngressHasRecord
<1>4. RunningHasProcess
  BY DEF RunningHasProcess, IsRunning, Declared
<1>5. QED
  BY <1>1, <1>2, <1>3, <1>4 DEF IInv, ControlInv, Typed, LifeInv

LEMMA IInvStep == IInv /\ Step => IInv'
<1>1. IInv /\ Step =>
        ControlInv' /\ LifeInv' /\ StartedInv' /\ SnapInv' /\ IngressHasRecord'
  BY ControlStep, LifeStep, StartedStep, SnapStep, IngressStep
     DEF IInv, LifeInv
<1>2. QED
  BY <1>1 DEF IInv

(* Lock, calls, goroutines, processes, table and files of the manager hang *)
(* together in every reachable state: the parts of IInv, of which the      *)
(* other theorems on the states of the manager are consequences.           *)
THEOREM Invariance == Spec => []IInv
<1>1. IInv /\ [Next]_vars => IInv'
  BY IInvStep, NextIsStep
<1>2. QED
  BY <1>1, InitIInv, PTL DEF Spec

(* What LifeInv says of single processes makes them the only one. *)
LEMMA LifeIsSingle == ControlInv /\ LifeInv => SingleInstance
<1> SUFFICES ASSUME ControlInv, LifeInv, faults = 0, ~PidReuse,
                    NEW i \in Procs, NEW j \in Procs,
                    proc[i].state = "live", waiter[i] # "lost",
                    proc[j].state = "live", waiter[j] # "lost",
                    proc[i].app = proc[j].app
             PROVE  i = j
  BY DEF SingleInstance
<1> USE DEF ControlInv, LifeInv
<1>1. CASE Tracked(i) /\ Tracked(j)
  BY <1>1 DEF LiveIsRecorded, Recorded, ProcInv
<1>2. ASSUME NEW k \in Procs, waiter[k] = "unborn"
      PROVE  \E t \in Threads : /\ mu = t /\ child[t] = k
                                /\ pc[t] \in Critical
                                /\ call[t].app = proc[k].app
  BY <1>2 DEF ChildInv, LockInv, Critical
<1>3. ASSUME NEW k \in Procs, NEW m \in Procs, waiter[k] = "unborn", Tracked(m)
      PROVE  proc[m].app # proc[k].app
  BY <1>2, <1>3 DEF CallInv
<1>4. CASE waiter[i] = "unborn" /\ waiter[j] = "unborn"
  BY <1>2, <1>4
<1>5. QED
  BY <1>1, <1>3, <1>4 DEF Tracked

(* While no process waits to be recorded, RUNNING means a goroutine. *)
LEMMA LifeIsAttended ==
    ControlInv /\ LifeInv /\ StartedInv => RunningIsAttended
<1> SUFFICES ASSUME ControlInv, LifeInv, StartedInv,
                    crashes = 0, faults = 0, ~PidReuse,
                    NEW a \in Apps, IsRunning(db[a])
             PROVE  \E i \in Procs :
                        proc[i].app = a /\ Attended(i) /\ Recorded(i)
  BY DEF RunningIsAttended
<1>1. PICK i \in Procs : Keeps(i, a)
  BY DEF LifeInv, RunningHasProcess, Keeps
<1>2. waiter[i] # "unborn"
  BY <1>1 DEF Keeps, ControlInv, ChildInv, StartedInv
<1>3. QED
  BY <1>1, <1>2 DEF Keeps

(* The variables of the manager keep their types. *)
THEOREM TypeCorrect == Spec => []TypeOK
<1>1. IInv => TypeOK
  BY DEF IInv, ControlInv, Typed
<1>2. QED
  BY <1>1, Invariance, PTL

(* The manager never has two instances of an app that nobody told to stop  *)
(* (StartApp, StopApp, DeleteApp, waitForExit under mu): both are recorded *)
(* and so have the pid in the record, or one is the child of the call      *)
(* holding mu, which saw that the app does not run.                        *)
THEOREM SingleInstanceHolds == Spec => []SingleInstance
<1>1. IInv => SingleInstance
  BY LifeIsSingle DEF IInv
<1>2. QED
  BY <1>1, Invariance, PTL

(* A live process that a start recorded and nobody told to stop stays the  *)
(* one its app's record names, across late waitForExit reports and server  *)
(* restarts.                                                               *)
THEOREM LiveIsRecordedHolds == Spec => []LiveIsRecorded
<1>1. IInv => LiveIsRecorded
  BY DEF IInv, LifeInv
<1>2. QED
  BY <1>1, Invariance, PTL

(* Until the server restarts, a RUNNING record has a waitForExit goroutine *)
(* that will clear it.                                                     *)
THEOREM RunningIsAttendedHolds == Spec => []RunningIsAttended
<1>1. IInv => RunningIsAttended
  BY LifeIsAttended DEF IInv
<1>2. QED
  BY <1>1, Invariance, PTL

(* No ingress file is left for an app that DeleteApp took out of the       *)
(* table, whatever crashes and failing statements come between.            *)
THEOREM IngressHasRecordHolds == Spec => []IngressHasRecord
<1>1. IInv => IngressHasRecord
  BY DEF IInv
<1>2. QED
  BY <1>1, Invariance, PTL

(* A recorded stop or delete is undone only by a start, with failing       *)
(* table accesses, restarts and reused pids too.                           *)
THEOREM StoppedOrDeletedIsFinalHolds == Spec => StoppedOrDeletedIsFinal
<1>1. IInv /\ [Next]_vars => [UndoneByStart]_vars
  BY UndoneStep, NextIsStep
<1>2. QED
  BY <1>1, Invariance, PTL DEF Spec, StoppedOrDeletedIsFinal
=============================================================================
