-------------------------- MODULE ApiServerProofs ---------------------------
(***************************************************************************)
(* Proofs about ApiServer, for any number of apps, threads, handlers,      *)
(* processes, pids, configs, crashes and faults: what the handlers that    *)
(* save rows without the manager's mutex can and cannot do to it.  ApiIInv *)
(* is inductive: one lemma per part.  A step is one of the manager (Step), *)
(* for which AppManagerProofs has the lemmas, or one of a handler, which   *)
(* is covered by those on what others than the manager do.                 *)
(***************************************************************************)
EXTENDS ApiServer, AppManagerProofs

(* A step of a thread, a goroutine or a process. *)
ManagerStep ==
    /\ Step
    /\ restart' \in [Threads -> {"no", "stopping", "starting"}]
    /\ UNCHANGED handlerVars

LEMMA ManagerSteps ==
    ASSUME ApiTypeOK, NEW t \in Threads,
           \/ /\ restart[t] = "no"
              /\ Reply(t) \/ \E c \in Calls : Request(t, c)
              /\ UNCHANGED apiVars
           \/ (ThreadLocks(t) \/ ThreadRuns(t)) /\ UNCHANGED apiVars
           \/ \E a \in Apps : RestartStops(t, a)
           \/ RestartStarts(t) \/ RestartReplies(t)
    PROVE  ManagerStep
<1> USE DEF ApiTypeOK, ManagerStep
<1>1. CASE (Reply(t) \/ \E c \in Calls : Request(t, c)) /\ UNCHANGED apiVars
  BY <1>1, RequestAsks, ConstantsAssumption DEF Step, apiVars
<1>2. CASE (ThreadLocks(t) \/ ThreadRuns(t)) /\ UNCHANGED apiVars
  BY <1>2 DEF Step, apiVars
<1>4. ASSUME NEW a \in Apps, RestartStops(t, a)
      PROVE  ManagerStep
  <2> DEFINE c == [op |-> "stop", app |-> a, cmd |-> "none", flag |-> FALSE]
  <2>1. c \in Call
    BY DEF Call
  <2>2. Asks(t, c)
    BY <1>4, RequestAsks DEF RestartStops
  <2>3. QED
    BY <1>4, <2>1, <2>2 DEF RestartStops, Step
<1>5. CASE RestartStarts(t)
  <2>1. PICK b \in {"file", "bare"} :
          call' = [call EXCEPT ![t] = [op |-> "start", app |-> call[t].app,
                                       cmd |-> b, flag |-> FALSE]]
    BY <1>5 DEF RestartStarts
  <2> DEFINE c == [op |-> "start", app |-> call[t].app, cmd |-> b,
                   flag |-> FALSE]
  <2>2. c \in Call
    BY CallFacts DEF Call, TypeOK
  <2>3. Asks(t, c)
    BY <1>5, <2>1 DEF RestartStarts, Asks, Critical
  <2>4. restart' \in [Threads -> {"no", "stopping", "starting"}]
    BY <1>5 DEF RestartStarts
  <2>5. QED
    BY <1>5, <2>2, <2>3, <2>4 DEF RestartStarts, Step
<1>6. CASE RestartReplies(t)
  BY <1>6 DEF RestartReplies, Step
<1>7. QED
  BY <1>1, <1>2, <1>4, <1>5, <1>6

LEMMA Steps ==
    ASSUME ApiTypeOK, [ApiNext]_allVars
    PROVE  \/ ManagerStep
           \/ \E h \in Handlers : HandlerStep(h)
           \/ ApiRestart
           \/ UNCHANGED allVars
<1>1. CASE \E i \in Procs : /\ WaiterLocks(i) \/ WaiterRuns(i) \/ ProcExit(i)
                            /\ UNCHANGED apiVars
  BY <1>1 DEF ManagerStep, Step, ApiTypeOK, apiVars
<1>2. QED
  BY <1>1, ManagerSteps DEF ApiNext

(* What a request makes of a row is a row, with the status and the pid it  *)
(* had; an apply makes one of none, which does not say that the app runs.  *)
LEMMA ChangedFacts ==
    ASSUME NEW q \in Change, NEW r \in Record \cup {NoRecord},
           r = NoRecord => q.op = "upsert",
           NEW s \in Changed(q, r)
    PROVE  /\ s \in Record
           /\ SameLife(s, r)
           /\ s.pid # NoPid => r # NoRecord /\ s.pid = r.pid
<1> USE ConstantsAssumption, ApiAssumption
<1>1. /\ q.op \in {"upsert", "config", "expose", "hide", "render"}
      /\ q.on \in BOOLEAN /\ q.config \in Configs \cup {NoConfig}
      /\ q.op = "config" => q.config \in Configs
  BY DEF Change
<1>2. CASE q.op = "upsert"
  <2>1. s = [status |-> IF r = NoRecord THEN "" ELSE r.status,
             pid |-> IF r = NoRecord THEN NoPid ELSE r.pid,
             exposed |-> q.on, config |-> q.config]
    BY <1>2 DEF Changed
  <2>2. s \in Record
    BY <1>1, <2>1 DEF Record, Status
  <2>3. QED
    BY <2>1, <2>2 DEF SameLife, IsRunning
<1>3. CASE q.op # "upsert"
  <2>1. r \in Record /\ r # NoRecord
    BY <1>3
  <2>2. CASE q.op = "config"
    <3>1. s = [r EXCEPT !.config = IF q.on THEN Contents(r.config) \cup q.config
                                           ELSE q.config]
      BY <2>2 DEF Changed
    <3>2. Contents(r.config) \cup q.config \in Configs
      BY <1>1, <2>1, <2>2 DEF Record, Contents
    <3>3. QED
      BY <1>1, <2>1, <2>2, <3>1, <3>2 DEF Record, SameLife
  <2>3. CASE q.op = "expose"
    <3>1. PICK e \in {TRUE, FALSE, r.exposed} : s = [r EXCEPT !.exposed = e]
      BY <2>3 DEF Changed
    <3>2. QED
      BY <2>1, <3>1 DEF Record, SameLife
  <2>4. CASE q.op = "hide"
    <3>1. s = [r EXCEPT !.exposed = FALSE]
      BY <2>4 DEF Changed
    <3>2. QED
      BY <2>1, <3>1 DEF Record, SameLife
  <2>5. CASE q.op = "render"
    <3>1. s = r
      BY <2>5 DEF Changed
    <3>2. QED
      BY <2>1, <3>1 DEF SameLife
  <2>6. QED
    BY <1>1, <1>3, <2>2, <2>3, <2>4, <2>5
<1>4. QED
  BY <1>2, <1>3

(* What a handler does with the row it holds. *)
LEMMA HeldFacts ==
    ASSUME ApiTypeOK, HandlerInv, NEW h \in Handlers
    PROVE  /\ hreq[h] \in Change /\ hreq[h].app \in Apps
           /\ hpc[h] = "read" => \A s \in Changed(hreq[h], hsnap[h]) :
                /\ s \in Record
                /\ SameLife(s, hsnap[h])
                /\ s.pid # NoPid => hsnap[h] # NoRecord /\ s.pid = hsnap[h].pid
<1>1. hreq[h] \in Change /\ hsnap[h] \in Record \cup {NoRecord}
  BY DEF ApiTypeOK
<1>2. hpc[h] = "read" /\ hsnap[h] = NoRecord => hreq[h].op = "upsert"
  BY DEF HandlerInv
<1>3. hreq[h].app \in Apps
  BY <1>1 DEF Change
<1>4. QED
  BY <1>1, <1>2, <1>3, ChangedFacts

-----------------------------------------------------------------------------
(* The handlers leave the manager alone but for rows and ingress files. *)
LEMMA HandlerTypes ==
    ASSUME ApiIInv, NEW h \in Handlers, HandlerStep(h)
    PROVE  /\ TypeOK' /\ Others /\ UNCHANGED <<deployed, crashes, restart>>
           /\ faults' \in {faults, faults + 1}
<1>1. TypeOK /\ ApiTypeOK /\ HandlerInv
  BY DEF ApiIInv, ApiTypeOK
<1> USE DEF Others, osVars, waiterVars, threadVars
<1>2. ASSUME NEW q \in Changes, ChangesIngress(h, q)
      PROVE  /\ TypeOK' /\ Others /\ UNCHANGED <<deployed, crashes, restart>>
             /\ faults' \in {faults, faults + 1}
  <2>1. q.app \in Apps
    BY ApiAssumption DEF Change
  <2>2. \/ WritesIngress(q.app) \/ RemovesIngress(q.app)
        \/ UNCHANGED <<conf, stray>>
    BY <1>2 DEF ChangesIngress
  <2>3. conf' \in [Apps -> BOOLEAN] /\ stray' \subseteq Apps
    BY <1>1, <2>1, <2>2, DiskFacts
  <2>4. UNCHANGED <<db, proc, deployed, waiterVars, mu, threadVars, crashes,
                    faults, restart>>
    BY <1>2 DEF ChangesIngress
  <2>5. QED
    BY <1>1, <2>3, <2>4 DEF TypeOK
<1>3. ASSUME NEW q \in Changes, Reads(h, q)
      PROVE  /\ TypeOK' /\ Others /\ UNCHANGED <<deployed, crashes, restart>>
             /\ faults' \in {faults, faults + 1}
  <2>1. /\ faults' \in {faults, faults + 1}
        /\ faults' = faults \/ faults < MaxFaults
    BY <1>3 DEF Reads, ReadsRow, GetApp
  <2>2. faults' \in 0..MaxFaults
    BY <1>1, <2>1, ConstantsAssumption DEF TypeOK
  <2>3. UNCHANGED <<db, managerVars, restart>>
    BY <1>3 DEF Reads
  <2>4. QED
    BY <1>1, <2>1, <2>2, <2>3 DEF TypeOK, managerVars
<1>4. CASE UNCHANGED <<vars, restart>>
  BY <1>1, <1>4 DEF TypeOK, vars
<1>5. CASE Saves(h)
  <2>1. /\ faults' \in {faults, faults + 1}
        /\ faults' = faults \/ faults < MaxFaults
    BY <1>5 DEF Saves, Saved, SaveFailed
  <2>2. faults' \in 0..MaxFaults
    BY <1>1, <2>1, ConstantsAssumption DEF TypeOK
  <2>3. UNCHANGED <<managerVars, restart>>
    BY <1>5 DEF Saves
  <2>4. db' \in [Apps -> Record \cup {NoRecord}]
    <3>1. hpc[h] = "read"
      BY <1>5 DEF Saves
    <3>2. CASE db' = db
      BY <1>1, <3>2 DEF TypeOK
    <3>3. ASSUME NEW r \in Changed(hreq[h], hsnap[h]), Saved(hreq[h].app, r)
          PROVE  db' \in [Apps -> Record \cup {NoRecord}]
      BY <1>1, <3>1, <3>3, HeldFacts DEF Saved, TypeOK
    <3>4. QED
      BY <1>5, <3>2, <3>3 DEF Saves, SaveFailed
  <2>5. QED
    BY <1>1, <2>1, <2>2, <2>3, <2>4 DEF TypeOK, managerVars
<1>6. QED
  BY <1>2, <1>3, <1>4, <1>5
     DEF HandlerStep, RenderFails

LEMMA ApiControlStep == ApiIInv /\ [ApiNext]_allVars => ControlInv'
<1> SUFFICES ASSUME ApiIInv, [ApiNext]_allVars
             PROVE  ControlInv'
  OBVIOUS
<1>1. ControlInv /\ ApiTypeOK
  BY DEF ApiIInv
<1>2. CASE ManagerStep \/ ApiRestart \/ UNCHANGED allVars
  <2>1. Step
    BY <1>2 DEF ManagerStep, ApiRestart, Step, allVars
  <2>2. QED
    BY <1>1, <2>1, ControlStep
<1>3. CASE \E h \in Handlers : HandlerStep(h)
  BY <1>1, <1>3, HandlerTypes, OthersKeepControl
<1>4. QED
  BY <1>1, <1>2, <1>3, Steps

(* Every step keeps the types of what the handlers add. *)
LEMMA ApiTypeStep == ApiIInv /\ [ApiNext]_allVars => ApiTypeOK'
<1> SUFFICES ASSUME ApiIInv, [ApiNext]_allVars
             PROVE  ApiTypeOK'
  OBVIOUS
<1>1. TypeOK' /\ TypeOK /\ ApiTypeOK /\ HandlerInv
  BY ApiControlStep DEF ApiIInv, ApiTypeOK, ControlInv, Typed
<1>2. /\ NoChange \in Change
      /\ \A q \in Change : q.app \in Apps
  <2>1. (CHOOSE a \in Apps : TRUE) \in Apps
    BY ConstantsAssumption
  <2>2. QED
    BY <2>1 DEF NoChange, Change
<1>3. CASE ManagerStep
  BY <1>1, <1>3 DEF ManagerStep, ApiTypeOK, handlerVars
<1>4. CASE ApiRestart
  BY <1>1, <1>2, <1>4 DEF ApiRestart, ApiTypeOK
<1>5. CASE UNCHANGED allVars
  BY <1>1, <1>5 DEF allVars, apiVars, handlerVars, ApiTypeOK
<1>6. ASSUME NEW h \in Handlers, HandlerStep(h)
      PROVE  ApiTypeOK'
  <2> DEFINE HPC == {"idle", "ingress", "read"}
             HandlerTypeOK ==
                /\ hpc' \in [Handlers -> HPC]
                /\ hreq' \in [Handlers -> Change]
                /\ hsnap' \in [Handlers -> Record \cup {NoRecord}]
  <2>1. restart' \in [Threads -> {"no", "stopping", "starting"}]
    BY <1>1, <1>6, HandlerTypes DEF ApiTypeOK
  <2>2. Answers(h) => HandlerTypeOK
    BY <1>1, <1>2 DEF ApiTypeOK, Answers
  <2>3. ASSUME NEW q \in Changes, ChangesIngress(h, q)
        PROVE  ApiTypeOK'
    <3>1. q \in Change
      BY ApiAssumption
    <3>2. HandlerTypeOK
      BY <1>1, <2>2, <2>3, <3>1 DEF ChangesIngress, ApiTypeOK
    <3>3. QED
      BY <1>1, <2>1, <2>3, <3>2 DEF ChangesIngress, ApiTypeOK
  <2>4. ASSUME NEW q \in Changes, Reads(h, q)
        PROVE  ApiTypeOK'
    <3>1. q \in Change /\ q.app \in Apps
      BY <1>2, ApiAssumption
    <3>2. db[q.app] \in Record \cup {NoRecord}
      BY <1>1, <3>1 DEF TypeOK
    <3>3. HandlerTypeOK
      BY <1>1, <2>2, <2>4, <3>1, <3>2 DEF Reads, ReadsRow, ApiTypeOK
    <3>4. QED
      BY <1>1, <2>1, <2>4, <3>3 DEF Reads, ApiTypeOK
  <2>7. CASE Saves(h)
    <3>1. HandlerTypeOK
      BY <2>2, <2>7 DEF Saves
    <3>2. clean' \in BOOLEAN
      BY <1>1, <2>7 DEF Saves, ApiTypeOK
    <3>3. QED
      BY <1>1, <2>1, <2>7, <3>1, <3>2 DEF Saves, ApiTypeOK
  <2>8. CASE RenderFails(h)
    BY <1>1, <2>1, <2>2, <2>8 DEF RenderFails, ApiTypeOK
  <2>9. QED
    BY <1>6, <2>3, <2>4, <2>7, <2>8 DEF HandlerStep
<1>7. QED
  BY <1>1, <1>3, <1>4, <1>5, <1>6, Steps

(* A handler that goes on has read a row or serves an apply. *)
LEMMA HandlerInvStep == ApiIInv /\ [ApiNext]_allVars => HandlerInv'
<1> DEFINE Goes(k) == hpc[k] = "read" /\ hsnap[k] = NoRecord =>
                          hreq[k].op = "upsert"
<1> SUFFICES ASSUME ApiIInv, [ApiNext]_allVars, NEW k \in Handlers
             PROVE  Goes(k)'
  BY DEF HandlerInv
<1>1. ApiTypeOK /\ Goes(k)
  BY DEF ApiIInv, HandlerInv
<1> USE DEF ApiTypeOK
<1>3. CASE ManagerStep
  BY <1>1, <1>3 DEF ManagerStep, handlerVars
<1>4. CASE ApiRestart
  BY <1>4 DEF ApiRestart
<1>5. CASE UNCHANGED allVars
  BY <1>1, <1>5 DEF allVars, apiVars, handlerVars
<1>6. ASSUME NEW h \in Handlers, Answers(h)
      PROVE  Goes(k)'
  BY <1>1, <1>6 DEF Answers
<1>7. ASSUME NEW h \in Handlers, NEW q \in Changes, ChangesIngress(h, q)
      PROVE  Goes(k)'
  BY <1>1, <1>6, <1>7 DEF ChangesIngress
<1>8. ASSUME NEW h \in Handlers, NEW q \in Changes, Reads(h, q)
      PROVE  Goes(k)'
  <2>1. PICK r \in {db[q.app], NoRecord} :
            IF r = NoRecord /\ q.op # "upsert"
            THEN Answers(h)
            ELSE /\ hpc' = [hpc EXCEPT ![h] = "read"]
                 /\ hreq' = [hreq EXCEPT ![h] = q]
                 /\ hsnap' = [hsnap EXCEPT ![h] = r]
    BY <1>8 DEF Reads, ReadsRow
  <2>2. CASE ~(r = NoRecord /\ q.op # "upsert")
    BY <1>1, <2>1, <2>2
  <2>3. QED
    BY <1>6, <2>1, <2>2
<1>9. QED
  BY <1>1, <1>3, <1>4, <1>5, <1>6, <1>7, <1>8, Steps
     DEF HandlerStep, Saves, RenderFails

(* A pid gets into a row with the process it belongs to and is only copied *)
(* from there, to the rows of the same app.                                *)
LEMMA OwnedStep == ApiIInv /\ [ApiNext]_allVars => OwnedInv'
<1> SUFFICES ASSUME ApiIInv, [ApiNext]_allVars
             PROVE  OwnedInv'
  OBVIOUS
<1>1. ControlInv /\ TypeOK /\ ApiTypeOK /\ HandlerInv /\ OwnedInv
  BY DEF ApiIInv, ApiTypeOK
<1>2. CASE ManagerStep \/ ApiRestart \/ UNCHANGED allVars
  <2>1. /\ Step
        /\ UNCHANGED <<hpc, hreq, hsnap>> \/ \A h \in Handlers : hpc'[h] # "read"
    BY <1>2 DEF ManagerStep, ApiRestart, Step, allVars, apiVars, handlerVars
  <2>2. ASSUME NEW r, NEW a, Owned(r, a)
        PROVE  Owned(r, a)'
    BY <1>1, <2>1, <2>2, ProcessKept DEF Owned
  <2>3. ASSUME NEW a \in Apps
        PROVE  Owned(db[a], a)'
    <3>1. CASE db'[a] = db[a]
      BY <1>1, <2>2, <3>1 DEF OwnedInv
    <3>2. CASE db'[a] # db[a] /\ db'[a] # NoRecord /\ db'[a].pid # NoPid
      <4>1. PICK i \in Procs : /\ proc[i].state # "none"
                              /\ proc[i].app = a /\ proc[i].pid = db'[a].pid
        BY <1>1, <2>1, <3>2, PidSaved
      <4>2. QED
        BY <1>1, <2>1, <4>1, ProcessKept DEF Owned
    <3>3. QED
      BY <3>1, <3>2 DEF Owned
  <2>4. ASSUME NEW h \in Handlers, hpc'[h] = "read"
        PROVE  Owned(hsnap[h], hreq[h].app)'
    <3>1. Owned(hsnap[h], hreq[h].app) /\ UNCHANGED <<hreq, hsnap>>
      BY <1>1, <2>1, <2>4 DEF OwnedInv
    <3>2. QED
      BY <1>1, <2>1, <3>1, ProcessKept DEF Owned
  <2>5. QED
    BY <2>3, <2>4 DEF OwnedInv
<1>3. ASSUME NEW h \in Handlers, HandlerStep(h)
      PROVE  OwnedInv'
  <2>1. UNCHANGED proc
    BY <1>3, HandlerTypes DEF Others
  <2>2. ASSUME NEW k \in Handlers, hpc'[k] = "read"
        PROVE  Owned(hsnap[k], hreq[k].app)'
    <3>1. \/ UNCHANGED <<hreq, hsnap>> /\ hpc[k] = "read"
          \/ k # h /\ hpc[k] = "read" /\ hreq'[k] = hreq[k] /\ hsnap'[k] = hsnap[k]
          \/ k = h /\ hsnap'[k] = NoRecord
          \/ k = h /\ hsnap'[k] = db[hreq'[k].app] /\ hreq'[k].app \in Apps
      <4> USE DEF ApiTypeOK
      <4>1. CASE Answers(h)
        BY <1>1, <2>2, <4>1 DEF Answers
      <4>2. ASSUME NEW q \in Changes, ChangesIngress(h, q)
            PROVE  \/ UNCHANGED <<hreq, hsnap>> /\ hpc[k] = "read"
                   \/ k # h /\ hpc[k] = "read" /\ hreq'[k] = hreq[k]
                         /\ hsnap'[k] = hsnap[k]
        BY <1>1, <2>2, <4>2 DEF ChangesIngress, Answers
      <4>3. ASSUME NEW q \in Changes, Reads(h, q)
            PROVE  \/ k # h /\ hpc[k] = "read" /\ hreq'[k] = hreq[k]
                         /\ hsnap'[k] = hsnap[k]
                   \/ k = h /\ hsnap'[k] = NoRecord
                   \/ k = h /\ hsnap'[k] = db[hreq'[k].app]
                         /\ hreq'[k].app \in Apps
        <5>1. q.app \in Apps
          BY ApiAssumption DEF Change
        <5>2. QED
          BY <1>1, <2>2, <4>3, <5>1 DEF Reads, ReadsRow, Answers
      <4>4. QED
        BY <1>3, <4>1, <4>2, <4>3 DEF HandlerStep, Saves, RenderFails
    <3>2. QED
      BY <1>1, <2>1, <3>1 DEF OwnedInv, Owned
  <2>3. ASSUME NEW b \in Apps
        PROVE  Owned(db[b], b)'
    <3>1. CASE db' = db
      BY <1>1, <2>1, <3>1 DEF OwnedInv, Owned
    <3>2. ASSUME Saves(h), NEW r \in Changed(hreq[h], hsnap[h]),
                 Saved(hreq[h].app, r)
          PROVE  Owned(db[b], b)'
      <4>1. hpc[h] = "read"
        BY <3>2 DEF Saves
      <4>2. /\ hreq[h].app \in Apps
            /\ r.pid # NoPid => hsnap[h] # NoRecord /\ r.pid = hsnap[h].pid
        BY <1>1, <3>2, <4>1, HeldFacts
      <4>3. Owned(hsnap[h], hreq[h].app)
        BY <1>1, <4>1 DEF OwnedInv
      <4>4. db'[b] = IF b = hreq[h].app THEN r ELSE db[b]
        BY <1>1, <3>2 DEF Saved, TypeOK
      <4>5. CASE b = hreq[h].app
        BY <2>1, <4>2, <4>3, <4>4, <4>5 DEF Owned
      <4>6. CASE b # hreq[h].app
        BY <1>1, <2>1, <4>4, <4>6 DEF OwnedInv, Owned
      <4>7. QED
        BY <4>5, <4>6
    <3>3. QED
      BY <1>3, <3>1, <3>2
         DEF HandlerStep, ChangesIngress, Reads, RenderFails, Saves,
             SaveFailed, vars
  <2>4. QED
    BY <2>2, <2>3 DEF OwnedInv
<1>4. QED
  BY <1>1, <1>2, <1>3, Steps

(* A save that finds the row as it was read does not touch its life. *)
LEMMA ApiLifeStep ==
    ApiIInv /\ [ApiNext]_allVars => (clean' => LifeInv' /\ StartedInv')
<1> SUFFICES ASSUME ApiIInv, [ApiNext]_allVars, clean'
             PROVE  LifeInv' /\ StartedInv'
  OBVIOUS
<1>1. /\ ControlInv /\ TypeOK /\ ApiTypeOK /\ HandlerInv
      /\ clean => LifeInv /\ StartedInv
  BY DEF ApiIInv, ApiTypeOK
<1>2. CASE ManagerStep \/ ApiRestart \/ UNCHANGED allVars
  <2>1. Step /\ clean
    BY <1>2 DEF ManagerStep, ApiRestart, Step, allVars, apiVars, handlerVars
  <2>2. QED
    BY <1>1, <2>1, LifeStep, StartedStep DEF LifeInv
<1>3. ASSUME NEW h \in Handlers, HandlerStep(h)
      PROVE  LifeInv' /\ StartedInv'
  <2>1. Others /\ UNCHANGED crashes /\ (faults' = 0 => faults = 0)
    BY <1>1, <1>3, HandlerTypes, ConstantsAssumption DEF TypeOK
  <2>2. CASE db' = db /\ clean' = clean
    BY <1>1, <2>1, <2>2, OthersKeepLife
  <2>3. ASSUME Saves(h), NEW r \in Changed(hreq[h], hsnap[h]),
               Saved(hreq[h].app, r), clean, db[hreq[h].app] = hsnap[h]
        PROVE  LifeInv' /\ StartedInv'
    <3>1. hpc[h] = "read"
      BY <2>3 DEF Saves
    <3>2. hreq[h].app \in Apps /\ SameLife(r, db[hreq[h].app])
      BY <1>1, <2>3, <3>1, HeldFacts
    <3>3. db' = [db EXCEPT ![hreq[h].app] = r]
      BY <2>3 DEF Saved
    <3>4. QED
      BY <1>1, <2>1, <2>3, <3>2, <3>3, RowKeepsLife
  <2>4. QED
    BY <1>3, <2>2, <2>3
       DEF HandlerStep, ChangesIngress, Reads, RenderFails, Saves,
           SaveFailed, vars, handlerVars
<1>4. QED
  BY <1>1, <1>2, <1>3, Steps

-----------------------------------------------------------------------------
LEMMA InitApiIInv == ApiInit => ApiIInv
<1> SUFFICES ASSUME ApiInit
             PROVE  ApiIInv
  OBVIOUS
<1>1. Init /\ ControlInv /\ LifeInv /\ StartedInv /\ TypeOK
  BY InitIInv DEF ApiInit, IInv, ControlInv, Typed
<1>2. NoChange \in Change
  <2>1. (CHOOSE a \in Apps : TRUE) \in Apps
    BY ConstantsAssumption
  <2>2. QED
    BY <2>1 DEF NoChange, Change
<1>3. ApiTypeOK
  BY <1>1, <1>2 DEF ApiInit, ApiTypeOK
<1>4. HandlerInv
  BY <1>2 DEF ApiInit, HandlerInv
<1>5. OwnedInv
  BY <1>1 DEF ApiInit, Init, OwnedInv, Owned, Declared
<1>6. QED
  BY <1>1, <1>3, <1>4, <1>5 DEF ApiIInv

(* What the handlers of apply, config, render and ingress requests         *)
(* and the two halves of a restart leave standing whatever they overwrite: *)
(* the types, the manager's own state, and that a row names a process of   *)
(* its app; and what they leave standing as long as they overwrite nothing *)
(* (server.go).                                                            *)
THEOREM ApiInvariant == ApiSpec => []ApiIInv
<1>1. ApiIInv /\ [ApiNext]_allVars => ApiIInv'
  <2>1. ApiIInv /\ [ApiNext]_allVars =>
            /\ ApiTypeOK' /\ ControlInv' /\ HandlerInv' /\ OwnedInv'
            /\ clean' => LifeInv' /\ StartedInv'
    BY ApiTypeStep, ApiControlStep, HandlerInvStep, OwnedStep, ApiLifeStep
  <2>2. QED
    BY <2>1 DEF ApiIInv
<1>2. QED
  BY <1>1, InitApiIInv, PTL DEF ApiSpec

(* As long as every save of a handler finds the row as it was read, an app *)
(* keeps one instance, the table knows it, and no RUNNING record is stuck: *)
(* the handlers carry over Status and Pid (handleUpsertApp and the others),*)
(* and a restart is a stop and a start like any other.                     *)
THEOREM SavesKeepLifecycleHolds == ApiSpec => []SavesKeepLifecycle
<1>1. ApiIInv => SavesKeepLifecycle
  BY LifeIsSingle, LifeIsAttended
     DEF ApiIInv, SavesKeepLifecycle, LifeInv
<1>2. QED
  BY <1>1, ApiInvariant, PTL

(* A stale row may carry the pid of a process that is gone, but never that *)
(* of another app's: unless pids are reused, StopApp, DeleteApp and the    *)
(* restart handler signal only processes of the app they were asked for,   *)
(* after any overwrites, failed statements and server restarts.            *)
THEOREM OwnProcessSignalledHolds == ApiSpec => OwnProcessSignalled
<1>1. ApiIInv /\ [ApiNext]_allVars => SignalsOwn
  <2> SUFFICES ASSUME ApiIInv, [ApiNext]_allVars, ~PidReuse,
                      NEW i \in Procs,
                      proc[i].state = "live", proc'[i].state = "term"
               PROVE  \E t \in Threads : /\ call[t].app = proc[i].app
                                         /\ call[t].op \in {"stop", "delete"}
    BY DEF SignalsOwn
  <2>1. ControlInv /\ TypeOK /\ ApiTypeOK /\ OwnedInv
    BY DEF ApiIInv, ApiTypeOK
  <2>2. ~\E h \in Handlers : HandlerStep(h)
    BY HandlerTypes DEF Others
  <2>3. Step
    BY <2>1, <2>2, Steps DEF ManagerStep, ApiRestart, Step, allVars
  <2>4. PICK t \in Threads : /\ call[t].op \in {"stop", "delete"}
                            /\ db[call[t].app] # NoRecord
                            /\ db[call[t].app].pid = proc[i].pid
    BY <2>1, <2>3, SignalSent
  <2>5. call[t].app \in Apps
    BY <2>1, CallFacts DEF TypeOK
  <2>6. proc[i].pid # NoPid
    BY <2>1, ConstantsAssumption DEF ControlInv, ProcInv
  <2>7. PICK j \in Procs : /\ proc[j].state # "none"
                          /\ proc[j].app = call[t].app
                          /\ proc[j].pid = proc[i].pid
    BY <2>1, <2>4, <2>5, <2>6 DEF OwnedInv, Owned
  <2>8. j = i
    BY <2>1, <2>7 DEF ControlInv, ProcInv
  <2>9. QED
    BY <2>4, <2>7, <2>8
<1>2. QED
  BY <1>1, ApiInvariant, PTL DEF ApiSpec, OwnProcessSignalled
=============================================================================
