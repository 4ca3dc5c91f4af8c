-------------------------- MODULE AppCenterProofs ---------------------------
(***************************************************************************)
(* Proofs about AppCenter, for any number of apps, processes, connections, *)
(* updates, crashes and faults: what reports do to the life cycle of the   *)
(* apps, what the store of active apps holds, and that no update passes a  *)
(* registered connection by.  CenterIInv is inductive: one lemma per part, *)
(* with one case per action.                                               *)
(***************************************************************************)
EXTENDS AppCenter, AppManagerProofs

USE DEF Empty

(* A step of the manager, a step of a connection or a sender, a restart.   *)
ManagerStep ==
    /\ \/ \E t \in Threads : \/ \E c \in Calls : Request(t, c)
                             \/ ThreadLocks(t) \/ ThreadRuns(t) \/ Reply(t)
       \/ \E i \in Procs : WaiterLocks(i) \/ WaiterRuns(i) \/ ProcExit(i)
    /\ UNCHANGED centerVars

LEMMA Steps ==
    CenterNext =>
        \/ ManagerStep
        \/ \E c \in Conns, i \in Procs : Connects(c, i)
        \/ \E c \in Conns : \E q \in Reports(peer[c]) : Decodes(c, q)
        \/ \E c \in Conns : ReadsRow(c)
        \/ \E c \in Conns : SavesReport(c)
        \/ \E c \in Conns : GetsConfig(c)
        \/ \E c \in Conns : Replies(c)
        \/ \E c \in Conns : Closes(c)
        \/ \E a \in Apps : Sets(a)
        \/ \E a \in Apps : \E n \in 1..MaxUpdates : SendConfigUpdate(a, n)
        \/ CenterRestart
  BY DEF CenterNext, ManagerStep, handleConnection

LEMMA ManagerStepIsStep == ManagerStep \/ CenterRestart => Step
  BY NextIsStep DEF ManagerStep, CenterRestart, Next

(* What a process reports is about its own app. *)
LEMMA ReportFacts ==
    ASSUME TypeOK, NEW i \in Procs, NEW q \in Reports(i)
    PROVE  /\ q \in Report
           /\ q.app = proc[i].app /\ q.pid \in {NoPid, proc[i].pid}
<1>1. PICK f \in Forms :
        q = [op |-> f.op, app |-> proc[i].app, status |-> f.status,
             pid |-> IF f.pid THEN proc[i].pid ELSE NoPid, port |-> f.port]
  BY DEF Reports
<1>2. f \in Form
  BY CenterAssumption
<1>3. proc[i].app \in Apps /\ proc[i].pid \in Pids \cup {NoPid}
  BY DEF TypeOK
<1>4. QED
  BY <1>1, <1>2, <1>3 DEF Form, Report

(* What mergeAppInfo makes is a row, with the pid and the status of the    *)
(* report or of the row it was made of.                                    *)
LEMMA MergedFacts ==
    ASSUME NEW r \in Record \cup {NoRecord}, NEW q \in Report,
           NEW s \in Merged(r, q)
    PROVE  /\ s \in Record
           /\ r = NoRecord => s.pid = q.pid
           /\ r # NoRecord => /\ s.status \in {r.status, "RUNNING"}
                             /\ \/ s.pid = r.pid
                                \/ q.pid # NoPid /\ s.pid = q.pid
<1>1. /\ q.status \in Status /\ q.pid \in Pids \cup {NoPid}
      /\ q.port \in BOOLEAN /\ q.status \in {"", "RUNNING"}
  BY DEF Report, Status
<1>2. CASE r = NoRecord
  <2>1. s = [status |-> q.status, pid |-> q.pid, exposed |-> FALSE,
             config |-> NoConfig]
    BY <1>2, Zenon DEF Merged
  <2>2. QED
    BY <1>1, <1>2, <2>1 DEF Record
<1>3. CASE r \in Record /\ r # NoRecord
  <2>1. PICK e \in BOOLEAN :
          s = [r EXCEPT !.status = IF q.status # "" THEN q.status ELSE @,
                        !.pid = IF q.pid # NoPid THEN q.pid ELSE @,
                        !.exposed = e]
    <3>1. r.exposed \in BOOLEAN
      BY <1>3 DEF Record
    <3>2. (IF q.port THEN {TRUE, r.exposed} ELSE {r.exposed}) \subseteq BOOLEAN
      BY <1>1, <3>1, Zenon
    <3>3. QED
      BY <1>3, <3>2, Zenon DEF Merged
  <2>2. QED
    BY <1>1, <1>3, <2>1 DEF Record
<1>4. QED
  BY <1>2, <1>3

-----------------------------------------------------------------------------
(* The steps of the center leave the manager as it is, though they write   *)
(* the table without its mutex.                                            *)
LEMMA ControlCenterStep == CenterIInv /\ [CenterNext]_allVars => ControlInv'
<1> SUFFICES ASSUME CenterIInv, [CenterNext]_allVars
             PROVE  ControlInv'
  OBVIOUS
<1>1. ControlInv /\ TypeOK /\ CenterTypeOK
  BY DEF CenterIInv, CenterTypeOK
<1>2. CASE ManagerStep \/ CenterRestart
  BY <1>1, <1>2, ManagerStepIsStep, ControlStep
<1>3. CASE UNCHANGED vars
  <2>1. Others /\ TypeOK'
    BY <1>1, <1>3 DEF Others, TypeOK, vars, osVars, threadVars, waiterVars
  <2>2. QED
    BY <1>1, <2>1, OthersKeepControl
<1>4. ASSUME NEW c \in Conns, ReadsRow(c)
      PROVE  ControlInv'
  <2>1. faults' \in 0..MaxFaults
    BY <1>1, <1>4, ConstantsAssumption DEF ReadsRow, GetApp, TypeOK
  <2>2. UNCHANGED <<db, osVars, waiterVars, mu, threadVars, crashes>>
    BY <1>4 DEF ReadsRow
  <2>3. TypeOK' /\ Others
    BY <1>1, <2>1, <2>2 DEF TypeOK, Others, osVars, threadVars, waiterVars
  <2>4. QED
    BY <1>1, <2>3, OthersKeepControl
<1>5. ASSUME NEW c \in Conns, SavesReport(c)
      PROVE  ControlInv'
  <2>1. report[c] \in Report /\ csnap[c] \in Record \cup {NoRecord}
    BY <1>5 DEF SavesReport, CenterIInv, CenterTypeOK, ConnInv,
           ConnOK, Serves
  <2>2. faults' \in 0..MaxFaults
    BY <1>1, <1>5, ConstantsAssumption DEF SavesReport, Saved, SaveFailed, TypeOK
  <2>3. db' \in [Apps -> Record \cup {NoRecord}]
    <3>1. CASE db' = db
      BY <1>1, <3>1 DEF TypeOK
    <3>2. ASSUME NEW r \in Merged(csnap[c], report[c]),
                 Saved(report[c].app, r)
          PROVE  db' \in [Apps -> Record \cup {NoRecord}]
      <4>1. r \in Record
        BY <2>1, MergedFacts
      <4>2. QED
        BY <1>1, <3>2, <4>1 DEF Saved, TypeOK
    <3>3. QED
      BY <1>5, <3>1, <3>2, Zenon DEF SavesReport, SaveFailed
  <2>4. UNCHANGED <<osVars, waiterVars, mu, threadVars, crashes>>
    BY <1>5 DEF SavesReport
  <2>5. TypeOK' /\ Others
    BY <1>1, <2>2, <2>3, <2>4 DEF TypeOK, Others, osVars, threadVars, waiterVars
  <2>6. QED
    BY <1>1, <2>5, OthersKeepControl
<1>6. QED
  BY <1>2, <1>3, <1>4, <1>5, Steps
     DEF Connects, Decodes, GetsConfig, Replies, Closes, Sets,
         SendConfigUpdate, allVars

(* A report that is merged into the row as it was read, from a process     *)
(* that still runs, says what the row says already, unless the process     *)
(* has yet to be recorded by the call that started it.                     *)
LEMMA LifeCenterStep ==
    CenterIInv /\ [CenterNext]_allVars => (timely' => LifeInv')
<1> SUFFICES ASSUME CenterIInv, [CenterNext]_allVars, timely'
             PROVE  LifeInv'
  OBVIOUS
<1>1. /\ ControlInv /\ TypeOK /\ CenterTypeOK /\ ConnInv
      /\ timely => LifeInv
  BY DEF CenterIInv, CenterTypeOK
<1>2. ASSUME timely, UNCHANGED <<db, proc, waiterVars, mu, threadVars, crashes>>,
             faults' \in {faults, faults + 1}
      PROVE  LifeInv'
  <2>1. Others /\ UNCHANGED <<db, crashes>> /\ (faults' = 0 => faults = 0)
    BY <1>1, <1>2, ConstantsAssumption DEF Others, TypeOK
  <2>2. QED
    BY <1>1, <1>2, <2>1, OthersKeepLife
<1>3. CASE ManagerStep \/ CenterRestart
  <2>1. timely
    BY <1>3 DEF ManagerStep, centerVars, history, CenterRestart
  <2>2. QED
    BY <1>1, <1>3, <2>1, ManagerStepIsStep, LifeStep
<1>4. ASSUME UNCHANGED <<vars, timely>>
      PROVE  LifeInv'
  BY <1>2, <1>4 DEF vars, osVars
<1>5. ASSUME NEW c \in Conns, ReadsRow(c)
      PROVE  LifeInv'
  BY <1>2, <1>5 DEF ReadsRow, GetApp, osVars, history
<1>6. ASSUME NEW c \in Conns, SavesReport(c)
      PROVE  LifeInv'
  <2> DEFINE i == peer[c]
             q == report[c]
  <2>1. CASE SaveFailed /\ UNCHANGED timely
    BY <1>2, <1>6, <2>1 DEF SavesReport, SaveFailed, osVars
  <2>2. CASE /\ \E r \in Merged(csnap[c], q) : Saved(q.app, r)
             /\ timely /\ db[q.app] = csnap[c] /\ Entitled(i)
    <3>1. /\ i \in Procs /\ q \in Report /\ q.app = proc[i].app
          /\ q.pid \in {NoPid, proc[i].pid}
      BY <1>1, <1>6 DEF SavesReport, ConnInv, ConnOK, Open, Serves
    <3>2. PICK r \in Merged(csnap[c], q) : Saved(q.app, r)
      BY <2>2
    <3>3. csnap[c] \in Record \cup {NoRecord}
      BY <1>1 DEF CenterTypeOK
    <3>4. SaysOf(i, r, csnap[c])
      BY <3>1, <3>3, MergedFacts, ConstantsAssumption DEF SaysOf
    <3>5. /\ Others /\ UNCHANGED <<crashes, faults>>
          /\ db' = [db EXCEPT ![proc[i].app] = r]
      BY <1>6, <3>1, <3>2 DEF SavesReport, Saved, Others, osVars
    <3>6. LifeInv /\ proc[i].state = "live" /\ waiter[i] # "lost"
      BY <1>1, <2>2 DEF Entitled
    <3>7. SaysOf(i, r, db[proc[i].app])
      BY <2>2, <3>1, <3>4
    <3>8. QED
      BY <1>1, <3>1, <3>5, <3>6, <3>7, ReportKeepsLife
  <2>3. QED
    BY <1>6, <2>1, <2>2 DEF SavesReport
<1>7. QED
  BY <1>3, <1>4, <1>5, <1>6, Steps
     DEF Connects, Decodes, GetsConfig, Replies, Closes, Sets,
         SendConfigUpdate, allVars, centerVars, history

(* Every step keeps the types of what the center adds. *)
LEMMA CenterTypeStep == CenterIInv /\ [CenterNext]_allVars => CenterTypeOK'
<1> SUFFICES ASSUME CenterIInv, [CenterNext]_allVars
             PROVE  CenterTypeOK'
  OBVIOUS
<1>0. TypeOK' /\ TypeOK /\ CenterTypeOK
  BY ControlCenterStep DEF CenterIInv, CenterTypeOK, ControlInv, Typed
<1> USE <1>0, CenterAssumption
        DEF CenterTypeOK, connVars, updateVars, history
<1>1. CASE ManagerStep \/ UNCHANGED allVars
  BY <1>1 DEF ManagerStep, centerVars, allVars
<1>2. ASSUME NEW c \in Conns, NEW i \in Procs, Connects(c, i)
      PROVE  CenterTypeOK'
  BY <1>2 DEF Connects
<1>3. ASSUME NEW c \in Conns, NEW q \in Reports(peer[c]), Decodes(c, q)
      PROVE  CenterTypeOK'
  <2>1. q \in Report /\ q.app \in Apps
    <3>1. peer[c] \in Procs
      BY <1>3 DEF Decodes, CenterIInv, ConnInv, ConnOK, Open
    <3>2. QED
      BY <3>1, ReportFacts DEF Report
  <2>2. cpc' \in [Conns -> {"closed", "reading", "reporting", "merging",
                            "saved", "replying"}]
    BY <1>3 DEF Decodes, Goes
  <2>3. /\ active' \in [Apps -> Conns \cup {NoConn}]
        /\ named' \in [Conns -> Apps \cup {NoApp}]
        /\ doubled' \in BOOLEAN
    BY <1>3, <2>1 DEF Decodes, RegisterActiveApp
  <2>4. report' \in [Conns -> Report \cup {NoReport}]
    BY <1>3, <2>1 DEF Decodes
  <2>5. QED
    BY <1>3, <2>2, <2>3, <2>4 DEF Decodes
<1>4. ASSUME NEW c \in Conns, ReadsRow(c)
      PROVE  CenterTypeOK'
  <2>1. csnap' \in [Conns -> Record \cup {NoRecord}]
    <3>1. report[c] \in Report
      BY <1>4 DEF ReadsRow, CenterIInv, ConnInv, ConnOK, Serves
    <3>2. db[report[c].app] \in Record \cup {NoRecord}
      BY <3>1 DEF Report, TypeOK
    <3>3. QED
      BY <1>4, <3>2 DEF ReadsRow
  <2>2. QED
    BY <1>4, <2>1 DEF ReadsRow, Goes
<1>5. ASSUME NEW c \in Conns, SavesReport(c)
      PROVE  CenterTypeOK'
  <2>1. cpc' \in [Conns -> {"closed", "reading", "reporting", "merging",
                            "saved", "replying"}]
    BY <1>5 DEF SavesReport, Goes
  <2>2. timely' \in BOOLEAN
    BY <1>5 DEF SavesReport, Entitled
  <2>3. QED
    BY <1>5, <2>1, <2>2 DEF SavesReport
<1>6. ASSUME NEW c \in Conns, GetsConfig(c)
      PROVE  CenterTypeOK'
  <2>1. report[c].app \in Apps
    BY <1>6 DEF GetsConfig, CenterIInv, ConnInv, ConnOK, Serves, Report
  <2>2. /\ reply' \in [Conns -> 0..MaxUpdates]
        /\ slipped' \subseteq Apps
    BY <1>6, <2>1 DEF GetsConfig
  <2>3. QED
    BY <1>6, <2>2 DEF GetsConfig, Goes
<1>7. ASSUME NEW c \in Conns, Replies(c)
      PROVE  CenterTypeOK'
  <2>1. got' \in [Conns -> 0..MaxUpdates]
    BY <1>7 DEF Replies
  <2>2. QED
    BY <1>7, <2>1 DEF Replies, Goes
<1>8. ASSUME NEW c \in Conns, Closes(c)
      PROVE  CenterTypeOK'
  BY <1>8 DEF Closes, Goes, UnregisterActiveApp
<1>9. ASSUME NEW a \in Apps, Sets(a)
      PROVE  CenterTypeOK'
  BY <1>9 DEF Sets
<1>10. ASSUME NEW a \in Apps, NEW n \in 1..MaxUpdates, SendConfigUpdate(a, n)
       PROVE  CenterTypeOK'
  <2>1. got' \in [Conns -> 0..MaxUpdates]
    <3>1. \/ got' = got
          \/ got' = [got EXCEPT ![active[a]] = n]
      BY <1>10 DEF SendConfigUpdate
    <3>2. QED
      BY <3>1
  <2>2. pushed' \in [Apps -> 0..MaxUpdates]
    BY <1>10 DEF SendConfigUpdate, Pushes
  <2>3. slipped' \subseteq Apps
    BY <1>10 DEF SendConfigUpdate
  <2>4. QED
    BY <1>10, <2>1, <2>2, <2>3 DEF SendConfigUpdate
<1>11. CASE CenterRestart
  BY <1>11 DEF CenterRestart
<1>12. QED
  BY <1>1, <1>2, <1>3, <1>4, <1>5, <1>6, <1>7, <1>8, <1>9, <1>10, <1>11, Steps

-----------------------------------------------------------------------------
(* The connections keep to their processes.  A step touches one connection *)
(* or, as a step of the manager, none: the processes it may change stay    *)
(* started and of the same app (ProcessKept).                              *)
LEMMA ConnStep == CenterIInv /\ [CenterNext]_allVars => ConnInv'
<1> SUFFICES ASSUME CenterIInv, [CenterNext]_allVars,
                    NEW d \in Conns
             PROVE  ConnOK(d)'
  BY DEF ConnInv
<1> USE DEF connVars, updateVars, history, ConnOK, Open, Serves, Goes
<1>1. TypeOK /\ CenterTypeOK
  BY DEF CenterIInv, CenterTypeOK
<1>2. ConnOK(d)
  BY DEF CenterIInv, ConnInv
<1>3. CASE UNCHANGED allVars
  BY <1>2, <1>3 DEF allVars, vars, osVars, centerVars
<1>4. CASE ManagerStep
  <2>1. UNCHANGED centerVars /\ Step
    BY <1>4, ManagerStepIsStep DEF ManagerStep
  <2>2. Open(d) => /\ proc'[peer[d]].state # "none"
                   /\ proc'[peer[d]].app = proc[peer[d]].app
                   /\ proc'[peer[d]].pid = proc[peer[d]].pid
    BY <1>1, <1>2, <2>1, ProcessKept
  <2>3. QED
    BY <1>2, <2>1, <2>2 DEF centerVars
<1>5. ASSUME NEW c \in Conns, NEW i \in Procs, Connects(c, i)
      PROVE  ConnOK(d)'
  BY <1>1, <1>2, <1>5 DEF Connects, vars, osVars, CenterTypeOK
<1>6. ASSUME NEW c \in Conns, NEW q \in Reports(peer[c]), Decodes(c, q)
      PROVE  ConnOK(d)'
  <2>1. c = d => /\ q \in Report /\ q.app = proc[peer[c]].app
               /\ q.pid \in {NoPid, proc[peer[c]].pid}
    BY <1>1, <1>2, <1>6, ReportFacts DEF Decodes
  <2>2. q \in Report => q.op \in {"register", "app_start", "get_config"}
    BY DEF Report
  <2>3. QED
    BY <1>1, <1>2, <1>6, <2>1, <2>2 DEF Decodes, vars, osVars, CenterTypeOK
<1>7. ASSUME NEW c \in Conns, ReadsRow(c)
      PROVE  ConnOK(d)'
  <2>1. cpc[c] = "reporting" => reply[c] = Empty \/ c # d
    BY <1>2
  <2>2. QED
    BY <1>1, <1>2, <1>7, <2>1 DEF ReadsRow, osVars, CenterTypeOK
<1>8. ASSUME NEW c \in Conns, SavesReport(c)
      PROVE  ConnOK(d)'
  BY <1>1, <1>2, <1>8 DEF SavesReport, osVars, CenterTypeOK
<1>9. ASSUME NEW c \in Conns, GetsConfig(c)
      PROVE  ConnOK(d)'
  BY <1>1, <1>2, <1>9 DEF GetsConfig, vars, osVars, CenterTypeOK
<1>10. ASSUME NEW c \in Conns, Replies(c)
       PROVE  ConnOK(d)'
  BY <1>1, <1>2, <1>10 DEF Replies, vars, osVars, CenterTypeOK
<1>11. ASSUME NEW c \in Conns, Closes(c)
       PROVE  ConnOK(d)'
  BY <1>1, <1>2, <1>11 DEF Closes, vars, osVars, CenterTypeOK
<1>12. ASSUME NEW a \in Apps,
             Sets(a) \/ \E n \in 1..MaxUpdates : SendConfigUpdate(a, n)
       PROVE  ConnOK(d)'
  BY <1>2, <1>12 DEF Sets, SendConfigUpdate, vars, osVars
<1>13. CASE CenterRestart
  BY <1>13 DEF CenterRestart
<1>14. QED
  BY <1>3, <1>4, <1>5, <1>6, <1>7, <1>8, <1>9, <1>10, <1>11, <1>12, <1>13,
     Steps

-----------------------------------------------------------------------------
(* An entry is made together with the name of its connection and goes when *)
(* that name does; a connection keeps its name while it is open, because   *)
(* all it announces is the app of one process.                             *)
LEMMA ActiveStep == CenterIInv /\ [CenterNext]_allVars => ActiveIsServed'
<1> SUFFICES ASSUME CenterIInv, [CenterNext]_allVars,
                    NEW b \in Apps
             PROVE  Served(b)'
  BY DEF ActiveIsServed
<1> USE DEF connVars, updateVars, history, Served, Open, Goes
<1>1. CenterTypeOK /\ ConnInv
  BY DEF CenterIInv
<1>2. active[b] # NoConn => /\ active[b] \in Conns
                            /\ Open(active[b]) /\ named[active[b]] = b
  BY <1>1 DEF CenterIInv, ActiveIsServed, CenterTypeOK
<1>3. CASE ManagerStep \/ UNCHANGED allVars
  BY <1>2, <1>3 DEF ManagerStep, allVars, centerVars
<1>4. ASSUME NEW c \in Conns, NEW i \in Procs, Connects(c, i)
      PROVE  Served(b)'
  BY <1>1, <1>2, <1>4 DEF Connects, CenterTypeOK
<1>5. ASSUME NEW c \in Conns, NEW q \in Reports(peer[c]), Decodes(c, q)
      PROVE  Served(b)'
  <2>1. /\ q \in Report /\ q.app = proc[peer[c]].app
        /\ named[c] # NoApp => named[c] = q.app
    <3>1. peer[c] \in Procs
          /\ (named[c] # NoApp => named[c] = proc[peer[c]].app)
      BY <1>1, <1>5 DEF Decodes, ConnInv, ConnOK
    <3>2. QED
      BY <1>1, <3>1, ReportFacts DEF CenterTypeOK
  <2>2. CASE q.op = "app_start"
    <3>1. q.app \in Apps /\ b # NoApp
      BY <2>1, CenterAssumption DEF Report
    <3>2. QED
      BY <1>1, <1>2, <1>5, <2>1, <2>2, <3>1
         DEF Decodes, RegisterActiveApp, CenterTypeOK
  <2>3. CASE q.op # "app_start"
    BY <1>1, <1>2, <1>5, <2>3 DEF Decodes, CenterTypeOK
  <2>4. QED
    BY <2>2, <2>3
<1>6. ASSUME NEW c \in Conns,
             ReadsRow(c) \/ SavesReport(c) \/ GetsConfig(c) \/ Replies(c)
      PROVE  Served(b)'
  BY <1>1, <1>2, <1>6
     DEF ReadsRow, SavesReport, GetsConfig, Replies, CenterTypeOK
<1>7. ASSUME NEW c \in Conns, Closes(c)
      PROVE  Served(b)'
  <2>1. CASE b = named[c]
    BY <1>7, <2>1 DEF Closes, UnregisterActiveApp
  <2>2. CASE b # named[c]
    <3>1. active'[b] = active[b] /\ active[b] # c
      BY <1>2, <1>7, <2>2, CenterAssumption DEF Closes, UnregisterActiveApp
    <3>2. QED
      BY <1>1, <1>2, <1>7, <3>1 DEF Closes, CenterTypeOK
  <2>3. QED
    BY <2>1, <2>2
<1>8. ASSUME NEW a \in Apps,
             Sets(a) \/ \E n \in 1..MaxUpdates : SendConfigUpdate(a, n)
      PROVE  Served(b)'
  BY <1>2, <1>8 DEF Sets, SendConfigUpdate
<1>9. CASE CenterRestart
  BY <1>9 DEF CenterRestart
<1>10. QED
  BY <1>3, <1>4, <1>5, <1>6, <1>7, <1>8, <1>9, Steps

(* While no app has been announced twice, the name of a connection is that *)
(* of no other one: nobody else replaces or removes its entry.             *)
LEMMA ListedStep == CenterIInv /\ [CenterNext]_allVars => ConnectedIsListed'
<1> SUFFICES ASSUME CenterIInv, [CenterNext]_allVars,
                    ~doubled', NEW d \in Conns, named'[d] # NoApp
             PROVE  active'[named'[d]] = d
  BY DEF ConnectedIsListed
<1> USE DEF connVars, updateVars, history, Goes
<1>1. CenterTypeOK /\ ConnInv
  BY DEF CenterIInv
<1>2. ~doubled => \A c \in Conns : named[c] # NoApp => active[named[c]] = c
  BY DEF CenterIInv, ConnectedIsListed
<1>3. CASE ManagerStep \/ UNCHANGED allVars
  BY <1>2, <1>3 DEF ManagerStep, allVars, centerVars
<1>4. ASSUME NEW c \in Conns, NEW i \in Procs, Connects(c, i)
      PROVE  active'[named'[d]] = d
  BY <1>2, <1>4 DEF Connects
<1>5. ASSUME NEW c \in Conns, NEW q \in Reports(peer[c]), Decodes(c, q)
      PROVE  active'[named'[d]] = d
  <2>1. CASE q.op # "app_start"
    BY <1>2, <1>5, <2>1 DEF Decodes
  <2>2. CASE q.op = "app_start" /\ c = d
    <3>1. named'[d] = q.app
      BY <1>1, <1>5, <2>2 DEF Decodes, CenterTypeOK
    <3>2. q.app \in Apps
      <4>1. peer[c] \in Procs
        BY <1>1, <1>5 DEF Decodes, ConnInv, ConnOK, Open
      <4>2. QED
        BY <1>1, <4>1, ReportFacts DEF CenterTypeOK, Report
    <3>3. QED
      BY <1>1, <1>5, <2>2, <3>1, <3>2
         DEF Decodes, RegisterActiveApp, CenterTypeOK
  <2>3. CASE q.op = "app_start" /\ c # d
    <3>1. named'[d] = named[d] /\ ~doubled
      BY <1>1, <1>5, <2>3 DEF Decodes, CenterTypeOK
    <3>2. named[d] # q.app
      <4>1. Open(d)
        BY <1>1, <3>1 DEF ConnInv, ConnOK
      <4>2. QED
        BY <1>5, <2>3, <4>1 DEF Decodes
    <3>3. active'[named[d]] = active[named[d]]
      BY <1>1, <1>5, <2>3, <3>1, <3>2
         DEF Decodes, RegisterActiveApp, CenterTypeOK
    <3>4. QED
      BY <1>2, <3>1, <3>3
  <2>4. QED
    BY <2>1, <2>2, <2>3
<1>6. ASSUME NEW c \in Conns,
             ReadsRow(c) \/ SavesReport(c) \/ GetsConfig(c) \/ Replies(c)
      PROVE  active'[named'[d]] = d
  BY <1>2, <1>6 DEF ReadsRow, SavesReport, GetsConfig, Replies
<1>7. ASSUME NEW c \in Conns, Closes(c)
      PROVE  active'[named'[d]] = d
  <2>1. c # d /\ named'[d] = named[d] /\ ~doubled
    BY <1>1, <1>7 DEF Closes, CenterTypeOK
  <2>2. active[named[d]] = d /\ named[d] \in Apps
    BY <1>1, <1>2, <2>1 DEF CenterTypeOK
  <2>3. named[c] # named[d]
    BY <1>2, <2>1, <2>2, CenterAssumption
  <2>4. QED
    BY <1>7, <2>1, <2>2, <2>3 DEF Closes, UnregisterActiveApp
<1>8. ASSUME NEW a \in Apps,
             Sets(a) \/ \E n \in 1..MaxUpdates : SendConfigUpdate(a, n)
      PROVE  active'[named'[d]] = d
  BY <1>2, <1>8 DEF Sets, SendConfigUpdate
<1>9. CASE CenterRestart
  BY <1>9 DEF CenterRestart
<1>10. QED
  BY <1>3, <1>4, <1>5, <1>6, <1>7, <1>8, <1>9, Steps

(* What is sent was set, and what was set is not taken back. *)
LEMMA SentWasSetStep == CenterIInv /\ [CenterNext]_allVars => SentWasSet'
<1> SUFFICES ASSUME CenterIInv, [CenterNext]_allVars,
                    NEW b \in Apps
             PROVE  (pushed[b] <= update[b])'
  BY DEF SentWasSet
<1> USE DEF updateVars
<1>1. CenterTypeOK /\ pushed[b] <= update[b]
  BY DEF CenterIInv, UpdateInv, SentWasSet
<1>2. update[b] \in Nat /\ pushed[b] \in Nat
  BY <1>1, CenterAssumption DEF CenterTypeOK
<1>3. ASSUME NEW a \in Apps, Sets(a)
      PROVE  (pushed[b] <= update[b])'
  <2>1. pushed' = pushed /\ update'[b] \in {update[b], update[b] + 1}
    BY <1>1, <1>3 DEF Sets, CenterTypeOK
  <2>2. QED
    BY <1>1, <1>2, <2>1
<1>4. ASSUME NEW a \in Apps, NEW n \in 1..MaxUpdates, SendConfigUpdate(a, n)
      PROVE  (pushed[b] <= update[b])'
  <2>1. update' = update /\ (pushed'[b] = pushed[b] \/ (a = b /\ pushed'[b] = n))
    BY <1>1, <1>4 DEF SendConfigUpdate, Pushes, CenterTypeOK
  <2>2. n \in 1..update[a]
    BY <1>4 DEF SendConfigUpdate
  <2>3. QED
    BY <1>1, <1>2, <2>1, <2>2
<1>5. CASE ~(\E a \in Apps : Sets(a) \/ \E n \in 1..MaxUpdates : SendConfigUpdate(a, n))
  <2>1. UNCHANGED <<pushed, update>>
    BY <1>5, Steps
       DEF ManagerStep, Connects, Decodes, ReadsRow, SavesReport, GetsConfig,
           Replies, Closes, CenterRestart, allVars, centerVars
  <2>2. QED
    BY <1>1, <2>1
<1>6. QED
  BY <1>3, <1>4, <1>5

(* An update is read after the registration or sent to the connection that *)
(* is registered.  Each step is about one connection, and a connection is  *)
(* registered for one app only (ActiveIsServed).                           *)
LEMMA UpdateStep == CenterIInv /\ [CenterNext]_allVars => UpdateInv'
<1> SUFFICES ASSUME CenterIInv, [CenterNext]_allVars,
                    NEW b \in Apps, b \notin slipped'
             PROVE  Current(b)'
  BY SentWasSetStep DEF UpdateInv, SentWasSet
<1> USE DEF connVars, updateVars, history, Goes, Current, UpToDate
<1>1. CenterTypeOK /\ ConnInv
  BY DEF CenterIInv
<1>2. \A a \in Apps : active[a] # NoConn =>
          active[a] \in Conns /\ named[active[a]] = a
  BY <1>1 DEF CenterIInv, ActiveIsServed, Served, CenterTypeOK
<1>3. b \notin slipped => Current(b)
  BY DEF CenterIInv, UpdateInv
<1>4. /\ pushed[b] \in Nat /\ update[b] \in Nat /\ pushed[b] <= update[b]
      /\ \A c \in Conns : reply[c] \in Nat /\ got[c] \in Nat
  BY <1>1, CenterAssumption
     DEF CenterTypeOK, CenterIInv, UpdateInv, SentWasSet
<1>5. CASE ManagerStep \/ UNCHANGED allVars
  BY <1>3, <1>5 DEF ManagerStep, allVars, centerVars
<1>6. ASSUME NEW c \in Conns, NEW i \in Procs, Connects(c, i)
      PROVE  Current(b)'
  <2>1. active[b] = c => named[c] = b /\ b # NoApp
    BY <1>2, CenterAssumption
  <2>2. active[b] # c
    BY <1>1, <1>6, <2>1 DEF Connects, ConnInv, ConnOK, Open
  <2>3. QED
    BY <1>1, <1>2, <1>3, <1>6, <2>2 DEF Connects, CenterTypeOK
<1>7. ASSUME NEW c \in Conns, NEW q \in Reports(peer[c]), Decodes(c, q)
      PROVE  Current(b)'
  <2>1. /\ q.op \in {"register", "app_start", "get_config"}
        /\ q.app \in Apps
        /\ named[c] # NoApp => named[c] = q.app
        /\ reply[c] = Empty
    <3>1. /\ peer[c] \in Procs
          /\ named[c] # NoApp => named[c] = proc[peer[c]].app
          /\ reply[c] = Empty
      BY <1>1, <1>7 DEF Decodes, ConnInv, ConnOK, Open
    <3>2. QED
      BY <1>1, <3>1, ReportFacts DEF CenterTypeOK, Report
  <2>2. CASE q.op = "app_start" /\ b = q.app
    <3>1. active'[b] = c /\ cpc'[c] = "reporting" /\ report'[c] = q
      BY <1>1, <1>7, <2>2 DEF Decodes, RegisterActiveApp, CenterTypeOK
    <3>2. QED
      BY <2>2, <3>1
  <2>3. CASE q.op = "app_start" /\ b # q.app
    <3>1. active'[b] = active[b]
      BY <1>1, <1>7, <2>3 DEF Decodes, RegisterActiveApp, CenterTypeOK
    <3>2. active[b] # c
      BY <1>2, <2>1, <2>3, CenterAssumption
    <3>3. QED
      BY <1>1, <1>2, <1>3, <1>7, <3>1, <3>2 DEF Decodes, CenterTypeOK
  <2>4. CASE q.op # "app_start" /\ active[b] # c
    BY <1>1, <1>2, <1>3, <1>7, <2>4 DEF Decodes, CenterTypeOK
  <2>5. CASE q.op = "register" /\ active[b] = c
    <3>1. /\ active' = active /\ reply' = reply /\ got' = got
          /\ UNCHANGED <<pushed, slipped>> /\ cpc[c] = "reading"
      BY <1>7, <2>5 DEF Decodes
    <3>2. QED
      BY <1>2, <1>3, <1>4, <2>1, <2>5, <3>1
  <2>6. CASE q.op = "get_config" /\ active[b] = c
    <3>1. active' = active /\ cpc'[c] = "saved" /\ report'[c] = q
      BY <1>1, <1>7, <2>6 DEF Decodes, CenterTypeOK
    <3>2. QED
      BY <2>6, <3>1
  <2>7. QED
    BY <2>1, <2>2, <2>3, <2>4, <2>5, <2>6
<1>8. ASSUME NEW c \in Conns, ReadsRow(c) \/ SavesReport(c)
      PROVE  Current(b)'
  BY <1>1, <1>2, <1>3, <1>8 DEF ReadsRow, SavesReport, CenterTypeOK
<1>9. ASSUME NEW c \in Conns, GetsConfig(c)
      PROVE  Current(b)'
  <2>1. CASE active[b] = c
    <3>1. named[c] = b /\ named[c] # NoApp
      BY <1>2, <2>1, CenterAssumption
    <3>2. report[c].app = b
      BY <1>1, <1>9, <3>1 DEF GetsConfig, ConnInv, ConnOK, Serves
    <3>3. CASE reply' = [reply EXCEPT ![c] = update[report[c].app]]
      <4>1. /\ reply'[c] = update[b] /\ reply[c] = Empty
            /\ got' = got /\ pushed' = pushed
        BY <1>1, <1>9, <2>1, <3>2, <3>3
           DEF GetsConfig, CenterTypeOK, ConnInv, ConnOK
      <4>2. update[b] = Empty => pushed[b] = 0
        BY <1>4
      <4>3. active'[b] = c
        BY <1>9, <2>1 DEF GetsConfig
      <4>4. QED
        BY <1>4, <2>1, <4>1, <4>2, <4>3
    <3>4. CASE slipped' = slipped \cup {report[c].app}
      BY <3>2, <3>4
    <3>5. QED
      BY <1>9, <3>3, <3>4, Zenon DEF GetsConfig
  <2>2. CASE active[b] # c
    BY <1>1, <1>2, <1>3, <1>9, <2>2 DEF GetsConfig, CenterTypeOK
  <2>3. QED
    BY <2>1, <2>2
<1>10. ASSUME NEW c \in Conns, Replies(c)
       PROVE  Current(b)'
  <2>1. CASE active[b] = c
    <3>1. reply'[c] = Empty /\ cpc[c] = "replying"
      BY <1>1, <1>10 DEF Replies, CenterTypeOK
    <3>2. got'[c] = IF reply[c] = Empty THEN got[c] ELSE reply[c]
      BY <1>1, <1>10 DEF Replies, CenterTypeOK
    <3>3. UNCHANGED <<active, pushed, slipped>>
      BY <1>10 DEF Replies
    <3>4. QED
      BY <1>3, <1>4, <2>1, <3>1, <3>2, <3>3
  <2>2. CASE active[b] # c
    BY <1>1, <1>2, <1>3, <1>10, <2>2 DEF Replies, CenterTypeOK
  <2>3. QED
    BY <2>1, <2>2
<1>11. ASSUME NEW c \in Conns, Closes(c)
       PROVE  Current(b)'
  <2>1. CASE b = named[c]
    BY <1>11, <2>1 DEF Closes, UnregisterActiveApp
  <2>2. CASE b # named[c]
    <3>1. active'[b] = active[b] /\ active[b] # c
      BY <1>2, <1>11, <2>2, CenterAssumption DEF Closes, UnregisterActiveApp
    <3>2. QED
      BY <1>1, <1>2, <1>3, <1>11, <3>1 DEF Closes, CenterTypeOK
  <2>3. QED
    BY <2>1, <2>2
<1>12. ASSUME NEW a \in Apps, Sets(a)
       PROVE  Current(b)'
  BY <1>3, <1>12 DEF Sets
<1>13. ASSUME NEW a \in Apps, NEW n \in 1..MaxUpdates, SendConfigUpdate(a, n)
       PROVE  Current(b)'
  <2>1. CASE active[b] = NoConn
    BY <1>13, <2>1 DEF SendConfigUpdate
  <2>2. CASE active[b] # NoConn /\ a = b
    <3>1. /\ got'[active[b]] = n /\ n >= pushed[b]
          /\ reply[active[b]] = Empty \/ reply[active[b]] >= n
      <4>1. ~(n < pushed[b] \/ reply[active[b]] \in 1..(n - 1))
        BY <1>13, <2>2 DEF SendConfigUpdate
      <4>2. got'[active[b]] = n
        BY <1>1, <1>2, <1>13, <2>2 DEF SendConfigUpdate, CenterTypeOK
      <4>3. reply[active[b]] \in Nat
        BY <1>2, <1>4, <2>2
      <4>4. QED
        BY <1>4, <4>1, <4>2, <4>3
    <3>2. pushed'[b] = n
      <4>1. pushed'[b] = IF n > pushed[b] THEN n ELSE pushed[b]
        BY <1>1, <1>13, <2>2 DEF SendConfigUpdate, Pushes, CenterTypeOK
      <4>2. QED
        BY <1>4, <3>1, <4>1
    <3>3. UNCHANGED <<active, reply>>
      BY <1>13 DEF SendConfigUpdate
    <3>4. QED
      BY <1>4, <3>1, <3>2, <3>3
  <2>3. CASE active[b] # NoConn /\ a # b
    <3>1. got'[active[b]] = got[active[b]] /\ pushed'[b] = pushed[b]
      BY <1>1, <1>2, <1>13, <2>3 DEF SendConfigUpdate, Pushes, CenterTypeOK
    <3>2. b \notin slipped
      BY <1>13 DEF SendConfigUpdate
    <3>3. QED
      BY <1>3, <1>13, <3>1, <3>2 DEF SendConfigUpdate
  <2>4. QED
    BY <2>1, <2>2, <2>3
<1>14. CASE CenterRestart
  BY <1>14 DEF CenterRestart
<1>15. QED
  BY <1>5, <1>6, <1>7, <1>8, <1>9, <1>10, <1>11, <1>12, <1>13, <1>14, Steps

-----------------------------------------------------------------------------
LEMMA InitCenterIInv == CenterInit => CenterIInv
<1> SUFFICES ASSUME CenterInit
             PROVE  CenterIInv
  OBVIOUS
<1> USE DEF CenterInit
<1>1. ControlInv /\ LifeInv
  BY InitIInv DEF IInv
<1>2. CenterTypeOK
  <2>1. TypeOK
    BY <1>1 DEF ControlInv, Typed
  <2>2. 0 \in 0..MaxUpdates
    BY CenterAssumption
  <2>3. QED
    BY <2>1, <2>2 DEF CenterTypeOK
<1>3. ConnInv
  BY DEF ConnInv, ConnOK, Open, Serves
<1>4. ActiveIsServed /\ ConnectedIsListed /\ UpdateInv
  BY DEF ActiveIsServed, Served, ConnectedIsListed, UpdateInv, SentWasSet,
         Current
<1>5. QED
  BY <1>1, <1>2, <1>3, <1>4 DEF CenterIInv

LEMMA CenterIInvStep == CenterIInv /\ [CenterNext]_allVars => CenterIInv'
<1>1. CenterIInv /\ [CenterNext]_allVars =>
        /\ CenterTypeOK' /\ ControlInv' /\ ConnInv'
        /\ timely' => LifeInv'
        /\ ActiveIsServed' /\ ConnectedIsListed' /\ UpdateInv'
  BY CenterTypeStep, ControlCenterStep, LifeCenterStep, ConnStep, ActiveStep,
     ListedStep, UpdateStep
<1>2. QED
  BY <1>1 DEF CenterIInv

(* The inductive invariant of the app center, the types of its variables   *)
(* and of the manager's included: no report, reply or update is of another *)
(* form, or of another app, than the connection it is on.                  *)
THEOREM CenterInvariant == CenterSpec => []CenterIInv
  BY InitCenterIInv, CenterIInvStep, PTL DEF CenterSpec

(* The store of active apps (store.go) has only connections that are       *)
(* served, each under the name it announced.                               *)
THEOREM ActiveIsServedHolds == CenterSpec => []ActiveIsServed
<1>1. CenterIInv => ActiveIsServed
  BY DEF CenterIInv
<1>2. QED
  BY <1>1, CenterInvariant, PTL

(* Unless an app was announced on two connections at once, each connection *)
(* that announced one is the registered one (RegisterActiveApp and         *)
(* UnregisterActiveApp go by the name alone).                              *)
THEOREM ConnectedIsListedHolds == CenterSpec => []ConnectedIsListed
<1>1. CenterIInv => ConnectedIsListed
  BY DEF CenterIInv
<1>2. QED
  BY <1>1, CenterInvariant, PTL

(* Between requests, the registered connection has been sent the last      *)
(* update of its app's configuration (handleConnection registers before it *)
(* reads), unless SendConfigUpdate overtook a reply.                       *)
THEOREM NoUpdateMissedHolds == CenterSpec => []NoUpdateMissed
<1>1. CenterIInv => NoUpdateMissed
  <2> SUFFICES ASSUME CenterIInv, NEW a \in Apps \ slipped,
                      active[a] # NoConn, cpc[active[a]] = "reading"
               PROVE  got[active[a]] >= pushed[a]
    BY DEF NoUpdateMissed
  <2>1. active[a] \in Conns
    BY DEF CenterIInv, CenterTypeOK
  <2>2. reply[active[a]] = Empty
    BY <2>1 DEF CenterIInv, ConnInv, ConnOK
  <2>3. UpToDate(active[a], a)
    BY DEF CenterIInv, UpdateInv, Current
  <2>4. QED
    BY <2>2, <2>3 DEF UpToDate
<1>2. QED
  BY <1>1, CenterInvariant, PTL

(* Reports that apps make of themselves do their life cycle no harm as     *)
(* long as each finds the row as it was read and its process alive when it *)
(* is saved (handleConnection's SaveApp without mu, mergeAppInfo): one     *)
(* instance, which the table knows, and no RUNNING record that is stuck.   *)
THEOREM ReportsKeepLifecycleHolds == CenterSpec => []ReportsKeepLifecycle
<1>1. CenterIInv => ReportsKeepLifecycle
  BY LifeIsSingle DEF CenterIInv, ReportsKeepLifecycle, LifeInv
<1>2. QED
  BY <1>1, CenterInvariant, PTL
=============================================================================
