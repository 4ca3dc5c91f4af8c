------------------------------ MODULE ApiServer -----------------------------
(***************************************************************************)
(* internal/apiserver on top of AppManager: the HTTP handlers that change  *)
(* a row of the apps table without the manager's mutex.  Each reads the    *)
(* whole row, changes some of it and saves the whole row: whatever was     *)
(* saved in between is undone.  Start, stop and delete are AppManager's    *)
(* requests; restart is a stop and a start by one of its threads.          *)
(*                                                                         *)
(* A config is the set of its top-level keys.  The Set of configmanager    *)
(* with which an apply and a config request end, and which is all a bind   *)
(* does here, concerns the store of ConfigManager, where it is modelled;   *)
(* the config.json of a render is a copy that nothing reads back.          *)
(***************************************************************************)
EXTENDS AppManager

CONSTANTS
    Handlers,    \* goroutines serving the handlers modelled here
    Changes      \* the requests they serve

(* on: port and domain are declared (upsert), merge (config), a domain is  *)
(* given (expose); config: the new config.                                 *)
Change == [op : {"upsert", "config"}, app : Apps, on : BOOLEAN,
           config : Configs]
     \cup [op : {"expose"}, app : Apps, on : BOOLEAN, config : {NoConfig}]
     \cup [op : {"hide", "render"}, app : Apps, on : {FALSE},
           config : {NoConfig}]

ASSUME ApiAssumption ==
    /\ Changes \subseteq Change
    /\ \A c, d \in Configs : c \cup d \in Configs
    /\ {} \in Configs

VARIABLES
    restart,   \* thread -> whether its call is part of a restart
    hpc,       \* handler -> where it is
    hreq,      \* handler -> the request it serves
    hsnap,     \* handler -> the row it has read
    clean      \* so far every save found the row as it had been read

handlerVars == <<hpc, hreq, hsnap, clean>>
apiVars == <<restart, handlerVars>>
allVars == <<vars, apiVars>>

ApiTypeOK ==
    /\ TypeOK
    /\ restart \in [Threads -> {"no", "stopping", "starting"}]
    /\ hpc \in [Handlers -> {"idle", "ingress", "read"}]
    /\ hreq \in [Handlers -> Change]
    /\ hsnap \in [Handlers -> Record \cup {NoRecord}]
    /\ clean \in BOOLEAN

NoChange == [op |-> "render", app |-> CHOOSE a \in Apps : TRUE, on |-> FALSE,
             config |-> NoConfig]

ApiInit ==
    /\ Init
    /\ restart = [t \in Threads |-> "no"]
    /\ hpc = [h \in Handlers |-> "idle"]
    /\ hreq = [h \in Handlers |-> NoChange]
    /\ hsnap = [h \in Handlers |-> NoRecord]
    /\ clean = TRUE
-----------------------------------------------------------------------------
(* The handlers.  One that has answered, or has done nothing yet, is idle. *)

managerVars == <<osVars, waiterVars, mu, threadVars, crashes>>

Answers(h) ==
    /\ hpc' = [hpc EXCEPT ![h] = "idle"]
    /\ hreq' = [hreq EXCEPT ![h] = NoChange]
    /\ hsnap' = [hsnap EXCEPT ![h] = NoRecord]

(* GenerateNginxConfig: an error, before or after the local file was       *)
(* written, ends the request; without a domain, nothing is generated.      *)
(* RemoveNginxConfig knows no error.                                       *)
ChangesIngress(h, q) ==
    /\ hpc[h] = "idle" /\ q.op \in {"expose", "hide"}
    /\ CASE q.op = "hide" -> RemovesIngress(q.app)
         [] q.op = "expose" /\ q.on -> WritesIngress(q.app)
         [] OTHER -> UNCHANGED <<conf, stray>>
    /\ \/ /\ hpc' = [hpc EXCEPT ![h] = "ingress"]
          /\ hreq' = [hreq EXCEPT ![h] = q]
          /\ UNCHANGED hsnap
       \/ q.op = "expose" /\ q.on /\ Answers(h)
    /\ UNCHANGED <<db, proc, deployed, waiterVars, mu, threadVars, crashes,
                   faults, restart, clean>>

(* GetApp; an app that is not there is new to an upsert, an end to others. *)
ReadsRow(h, q) ==
    \E r \in {db[q.app], NoRecord} :
        /\ GetApp(q.app, r)
        /\ IF r = NoRecord /\ q.op # "upsert"
           THEN Answers(h)
           ELSE /\ hpc' = [hpc EXCEPT ![h] = "read"]
                /\ hreq' = [hreq EXCEPT ![h] = q]
                /\ hsnap' = [hsnap EXCEPT ![h] = r]

Reads(h, q) ==
    /\ \/ hpc[h] = "idle" /\ q.op \in {"upsert", "config", "render"}
       \/ hpc[h] = "ingress" /\ q = hreq[h]
    /\ ReadsRow(h, q)
    /\ UNCHANGED <<db, managerVars, restart, clean>>

Contents(config) == IF config = NoConfig THEN {} ELSE config

(* Mutant: an apply that declares the app anew. *)
ChangedAnew(q, r) ==
    IF q.op = "upsert"
    THEN {[status |-> "", pid |-> NoPid, exposed |-> q.on, config |-> q.config]}
    ELSE {r}

(* What the request makes of the row.  (Of a row that is not exposed it is *)
(* not known whether it lacks a port, the domain or both.)                 *)
Changed(q, r) ==
    CASE q.op = "upsert" ->
            {[status |-> IF r = NoRecord THEN "" ELSE r.status,
              pid |-> IF r = NoRecord THEN NoPid ELSE r.pid,
              exposed |-> q.on, config |-> q.config]}
      [] q.op = "config" ->
            {[r EXCEPT !.config = IF q.on THEN Contents(@) \cup q.config
                                          ELSE q.config]}
      [] q.op = "expose" ->
            {[r EXCEPT !.exposed = e] :
                e \in IF q.on THEN {TRUE, r.exposed} ELSE {FALSE}}
      [] q.op = "hide"   -> {[r EXCEPT !.exposed = FALSE]}
      [] q.op = "render" -> {r}

(* SaveApp, the last change of the row; the handler answers whether or not *)
(* it worked.                                                              *)
Saves(h) ==
    LET a == hreq[h].app IN
    /\ hpc[h] = "read"
    /\ \/ /\ \E r \in Changed(hreq[h], hsnap[h]) : Saved(a, r)
          /\ clean' = (clean /\ db[a] = hsnap[h])
       \/ SaveFailed /\ UNCHANGED clean
    /\ Answers(h)
    /\ UNCHANGED <<managerVars, restart>>

(* A render that cannot write config.json does not save the row.           *)
RenderFails(h) ==
    /\ hpc[h] = "read" /\ hreq[h].op = "render"
    /\ Answers(h)
    /\ UNCHANGED <<vars, restart, clean>>
-----------------------------------------------------------------------------
(* handleRestartApp: the app is looked up, stopped and started, in three   *)
(* steps that nothing holds together; the outcome of the stop is ignored.  *)

RestartStops(t, a) ==
    /\ db[a] # NoRecord
    /\ Request(t, [op |-> "stop", app |-> a, cmd |-> "none", flag |-> FALSE])
    /\ restart' = [restart EXCEPT ![t] = "stopping"]
    /\ UNCHANGED handlerVars

RestartStarts(t) ==
    /\ restart[t] = "stopping"
    /\ pc[t] \in {"ok", "failed"}
    /\ pc' = [pc EXCEPT ![t] = "called"]
    /\ \E c \in {"file", "bare"} :
           call' = [call EXCEPT ![t] = [op |-> "start", app |-> call[t].app,
                                        cmd |-> c, flag |-> FALSE]]
    /\ restart' = [restart EXCEPT ![t] = "starting"]
    /\ UNCHANGED <<db, osVars, waiterVars, mu, snap, child, crashes, faults,
                   handlerVars>>

RestartReplies(t) ==
    /\ restart[t] = "starting"
    /\ Reply(t)
    /\ restart' = [restart EXCEPT ![t] = "no"]
    /\ UNCHANGED handlerVars

ApiRestart ==
    /\ ServerRestart
    /\ restart' = [t \in Threads |-> "no"]
    /\ hpc' = [h \in Handlers |-> "idle"]
    /\ hreq' = [h \in Handlers |-> NoChange]
    /\ hsnap' = [h \in Handlers |-> NoRecord]
    /\ UNCHANGED clean
-----------------------------------------------------------------------------
HandlerStep(h) ==
    \/ \E q \in Changes : ChangesIngress(h, q) \/ Reads(h, q)
    \/ Saves(h) \/ RenderFails(h)

ApiNext ==
    \/ \E t \in Threads :
        \/ /\ restart[t] = "no"
           /\ Reply(t) \/ \E c \in Calls : Request(t, c)
           /\ UNCHANGED apiVars
        \/ (ThreadLocks(t) \/ ThreadRuns(t)) /\ UNCHANGED apiVars
        \/ \E a \in Apps : RestartStops(t, a)
        \/ RestartStarts(t) \/ RestartReplies(t)
    \/ \E i \in Procs : /\ WaiterLocks(i) \/ WaiterRuns(i) \/ ProcExit(i)
                        /\ UNCHANGED apiVars
    \/ \E h \in Handlers : HandlerStep(h)
    \/ ApiRestart

ApiSpec == ApiInit /\ [][ApiNext]_allVars
-----------------------------------------------------------------------------
(* Properties *)

(* The handlers do no harm but by overwriting: as long as every save finds *)
(* the row as its handler read it, apply, config, render, ingress and      *)
(* restart requests leave an app with one instance, which the table knows, *)
(* and with no RUNNING record that is stuck (handleUpsertApp and the       *)
(* others carry over Status and Pid).                                      *)
SavesKeepLifecycle ==
    clean => SingleInstance /\ LiveIsRecorded /\ RunningIsAttended

SignalsOwn ==
    ~PidReuse =>
        \A i \in Procs :
            proc[i].state = "live" /\ proc'[i].state = "term" =>
                \E t \in Threads : /\ call[t].app = proc[i].app
                                   /\ call[t].op \in {"stop", "delete"}

(* Even a stale row carries the pid of a process of the same app: unless   *)
(* pids are reused, no stop, delete or restart signals a process of        *)
(* another app, whatever the handlers overwrite and however often the      *)
(* server dies.                                                            *)
OwnProcessSignalled == [][SignalsOwn]_allVars
-----------------------------------------------------------------------------
(* The inductive invariant the proofs use. *)

(* Only an apply goes on without a row. *)
HandlerInv ==
    \A h \in Handlers :
        hpc[h] = "read" /\ hsnap[h] = NoRecord => hreq[h].op = "upsert"

(* No row, and none that a handler is about to write back, has a pid of    *)
(* another app's process.                                                  *)
OwnedInv ==
    /\ \A a \in Apps : Owned(db[a], a)
    /\ \A h \in Handlers : hpc[h] = "read" => Owned(hsnap[h], hreq[h].app)

(* Whatever the handlers write, the manager's own state hangs together and *)
(* no row names a process of another app; as long as they overwrite        *)
(* nothing, table and processes agree as they do without them.             *)
ApiIInv ==
    /\ ApiTypeOK /\ ControlInv /\ HandlerInv /\ OwnedInv
    /\ clean => LifeInv /\ StartedInv
=============================================================================
