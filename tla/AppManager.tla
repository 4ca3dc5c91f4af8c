----------------------------- MODULE AppManager -----------------------------
(***************************************************************************)
(* internal/manager: the life cycle of the applications glow-server runs.  *)
(*                                                                         *)
(* StartApp, StopAppWithOptions and DeleteApp are called by request        *)
(* threads, waitForExit runs as one goroutine per started process; all     *)
(* four run under the package mutex mu and keep what they know in the      *)
(* "apps" table (internal/statemanager), which survives the server.        *)
(*                                                                         *)
(* A critical section is cut where something else can happen in it: at     *)
(* every write of the table or of the operating system, so that a process  *)
(* can exit, and the server can die, between any two of them.              *)
(*                                                                         *)
(* Data abstracted: of a record the model keeps status, pid, whether both  *)
(* a port and a domain are declared (exposed) and the config; the ingress  *)
(* is the presence of the app's nginx file, the app directory that of the  *)
(* deployed binary.                                                        *)
(***************************************************************************)
EXTENDS Naturals, FiniteSets

CONSTANTS
    Apps,        \* names of applications
    Threads,     \* goroutines serving requests
    Procs,       \* process incarnations: one per successful cmd.Start
    Pids,        \* operating system pids
    Configs,     \* possible contents of AppInfo.Config
    Calls,       \* the calls that clients make
    PidReuse,    \* may the kernel hand out a pid again?
    MaxCrashes,  \* bound: how often the server dies
    MaxFaults,   \* bound: how many accesses to the table fail
    NoRecord, NoPid, NoConfig, NoProc, Free

(* "": only declared, by an apply *)
Status == {"", "RUNNING", "STOPPED", "ERROR"}

Record == [status : Status, pid : Pids \cup {NoPid},
           exposed : BOOLEAN, config : Configs \cup {NoConfig}]

(* cmd: StartAppRequest.Command is a path, a bare name, or empty;          *)
(* flag: SkipIngress of a start, KeepIngress of a stop.                    *)
Call == [op : {"start"}, app : Apps, cmd : {"file", "bare", "none"},
         flag : BOOLEAN]
   \cup [op : {"stop"}, app : Apps, cmd : {"none"}, flag : BOOLEAN]
   \cup [op : {"delete"}, app : Apps, cmd : {"none"}, flag : {FALSE}]

ASSUME ConstantsAssumption ==
    /\ Apps # {}
    /\ Calls \subseteq Call
    /\ PidReuse \in BOOLEAN
    /\ MaxCrashes \in Nat /\ MaxFaults \in Nat
    /\ NoRecord \notin Record
    /\ NoPid \notin Pids /\ NoConfig \notin Configs /\ NoProc \notin Procs
    /\ Threads \cap Procs = {}
    /\ Free \notin Threads \cup Procs

VARIABLES
    db,        \* the apps table: app -> record or NoRecord
    proc,      \* incarnation -> what the operating system knows of it
    waiter,    \* incarnation -> where its waitForExit goroutine is
    wsnap,     \* incarnation -> record that goroutine read
    deployed,  \* app -> does apps/<name>/glow_<name> exist?
    conf,      \* app -> does nginx/<name>.conf exist?
    stray,     \* history: apps whose file is left of a failing removal
    mu,        \* holder of the package mutex
    pc,        \* thread -> where its call is
    call,      \* thread -> the call it serves
    snap,      \* thread -> record the call read
    child,     \* thread -> incarnation the call has just started
    crashes, faults

osVars == <<proc, deployed, conf, stray>>
threadVars == <<pc, call, snap, child>>
waiterVars == <<waiter, wsnap>>
vars == <<db, osVars, waiterVars, mu, threadVars, crashes, faults>>

(* ok and failed: the call has returned, without or with an error *)
PC == {"idle", "called", "exec", "started", "stopping", "deleting",
       "ok", "failed"}

(* none: no such process yet; term: SIGTERM delivered, still executing;    *)
(* zombie: exited, not waited for; gone: its pid is free again             *)
ProcState == {"none", "live", "term", "zombie", "gone"}

(* unborn: the process runs, "go waitForExit" is still to come; lost: the  *)
(* server died before that; reaped: Wait returned, the lock is wanted      *)
WaiterState == {"none", "unborn", "waiting", "reaped", "recording", "done",
                "lost"}

TypeOK ==
    /\ db \in [Apps -> Record \cup {NoRecord}]
    /\ proc \in [Procs -> [state : ProcState, pid : Pids \cup {NoPid},
                           app : Apps]]
    /\ waiter \in [Procs -> WaiterState]
    /\ wsnap \in [Procs -> Record \cup {NoRecord}]
    /\ deployed \in [Apps -> BOOLEAN]
    /\ conf \in [Apps -> BOOLEAN]
    /\ stray \subseteq Apps
    /\ mu \in Threads \cup Procs \cup {Free}
    /\ pc \in [Threads -> PC]
    /\ call \in [Threads -> Call]
    /\ snap \in [Threads -> Record \cup {NoRecord}]
    /\ child \in [Threads -> Procs \cup {NoProc}]
    /\ crashes \in 0..MaxCrashes
    /\ faults \in 0..MaxFaults

-----------------------------------------------------------------------------
(* What an apply may have declared before any of this runs. *)
Declared == {r \in Record : r.status = "" /\ r.pid = NoPid}

(* What an idle thread is said to serve. *)
NoCall == [op |-> "delete", app |-> CHOOSE a \in Apps : TRUE,
           cmd |-> "none", flag |-> FALSE]

Init ==
    /\ db \in [Apps -> Declared \cup {NoRecord}]
    /\ proc = [i \in Procs |-> [state |-> "none", pid |-> NoPid,
                                app |-> CHOOSE a \in Apps : TRUE]]
    /\ waiter = [i \in Procs |-> "none"]
    /\ wsnap = [i \in Procs |-> NoRecord]
    /\ deployed = [a \in Apps |-> FALSE]
    /\ conf = [a \in Apps |-> FALSE]
    /\ stray = {}
    /\ mu = Free
    /\ pc = [t \in Threads |-> "idle"]
    /\ call = [t \in Threads |-> NoCall]
    /\ snap = [t \in Threads |-> NoRecord]
    /\ child = [t \in Threads |-> NoProc]
    /\ crashes = 0
    /\ faults = 0

-----------------------------------------------------------------------------
(* statemanager.  Every caller treats a failing GetApp as "no such app",   *)
(* so a failing read yields NoRecord.                                      *)
GetApp(a, r) ==
    \/ r = db[a] /\ UNCHANGED faults
    \/ r = NoRecord /\ faults < MaxFaults /\ faults' = faults + 1

(* SaveApp and DeleteApp: the row becomes r, or the statement fails. *)
Saved(a, r) == db' = [db EXCEPT ![a] = r] /\ UNCHANGED faults
SaveFailed  == UNCHANGED db /\ faults < MaxFaults /\ faults' = faults + 1

(* The operating system. *)
Running(i) == proc[i].state \in {"live", "term"}

(* A pid that no process and no zombie has. *)
FreshPid(p) == \A i \in Procs : proc[i].pid = p =>
                                    PidReuse /\ proc[i].state = "gone"

(* Mutant: the pid of a row is not looked at before it is used, and that   *)
(* of a row without one, 0, stands for all processes of the group.         *)
SignalledGroup(p) ==
    [i \in Procs |-> IF p \in {NoPid, proc[i].pid} /\ proc[i].state = "live"
                     THEN [proc[i] EXCEPT !.state = "term"] ELSE proc[i]]

(* os.FindProcess and Signal(SIGTERM): whichever process has the pid now   *)
(* receives it; for a zombie or a free pid nothing happens.                *)
Signalled(p) ==
    [i \in Procs |-> IF proc[i].pid = p /\ proc[i].state = "live"
                     THEN [proc[i] EXCEPT !.state = "term"] ELSE proc[i]]

(* GenerateNginxConfig: the file is written, or an error comes first.      *)
WritesIngress(a) ==
    \/ conf' = [conf EXCEPT ![a] = TRUE] /\ stray' = stray \ {a}
    \/ UNCHANGED <<conf, stray>>

(* RemoveNginxConfig: the file is gone, or os.Remove fails on it, which    *)
(* nobody is told.                                                         *)
RemovesIngress(a) ==
    \/ conf' = [conf EXCEPT ![a] = FALSE] /\ stray' = stray \ {a}
    \/ conf[a] /\ stray' = stray \cup {a} /\ UNCHANGED conf

(* os.RemoveAll of the app directory, whose error is ignored.              *)
RemovesDirectory(a) ==
    \E left \in {FALSE, deployed[a]} :
        deployed' = [deployed EXCEPT ![a] = left]

(* Mutant: an error return that skips the unlock. *)
ReturnLocked(t, result) ==
    /\ mu' = IF result = "ok" THEN Free ELSE t
    /\ pc' = [pc EXCEPT ![t] = result]
    /\ UNCHANGED <<call, snap, child>>

(* The deferred mu.Unlock() of a call that returns. *)
Return(t, result) ==
    /\ mu' = Free
    /\ pc' = [pc EXCEPT ![t] = result]
    /\ UNCHANGED <<call, snap, child>>

(* A request handler calls StartApp, StopAppWithOptions or DeleteApp and   *)
(* waits for mu; Reply gives the thread back.                              *)
Request(t, c) ==
    /\ pc[t] = "idle"
    /\ pc' = [pc EXCEPT ![t] = "called"]
    /\ call' = [call EXCEPT ![t] = c]
    /\ UNCHANGED <<db, osVars, waiterVars, mu, snap, child, crashes, faults>>

Reply(t) ==
    /\ pc[t] \in {"ok", "failed"}
    /\ pc' = [pc EXCEPT ![t] = "idle"]
    /\ call' = [call EXCEPT ![t] = NoCall]
    /\ snap' = [snap EXCEPT ![t] = NoRecord]
    /\ child' = [child EXCEPT ![t] = NoProc]
    /\ UNCHANGED <<db, osVars, waiterVars, mu, crashes, faults>>

(* Mutant: mu.Lock() forgotten. *)
LocksNothing(t, op) == pc[t] = "called" /\ call[t].op = op

(* mu.Lock() of a call; the first step in the critical section. *)
Locks(t, op) == pc[t] = "called" /\ call[t].op = op /\ mu = Free
-----------------------------------------------------------------------------
(* StartApp *)

IsRunning(r) == r # NoRecord /\ r.status = "RUNNING"
Exposed(r)   == r # NoRecord /\ r.exposed

(* An app that is recorded as RUNNING: success, nothing is done. *)
StartAlreadyRunning(t) ==
    /\ Locks(t, "start")
    /\ IsRunning(db[call[t].app])
    /\ Return(t, "ok")
    /\ UNCHANGED <<db, osVars, waiterVars, crashes, faults>>

(* Read and merge the record, deploy the binary, write the ingress file.   *)
(* A command that is given is copied to the app directory, or the binary   *)
(* deployed before is used; a bare name found nowhere is left to PATH.     *)
(* Without a command the deployed binary or the recorded command is used.  *)
StartPrepare(t) ==
    LET a == call[t].app
        cmd == call[t].cmd IN
    /\ Locks(t, "start")
    /\ \E r \in {db[a], NoRecord} :
        /\ GetApp(a, r)
        /\ ~IsRunning(r)
        /\ cmd = "none" => deployed[a] \/ r # NoRecord
        /\ \E bin \in (IF cmd = "bare" THEN {TRUE, deployed[a]} ELSE {TRUE}) :
               deployed' = [deployed EXCEPT ![a] = bin]
        /\ IF Exposed(r) /\ ~call[t].flag THEN WritesIngress(a)
                                          ELSE UNCHANGED <<conf, stray>>
        /\ snap' = [snap EXCEPT ![t] = r]
    /\ mu' = t
    /\ pc' = [pc EXCEPT ![t] = "exec"]
    /\ UNCHANGED <<db, proc, waiterVars, call, child, crashes>>

(* The directory, the binary or its copy is not to be had; a copy that     *)
(* fails leaves what it has written.                                       *)
StartRefused(t) ==
    LET a == call[t].app IN
    /\ Locks(t, "start")
    /\ \E r \in {db[a], NoRecord} : GetApp(a, r) /\ ~IsRunning(r)
    /\ \E bin \in {deployed[a], deployed[a] \/ call[t].cmd # "none"} :
           deployed' = [deployed EXCEPT ![a] = bin]
    /\ Return(t, "failed")
    /\ UNCHANGED <<db, proc, conf, stray, waiterVars, crashes>>

(* The record a start builds: a new AppInfo literal that takes over the    *)
(* port and the domain, and not the config, of the record it read.         *)
NewRecord(t, status, pid) ==
    [status |-> status, pid |-> pid, exposed |-> Exposed(snap[t]),
     config |-> NoConfig]

(* cmd.Start() succeeds: the process exists and nobody has recorded it. *)
StartExec(t, i, p) ==
    /\ pc[t] = "exec"
    /\ proc[i].state = "none"
    /\ FreshPid(p)
    /\ proc' = [proc EXCEPT ![i] = [state |-> "live", pid |-> p,
                                    app |-> call[t].app]]
    /\ waiter' = [waiter EXCEPT ![i] = "unborn"]
    /\ child' = [child EXCEPT ![t] = i]
    /\ pc' = [pc EXCEPT ![t] = "started"]
    /\ UNCHANGED <<db, wsnap, deployed, conf, stray, mu, call, snap, crashes,
                   faults>>

(* cmd.Start() fails: ERROR is saved, the outcome of the save is ignored. *)
StartExecFails(t) ==
    /\ pc[t] = "exec"
    /\ Saved(call[t].app, NewRecord(t, "ERROR", NoPid)) \/ SaveFailed
    /\ Return(t, "failed")
    /\ UNCHANGED <<osVars, waiterVars, crashes>>

(* RUNNING and the pid are saved, the outcome of the save is ignored;      *)
(* go waitForExit.                                                         *)
StartSave(t) ==
    /\ pc[t] = "started"
    /\ \/ Saved(call[t].app, NewRecord(t, "RUNNING", proc[child[t]].pid))
       \/ SaveFailed
    /\ waiter' = [waiter EXCEPT ![child[t]] = "waiting"]
    /\ Return(t, "ok")
    /\ UNCHANGED <<osVars, wsnap, crashes>>
-----------------------------------------------------------------------------
(* StopAppWithOptions *)

(* Nothing to stop: not found is an error, a record without pid is not. *)
StopNothing(t) ==
    /\ Locks(t, "stop")
    /\ \E r \in {db[call[t].app], NoRecord} :
        /\ GetApp(call[t].app, r)
        /\ \/ r = NoRecord /\ Return(t, "failed")
           \/ r # NoRecord /\ r.pid = NoPid /\ Return(t, "ok")
    /\ UNCHANGED <<db, osVars, waiterVars, crashes>>

(* SIGTERM to the recorded pid, the ingress removed unless it is kept.     *)
StopSignal(t) ==
    LET a == call[t].app
        r == db[a] IN
    /\ Locks(t, "stop")
    /\ r # NoRecord /\ r.pid # NoPid
    /\ proc' = Signalled(r.pid)
    /\ IF call[t].flag THEN UNCHANGED <<conf, stray>> ELSE RemovesIngress(a)
    /\ snap' = [snap EXCEPT ![t] = r]
    /\ mu' = t
    /\ pc' = [pc EXCEPT ![t] = "stopping"]
    /\ UNCHANGED <<db, waiterVars, deployed, call, child, crashes, faults>>

(* Mutant: a stop that forgets the status. *)
StopRecordKeepsStatus(r) == [r EXCEPT !.pid = NoPid]

(* Mutant: a stop that forgets the pid. *)
StopRecordKeepsPid(r) == [r EXCEPT !.status = "STOPPED"]

StopRecord(r) == [r EXCEPT !.status = "STOPPED", !.pid = NoPid]

(* STOPPED without a pid is saved; an error of the save is returned. *)
StopSave(t) ==
    /\ pc[t] = "stopping"
    /\ \/ Saved(call[t].app, StopRecord(snap[t])) /\ Return(t, "ok")
       \/ SaveFailed /\ Return(t, "failed")
    /\ UNCHANGED <<osVars, waiterVars, crashes>>
-----------------------------------------------------------------------------
(* DeleteApp *)

(* No record: what is left of the app directory is removed. *)
DeleteUnknown(t) ==
    /\ Locks(t, "delete")
    /\ GetApp(call[t].app, NoRecord)
    /\ RemovesDirectory(call[t].app)
    /\ Return(t, "ok")
    /\ UNCHANGED <<db, proc, conf, stray, waiterVars, crashes>>

(* SIGTERM to the recorded pid; ingress and app directory are removed, as  *)
(* far as that works.                                                      *)
DeleteRemove(t) ==
    LET a == call[t].app
        r == db[a] IN
    /\ Locks(t, "delete")
    /\ r # NoRecord
    /\ proc' = Signalled(r.pid)
    /\ RemovesIngress(a)
    /\ RemovesDirectory(a)
    /\ mu' = t
    /\ pc' = [pc EXCEPT ![t] = "deleting"]
    /\ UNCHANGED <<db, waiterVars, call, snap, child, crashes, faults>>

(* The row is removed; an error of the statement is returned. *)
DeleteSave(t) ==
    /\ pc[t] = "deleting"
    /\ \/ Saved(call[t].app, NoRecord) /\ Return(t, "ok")
       \/ SaveFailed /\ Return(t, "failed")
    /\ UNCHANGED <<osVars, waiterVars, crashes>>
-----------------------------------------------------------------------------
(* waitForExit *)

(* cmd.Wait() returns: the zombie is reaped, from here on its pid is free. *)
WaiterReap(i) ==
    /\ waiter[i] = "waiting"
    /\ proc[i].state = "zombie"
    /\ proc' = [proc EXCEPT ![i].state = "gone"]
    /\ waiter' = [waiter EXCEPT ![i] = "reaped"]
    /\ UNCHANGED <<db, wsnap, deployed, conf, stray, mu, threadVars, crashes,
                   faults>>

(* Mutants: the comparison of the pids left out, or inverted. *)
StillActiveAnyPid(i, r) == r # NoRecord
StillActiveInverted(i, r) == r # NoRecord /\ r.pid # proc[i].pid

(* "Check if we are still the active process". *)
StillActive(i, r) == r # NoRecord /\ r.pid = proc[i].pid

(* Under the lock: the app is gone or has another pid, nothing to record. *)
WaiterIgnores(i) ==
    /\ waiter[i] = "reaped"
    /\ mu = Free
    /\ \E r \in {db[proc[i].app], NoRecord} :
           GetApp(proc[i].app, r) /\ ~StillActive(i, r)
    /\ waiter' = [waiter EXCEPT ![i] = "done"]
    /\ UNCHANGED <<db, osVars, wsnap, mu, threadVars, crashes>>

(* Mutant: the record is read before the lock is held. *)
WaiterReadsUnlocked(i) ==
    /\ waiter[i] = "reaped"
    /\ StillActive(i, db[proc[i].app])
    /\ wsnap' = [wsnap EXCEPT ![i] = db[proc[i].app]]
    /\ waiter' = [waiter EXCEPT ![i] = "recording"]
    /\ UNCHANGED <<db, osVars, mu, threadVars, crashes, faults>>

(* Under the lock: the record still names this process. *)
WaiterReads(i) ==
    /\ waiter[i] = "reaped"
    /\ mu = Free
    /\ StillActive(i, db[proc[i].app])
    /\ mu' = i
    /\ wsnap' = [wsnap EXCEPT ![i] = db[proc[i].app]]
    /\ waiter' = [waiter EXCEPT ![i] = "recording"]
    /\ UNCHANGED <<db, osVars, threadVars, crashes, faults>>

(* Mutant: the status that is only displayed for a missing process. *)
ExitRecordDisplayed(r) == [r EXCEPT !.status = "EXITED", !.pid = NoPid]

(* A manual stop stays STOPPED, any other exit becomes ERROR; the outcome  *)
(* of the save is ignored.                                                 *)
ExitRecord(r) ==
    [r EXCEPT !.status = IF r.status = "STOPPED" THEN "STOPPED" ELSE "ERROR",
              !.pid = NoPid]

WaiterSaves(i) ==
    /\ waiter[i] = "recording"
    /\ Saved(proc[i].app, ExitRecord(wsnap[i])) \/ SaveFailed
    /\ mu' = Free
    /\ waiter' = [waiter EXCEPT ![i] = "done"]
    /\ wsnap' = [wsnap EXCEPT ![i] = NoRecord]
    /\ UNCHANGED <<osVars, threadVars, crashes>>
-----------------------------------------------------------------------------
(* The environment *)

(* A process ends, by itself or by the signal.  It stays as a zombie while *)
(* the server that started it lives, else it is reaped by init.            *)
ProcExit(i) ==
    /\ Running(i)
    /\ proc' = [proc EXCEPT ![i].state =
                    IF waiter[i] \in {"unborn", "waiting"} THEN "zombie"
                                                           ELSE "gone"]
    /\ UNCHANGED <<db, waiterVars, deployed, conf, stray, mu, threadVars,
                   crashes, faults>>

(* The server dies and is started again: threads, goroutines and the lock  *)
(* are forgotten, table, files and processes stay, and nothing reconciles  *)
(* them.                                                                   *)
ServerRestart ==
    /\ crashes < MaxCrashes
    /\ crashes' = crashes + 1
    /\ mu' = Free
    /\ pc' = [t \in Threads |-> "idle"]
    /\ call' = [t \in Threads |-> NoCall]
    /\ snap' = [t \in Threads |-> NoRecord]
    /\ child' = [t \in Threads |-> NoProc]
    /\ waiter' = [i \in Procs |->
                    CASE waiter[i] = "none"   -> "none"
                      [] waiter[i] \in {"unborn", "lost"} -> "lost"
                      [] OTHER -> "done"]
    /\ wsnap' = [i \in Procs |-> NoRecord]
    /\ proc' = [i \in Procs |-> IF proc[i].state = "zombie"
                                THEN [proc[i] EXCEPT !.state = "gone"]
                                ELSE proc[i]]
    /\ UNCHANGED <<db, deployed, conf, stray, faults>>
-----------------------------------------------------------------------------
ThreadLocks(t) ==
    \/ StartAlreadyRunning(t) \/ StartPrepare(t) \/ StartRefused(t)
    \/ StopNothing(t) \/ StopSignal(t)
    \/ DeleteUnknown(t) \/ DeleteRemove(t)

ThreadRuns(t) ==
    \/ \E i \in Procs, p \in Pids : StartExec(t, i, p)
    \/ StartExecFails(t) \/ StartSave(t)
    \/ StopSave(t) \/ DeleteSave(t)

WaiterLocks(i) == WaiterIgnores(i) \/ WaiterReads(i)
WaiterRuns(i)  == WaiterReap(i) \/ WaiterSaves(i)

Next ==
    \/ \E t \in Threads : \/ \E c \in Calls : Request(t, c)
                          \/ ThreadLocks(t)
                          \/ ThreadRuns(t)
                          \/ Reply(t)
    \/ \E i \in Procs : WaiterLocks(i) \/ WaiterRuns(i) \/ ProcExit(i)
    \/ ServerRestart

Spec == Init /\ [][Next]_vars

(* Goroutines that can run are scheduled (weak fairness); sync.RWMutex     *)
(* hands over to a waiter that starves, so that one that finds the lock    *)
(* free again and again gets it (strong fairness).  Nothing is assumed of  *)
(* clients, of the applications or of the server staying up.               *)
Fairness ==
    /\ \A t \in Threads : SF_vars(ThreadLocks(t)) /\ WF_vars(ThreadRuns(t))
    /\ \A i \in Procs : SF_vars(WaiterLocks(i)) /\ WF_vars(WaiterRuns(i))

FairSpec == Spec /\ Fairness
-----------------------------------------------------------------------------
(* Properties *)

(* A waitForExit goroutine exists, or is about to, for this process. *)
Attended(i) == waiter[i] \in {"waiting", "reaped", "recording"}

(* The record of the process's app says RUNNING and names its pid. *)
Recorded(i) ==
    LET r == db[proc[i].app] IN IsRunning(r) /\ r.pid = proc[i].pid

(* StartApp never runs an app twice: of the processes that nobody has sent *)
(* SIGTERM to, an app has at most one, whatever StartApp, StopApp,         *)
(* DeleteApp and waitForExit interleave, except one that a dying server    *)
(* left unrecorded.  (A failing table access or a reused pid breaks it.)   *)
SingleInstance ==
    faults = 0 /\ ~PidReuse =>
        \A i, j \in Procs :
            /\ proc[i].state = "live" /\ waiter[i] # "lost"
            /\ proc[j].state = "live" /\ waiter[j] # "lost"
            /\ proc[i].app = proc[j].app
            => i = j

(* Alive, not told to stop, and past the point where a start records it. *)
Tracked(i) == proc[i].state = "live" /\ waiter[i] \notin {"unborn", "lost"}

(* The table does not lose sight of a process: as long as one that was     *)
(* recorded runs and was not told to stop, its app's record is RUNNING     *)
(* with its pid; neither the late exit report of an earlier process        *)
(* (waitForExit) nor a server restart takes that away.                     *)
LiveIsRecorded ==
    faults = 0 /\ ~PidReuse =>
        \A i \in Procs : Tracked(i) => Recorded(i)

(* A RUNNING record is not stuck: its process is one whose exit a          *)
(* waitForExit goroutine is still going to record.  StartApp refuses to    *)
(* start a RUNNING app, so a record this fails for blocks the app.  It     *)
(* does fail once a server restart or a failing save took the goroutine's  *)
(* part away.                                                              *)
RunningIsAttended ==
    crashes = 0 /\ faults = 0 /\ ~PidReuse =>
        \A a \in Apps : IsRunning(db[a]) =>
            \E i \in Procs : proc[i].app = a /\ Attended(i) /\ Recorded(i)

(* An ingress file belongs to an app in the table, also when the server    *)
(* dies in the middle of DeleteApp or StartApp or a statement fails: it is *)
(* removed before the row and written under a row, and while the table     *)
(* answers that row declares port and domain.  The one file without a row  *)
(* is one that RemoveNginxConfig could not remove: it does not say so, and *)
(* DeleteApp goes on to remove the row.                                    *)
IngressHasRecord ==
    \A a \in Apps : conf[a] /\ a \notin stray =>
        db[a] # NoRecord /\ (faults = 0 => Exposed(db[a]))

(* An app leaves STOPPED, or a deleted app comes back. *)
Undone(a) ==
    /\ db[a] = NoRecord \/ db[a].status = "STOPPED"
    /\ db'[a] # NoRecord
    /\ db[a] = NoRecord \/ db'[a].status # "STOPPED"

Starting(a) ==
    \E t \in Threads : mu = t /\ call[t].op = "start" /\ call[t].app = a

UndoneByStart == \A a \in Apps : Undone(a) => Starting(a)

(* What StopApp or DeleteApp recorded stays: an app leaves STOPPED, and a  *)
(* deleted app comes back, only by the save of a StartApp.  The exit of    *)
(* the process that was told to stop is reported later, by waitForExit,    *)
(* and must not turn it into ERROR or bring the row back.                  *)
StoppedOrDeletedIsFinal == [][UndoneByStart]_vars

(* The exit of a recorded process does not go unnoticed: the RUNNING       *)
(* record that names it is eventually given up (waitForExit, or a stop or  *)
(* delete in the meantime).                                                *)
ExitIsRecorded == \A i \in Procs : proc[i].state = "zombie" ~> ~Recorded(i)

(* No call hangs: every path of StartApp, StopApp, DeleteApp and           *)
(* waitForExit gives mu back, so every request is answered.                *)
RequestsReturn ==
    \A t \in Threads : pc[t] = "called" ~> pc[t] \in {"idle", "ok", "failed"}

(* openspec app-management, "start app": the server checks whether the app *)
(* runs and starts it if not.  So a start that reports success leaves a    *)
(* process, at least one whose exit is still being recorded.               *)
StartedMeansProcess ==
    [][\A t \in Threads :
          pc[t] # "ok" /\ pc'[t] = "ok" /\ call[t].op = "start" =>
              \E i \in Procs : /\ proc'[i].app = call[t].app
                               /\ proc'[i].state \in {"live", "term", "zombie"}
                                  \/ waiter'[i] = "reaped"
      ]_vars
-----------------------------------------------------------------------------
(* The inductive invariant the proofs use: how lock, goroutines, processes *)
(* and snapshots hang together.                                            *)

Critical == {"exec", "started", "stopping", "deleting"}

LockInv ==
    /\ \A t \in Threads : pc[t] \in Critical <=> mu = t
    /\ \A i \in Procs : waiter[i] = "recording" <=> mu = i

(* A snapshot taken under the lock is still what the table says. *)
SnapInv ==
    /\ \A t \in Threads :
        /\ pc[t] \in {"exec", "started"} =>
               call[t].op = "start" /\ (faults = 0 => snap[t] = db[call[t].app])
        /\ pc[t] = "stopping" => /\ db[call[t].app] # NoRecord
                                 /\ snap[t] = db[call[t].app]
        /\ pc[t] = "deleting" /\ conf[call[t].app] => call[t].app \in stray
    /\ \A i \in Procs : waiter[i] = "recording" =>
        /\ StillActive(i, db[proc[i].app])
        /\ wsnap[i] = db[proc[i].app]

(* A process has a pid of its own and a goroutine that fits its state. *)
ProcInv ==
    /\ \A i \in Procs :
        /\ proc[i].state = "none" <=> waiter[i] = "none"
        /\ proc[i].state # "none" => proc[i].pid \in Pids
        /\ proc[i].state = "zombie" => waiter[i] \in {"unborn", "waiting"}
        /\ waiter[i] \in {"reaped", "recording"} => proc[i].state = "gone"
        /\ proc[i].state = "gone" => waiter[i] \notin {"unborn", "waiting"}
    /\ \A i, j \in Procs :
        ~PidReuse /\ proc[i].state # "none" /\ proc[j].state # "none"
            /\ proc[i].pid = proc[j].pid => i = j

(* A process without a goroutine is the child of the call holding mu. *)
ChildInv ==
    /\ \A t \in Threads : pc[t] = "started" =>
        /\ child[t] \in Procs
        /\ waiter[child[t]] = "unborn"
        /\ proc[child[t]].app = call[t].app
    /\ \A i \in Procs : waiter[i] = "unborn" =>
        \E t \in Threads : pc[t] = "started" /\ child[t] = i

(* What the types of the records that are saved rest on. *)
Taken ==
    /\ \A t \in Threads : /\ pc[t] = "started" => child[t] \in Procs
                          /\ pc[t] = "stopping" => snap[t] # NoRecord
    /\ \A i \in Procs : waiter[i] = "recording" => wsnap[i] # NoRecord

Typed == TypeOK /\ Taken

(* The manager by itself, whatever the table says: it holds also when      *)
(* others write the table without mu.                                      *)
ControlInv == Typed /\ LockInv /\ ProcInv /\ ChildInv

(* As long as every access to the table worked: a call that starts an app  *)
(* has seen that it does not run, and while a call is about to write, the  *)
(* app has no process left that runs and was recorded; an exit is recorded *)
(* in a row that names the process.                                        *)
CallInv == faults = 0 /\ ~PidReuse =>
    /\ \A t \in Threads :
        /\ pc[t] = "exec" => ~IsRunning(db[call[t].app])
        /\ pc[t] \in Critical =>
            \A i \in Procs : Tracked(i) => proc[i].app # call[t].app
    /\ \A i \in Procs :
        waiter[i] = "recording" => StillActive(i, db[proc[i].app])

(* As RunningIsAttended, for a table that may say RUNNING of a process     *)
(* that the call which started it has yet to record.                       *)
RunningHasProcess ==
    crashes = 0 /\ faults = 0 /\ ~PidReuse =>
        \A a \in Apps : IsRunning(db[a]) =>
            \E i \in Procs : /\ proc[i].app = a
                             /\ \/ Attended(i) /\ Recorded(i)
                                \/ waiter[i] = "unborn"

(* The table and the processes. *)
LifeInv == CallInv /\ LiveIsRecorded /\ RunningHasProcess

(* In the manager by itself, nobody says RUNNING before the call does. *)
StartedInv == faults = 0 /\ ~PidReuse =>
    \A t \in Threads : pc[t] = "started" => ~IsRunning(db[call[t].app])

(* The pid in a row of the app, stale or not, is that of a process that    *)
(* was started for the app.                                                *)
Owned(r, a) ==
    r # NoRecord /\ r.pid # NoPid =>
        \E i \in Procs : /\ proc[i].state # "none"
                         /\ proc[i].app = a /\ proc[i].pid = r.pid

IInv == ControlInv /\ LifeInv /\ StartedInv /\ SnapInv /\ IngressHasRecord
=============================================================================
