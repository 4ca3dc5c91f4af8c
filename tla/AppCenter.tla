------------------------------ MODULE AppCenter -----------------------------
(***************************************************************************)
(* internal/appcenter/server.go and store.go on top of AppManager: the TCP *)
(* service to which the processes of the apps connect.  They report their  *)
(* state, which goes into the apps table without the manager's mutex, and  *)
(* get the app's configuration: in reply to app_start and get_config, and  *)
(* whenever it is sent to the connection that is registered for the app.   *)
(*                                                                         *)
(* The clients are external: a process reports its own app and, if any,    *)
(* its own pid, some time before the server gets to see it.  A configu-    *)
(* ration is the number of the update that made it.  Nothing orders those  *)
(* who update one, nor does an update have to be sent to the app (the HTTP *)
(* API never does).                                                        *)
(***************************************************************************)
EXTENDS AppManager

CONSTANTS
    Conns,         \* connections
    Forms,         \* what reports have
    MaxUpdates,    \* bound: updates of an app's configuration
    NoApp, NoConn, NoReport

(* register: the report only; app_start: the connection is registered, and *)
(* the reply has the configuration, as that of get_config.  port: a port   *)
(* is reported.                                                            *)
Report == [op : {"register", "app_start", "get_config"}, app : Apps,
           status : {"", "RUNNING"}, pid : Pids \cup {NoPid}, port : BOOLEAN]

(* No configuration. *)
Empty == 0

Form == [op : {"register", "app_start", "get_config"},
         status : {"", "RUNNING"}, pid : BOOLEAN, port : BOOLEAN]

ASSUME CenterAssumption ==
    /\ Forms \subseteq Form
    /\ MaxUpdates \in Nat
    /\ NoApp \notin Apps /\ NoConn \notin Conns /\ NoReport \notin Report

VARIABLES
    active,    \* app -> the connection in the store of active apps
    cpc,       \* connection -> where its handler is
    peer,      \* connection -> the process at its other end
    named,     \* connection -> its connectedAppName
    report,    \* connection -> the request that is served
    csnap,     \* connection -> the row that was read for it
    reply,     \* connection -> the configuration that is to be sent
    got,       \* connection -> the configuration that was sent last
    update,    \* app -> the configuration that configmanager has
    pushed,    \* history: app -> the newest configuration that was sent
               \* by SendConfigUpdate, to a connection or to none
    timely,    \* history: no report overwrote a newer row or outlived
               \* the life of its process
    doubled,   \* history: has an app been announced on two connections?
    slipped    \* history: apps that were sent a newer configuration
               \* before an older one, or whose configuration could not
               \* be read

connVars == <<cpc, peer, named, report, csnap, reply, got>>
updateVars == <<update, pushed, slipped>>
history == <<timely, doubled>>
centerVars == <<active, connVars, updateVars, history>>
allVars == <<vars, centerVars>>

CenterTypeOK ==
    /\ TypeOK
    /\ active \in [Apps -> Conns \cup {NoConn}]
    /\ cpc \in [Conns -> {"closed", "reading", "reporting", "merging",
                          "saved", "replying"}]
    /\ peer \in [Conns -> Procs \cup {NoProc}]
    /\ named \in [Conns -> Apps \cup {NoApp}]
    /\ report \in [Conns -> Report \cup {NoReport}]
    /\ csnap \in [Conns -> Record \cup {NoRecord}]
    /\ reply \in [Conns -> 0..MaxUpdates]
    /\ got \in [Conns -> 0..MaxUpdates]
    /\ update \in [Apps -> 0..MaxUpdates]
    /\ pushed \in [Apps -> 0..MaxUpdates]
    /\ slipped \subseteq Apps
    /\ timely \in BOOLEAN /\ doubled \in BOOLEAN

CenterInit ==
    /\ Init
    /\ active = [a \in Apps |-> NoConn]
    /\ cpc = [c \in Conns |-> "closed"]
    /\ peer = [c \in Conns |-> NoProc]
    /\ named = [c \in Conns |-> NoApp]
    /\ report = [c \in Conns |-> NoReport]
    /\ csnap = [c \in Conns |-> NoRecord]
    /\ reply = [c \in Conns |-> Empty]
    /\ got = [c \in Conns |-> Empty]
    /\ update = [a \in Apps |-> Empty]
    /\ pushed = [a \in Apps |-> Empty]
    /\ slipped = {}
    /\ timely = TRUE /\ doubled = FALSE
-----------------------------------------------------------------------------
(* The processes *)

Connects(c, i) ==
    /\ cpc[c] = "closed" /\ proc[i].state = "live"
    /\ cpc' = [cpc EXCEPT ![c] = "reading"]
    /\ peer' = [peer EXCEPT ![c] = i]
    /\ UNCHANGED <<vars, active, named, report, csnap, reply, got,
                   updateVars, history>>

(* What a process may have sent by the time its server reads it: the       *)
(* process itself may be gone by then.                                     *)
Reports(i) ==
    {[op |-> f.op, app |-> proc[i].app, status |-> f.status,
      pid |-> IF f.pid THEN proc[i].pid ELSE NoPid, port |-> f.port] :
        f \in Forms}
-----------------------------------------------------------------------------
(* handleConnection *)

Goes(c, p) == cpc' = [cpc EXCEPT ![c] = p]

(* Mutant: the registration is left to the end of the request. *)
RegistersNothing(c, a) == UNCHANGED active

RegisterActiveApp(c, a) == active' = [active EXCEPT ![a] = c]

Open(c) == cpc[c] # "closed"

(* Decode; an app_start is registered at once. *)
Decodes(c, q) ==
    /\ cpc[c] = "reading"
    /\ report' = [report EXCEPT ![c] = q]
    /\ Goes(c, IF q.op = "get_config" THEN "saved" ELSE "reporting")
    /\ IF q.op = "app_start"
       THEN /\ named' = [named EXCEPT ![c] = q.app]
            /\ RegisterActiveApp(c, q.app)
            /\ doubled' = (doubled \/ \E d \in Conns \ {c} :
                                          Open(d) /\ named[d] = q.app)
       ELSE UNCHANGED <<named, active, doubled>>
    /\ UNCHANGED <<vars, peer, csnap, reply, got, updateVars, timely>>

(* GetApp; that it fails is taken for no row. *)
ReadsRow(c) ==
    /\ cpc[c] = "reporting"
    /\ \E r \in {db[report[c].app], NoRecord} :
        /\ GetApp(report[c].app, r)
        /\ csnap' = [csnap EXCEPT ![c] = r]
    /\ Goes(c, "merging")
    /\ UNCHANGED <<db, osVars, waiterVars, mu, threadVars, crashes, active,
                   peer, named, report, reply, got, updateVars, history>>

(* Mutants: the report replaces the row; a row is given a status.          *)
Replaced(r, q) ==
    {[status |-> q.status, pid |-> q.pid, exposed |-> FALSE,
      config |-> NoConfig]}
MergedUnknown(r, q) ==
    IF r = NoRecord
    THEN {[status |-> IF q.status = "" THEN "UNKNOWN" ELSE q.status,
           pid |-> q.pid, exposed |-> FALSE, config |-> NoConfig]}
    ELSE {[r EXCEPT !.status = IF q.status # "" THEN q.status ELSE @,
                    !.pid = IF q.pid # NoPid THEN q.pid ELSE @]}

(* mergeAppInfo: what is reported replaces what the row has, what is not   *)
(* reported is kept; without a row, the report is the row.  (Whether a     *)
(* port exposes the app depends on a domain, which no report has.)         *)
Merged(r, q) ==
    IF r = NoRecord
    THEN {[status |-> q.status, pid |-> q.pid, exposed |-> FALSE,
           config |-> NoConfig]}
    ELSE {[r EXCEPT !.status = IF q.status # "" THEN q.status ELSE @,
                    !.pid = IF q.pid # NoPid THEN q.pid ELSE @,
                    !.exposed = e] :
             e \in IF q.port THEN {TRUE, r.exposed} ELSE {r.exposed}}

(* Alive, and none that a dying server left without a record. *)
Entitled(i) == proc[i].state = "live" /\ waiter[i] # "lost"

(* SaveApp; an error is an answer to register, and nothing to app_start. *)
SavesReport(c) ==
    LET q == report[c] IN
    /\ cpc[c] = "merging"
    /\ \/ /\ \E r \in Merged(csnap[c], q) : Saved(q.app, r)
          /\ timely' = (timely /\ db[q.app] = csnap[c] /\ Entitled(peer[c]))
       \/ SaveFailed /\ UNCHANGED timely
    /\ csnap' = [csnap EXCEPT ![c] = NoRecord]
    /\ IF q.op = "register"
       THEN Goes(c, "replying") ELSE Goes(c, "saved")
    /\ UNCHANGED <<osVars, waiterVars, mu, threadVars, crashes, active, peer,
                   named, report, reply, got, updateVars, doubled>>

(* configmanager.Get: there is no configuration yet, it is not in a cache  *)
(* that was loaded in part, or the store cannot be opened.  Either way the *)
(* reply has no data.                                                      *)
GetsConfig(c) ==
    LET a == report[c].app IN
    /\ cpc[c] = "saved"
    /\ \/ /\ reply' = [reply EXCEPT ![c] = update[a]]
          /\ UNCHANGED slipped
       \/ /\ update[a] # Empty
          /\ slipped' = slipped \cup {a}
          /\ UNCHANGED reply
    /\ Goes(c, "replying")
    /\ UNCHANGED <<vars, active, peer, named, report, csnap, got, update,
                   pushed, history>>

(* Encode: the reply, without a configuration after a register. *)
Replies(c) ==
    /\ cpc[c] = "replying"
    /\ got' = [got EXCEPT ![c] = IF reply[c] = Empty THEN @ ELSE reply[c]]
    /\ report' = [report EXCEPT ![c] = NoReport]
    /\ reply' = [reply EXCEPT ![c] = Empty]
    /\ Goes(c, "reading")
    /\ UNCHANGED <<vars, active, peer, named, csnap, updateVars, history>>

(* Mutant: a connection that was not the last to register stays.           *)
UnregistersOwn(c) ==
    active' = [a \in Apps |-> IF a = named[c] /\ got[c] # Empty
                              THEN NoConn ELSE active[a]]

(* By the name, whichever connection is registered. *)
UnregisterActiveApp(c) ==
    active' = [a \in Apps |-> IF a = named[c] THEN NoConn ELSE active[a]]

(* The end of the handler: a request or a reply that does not get through. *)
(* What was sent before may be lost.                                       *)
Closes(c) ==
    /\ cpc[c] \in {"reading", "replying"}
    /\ UnregisterActiveApp(c)
    /\ Goes(c, "closed")
    /\ peer' = [peer EXCEPT ![c] = NoProc]
    /\ named' = [named EXCEPT ![c] = NoApp]
    /\ report' = [report EXCEPT ![c] = NoReport]
    /\ reply' = [reply EXCEPT ![c] = Empty]
    /\ got' = [got EXCEPT ![c] = Empty]
    /\ UNCHANGED <<vars, csnap, updateVars, history>>

handleConnection(c) ==
    \/ \E q \in Reports(peer[c]) : Decodes(c, q)
    \/ ReadsRow(c) \/ SavesReport(c) \/ GetsConfig(c)
    \/ Replies(c) \/ Closes(c)
-----------------------------------------------------------------------------
(* Those who change a configuration.                                       *)

(* configmanager.Set; that it fails changes nothing. *)
Sets(a) ==
    /\ update[a] < MaxUpdates
    /\ update' = [update EXCEPT ![a] = @ + 1]
    /\ UNCHANGED <<vars, active, connVars, pushed, slipped, history>>

Pushes(a, n) == pushed' = [pushed EXCEPT ![a] = IF n > @ THEN n ELSE @]

(* Mutant: a connection that is served gets no update. *)
SendsWhenIdle(a, n) ==
    LET c == active[a] IN
    /\ n \in 1..update[a]
    /\ Pushes(a, n)
    /\ got' = IF c # NoConn /\ cpc[c] = "reading"
              THEN [got EXCEPT ![c] = n] ELSE got
    /\ UNCHANGED <<vars, active, cpc, peer, named, report, csnap, reply,
                   update, slipped, history>>

(* A configuration that was set, however long ago: what the caller has.    *)
(* No connection is an error.  The connection may be about to be sent a    *)
(* reply with an older one.                                                *)
SendConfigUpdate(a, n) ==
    LET c == active[a] IN
    /\ n \in 1..update[a]
    /\ Pushes(a, n)
    /\ IF c = NoConn
       THEN UNCHANGED <<got, slipped>>
       ELSE /\ got' = [got EXCEPT ![c] = n]
            /\ slipped' = IF n < pushed[a] \/ reply[c] \in 1..(n - 1)
                          THEN slipped \cup {a} ELSE slipped
    /\ UNCHANGED <<vars, active, cpc, peer, named, report, csnap, reply,
                   update, history>>

(* The server dies, and all connections with it. *)
CenterRestart ==
    /\ ServerRestart
    /\ active' = [a \in Apps |-> NoConn]
    /\ cpc' = [c \in Conns |-> "closed"]
    /\ peer' = [c \in Conns |-> NoProc]
    /\ named' = [c \in Conns |-> NoApp]
    /\ report' = [c \in Conns |-> NoReport]
    /\ csnap' = [c \in Conns |-> NoRecord]
    /\ reply' = [c \in Conns |-> Empty]
    /\ got' = [c \in Conns |-> Empty]
    /\ UNCHANGED <<updateVars, history>>

CenterNext ==
    \/ /\ \/ \E t \in Threads : \/ \E c \in Calls : Request(t, c)
                                \/ ThreadLocks(t) \/ ThreadRuns(t) \/ Reply(t)
          \/ \E i \in Procs : WaiterLocks(i) \/ WaiterRuns(i) \/ ProcExit(i)
       /\ UNCHANGED centerVars
    \/ \E c \in Conns :
        \/ \E i \in Procs : Connects(c, i)
        \/ Open(c) /\ handleConnection(c)
    \/ \E a \in Apps : \/ Sets(a)
                      \/ \E n \in 1..MaxUpdates : SendConfigUpdate(a, n)
    \/ CenterRestart

CenterSpec == CenterInit /\ [][CenterNext]_allVars
-----------------------------------------------------------------------------
(* Properties *)

(* Reports do the manager no harm as long as each finds the row as it was  *)
(* read and its process alive when it is saved: an app keeps one instance, *)
(* which the table knows, and no RUNNING record is stuck, whatever starts, *)
(* stops and exits come in between (mergeAppInfo keeps the pid and the     *)
(* status that a report does not have).  A late one does: it brings a      *)
(* process back that was stopped or has ended, and StartApp then refuses   *)
(* the app.                                                                *)
ReportsKeepLifecycle ==
    timely => SingleInstance /\ LiveIsRecorded /\ RunningHasProcess

(* The entry of an app is an open connection that announced it. *)
Served(a) ==
    active[a] # NoConn => Open(active[a]) /\ named[active[a]] = a

(* The store of active apps has no connection whose handler has ended, and *)
(* none of another app: what SendConfigUpdate takes from it can be         *)
(* written to, however connections overlap and end.                        *)
ActiveIsServed == \A a \in Apps : Served(a)

(* store.go: GetActiveApps returns all currently connected applications.   *)
(* A connection that has announced an app is found under its name, unless  *)
(* the app has been announced on two at once: the end of the first then    *)
(* takes the second out of the store.                                      *)
ConnectedIsListed ==
    ~doubled => \A c \in Conns : named[c] # NoApp => active[named[c]] = c

(* No update that is sent passes a connected app by, whether it was sent   *)
(* to the connection, to an earlier one of the app or to none: because an  *)
(* app is registered before its configuration is read, the registered      *)
(* connection has, between requests, none that is older than the newest    *)
(* that SendConfigUpdate was called with.  Two callers may send theirs in  *)
(* the other order, one may overtake a reply that has an older one         *)
(* (SendConfigUpdate assumes that no reply is being written), and a        *)
(* configuration that exists may not be readable: these are the exceptions *)
(* (slipped), and only those that do give the app an older one.  An update *)
(* that nobody sends reaches the app with its next request.                *)
NoUpdateMissed ==
    \A a \in Apps \ slipped :
        LET c == active[a] IN
        c # NoConn /\ cpc[c] = "reading" => got[c] >= pushed[a]
-----------------------------------------------------------------------------
(* The inductive invariant the proofs use. *)

(* What a request is served in: Decode has it, the reply has yet to go. *)
Serves(c) == cpc[c] \in {"reporting", "merging", "saved", "replying"}

(* A connection belongs to a process that has been started, for which all  *)
(* it reports and the name it is registered under are those of its app and *)
(* a pid it reports its own; a reply has a configuration only when it is   *)
(* about to be written.                                                    *)
ConnOK(c) ==
    /\ Open(c) => peer[c] \in Procs /\ proc[peer[c]].state # "none"
    /\ named[c] # NoApp => Open(c) /\ named[c] = proc[peer[c]].app
    /\ Serves(c) => report[c] \in Report /\ report[c].app = proc[peer[c]].app
                 /\ report[c].pid \in {NoPid, proc[peer[c]].pid}
    /\ reply[c] # Empty => cpc[c] = "replying"
    /\ cpc[c] = "saved" => report[c].op # "register"

ConnInv == \A c \in Conns : ConnOK(c)

(* What a connection has, or is about to be sent in reply, is not older    *)
(* than the newest that was sent to the app, or it is yet to read it.      *)
UpToDate(c, a) ==
    \/ reply[c] # Empty /\ reply[c] >= pushed[a]
    \/ reply[c] = Empty /\ got[c] >= pushed[a]
    \/ /\ cpc[c] \in {"reporting", "merging", "saved"}
       /\ report[c].op # "register"

(* That of the registered connection. *)
Current(a) == active[a] # NoConn => UpToDate(active[a], a)

SentWasSet == \A a \in Apps : pushed[a] <= update[a]

UpdateInv ==
    /\ SentWasSet
    /\ \A a \in Apps \ slipped : Current(a)

(* The parts of the center hang together: no report, name, reply or row is *)
(* on a connection, under a name or in the table that it does not belong   *)
(* to, whatever the manager, the handlers, the senders of updates and a    *)
(* dying server do to one another (handleConnection, store.go).            *)
CenterIInv ==
    /\ CenterTypeOK /\ ControlInv /\ ConnInv
    /\ timely => LifeInv
    /\ ActiveIsServed /\ ConnectedIsListed /\ UpdateInv
=============================================================================
