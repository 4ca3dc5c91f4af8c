----------------------------- MODULE MCApiServer ----------------------------
(* ApiServer on small instances.  Handlers are interchangeable like the    *)
(* threads; the configs are the sets of some keys.                         *)
EXTENDS ApiServer, TLC

CONSTANT ConfigKeys

AllConfigs == {keys : keys \in SUBSET ConfigKeys}

Symmetry == Permutations(Threads) \cup Permutations(Procs) \cup
            Permutations(Pids) \cup Permutations(Handlers)

Start(a) == [op |-> "start", app |-> a, cmd |-> "file", flag |-> FALSE]
OnPath(a) == [Start(a) EXCEPT !.cmd = "bare"]
Stop(a)  == [op |-> "stop", app |-> a, cmd |-> "none", flag |-> FALSE]
Delete(a) == [op |-> "delete", app |-> a, cmd |-> "none", flag |-> FALSE]

PathCalls == {OnPath(a) : a \in Apps} \cup {Stop(a) : a \in Apps}
                                      \cup {Delete(a) : a \in Apps}
AllCalls == {Start(a) : a \in Apps} \cup {Stop(a) : a \in Apps}
                                    \cup {Delete(a) : a \in Apps}

(* What a stale save leads to is of no interest to SavesKeepLifecycle. *)
OnlyClean == clean

(* What no step of the run needs to be told apart has one value: no app is *)
(* exposed or has a config (a render gives it none), and the commands are  *)
(* found on PATH.  Either the server dies or a statement fails.            *)
OneMishap ==
    /\ \A a \in Apps : ~deployed[a] /\ ~Exposed(db[a])
    /\ \A a \in Apps : db[a] # NoRecord => db[a].config = NoConfig
    /\ crashes + faults <= 1

(* One change of each kind but one, and those of some kinds. *)
EachButRender == {q \in Change : q.op # "render" /\ q.on = (q.op = "expose")}
RendersOfOne == {q \in Change : q.op = "render" /\ q.app = CHOOSE a \in Apps : TRUE}
=============================================================================
