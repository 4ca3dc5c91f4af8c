---------------------------- MODULE MCAppManager ----------------------------
(* AppManager on small instances.  Threads, processes and pids are         *)
(* interchangeable; applications are not, Init singles one out.            *)
EXTENDS AppManager, TLC

Symmetry == Permutations(Threads) \cup Permutations(Procs) \cup
            Permutations(Pids)

Start(a, c, f) == [op |-> "start", app |-> a, cmd |-> c, flag |-> f]
Stop(a, f)     == [op |-> "stop", app |-> a, cmd |-> "none", flag |-> f]
Delete(a)      == [op |-> "delete", app |-> a, cmd |-> "none", flag |-> FALSE]

(* The server dies, a statement fails or a file cannot be removed, one of  *)
(* them at a time.                                                         *)
OneMishap == crashes + faults + Cardinality(stray) <= 1

(* One way to make each call, and the other way to stop. *)
PlainCalls == {Start(a, "file", FALSE) : a \in Apps}
         \cup {Stop(a, FALSE) : a \in Apps} \cup {Delete(a) : a \in Apps}
MixedCalls == PlainCalls \cup {Stop(a, TRUE) : a \in Apps}
=============================================================================
