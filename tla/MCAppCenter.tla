---------------------------- MODULE MCAppCenter -----------------------------
(* AppCenter on small instances. *)
EXTENDS AppCenter, TLC

Symmetry == Permutations(Threads) \cup Permutations(Procs) \cup
            Permutations(Pids) \cup Permutations(Conns)

Start(a) == [op |-> "start", app |-> a, cmd |-> "file", flag |-> FALSE]
Stop(a)  == [op |-> "stop", app |-> a, cmd |-> "none", flag |-> FALSE]
StartStop == {Start(a) : a \in Apps} \cup {Stop(a) : a \in Apps}

(* What comes after a late or a stale report, or an update that slipped,   *)
(* is of no interest; a server that dies or a statement that fails is      *)
(* tried before an app is announced twice or updated; two requests at a    *)
(* time, updates and failing statements while the manager is at rest and   *)
(* has not died; once an app has been updated, one request is served; and  *)
(* after a mishap or a second update, there is one connection.             *)
Serving == {c \in Conns : cpc[c] \notin {"closed", "reading"}}
AtRest  == /\ \A t \in Threads : pc[t] = "idle"
           /\ \A i \in Procs : waiter[i] \in {"none", "waiting", "done"}
Updated == \E a \in Apps : update[a] > 0
OnlyTimely ==
    /\ timely /\ slipped = {}
    /\ crashes + faults
         <= IF doubled \/ Updated THEN 0 ELSE 1
    /\ doubled \/ faults > 0 \/ Cardinality(Serving) > 1
            \/ Updated
           => AtRest /\ crashes = 0
    /\ Updated => Cardinality(Serving) <= 1
    /\ crashes + faults > 0 \/ (\E a \in Apps : update[a] > 1)
           => Cardinality({c \in Conns : Open(c)}) <= 1

(* A full report, one of no more than the name, and the query. *)
SomeForms == {[op |-> "register", status |-> "RUNNING", pid |-> TRUE, port |-> FALSE],
              [op |-> "app_start", status |-> "", pid |-> FALSE, port |-> FALSE],
              [op |-> "get_config", status |-> "", pid |-> FALSE, port |-> FALSE]}
=============================================================================
