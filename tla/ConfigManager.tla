---------------------------- MODULE ConfigManager ---------------------------
(***************************************************************************)
(* internal/configmanager/service.go: the app_configs table behind a       *)
(* write-through cache.  The cache is filled by the first call that finds  *)
(* it empty, never evicted, and lost with the server.                      *)
(*                                                                         *)
(* Get and Set take the mutex twice: once to make sure that the cache is   *)
(* filled, once for the operation itself.  A write is cut between table    *)
(* and cache, where the server can die.                                    *)
(***************************************************************************)
CONSTANTS
    Apps, Threads, Keys, Values,
    PartialLoads,    \* may reading the rows end early?
    Absent, Free

Config == UNION {[S -> Values] : S \in SUBSET Keys}

Request == [op : {"get"}, app : Apps, config : {Absent}]
      \cup [op : {"merge", "replace"}, app : Apps, config : Config]

ASSUME ConfigAssumption ==
    /\ PartialLoads \in BOOLEAN
    /\ Absent \notin Config
    /\ Free \notin Threads

VARIABLES
    table,     \* app -> its row in app_configs, or Absent
    cache,     \* app -> its entry in the cache, or Absent
    mu,        \* holder of the mutex
    pc,        \* thread -> where its call is
    req,       \* thread -> the call it serves
    answer     \* thread -> the config a Get has returned, or Absent

vars == <<table, cache, mu, pc, req, answer>>

(* called: wants the mutex for EnsureInitialized; ready: wants it again;   *)
(* written: holds it, the row is written, the cache is not; ok, failed:    *)
(* returned                                                                *)
PC == {"idle", "called", "ready", "written", "ok", "failed"}

TypeOK ==
    /\ table \in [Apps -> Config \cup {Absent}]
    /\ cache \in [Apps -> Config \cup {Absent}]
    /\ mu \in Threads \cup {Free}
    /\ pc \in [Threads -> PC]
    /\ req \in [Threads -> Request]
    /\ answer \in [Threads -> Config \cup {Absent}]

Empty == [a \in Apps |-> Absent]
-----------------------------------------------------------------------------
Init ==
    /\ table \in [Apps -> Config \cup {Absent}]
    /\ cache = Empty
    /\ mu = Free
    /\ pc = [t \in Threads |-> "idle"]
    /\ req \in [Threads -> {r \in Request : r.op = "get"}]
    /\ answer = [t \in Threads |-> Absent]

Call(t, r) ==
    /\ pc[t] \in {"idle", "ok", "failed"}
    /\ pc' = [pc EXCEPT ![t] = "called"]
    /\ req' = [req EXCEPT ![t] = r]
    /\ answer' = [answer EXCEPT ![t] = Absent]
    /\ UNCHANGED <<table, cache, mu>>

Goes(t, p) == pc' = [pc EXCEPT ![t] = p] /\ UNCHANGED <<req, answer>>

(* EnsureInitialized *)
Ensures(t) == pc[t] = "called" /\ mu = Free /\ UNCHANGED <<table, mu>>

AlreadyLoaded(t) ==
    /\ Ensures(t)
    /\ cache # Empty
    /\ Goes(t, "ready")
    /\ UNCHANGED cache

(* loadCache.  The rows read before an error stay in the cache.  A row that*)
(* cannot be unmarshalled is passed over and an error that ends rows.Next  *)
(* is not looked at, so that a load in part may end well; an error of Scan *)
(* is returned.                                                            *)
Loads(t, rows, p) ==
    /\ Ensures(t)
    /\ cache = Empty
    /\ cache' = [a \in Apps |-> IF a \in rows THEN table[a] ELSE Absent]
    /\ Goes(t, p)

LoadsAll(t)   == Loads(t, Apps, "ready")
LoadFails(t)  == Loads(t, {}, "failed")
LoadsSome(t)  == /\ PartialLoads
                 /\ \E rows \in SUBSET Apps, p \in {"ready", "failed"} :
                        Loads(t, rows, p)

(* The operation itself, under the mutex. *)
Locks(t, op) == pc[t] = "ready" /\ mu = Free /\ req[t].op = op

(* Get: an app without a config is an error. *)
GetFinds(t) ==
    /\ Locks(t, "get")
    /\ cache[req[t].app] # Absent
    /\ answer' = [answer EXCEPT ![t] = cache[req[t].app]]
    /\ pc' = [pc EXCEPT ![t] = "ok"]
    /\ UNCHANGED <<table, cache, mu, req>>

GetMisses(t) ==
    /\ Locks(t, "get")
    /\ cache[req[t].app] = Absent
    /\ Goes(t, "failed")
    /\ UNCHANGED <<table, cache, mu>>

KeysOf(c) == IF c = Absent THEN {} ELSE DOMAIN c

(* Mutant: a merge that does not start with what exists. *)
MergedNewOnly(old, new) == new

Merged(old, new) ==
    [k \in KeysOf(old) \cup KeysOf(new) |->
        IF k \in KeysOf(new) THEN new[k] ELSE old[k]]

(* The merge is with the cache, not with the row.  (Until SetCaches the    *)
(* entry does not change, so it can be computed in both steps.)            *)
FinalConfig(t) ==
    IF req[t].op = "merge" THEN Merged(cache[req[t].app], req[t].config)
                           ELSE req[t].config

(* Set: the row is written, then the cache entry; if the row cannot be     *)
(* written, nothing is.                                                    *)
SetWrites(t) ==
    /\ Locks(t, "merge") \/ Locks(t, "replace")
    /\ table' = [table EXCEPT ![req[t].app] = FinalConfig(t)]
    /\ mu' = t
    /\ Goes(t, "written")
    /\ UNCHANGED cache

SetFails(t) ==
    /\ Locks(t, "merge") \/ Locks(t, "replace")
    /\ Goes(t, "failed")
    /\ UNCHANGED <<table, cache, mu>>

(* Mutant: the cache entry is left as it was. *)
SetForgetsCache(t) ==
    /\ pc[t] = "written"
    /\ mu' = Free
    /\ Goes(t, "ok")
    /\ UNCHANGED <<table, cache>>

(* Mutant: the mutex is not given back. *)
SetKeepsLock(t) ==
    /\ pc[t] = "written"
    /\ cache' = [cache EXCEPT ![req[t].app] = FinalConfig(t)]
    /\ Goes(t, "ok")
    /\ UNCHANGED <<table, mu>>

SetCaches(t) ==
    /\ pc[t] = "written"
    /\ cache' = [cache EXCEPT ![req[t].app] = FinalConfig(t)]
    /\ mu' = Free
    /\ Goes(t, "ok")
    /\ UNCHANGED table

(* The server dies and starts again: only the table is left. *)
Restart ==
    /\ cache' = Empty
    /\ mu' = Free
    /\ pc' = [t \in Threads |-> "idle"]
    /\ answer' = [t \in Threads |-> Absent]
    /\ UNCHANGED <<table, req>>
-----------------------------------------------------------------------------
Ensure(t) == AlreadyLoaded(t) \/ LoadsAll(t) \/ LoadFails(t) \/ LoadsSome(t)
Operate(t) == GetFinds(t) \/ GetMisses(t) \/ SetWrites(t) \/ SetFails(t)

Next ==
    \/ \E t \in Threads : \/ \E r \in Request : Call(t, r)
                          \/ Ensure(t) \/ Operate(t) \/ SetCaches(t)
    \/ Restart

Spec == Init /\ [][Next]_vars

(* sync.Mutex hands over to a waiter that starves. *)
Fairness == \A t \in Threads : /\ SF_vars(Ensure(t)) /\ SF_vars(Operate(t))
                               /\ WF_vars(SetCaches(t))

FairSpec == Spec /\ Fairness
-----------------------------------------------------------------------------
(* Properties *)

(* The app whose row a Set has written and whose entry it has not. *)
MidWrite(a) == \E t \in Threads : pc[t] = "written" /\ req[t].app = a

(* Cache and table agree, and the cache is complete: once anything is in   *)
(* it, it has the row of every app (loadCache, Set), but for the app a Set *)
(* is just writing.  Nothing else would ever correct it: a cache that is   *)
(* not empty is not loaded again.                                          *)
CacheCoherent ==
    ~PartialLoads /\ cache # Empty =>
        \A a \in Apps : MidWrite(a) \/ cache[a] = table[a]

(* Every Get and every Set returns (or the server dies): each path gives   *)
(* the mutex back, however statements fail.                                *)
CallsReturn ==
    \A t \in Threads : pc[t] = "called" ~> pc[t] \in {"idle", "ok", "failed"}

-----------------------------------------------------------------------------
(* The inductive invariant of the proofs. *)
IInv ==
    /\ TypeOK
    /\ \A t \in Threads : pc[t] = "written" <=> mu = t
    /\ \A t \in Threads : pc[t] = "written" =>
           /\ req[t].op \in {"merge", "replace"}
           /\ table[req[t].app] = FinalConfig(t)
    /\ CacheCoherent
    /\ ~PartialLoads =>
           \A t \in Threads : pc[t] \in {"ready", "written"} =>
               cache # Empty \/ \A a \in Apps : MidWrite(a) \/ table[a] = Absent
-----------------------------------------------------------------------------
(* The store that clients see is the table; a call has taken effect when   *)
(* its row is written.                                                     *)
Phase == [t \in Threads |-> CASE pc[t] \in {"called", "ready"} -> "open"
                              [] pc[t] = "written" -> "done"
                              [] OTHER -> pc[t]]

Store == INSTANCE ConfigStore WITH store <- table, phase <- Phase, ask <- req

(* Calls behave as the abstract store promises: linearizable, all or       *)
(* nothing, also with failing statements and a server that dies (service.go*)
(* Get and Set).                                                           *)
ImplementsStore == Store!Spec
=============================================================================
