------------------------ MODULE ConfigManagerProofs -------------------------
(***************************************************************************)
(* Theorems about ConfigManager, for every set of apps, threads, keys and  *)
(* values: if no row is missed while loading, the cache is a complete copy *)
(* of the table, and the component implements ConfigStore.                 *)
(***************************************************************************)
EXTENDS ConfigManager, TLAPS

(* A merge of configs is a config, whichever of the two are there. *)
LEMMA MergedType ==
    ASSUME NEW old \in Config \cup {Absent}, NEW new \in Config
    PROVE  Merged(old, new) \in Config
<1> USE ConfigAssumption
<1>1. PICK N \in SUBSET Keys : new \in [N -> Values]
  BY DEF Config
<1>2. KeysOf(new) = N
  BY <1>1 DEF KeysOf
<1>3. CASE old = Absent
  <2>1. KeysOf(old) = {}
    BY <1>3 DEF KeysOf
  <2>2. Merged(old, new) \in [N -> Values]
    BY <1>1, <1>2, <2>1 DEF Merged
  <2> QED BY <2>2 DEF Config
<1>4. CASE old \in Config
  <2>1. PICK O \in SUBSET Keys : old \in [O -> Values]
    BY <1>4 DEF Config
  <2>2. KeysOf(old) = O
    BY <1>4, <2>1 DEF KeysOf
  <2>3. Merged(old, new) \in [O \cup N -> Values]
    BY <1>1, <1>2, <2>1, <2>2 DEF Merged
  <2> QED BY <2>3 DEF Config
<1> QED BY <1>3, <1>4

(* What a Set is going to store is a config. *)
LEMMA FinalType ==
    ASSUME TypeOK, NEW t \in Threads, req[t].op \in {"merge", "replace"}
    PROVE  FinalConfig(t) \in Config
<1>1. req[t].config \in Config /\ req[t].app \in Apps
  BY DEF TypeOK, Request
<1>2. cache[req[t].app] \in Config \cup {Absent}
  BY <1>1 DEF TypeOK
<1> QED BY <1>1, <1>2, MergedType DEF FinalConfig

LEMMA InitInv == Init => IInv
  BY ConfigAssumption DEF Init, IInv, TypeOK, PC, Request, Config, Empty,
                          CacheCoherent, MidWrite

(* The two parts of IInv about the contents of the cache. *)
Complete ==
    ~PartialLoads =>
        \A t \in Threads : pc[t] \in {"ready", "written"} =>
            cache # Empty \/ \A a \in Apps : MidWrite(a) \/ table[a] = Absent

WriteInv ==
    \A t \in Threads : pc[t] = "written" =>
        /\ mu = t
        /\ req[t].op \in {"merge", "replace"}
        /\ table[req[t].app] = FinalConfig(t)

(* Every step keeps the types. *)
LEMMA TypeStep == IInv /\ [Next]_vars => TypeOK'
<1> SUFFICES ASSUME IInv, [Next]_vars PROVE TypeOK'
  OBVIOUS
<1> USE ConfigAssumption DEF IInv, TypeOK, PC
<1>1. ASSUME NEW t \in Threads, NEW r \in Request, Call(t, r) PROVE TypeOK'
  BY <1>1 DEF Call
<1>2. ASSUME NEW t \in Threads, Ensure(t) PROVE TypeOK'
  <2>1. CASE AlreadyLoaded(t)
    BY <2>1 DEF AlreadyLoaded, Ensures, Goes
  <2>2. ASSUME NEW rows, NEW p \in {"ready", "failed"}, Loads(t, rows, p)
        PROVE  TypeOK'
    BY <2>2 DEF Loads, Ensures, Goes
  <2> QED BY <1>2, <2>1, <2>2 DEF Ensure, LoadsAll, LoadFails, LoadsSome
<1>3. ASSUME NEW t \in Threads, GetFinds(t) \/ GetMisses(t) PROVE TypeOK'
  <2>1. req[t].app \in Apps
    BY DEF Request
  <2> QED BY <1>3, <2>1 DEF GetFinds, GetMisses, Goes, Locks
<1>4. ASSUME NEW t \in Threads, SetWrites(t) PROVE TypeOK'
  <2>1. FinalConfig(t) \in Config
    BY <1>4, FinalType DEF SetWrites, Locks
  <2> QED BY <1>4, <2>1 DEF SetWrites, Goes
<1>5. ASSUME NEW t \in Threads, SetFails(t) PROVE TypeOK'
  BY <1>5 DEF SetFails, Goes
<1>6. ASSUME NEW t \in Threads, SetCaches(t) PROVE TypeOK'
  <2>1. FinalConfig(t) \in Config
    BY <1>6, FinalType DEF SetCaches
  <2> QED BY <1>6, <2>1 DEF SetCaches, Goes
<1>7. CASE Restart
  BY <1>7 DEF Restart, Empty
<1>8. CASE UNCHANGED vars
  BY <1>8 DEF vars
<1> QED BY <1>1, <1>2, <1>3, <1>4, <1>5, <1>6, <1>7, <1>8 DEF Next, Operate

(* Every step keeps the mutex with the one that is writing, and what a     *)
(* writer has written is what it is going to cache.                        *)
LEMMA WriteStep ==
    IInv /\ [Next]_vars => /\ WriteInv'
                           /\ \A t \in Threads : pc'[t] = "written" <=> mu' = t
<1> DEFINE Lock == \A t \in Threads : pc[t] = "written" <=> mu = t
<1> SUFFICES ASSUME IInv, [Next]_vars PROVE WriteInv' /\ Lock'
  OBVIOUS
<1> USE ConfigAssumption DEF IInv, TypeOK, PC, WriteInv, FinalConfig
<1>1. ASSUME NEW t \in Threads, NEW r \in Request, Call(t, r)
      PROVE  WriteInv' /\ Lock'
  BY <1>1 DEF Call
<1>2. ASSUME NEW t \in Threads, Ensure(t) PROVE WriteInv' /\ Lock'
  <2>1. mu = Free /\ mu' = Free
    BY <1>2 DEF Ensure, AlreadyLoaded, LoadsAll, LoadFails, LoadsSome, Loads,
                Ensures
  <2>2. PICK p \in {"ready", "failed"} : pc' = [pc EXCEPT ![t] = p]
    BY <1>2 DEF Ensure, AlreadyLoaded, LoadsAll, LoadFails, LoadsSome, Loads,
                Goes
  <2> QED BY <2>1, <2>2
<1>3. ASSUME NEW t \in Threads, GetFinds(t) \/ GetMisses(t)
      PROVE  WriteInv' /\ Lock'
  BY <1>3 DEF GetFinds, GetMisses, Goes, Locks
<1>4. ASSUME NEW t \in Threads, SetWrites(t) PROVE WriteInv' /\ Lock'
  <2>1. req[t].app \in Apps
    BY DEF Request
  <2> QED BY <1>4, <2>1 DEF SetWrites, Goes, Locks
<1>5. ASSUME NEW t \in Threads, SetFails(t) PROVE WriteInv' /\ Lock'
  BY <1>5 DEF SetFails, Goes, Locks
<1>6. ASSUME NEW t \in Threads, SetCaches(t) PROVE WriteInv' /\ Lock'
  BY <1>6 DEF SetCaches, Goes
<1>7. CASE Restart
  BY <1>7 DEF Restart
<1>8. CASE UNCHANGED vars
  BY <1>8 DEF vars
<1> QED BY <1>1, <1>2, <1>3, <1>4, <1>5, <1>6, <1>7, <1>8 DEF Next, Operate

(* Every step keeps the cache a complete copy. *)
LEMMA CacheStep == IInv /\ [Next]_vars => CacheCoherent' /\ Complete'
<1> SUFFICES ASSUME IInv, [Next]_vars, ~PartialLoads
             PROVE  CacheCoherent' /\ Complete'
  BY DEF CacheCoherent, Complete
<1> DEFINE Copy == cache # Empty =>
                       \A a \in Apps : MidWrite(a) \/ cache[a] = table[a]
           Full == \A t \in Threads : pc[t] \in {"ready", "written"} =>
                       \/ cache # Empty
                       \/ \A a \in Apps : MidWrite(a) \/ table[a] = Absent
<1>a. Copy /\ Full
  BY DEF IInv, CacheCoherent
<1> SUFFICES Copy' /\ Full'
  BY DEF CacheCoherent, Complete
<1> USE ConfigAssumption, <1>a DEF IInv, TypeOK, PC, MidWrite
(* Steps that write neither table nor cache and end no write. *)
<1>q. ASSUME UNCHANGED <<table, cache>>, NEW t \in Threads, NEW p \in PC,
             pc' = [pc EXCEPT ![t] = p], pc[t] # "written",
             \A u \in Threads : pc[u] = "written" => req'[u] = req[u],
             p = "ready" => cache # Empty, p # "written"
      PROVE  Copy' /\ Full'
  <2>1. \A a \in Apps : MidWrite(a) => MidWrite(a)'
    BY <1>q
  <2> QED BY <1>q, <2>1
<1>1. ASSUME NEW t \in Threads, NEW r \in Request, Call(t, r)
      PROVE  Copy' /\ Full'
  <2>1. \A u \in Threads : pc[u] = "written" => req'[u] = req[u]
    BY <1>1 DEF Call
  <2> QED BY <1>1, <1>q, <2>1 DEF Call
<1>2. ASSUME NEW t \in Threads, Ensure(t) PROVE Copy' /\ Full'
  <2>1. CASE AlreadyLoaded(t)
    BY <2>1, <1>q DEF AlreadyLoaded, Ensures, Goes
  <2>2. CASE LoadsAll(t)
    <3>1. \A a \in Apps : cache'[a] = table'[a]
      BY <2>2 DEF LoadsAll, Loads, Ensures
    <3>2. cache' = Empty => \A a \in Apps : table'[a] = Absent
      BY <3>1 DEF Empty
    <3> QED BY <3>1, <3>2
  <2>3. CASE LoadFails(t)
    <3>1. cache' = cache
      BY <2>3 DEF LoadFails, Loads, Empty
    <3> QED BY <2>3, <3>1, <1>q DEF LoadFails, Loads, Ensures, Goes
  <2> QED BY <1>2, <2>1, <2>2, <2>3 DEF Ensure, LoadsSome
<1>3. ASSUME NEW t \in Threads, GetFinds(t) \/ GetMisses(t)
      PROVE  Copy' /\ Full'
  BY <1>3, <1>q DEF GetFinds, GetMisses, Goes, Locks
<1>4. ASSUME NEW t \in Threads, SetWrites(t) PROVE Copy' /\ Full'
  <2>1. req[t].app \in Apps
    BY DEF Request
  <2>2. pc[t] = "ready" /\ mu = Free
    BY <1>4 DEF SetWrites, Locks
  <2>3. \A u \in Threads : pc[u] # "written"
    BY <2>2
  <2>4. pc'[t] = "written" /\ req' = req
    BY <1>4 DEF SetWrites, Goes
  <2>5. \A a \in Apps : a # req[t].app => table'[a] = table[a]
    BY <1>4 DEF SetWrites
  <2>6. cache' = cache
    BY <1>4 DEF SetWrites
  <2>7. ASSUME cache' # Empty, NEW a \in Apps
        PROVE  MidWrite(a)' \/ cache'[a] = table'[a]
    <3>1. CASE a = req[t].app
      BY <3>1, <2>4
    <3>2. CASE a # req[t].app
      <4>1. ~MidWrite(a)
        BY <2>3
      <4>2. cache[a] = table[a]
        BY <4>1, <2>6, <2>7
      <4> QED BY <4>2, <3>2, <2>5, <2>6
    <3> QED BY <3>1, <3>2
  <2>8. cache = Empty => \A a \in Apps : table[a] = Absent
    BY <2>2, <2>3
  <2>9. ASSUME cache' = Empty, NEW a \in Apps
        PROVE  MidWrite(a)' \/ table'[a] = Absent
    <3>1. cache = Empty
      BY <2>9, <2>6
    <3>2. a # req[t].app => table'[a] = table[a]
      BY <2>5
    <3>3. CASE a = req[t].app
      BY <3>3, <2>4
    <3> QED BY <3>1, <3>2, <3>3, <2>8
  <2> QED BY <2>7, <2>9
<1>5. ASSUME NEW t \in Threads, SetFails(t) PROVE Copy' /\ Full'
  BY <1>5, <1>q DEF SetFails, Goes, Locks
<1>6. ASSUME NEW t \in Threads, SetCaches(t) PROVE Copy' /\ Full'
  <2>1. req[t].app \in Apps
    BY DEF Request
  <2>2. \A u \in Threads : pc[u] = "written" => u = t
    BY <1>6 DEF SetCaches
  <2>3. cache'[req[t].app] = table'[req[t].app]
    BY <1>6, <2>1 DEF SetCaches
  <2>4. FinalConfig(t) # Absent
    BY <1>6, FinalType DEF SetCaches
  <2>5. cache' # Empty
    BY <1>6, <2>1, <2>4 DEF SetCaches, Empty
  <2>6. ASSUME NEW a \in Apps, a # req[t].app
        PROVE  cache'[a] = table'[a]
    <3>1. ~MidWrite(a)
      BY <2>2, <2>6
    <3>2. cache[a] = table[a]
      BY <3>1, <1>6 DEF SetCaches, Empty
    <3> QED BY <3>2, <1>6, <2>6 DEF SetCaches
  <2> QED BY <2>3, <2>5, <2>6
<1>7. CASE Restart
  BY <1>7 DEF Restart
<1>8. CASE UNCHANGED vars
  BY <1>8 DEF vars
<1> QED BY <1>1, <1>2, <1>3, <1>4, <1>5, <1>6, <1>7, <1>8 DEF Next, Operate

LEMMA InvStep == IInv /\ [Next]_vars => IInv'
<1> SUFFICES ASSUME IInv, [Next]_vars PROVE IInv'
  OBVIOUS
<1>1. /\ TypeOK' /\ WriteInv' /\ CacheCoherent' /\ Complete'
      /\ \A t \in Threads : pc'[t] = "written" <=> mu' = t
  BY TypeStep, WriteStep, CacheStep
<1> QED BY <1>1 DEF IInv, WriteInv, Complete

(* The inductive invariant holds, whatever fails and whenever the server   *)
(* dies.                                                                   *)
THEOREM Invariance == Spec => []IInv
<1> QED BY InitInv, InvStep, PTL DEF Spec

(* Unless rows are missed while loading (loadCache), the cache is a        *)
(* complete copy of the table, but for the row a Set is just writing.      *)
THEOREM CacheIsCoherent == Spec => []CacheCoherent
<1>1. IInv => CacheCoherent
  BY DEF IInv
<1> QED BY <1>1, Invariance, PTL
-----------------------------------------------------------------------------
(* The configuration store implements the abstract one.                    *)

LEMMA RefinesInit == Init => Store!Init
  BY DEF Init, Store!Init, Phase, Request

(* A merge with the cache is a merge with the row. *)
LEMMA MergesRow ==
    ASSUME IInv, ~PartialLoads, NEW t \in Threads, SetWrites(t)
    PROVE  table'[req[t].app] = Store!Effect(req[t], table[req[t].app])
<1> USE ConfigAssumption DEF IInv, TypeOK
<1>1. req[t].app \in Apps
  BY DEF Request
<1>2. pc[t] = "ready" /\ req[t].op \in {"merge", "replace"}
  BY DEF SetWrites, Locks
<1>3. \A a \in Apps : ~MidWrite(a)
  BY DEF SetWrites, Locks, MidWrite
<1>4. cache[req[t].app] = table[req[t].app]
  <2>1. CASE cache # Empty
    BY <2>1, <1>1, <1>3 DEF CacheCoherent
  <2>2. CASE cache = Empty
    BY <2>2, <1>1, <1>2, <1>3 DEF Empty
  <2> QED BY <2>1, <2>2
<1>5. table'[req[t].app] = FinalConfig(t)
  BY <1>1 DEF SetWrites
<1> QED BY <1>2, <1>4, <1>5 DEF FinalConfig, Merged, KeysOf, Store!Effect,
                                Store!Overlay, Store!Domain

(* A get that finds something in the cache finds the row. *)
LEMMA ReadsRow ==
    ASSUME IInv, ~PartialLoads, NEW t \in Threads, GetFinds(t)
    PROVE  cache[req[t].app] = table[req[t].app]
<1> USE ConfigAssumption DEF IInv, TypeOK
<1>1. req[t].app \in Apps
  BY DEF Request
<1>2. \A a \in Apps : ~MidWrite(a)
  BY DEF GetFinds, Locks, MidWrite
<1>3. cache # Empty
  BY <1>1 DEF GetFinds, Empty
<1> QED BY <1>1, <1>2, <1>3 DEF CacheCoherent

LEMMA RefinesStep ==
    IInv /\ ~PartialLoads /\ [Next]_vars => [Store!Next]_(Store!vars)
<1> SUFFICES ASSUME IInv, ~PartialLoads, [Next]_vars
             PROVE  [Store!Next]_(Store!vars)
  OBVIOUS
<1> USE ConfigAssumption DEF IInv, TypeOK, PC
<1>1. ASSUME NEW t \in Threads, NEW r \in Request, Call(t, r)
      PROVE  Store!Ask(t, r)
  <2>1. Phase[t] \in {"idle", "ok", "failed"}
    BY <1>1 DEF Call, Phase
  <2>2. Phase' = [Phase EXCEPT ![t] = "open"]
    BY <1>1 DEF Call, Phase
  <2> QED BY <1>1, <2>1, <2>2 DEF Call, Store!Ask
<1>2. ASSUME NEW t \in Threads, Ensure(t)
      PROVE  Store!Fail(t) \/ UNCHANGED Store!vars
  <2>1. PICK p \in {"ready", "failed"} :
            pc[t] = "called" /\ pc' = [pc EXCEPT ![t] = p]
    BY <1>2 DEF Ensure, AlreadyLoaded, LoadsAll, LoadFails, LoadsSome, Loads,
                Ensures, Goes
  <2>2. UNCHANGED <<table, req, answer>>
    BY <1>2 DEF Ensure, AlreadyLoaded, LoadsAll, LoadFails, LoadsSome, Loads,
                Ensures, Goes
  <2>3. Phase[t] = "open"
    BY <2>1 DEF Phase
  <2>4. CASE p = "ready"
    <3>1. Phase' = Phase
      BY <2>1, <2>4 DEF Phase
    <3> QED BY <3>1, <2>2 DEF Store!vars
  <2>5. CASE p = "failed"
    <3>1. Phase' = [Phase EXCEPT ![t] = "failed"]
      BY <2>1, <2>5 DEF Phase
    <3> QED BY <3>1, <2>2, <2>3 DEF Store!Fail
  <2> QED BY <2>4, <2>5
<1>3. ASSUME NEW t \in Threads, GetFinds(t)
      PROVE  Store!Take(t)
  <2>1. Phase[t] = "open" /\ Phase' = [Phase EXCEPT ![t] = "ok"]
    BY <1>3 DEF GetFinds, Locks, Phase
  <2>2. /\ cache[req[t].app] = table[req[t].app]
        /\ req[t].op = "get" /\ table[req[t].app] # Absent
    BY <1>3, ReadsRow DEF GetFinds, Locks
  <2>3. answer' = [answer EXCEPT ![t] = table[req[t].app]]
    BY <1>3, <2>2 DEF GetFinds
  <2>4. table' = [table EXCEPT
                     ![req[t].app] = Store!Effect(req[t], table[req[t].app])]
    BY <1>3, <2>2 DEF GetFinds, Store!Effect
  <2> QED BY <1>3, <2>1, <2>2, <2>3, <2>4 DEF GetFinds, Store!Take
<1>9. ASSUME NEW t \in Threads, GetMisses(t)
      PROVE  Store!Fail(t)
  <2>1. Phase[t] = "open" /\ Phase' = [Phase EXCEPT ![t] = "failed"]
    BY <1>9 DEF GetMisses, Goes, Locks, Phase
  <2> QED BY <1>9, <2>1 DEF GetMisses, Goes, Store!Fail
<1>4. ASSUME NEW t \in Threads, SetWrites(t)
      PROVE  Store!Take(t)
  <2>1. pc[t] = "ready" /\ req[t].op \in {"merge", "replace"}
    BY <1>4 DEF SetWrites, Locks
  <2>2. Phase[t] = "open" /\ Phase' = [Phase EXCEPT ![t] = "done"]
    BY <1>4, <2>1 DEF SetWrites, Goes, Phase
  <2>3. req[t].app \in Apps
    BY DEF Request
  <2>4. table' = [table EXCEPT
                     ![req[t].app] = Store!Effect(req[t], table[req[t].app])]
    BY <1>4, <2>3, MergesRow DEF SetWrites
  <2> QED BY <1>4, <2>1, <2>2, <2>4 DEF SetWrites, Goes, Store!Take
<1>5. ASSUME NEW t \in Threads, SetFails(t)
      PROVE  Store!Fail(t)
  <2>1. Phase[t] = "open" /\ Phase' = [Phase EXCEPT ![t] = "failed"]
    BY <1>5 DEF SetFails, Goes, Locks, Phase
  <2> QED BY <1>5, <2>1 DEF SetFails, Goes, Store!Fail
<1>6. ASSUME NEW t \in Threads, SetCaches(t)
      PROVE  Store!Succeed(t)
  <2>1. Phase[t] = "done" /\ Phase' = [Phase EXCEPT ![t] = "ok"]
    BY <1>6 DEF SetCaches, Goes, Phase
  <2> QED BY <1>6, <2>1 DEF SetCaches, Goes, Store!Succeed
<1>7. CASE Restart
  <2>1. Phase' = [t \in Threads |-> "idle"]
    BY <1>7 DEF Restart, Phase
  <2> QED BY <1>7, <2>1 DEF Restart, Store!Restart, Store!Next
<1>8. CASE UNCHANGED vars
  BY <1>8 DEF vars, Store!vars, Phase
<1> QED BY <1>1, <1>2, <1>3, <1>4, <1>5, <1>6, <1>7, <1>8,
          <1>9
        DEF Next, Operate, Store!Next

(* Unless rows are missed while loading (loadCache), Get and Set behave as *)
(* one-step operations on the table, failing without effect or succeeding  *)
(* with it, across restarts.                                               *)
THEOREM StoreImplemented == ~PartialLoads => (Spec => ImplementsStore)
<1> SUFFICES ASSUME ~PartialLoads PROVE Spec => ImplementsStore
  OBVIOUS
<1>1. IInv /\ [Next]_vars => [Store!Next]_(Store!vars)
  BY RefinesStep
<1> QED BY RefinesInit, <1>1, Invariance, PTL
        DEF Spec, ImplementsStore, Store!Spec
=============================================================================
