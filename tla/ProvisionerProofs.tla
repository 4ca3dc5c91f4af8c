------------------------- MODULE ProvisionerProofs --------------------------
(***************************************************************************)
(* Theorems about Provisioner, for every set of apps, resources, requests  *)
(* and threads: the passwords that get anywhere work, a bind is repeatable *)
(* while the maps are clean, and what is created is stored.                *)
(***************************************************************************)
EXTENDS Provisioner, TLAPS

LEMMA NoRequestType == NoRequest \in Requests /\ NoRequest \in Request
  BY ProvisionAssumption DEF NoRequest

LEMMA RequestType ==
    ASSUME NEW q \in Request
    PROVE  /\ q.app \in Apps /\ q.res \in Resources
           /\ q.given \in Password \cup {None}
           /\ q.dry \in BOOLEAN
           /\ Kind(q.res) \in Kinds
  BY ProvisionAssumption DEF Request, Kind, Kinds

LEMMA MapType ==
    ASSUME TypeOK, NEW r \in Resources
    PROVE  MapOf(r) \in [Resources -> Password \cup {None}]
  BY DEF TypeOK, MapOf

LEMMA NothingType == Nothing \in [Resources -> Password \cup {None}]
  BY DEF Nothing

(* The steps of one request, whichever handler takes them. *)
Serves(t) ==
    \/ Finds(t) \/ FindsNone(t) \/ Fails(t)
    \/ Reuses(t) \/ NeedsCredentials(t) \/ TakesGiven(t)
    \/ IsTyped(t) \/ Verifies(t) \/ TakesUntried(t)
    \/ CreatesDatabase(t) \/ CreatesUser(t) \/ SetsUser(t)
    \/ RereadsUsers(t) \/ SavesUsers(t) \/ Binds(t)

LEMMA Steps ==
    Next => \/ \E t \in Threads : \/ \E q \in Requests : Asks(t, q)
                                  \/ Serves(t)
            \/ Restart
  BY DEF Next, ProvisionMySQL, ProvisionRedis, provisionMySQL, provisionRedis,
         LooksUp, Looks, Finishes, Serves

LEMMA InitInv == Init => IInv
<1> SUFFICES ASSUME Init PROVE IInv
  OBVIOUS
<1> USE ProvisionAssumption, NoRequestType DEF Init
<1>1. TypeOK
  BY DEF TypeOK, PC, Nothing, Kinds, Password, Resources
<1>2. HandFits
  BY DEF HandFits
<1>4. AllWork
  BY DEF AllWork, InHand, Nothing
<1>5. CleanIsKept
  BY DEF CleanIsKept, Nothing, Resources
<1>6. CreatedIsStored
  BY DEF CreatedIsStored, Found, Resources
<1> QED BY <1>1, <1>2, <1>4, <1>5, <1>6 DEF IInv

LEMMA Passwords ==
    /\ Secrets \subseteq Password /\ Inputs \subseteq Password
    /\ None \notin Password
  BY ProvisionAssumption DEF Password

ThreadsOK ==
    /\ pc \in [Threads -> PC]
    /\ req \in [Threads -> Request]
    /\ hand \in [Threads -> Password \cup {None}]

LEMMA GoesType ==
    ASSUME TypeOK, NEW t \in Threads, NEW p \in PC,
           NEW s \in Password \cup {None}, Goes(t, p, s)
    PROVE  ThreadsOK'
  BY DEF TypeOK, Goes, ThreadsOK

LEMMA AnswersType ==
    ASSUME TypeOK, NEW t \in Threads, Answers(t)
    PROVE  ThreadsOK'
<1>1. "idle" \in PC
  BY DEF PC
<1> QED BY <1>1, NoRequestType DEF TypeOK, Answers, ThreadsOK

(* A thread's view of a map. *)
LEMMA ReadType ==
    ASSUME TypeOK, NEW t \in Threads, NEW m \in Maps(req[t].res)
    PROVE  m \in [Resources -> Password \cup {None}]
<1>1. req[t].res \in Resources
  BY RequestType DEF TypeOK
<1> QED BY <1>1, MapType, NothingType DEF Maps

(* Every step keeps the types. *)
LEMMA TypeStep == IInv /\ [Next]_vars => TypeOK'
<1> SUFFICES ASSUME TypeOK, HandFits, AllWork, [Next]_vars PROVE TypeOK'
  BY DEF IInv
<1>1. ASSUME NEW t \in Threads, NEW q \in Requests, Asks(t, q) PROVE TypeOK'
  <2>1. q \in Request /\ "asked" \in PC
    BY ProvisionAssumption DEF PC
  <2> QED BY <1>1, <2>1 DEF Asks, TypeOK, serverVars, history
<1>2. ASSUME NEW t \in Threads, Serves(t) PROVE TypeOK'
  <2> DEFINE r == req[t].res
  <2>1. /\ r \in Resources /\ req[t].app \in Apps
        /\ req[t].given \in Password \cup {None} /\ Kind(r) \in Kinds
        /\ hand[t] \in Password \cup {None}
    BY RequestType DEF TypeOK
  <2>2. \A m \in Maps(r) : m \in [Resources -> Password \cup {None}]
    BY ReadType
  <2>3. ASSUME NEW p \in PC, NEW s \in Password \cup {None}, Goes(t, p, s)
        PROVE  ThreadsOK'
    BY <2>3, GoesType
  <2>4. Answers(t) => ThreadsOK'
    BY AnswersType
  <2> HIDE DEF r
  <2> USE DEF serverVars, history
  <2>5. CASE Finds(t)
    <3>1. ThreadsOK'
      BY <2>5, <2>3 DEF Finds, PC
    <3> QED BY <2>5, <3>1 DEF Finds, TypeOK, ThreadsOK
  <2>6. CASE FindsNone(t)
    <3>1. ThreadsOK'
      BY <2>6, <2>3, <2>4, Passwords DEF FindsNone, PC
    <3> QED BY <2>6, <3>1 DEF FindsNone, TypeOK, ThreadsOK
  <2>7. CASE Fails(t)
    <3>1. ThreadsOK'
      BY <2>7, <2>4 DEF Fails
    <3> QED BY <2>7, <2>1, <3>1, NothingType DEF Fails, TypeOK, ThreadsOK, Forgets, r
  <2>8. CASE Reuses(t)
    <3>1. PICK m \in Maps(r) : Reads(t, m) /\ Goes(t, "bound", m[r])
      BY <2>8 DEF Reuses, r
    <3>2. ThreadsOK'
      BY <3>1, <2>1, <2>2, <2>3 DEF PC
    <3> QED BY <2>8, <3>1, <3>2 DEF Reuses, Reads, TypeOK, ThreadsOK
  <2>9. CASE NeedsCredentials(t)
    <3>1. PICK m \in Maps(r) : /\ Reads(t, m)
                               /\ Goes(t, "prompt", None) \/ Answers(t)
                               /\ view' = [view EXCEPT ![t] = m] \/ UNCHANGED view
      BY <2>9 DEF NeedsCredentials, r
    <3>2. ThreadsOK'
      BY <3>1, <2>3, <2>4 DEF PC
    <3> QED BY <2>2, <3>1, <3>2 DEF Reads, TypeOK, ThreadsOK
  <2>10. CASE TakesGiven(t)
    <3>1. PICK m \in Maps(r) : /\ Reads(t, m)
                               /\ \/ Goes(t, "given", req[t].given)
                                  \/ Goes(t, "bound", None)
                               /\ view' = [view EXCEPT ![t] = m] \/ UNCHANGED view
      BY <2>10 DEF TakesGiven, r
    <3>2. ThreadsOK'
      BY <3>1, <2>1, <2>3 DEF PC
    <3> QED BY <2>2, <3>1, <3>2 DEF Reads, TypeOK, ThreadsOK
  <2>11. CASE IsTyped(t)
    <3>1. ThreadsOK'
      BY <2>11, <2>3, <2>4, Passwords DEF IsTyped, PC
    <3> QED BY <2>11, <3>1, NothingType DEF IsTyped, TypeOK, ThreadsOK, Forgets
  <2>12. CASE Verifies(t)
    <3>1. ThreadsOK'
      BY <2>12, <2>1, <2>3 DEF Verifies, PC
    <3> QED BY <2>12, <3>1 DEF Verifies, TypeOK, ThreadsOK
  <2>18. CASE TakesUntried(t)
    <3>1. ThreadsOK'
      BY <2>18, <2>1, <2>3 DEF TakesUntried, PC
    <3>2. Held(t) \in Credential
      BY <2>1, <2>18, Passwords DEF Held, Credential, TakesUntried, HandFits, r
    <3> QED BY <2>18, <3>1, <3>2 DEF TakesUntried, TypeOK, ThreadsOK
  <2>13. CASE CreatesDatabase(t)
    <3>1. ThreadsOK'
      BY <2>13, <2>1, <2>3 DEF CreatesDatabase, PC
    <3> QED BY <2>13, <3>1 DEF CreatesDatabase, TypeOK, ThreadsOK
  <2>14. CASE CreatesUser(t) \/ SetsUser(t)
    <3>1. hand[t] \in Secrets
      BY <2>14 DEF CreatesUser, SetsUser, HandFits
    <3>2. PICK ps : ps \in SUBSET Password /\ Makes(t, ps)
      BY <2>14, <2>1, <3>1, Passwords DEF CreatesUser, SetsUser, TypeOK, r
    <3>3. ThreadsOK'
      BY <3>2, <2>1, <2>3, <2>4 DEF Makes, PC
    <3>4. Held(t) \in Credential
      BY <2>1, <3>1, Passwords DEF Held, Credential, r
    <3>5. unproven' \in SUBSET Credential
      BY <2>14, <3>4 DEF CreatesUser, SetsUser, TypeOK
    <3> QED BY <3>1, <3>2, <3>3, <3>5, <2>1 DEF Makes, TypeOK, ThreadsOK, r
  <2>15. CASE RereadsUsers(t)
    <3>1. PICK m \in Maps(r) : Reads(t, m) /\ view' = [view EXCEPT ![t] = m]
      BY <2>15 DEF RereadsUsers, r
    <3>2. ThreadsOK'
      BY <2>15, <2>1, <2>3 DEF RereadsUsers, PC
    <3> QED BY <2>2, <3>1, <3>2 DEF Reads, TypeOK, ThreadsOK
  <2>16. CASE SavesUsers(t)
    <3>1. ThreadsOK'
      BY <2>16, <2>1, <2>3 DEF SavesUsers, Saves, PC
    <3>2. stored' \in [Resources -> Password \cup {None}]
      <4>1. view[t] \in [Resources -> Password \cup {None}]
        BY DEF TypeOK
      <4>2. stored \in [Resources -> Password \cup {None}]
        BY DEF TypeOK
      <4> QED BY <2>16, <2>1, <4>1, <4>2 DEF SavesUsers, Saves
    <3> QED BY <2>16, <3>1, <3>2, NothingType DEF SavesUsers, Saves, TypeOK, ThreadsOK, Forgets
  <2>17. CASE Binds(t)
    <3>1. ~req[t].dry => hand[t] \in Password
      BY <2>17, <2>1 DEF Binds, AllWork, InHand
    <3>2. ~req[t].dry => Held(t) \in Credential
      BY <2>1, <3>1 DEF Credential, Held, r
    <3>3. ThreadsOK'
      BY <2>17, <2>4 DEF Binds
    <3>4. config' \in [Apps -> [Kinds -> Credential \cup {None}]]
      <4> DEFINE a == req[t].app
                 C == Credential \cup {None}
                 new == [config[a] EXCEPT ![Kind(r)] = Held(t)]
      <4>1. \/ config' = config
            \/ /\ ~req[t].dry
               /\ config' = [config EXCEPT ![a][Kind(r)] = Held(t)]
        BY <2>17, Zenon DEF Binds, r
      <4>2. config \in [Apps -> [Kinds -> C]] /\ a \in Apps
        BY <2>1 DEF TypeOK
      <4>3. ~req[t].dry => new \in [Kinds -> C]
        BY <3>2, <4>2
      <4>5. \/ config' = config
            \/ ~req[t].dry /\ config' = [config EXCEPT ![a] = new]
        BY <4>1
      <4> HIDE DEF new, a, C
      <4>4. config' \in [Apps -> [Kinds -> C]]
        BY <4>2, <4>3, <4>5
      <4> QED BY <4>4 DEF C
    <3>5. told' \in [Resources -> Password \cup {None}]
      BY <2>17, <2>1, <3>1 DEF Binds, TypeOK, r
    <3> QED BY <2>17, <3>3, <3>4, <3>5 DEF Binds, TypeOK, ThreadsOK
  <2> QED BY <1>2, <2>5, <2>6, <2>7, <2>8, <2>9, <2>10, <2>11, <2>12,
             <2>13, <2>14, <2>15, <2>16, <2>17, <2>18 DEF Serves
<1>3. CASE Restart
  <2>1. \A t \in Threads : req[t].res \in Resources
    BY RequestType DEF TypeOK
  <2>2. "idle" \in PC
    BY DEF PC
  <2> QED BY <1>3, <2>1, <2>2, NothingType, NoRequestType DEF Restart, TypeOK, serverVars
<1>4. CASE UNCHANGED vars
  BY <1>4 DEF vars, threadVars, TypeOK, serverVars, history
<1> QED BY <1>1, <1>2, <1>3, <1>4, Steps
-----------------------------------------------------------------------------
(* What a step leaves as it was: most leave the servers alone, and none    *)
(* touches another thread.                                                 *)
Others(t) ==
    \A u \in Threads \ {t} : /\ pc'[u] = pc[u] /\ req'[u] = req[u]
                            /\ hand'[u] = hand[u] /\ view'[u] = view[u]

Quiet(t) ==
    /\ pc'[t] \notin {"new", "schema", "created"}
    /\ UNCHANGED <<serverVars, made>>

(* CREATE USER or ACL SETUSER, whether it is heard of or not. *)
Making(t) ==
    /\ pc[t] \in {"new", "schema"}
    /\ pc'[t] \in {"created", "idle"}
    /\ pc'[t] = "created" => hand'[t] = hand[t] /\ req'[t] = req[t]
    /\ UNCHANGED schemas
    /\ made' = [made EXCEPT ![req[t].res] = @ \cup {hand[t]}]
    /\ accepted' = [accepted EXCEPT ![req[t].res] =
                        IF accepted[req[t].res] # {} /\ pc[t] = "schema"
                        THEN @ ELSE @ \cup {hand[t]}]
    /\ unproven' = IF accepted[req[t].res] # {} /\ pc[t] = "schema"
                   THEN unproven \cup {Held(t)} ELSE unproven

LEMMA OtherThreads ==
    ASSUME TypeOK, NEW t \in Threads,
           Serves(t) \/ \E q \in Requests : Asks(t, q)
    PROVE  Others(t)
<1> USE DEF TypeOK, Others, Goes, Answers, Forgets
<1>1. CASE \E q \in Requests : Asks(t, q)
  BY <1>1 DEF Asks
<1>2. CASE Finds(t) \/ FindsNone(t) \/ Fails(t)
  BY <1>2 DEF Finds, FindsNone, Fails
<1>3. CASE Reuses(t) \/ NeedsCredentials(t) \/ TakesGiven(t)
  BY <1>3 DEF Reuses, NeedsCredentials, TakesGiven
<1>4. CASE IsTyped(t) \/ Verifies(t) \/ TakesUntried(t) \/ CreatesDatabase(t)
  BY <1>4 DEF IsTyped, Verifies, TakesUntried, CreatesDatabase
<1>5. CASE CreatesUser(t) \/ SetsUser(t)
  BY <1>5 DEF CreatesUser, SetsUser, Makes
<1>6. CASE RereadsUsers(t) \/ SavesUsers(t) \/ Binds(t)
  BY <1>6 DEF RereadsUsers, SavesUsers, Saves, Binds
<1> QED BY <1>1, <1>2, <1>3, <1>4, <1>5, <1>6 DEF Serves

LEMMA MakingStep ==
    ASSUME TypeOK, NEW t \in Threads, CreatesUser(t) \/ SetsUser(t)
    PROVE  Making(t)
<1>1. CASE CreatesUser(t)
  <2>1. pc[t] = "schema"
    BY <1>1 DEF CreatesUser
  <2>2. CASE accepted[req[t].res] = {}
    <3>1. Makes(t, {hand[t]}) /\ UNCHANGED unproven
      BY <1>1, <2>2 DEF CreatesUser
    <3> QED BY <2>1, <2>2, <3>1 DEF Making, Makes, Goes, Answers, TypeOK
  <2>3. CASE accepted[req[t].res] # {}
    <3>1. /\ Makes(t, accepted[req[t].res])
          /\ unproven' = unproven \cup {Held(t)}
      BY <1>1, <2>3 DEF CreatesUser
    <3> QED BY <2>1, <2>3, <3>1 DEF Making, Makes, Goes, Answers, TypeOK
  <2> QED BY <2>2, <2>3
<1>2. CASE SetsUser(t)
  <2>1. /\ Makes(t, accepted[req[t].res] \cup {hand[t]}) /\ pc[t] = "new"
        /\ UNCHANGED unproven
    BY <1>2 DEF SetsUser
  <2> QED BY <2>1 DEF Making, Makes, Goes, Answers, TypeOK
<1> QED BY <1>1, <1>2

LEMMA QuietSteps ==
    ASSUME TypeOK, NEW t \in Threads,
           Serves(t) \/ \E q \in Requests : Asks(t, q)
    PROVE  \/ Quiet(t)
           \/ FindsNone(t) /\ pc'[t] = "new"
           \/ CreatesDatabase(t) \/ CreatesUser(t) \/ SetsUser(t)
<1> USE DEF TypeOK, Quiet, Goes, Answers, serverVars, history
<1>1. CASE \E q \in Requests : Asks(t, q)
  BY <1>1 DEF Asks
<1>2. CASE Finds(t) \/ FindsNone(t) \/ Fails(t)
  BY <1>2 DEF Finds, FindsNone, Fails
<1>3. CASE Reuses(t) \/ NeedsCredentials(t) \/ TakesGiven(t)
  BY <1>3 DEF Reuses, NeedsCredentials, TakesGiven, Reads
<1>4. CASE IsTyped(t) \/ Verifies(t) \/ TakesUntried(t)
  BY <1>4 DEF IsTyped, Verifies, TakesUntried
<1>5. CASE RereadsUsers(t) \/ SavesUsers(t) \/ Binds(t)
  BY <1>5 DEF RereadsUsers, Reads, SavesUsers, Saves, Binds
<1> QED BY <1>1, <1>2, <1>3, <1>4, <1>5 DEF Serves

(* A password that was given is one of those that are. *)
LEMMA GivenEffect ==
    ASSUME TypeOK, NEW t \in Threads, pc'[t] = "given",
           Serves(t) \/ \E q \in Requests : Asks(t, q)
    PROVE  hand'[t] \in Inputs
<1> USE DEF TypeOK, Goes, Answers
<1>1. CASE TakesGiven(t)
  <2>1. req[t].given \in Inputs
    BY <1>1 DEF TakesGiven, Request
  <2>2. Goes(t, "given", req[t].given)
    BY <1>1 DEF TakesGiven
  <2> QED BY <2>1, <2>2
<1>2. CASE IsTyped(t)
  <2>1. pc'[t] # "idle"
    OBVIOUS
  <2>2. PICK x \in Inputs : Goes(t, "given", x)
    BY <1>2, <2>1 DEF IsTyped
  <2> QED BY <2>2
<1>3. CASE Finds(t) \/ FindsNone(t) \/ Fails(t)
  BY <1>3 DEF Finds, FindsNone, Fails
<1>4. CASE Reuses(t) \/ NeedsCredentials(t) \/ Verifies(t) \/ TakesUntried(t)
  BY <1>4 DEF Reuses, NeedsCredentials, Verifies, TakesUntried
<1>5. CASE CreatesDatabase(t) \/ CreatesUser(t) \/ SetsUser(t)
  BY <1>5 DEF CreatesDatabase, CreatesUser, SetsUser, Makes
<1>6. CASE RereadsUsers(t) \/ SavesUsers(t) \/ Binds(t)
  BY <1>6 DEF RereadsUsers, SavesUsers, Saves, Binds
<1>7. CASE \E q \in Requests : Asks(t, q)
  BY <1>7 DEF Asks
<1> QED BY <1>1, <1>2, <1>3, <1>4, <1>5, <1>6, <1>7 DEF Serves

(* A request that creates keeps the password it generated. *)
LEMMA HandStep == IInv /\ [Next]_vars => HandFits'
<1> SUFFICES ASSUME TypeOK, HandFits, [Next]_vars
             PROVE  HandFits'
  BY DEF IInv
<1>1. ASSUME NEW t \in Threads, Serves(t) \/ \E q \in Requests : Asks(t, q),
             NEW u \in Threads
      PROVE  /\ pc'[u] \in {"new", "schema"} => hand'[u] \in Secrets
             /\ pc'[u] = "created" => hand'[u] \in made'[req'[u].res]
             /\ pc'[u] = "given" => hand'[u] \in Inputs
  <2>1. Others(t)
    BY <1>1, OtherThreads
  <2>2. req[u].res \in Resources /\ req[t].res \in Resources
    BY RequestType DEF TypeOK
  <2>3. CASE u # t
    <3>1. made[req[u].res] \subseteq made'[req[u].res]
      <4>1. CASE CreatesUser(t) \/ SetsUser(t)
        <5>1. Making(t)
          BY <4>1, MakingStep
        <5> QED BY <2>2, <5>1 DEF Making, TypeOK
      <4>2. CASE Quiet(t) \/ FindsNone(t) \/ CreatesDatabase(t)
        BY <4>2 DEF Quiet, FindsNone, CreatesDatabase, history
      <4> QED BY <1>1, <4>1, <4>2, QuietSteps
    <3> QED BY <2>1, <2>3, <3>1 DEF Others, HandFits
  <2>4. CASE u = t /\ Quiet(t)
    <3>1. pc'[t] = "given" => hand'[t] \in Inputs
      BY <1>1, GivenEffect
    <3> QED BY <2>4, <3>1 DEF Quiet
  <2>5. CASE u = t /\ FindsNone(t) /\ pc'[t] = "new"
    <3>1. pc'[t] # "idle"
      BY <2>5
    <3>2. ~req[t].dry
      BY <2>5, <3>1 DEF FindsNone, Answers, TypeOK
    <3>3. PICK s \in Secrets : Goes(t, "new", s)
      BY <2>5, <3>2 DEF FindsNone
    <3> QED BY <2>5, <3>3 DEF Goes, TypeOK
  <2>6. CASE u = t /\ CreatesDatabase(t)
    BY <2>6 DEF CreatesDatabase, Goes, TypeOK, HandFits
  <2>7. CASE u = t /\ (CreatesUser(t) \/ SetsUser(t))
    <3>1. Making(t)
      BY <2>7, MakingStep
    <3>2. made'[req[t].res] = made[req[t].res] \cup {hand[t]}
      BY <2>2, <3>1 DEF Making, TypeOK
    <3> QED BY <2>7, <3>1, <3>2 DEF Making
  <2> QED BY <1>1, <2>3, <2>4, <2>5, <2>6, <2>7, QuietSteps
<1>2. CASE Restart
  BY <1>2 DEF Restart, HandFits
<1>3. CASE UNCHANGED vars
  BY <1>3 DEF vars, threadVars, history, HandFits
<1> QED BY <1>1, <1>2, <1>3, Steps DEF HandFits
-----------------------------------------------------------------------------
(* What a step of one request does to each variable that has passwords.    *)
LEMMA StoredEffect ==
    ASSUME TypeOK, NEW t \in Threads,
           Serves(t) \/ \E q \in Requests : Asks(t, q),
           NEW x \in Resources
    PROVE  \/ stored'[x] = stored[x]
           \/ stored'[x] = view[t][x]
           \/ pc[t] = "saving" /\ x = req[t].res /\ stored'[x] = hand[t]
<1>1. CASE SavesUsers(t)
  BY <1>1 DEF SavesUsers, Saves
<1>2. CASE ~SavesUsers(t)
  BY <1>2 DEF Serves, Asks, Finds, FindsNone, Fails, Reuses, NeedsCredentials,
              TakesGiven, Reads, IsTyped, Verifies, TakesUntried,
              CreatesDatabase,
              CreatesUser, SetsUser, Makes, RereadsUsers, Binds
<1> QED BY <1>1, <1>2

LEMMA ToldEffect ==
    ASSUME TypeOK, NEW t \in Threads,
           Serves(t) \/ \E q \in Requests : Asks(t, q),
           NEW x \in Resources
    PROVE  \/ told'[x] = told[x]
           \/ /\ pc[t] = "bound" /\ ~req[t].dry
              /\ x = req[t].res /\ told'[x] = hand[t]
<1>1. CASE Binds(t)
  BY <1>1 DEF Binds, TypeOK
<1>2. CASE ~Binds(t)
  BY <1>2 DEF Serves, Asks, Finds, FindsNone, Fails, Reuses, NeedsCredentials,
              TakesGiven, Reads, IsTyped, Verifies, TakesUntried,
              CreatesDatabase,
              CreatesUser, SetsUser, Makes, RereadsUsers, SavesUsers, Saves,
              history
<1> QED BY <1>1, <1>2

LEMMA ConfigEffect ==
    ASSUME TypeOK, NEW t \in Threads,
           Serves(t) \/ \E q \in Requests : Asks(t, q),
           NEW a \in Apps, NEW k \in Kinds
    PROVE  \/ config'[a][k] = config[a][k]
           \/ /\ pc[t] = "bound" /\ ~req[t].dry
              /\ config'[a][k] = [res |-> req[t].res, pw |-> hand[t]]
<1>1. CASE Binds(t)
  <2> DEFINE new == [res |-> req[t].res, pw |-> hand[t]]
             b == req[t].app
             j == Kind(req[t].res)
  <2>1. config' = config \/ config' = [config EXCEPT ![b][j] = new]
    BY <1>1 DEF Binds, Held
  <2>2. config \in [Apps -> [Kinds -> Credential \cup {None}]]
    BY DEF TypeOK
  <2>4. ~req[t].dry \/ config' = config
    BY <1>1 DEF Binds
  <2> HIDE DEF new, b, j
  <2>3. config'[a][k] = config[a][k] \/ config'[a][k] = new
    BY <2>1, <2>2
  <2> QED BY <1>1, <2>3, <2>4 DEF Binds, new
<1>2. CASE ~Binds(t)
  BY <1>2 DEF Serves, Asks, Finds, FindsNone, Fails, Reuses, NeedsCredentials,
              TakesGiven, Reads, IsTyped, Verifies, TakesUntried,
              CreatesDatabase,
              CreatesUser, SetsUser, Makes, RereadsUsers, SavesUsers, Saves
<1> QED BY <1>1, <1>2

LEMMA MapsHaveStored ==
    ASSUME NEW r \in Resources, NEW m \in Maps(r), NEW x \in Resources
    PROVE  m[x] = stored[x] \/ m[x] = None
  BY DEF Maps, MapOf, Nothing

LEMMA ViewEffect ==
    ASSUME TypeOK, NEW t \in Threads,
           Serves(t) \/ \E q \in Requests : Asks(t, q),
           NEW x \in Resources
    PROVE  view'[t][x] = view[t][x] \/ view'[t][x] = stored[x]
                                   \/ view'[t][x] = None
<1>1. req[t].res \in Resources
  BY RequestType DEF TypeOK
<1>2. CASE NeedsCredentials(t) \/ TakesGiven(t) \/ RereadsUsers(t)
  <2>1. \/ UNCHANGED view
        \/ \E m \in Maps(req[t].res) : view' = [view EXCEPT ![t] = m]
    BY <1>2 DEF NeedsCredentials, TakesGiven, RereadsUsers
  <2> QED BY <1>1, <2>1, MapsHaveStored DEF TypeOK
<1>3. CASE Fails(t) \/ IsTyped(t) \/ SavesUsers(t)
  BY <1>3 DEF Fails, IsTyped, SavesUsers, Saves, Forgets, Nothing, TypeOK
<1>4. CASE ~(NeedsCredentials(t) \/ TakesGiven(t) \/ RereadsUsers(t)) /\
           ~(Fails(t) \/ IsTyped(t) \/ SavesUsers(t))
  BY <1>4 DEF Serves, Asks, Finds, FindsNone, Reuses, Verifies,
              TakesUntried, CreatesDatabase, CreatesUser, SetsUser, Makes, Binds
<1> QED BY <1>2, <1>3, <1>4

(* How a request comes to have a password it may go on with. *)
Dry(t) == req[t].dry /\ req[t].given # None

LEMMA HandEffect ==
    ASSUME TypeOK, HandFits, NEW t \in Threads,
           Serves(t) \/ \E q \in Requests : Asks(t, q),
           pc'[t] \in InHand
    PROVE  /\ req'[t] = req[t]
           /\ \/ pc[t] \in InHand /\ hand'[t] = hand[t]
              \/ hand'[t] = hand[t] /\ hand[t] \in accepted[req[t].res]
              \/ /\ hand'[t] = hand[t] /\ hand[t] # None
                 /\ [res |-> req[t].res, pw |-> hand[t]] \in unproven'
              \/ hand'[t] = None /\ Dry(t) /\ pc'[t] = "bound"
              \/ hand'[t] # None /\ hand'[t] = stored[req[t].res]
              \/ Making(t) /\ hand'[t] = hand[t]
<1> USE DEF TypeOK, InHand, Goes, Answers
<1>1. CASE CreatesUser(t) \/ SetsUser(t)
  BY <1>1, MakingStep DEF Making
<1>2. CASE Reuses(t)
  <2>1. req[t].res \in Resources
    BY RequestType
  <2>2. PICK m \in Maps(req[t].res) :
            m[req[t].res] # None /\ Goes(t, "bound", m[req[t].res])
    BY <1>2 DEF Reuses
  <2> QED BY <2>1, <2>2, MapsHaveStored
<1>3. CASE Verifies(t)
  BY <1>3 DEF Verifies
<1>8. CASE TakesUntried(t)
  BY <1>8, Passwords DEF TakesUntried, Held, HandFits
<1>9. CASE TakesGiven(t)
  BY <1>9 DEF TakesGiven, Dry
<1>4. CASE RereadsUsers(t) \/ SavesUsers(t)
  BY <1>4 DEF RereadsUsers, SavesUsers, Saves
<1>5. CASE Finds(t) \/ FindsNone(t) \/ Fails(t) \/ NeedsCredentials(t)
  BY <1>5 DEF Finds, FindsNone, Fails, NeedsCredentials
<1>6. CASE IsTyped(t) \/ CreatesDatabase(t) \/ Binds(t)
  BY <1>6 DEF IsTyped, CreatesDatabase, Binds
<1>7. CASE \E q \in Requests : Asks(t, q)
  BY <1>7 DEF Asks
<1> QED BY <1>1, <1>2, <1>3, <1>4, <1>5, <1>6, <1>7, <1>8, <1>9 DEF Serves
-----------------------------------------------------------------------------
(* No password is taken away, so that what works goes on working. *)
LEMMA Monotone ==
    ASSUME TypeOK, [Next]_vars, NEW r \in Resources
    PROVE  /\ accepted[r] \subseteq accepted'[r] /\ made[r] \subseteq made'[r]
           /\ unproven \subseteq unproven'
<1>1. ASSUME NEW t \in Threads, Serves(t) \/ \E q \in Requests : Asks(t, q)
      PROVE  accepted[r] \subseteq accepted'[r] /\ made[r] \subseteq made'[r]
  <2>1. CASE CreatesUser(t) \/ SetsUser(t)
    <3>1. Making(t)
      BY <2>1, MakingStep
    <3>2. accepted[r] \subseteq accepted'[r]
      BY <3>1 DEF Making, TypeOK
    <3>3. made[r] \subseteq made'[r]
      BY <3>1 DEF Making, TypeOK
    <3> QED BY <3>2, <3>3
  <2>2. CASE Quiet(t) \/ FindsNone(t) \/ CreatesDatabase(t)
    BY <2>2 DEF Quiet, FindsNone, CreatesDatabase, serverVars, history
  <2> QED BY <1>1, <2>1, <2>2, QuietSteps
<1>2. ASSUME NEW t \in Threads, Serves(t) \/ \E q \in Requests : Asks(t, q)
      PROVE  unproven \subseteq unproven'
  BY <1>2 DEF Serves, Asks, Finds, FindsNone, Fails, Reuses, NeedsCredentials,
              TakesGiven, Reads, IsTyped, Verifies, TakesUntried,
              CreatesDatabase,
              CreatesUser, SetsUser, Makes, RereadsUsers, SavesUsers, Saves,
              Binds, history
<1>3. CASE Restart \/ UNCHANGED vars
  BY <1>3 DEF Restart, vars, serverVars, history
<1> QED BY <1>1, <1>2, <1>3, Steps

(* Works after the step, of a resource and a password of before it.        *)
WillWork(r, s) == s \in accepted'[r] \/ [res |-> r, pw |-> s] \in unproven'

LEMMA StillWorks ==
    ASSUME TypeOK, [Next]_vars, NEW r \in Resources, NEW s, Works(r, s)
    PROVE  WillWork(r, s)
  BY Monotone DEF Works, WillWork

(* A password that was just set works, or CREATE USER has not set it.      *)
LEMMA MadeWorks ==
    ASSUME TypeOK, NEW t \in Threads, Making(t)
    PROVE  WillWork(req[t].res, hand[t])
<1>1. req[t].res \in Resources
  BY RequestType DEF TypeOK
<1> QED BY <1>1 DEF Making, TypeOK, WillWork, Held

LEMMA BoundAnswers ==
    ASSUME TypeOK, NEW t \in Threads, pc[t] = "bound",
           Serves(t) \/ \E q \in Requests : Asks(t, q)
    PROVE  pc'[t] = "idle"
<1>1. Binds(t)
  BY DEF Serves, Asks, Finds, FindsNone, Fails, Reuses, NeedsCredentials,
         TakesGiven, IsTyped, Verifies, TakesUntried, CreatesDatabase,
         CreatesUser, SetsUser, RereadsUsers, SavesUsers, Saves
<1> QED BY <1>1 DEF Binds, Answers, TypeOK

(* Every step keeps AllWork. *)
LEMMA WorkStep == IInv /\ [Next]_vars => AllWork'
<1> SUFFICES ASSUME IInv, [Next]_vars PROVE AllWork'
  OBVIOUS
<1> USE DEF IInv
<1>1. ASSUME NEW t \in Threads, Serves(t) \/ \E q \in Requests : Asks(t, q)
      PROVE  AllWork'
  <2>1. \A r \in Resources : \A s : Works(r, s) => WillWork(r, s)
    BY StillWorks
  <2>2. req[t].res \in Resources
    BY RequestType DEF TypeOK
  <2>3. /\ pc[t] \in InHand /\ hand[t] # None => WillWork(req[t].res, hand[t])
        /\ pc[t] \in InHand /\ hand[t] = None => pc[t] = "bound" /\ Dry(t)
    BY <2>1, <2>2 DEF AllWork, Dry
  <2>4. ASSUME NEW r \in Resources, stored'[r] # None PROVE WillWork(r, stored'[r])
    <3>1. \/ stored'[r] = stored[r]
          \/ stored'[r] = view[t][r]
          \/ pc[t] = "saving" /\ r = req[t].res /\ stored'[r] = hand[t]
      BY <1>1, StoredEffect
    <3> QED BY <2>1, <2>3, <2>4, <3>1 DEF AllWork, InHand
  <2>5. ASSUME NEW r \in Resources, told'[r] # None PROVE WillWork(r, told'[r])
    <3>1. \/ told'[r] = told[r]
          \/ pc[t] = "bound" /\ r = req[t].res /\ told'[r] = hand[t]
      BY <1>1, ToldEffect
    <3> QED BY <2>1, <2>3, <2>5, <3>1 DEF AllWork, InHand
  <2>6. ASSUME NEW a \in Apps, NEW k \in Kinds, config'[a][k] # None
        PROVE  WillWork(config'[a][k].res, config'[a][k].pw)
    <3>1. CASE config'[a][k] = config[a][k]
      <4>1. config[a][k] \in Credential
        BY <2>6, <3>1 DEF TypeOK
      <4>2. config[a][k].res \in Resources
        BY <4>1 DEF Credential
      <4> QED BY <2>1, <2>6, <3>1, <4>2 DEF AllWork
    <3>2. CASE /\ pc[t] = "bound" /\ ~req[t].dry
               /\ config'[a][k] = [res |-> req[t].res, pw |-> hand[t]]
      BY <2>3, <3>2 DEF InHand, Dry
    <3> QED BY <1>1, <3>1, <3>2, ConfigEffect
  <2>7. ASSUME NEW u \in Threads, NEW r \in Resources, view'[u][r] # None
        PROVE  WillWork(r, view'[u][r])
    <3>1. CASE u # t
      BY <1>1, <2>1, <2>7, <3>1, OtherThreads DEF Others, AllWork
    <3>2. CASE u = t
      BY <1>1, <2>1, <2>7, <3>2, ViewEffect DEF AllWork
    <3> QED BY <3>1, <3>2
  <2>8. ASSUME NEW u \in Threads, pc'[u] \in InHand
        PROVE  IF hand'[u] = None
               THEN /\ pc'[u] = "bound"
                    /\ req'[u].dry /\ req'[u].given # None
               ELSE WillWork(req'[u].res, hand'[u])
    <3>1. CASE u # t
      <4>1. req[u].res \in Resources
        BY RequestType DEF TypeOK
      <4>2. pc'[u] = pc[u] /\ req'[u] = req[u] /\ hand'[u] = hand[u]
        BY <1>1, <3>1, OtherThreads DEF Others
      <4> QED BY <2>1, <2>8, <4>1, <4>2 DEF AllWork
    <3>2. CASE u = t
      <4> DEFINE r == req[t].res
      <4>1. /\ req'[t] = req[t]
            /\ \/ pc[t] \in InHand /\ hand'[t] = hand[t]
               \/ hand'[t] = hand[t] /\ hand[t] \in accepted[r]
               \/ /\ hand'[t] = hand[t] /\ hand[t] # None
                  /\ [res |-> r, pw |-> hand[t]] \in unproven'
               \/ hand'[t] = None /\ Dry(t) /\ pc'[t] = "bound"
               \/ hand'[t] # None /\ hand'[t] = stored[r]
               \/ Making(t) /\ hand'[t] = hand[t]
        BY <1>1, <2>8, <3>2, HandEffect
      <4>2. CASE pc[t] \in InHand /\ hand'[t] = hand[t]
        <5>1. pc[t] = "bound" => pc'[t] = "idle"
          BY <1>1, <2>8, <3>2, BoundAnswers
        <5> QED BY <2>3, <2>8, <3>2, <4>1, <4>2, <5>1 DEF InHand
      <4>3. CASE hand'[t] = hand[t] /\ hand[t] \in accepted[r]
        <5>1. hand[t] \in Password /\ None \notin Password
          BY <2>2, <4>3, Passwords DEF TypeOK
        <5> QED BY <2>1, <2>2, <3>2, <4>1, <4>3, <5>1 DEF Works
      <4>4. CASE hand'[t] # None /\ hand'[t] = stored[r]
        BY <2>1, <2>2, <3>2, <4>1, <4>4 DEF AllWork
      <4>5. CASE Making(t) /\ hand'[t] = hand[t]
        <5>1. hand[t] \in Secrets
          BY <4>5 DEF HandFits, Making
        <5>2. WillWork(r, hand[t])
          BY <4>5, MadeWorks
        <5> QED BY <3>2, <4>1, <4>5, <5>1, <5>2, Passwords
      <4>6. CASE /\ hand'[t] = hand[t] /\ hand[t] # None
                 /\ [res |-> r, pw |-> hand[t]] \in unproven'
        BY <3>2, <4>1, <4>6 DEF WillWork
      <4>7. CASE hand'[t] = None /\ Dry(t) /\ pc'[t] = "bound"
        BY <3>2, <4>1, <4>7 DEF Dry
      <4> QED BY <4>1, <4>2, <4>3, <4>4, <4>5, <4>6, <4>7
    <3> QED BY <3>1, <3>2
  <2> QED BY <2>4, <2>5, <2>6, <2>7, <2>8 DEF AllWork, Works, WillWork
<1>2. CASE Restart
  BY <1>2 DEF Restart, AllWork, Works, InHand, Nothing, serverVars
<1>3. CASE UNCHANGED vars
  BY <1>3 DEF vars, threadVars, serverVars, history, AllWork, Works
<1> QED BY <1>1, <1>2, <1>3, Steps
-----------------------------------------------------------------------------
(* What clean maps mean. *)
LEMMA CleanBefore ==
    ASSUME [Next]_vars, clean'
    PROVE  clean
<1>1. ASSUME NEW t \in Threads, Serves(t) \/ \E q \in Requests : Asks(t, q)
      PROVE  clean
  BY <1>1 DEF Serves, Asks, Finds, FindsNone, Fails, Reuses, NeedsCredentials,
              TakesGiven, Reads, IsTyped, Verifies, TakesUntried,
              CreatesDatabase,
              CreatesUser, SetsUser, Makes, RereadsUsers, SavesUsers, Saves,
              Binds, history
<1>2. CASE Restart \/ UNCHANGED vars
  BY <1>2 DEF Restart, vars, history
<1> QED BY <1>1, <1>2, Steps

LEMMA SavedClean ==
    ASSUME IInv, NEW t \in Threads, SavesUsers(t), clean', NEW x \in Resources
    PROVE  stored'[x] = IF x = req[t].res THEN hand[t] ELSE stored[x]
<1>1. /\ view[t] = MapOf(req[t].res)
      /\ stored' = [y \in Resources |->
             IF y = req[t].res THEN hand[t]
             ELSE IF Kind(y) = Kind(req[t].res) THEN view[t][y] ELSE stored[y]]
  BY DEF SavesUsers, Saves
<1>2. Kind(x) = Kind(req[t].res) => MapOf(req[t].res)[x] = stored[x]
  BY DEF MapOf
<1> QED BY <1>1, <1>2

(* No entry gets lost. *)
LEMMA StoredKept ==
    ASSUME IInv, [Next]_vars, clean', NEW x \in Resources, stored[x] # None
    PROVE  stored'[x] # None
<1>1. ASSUME NEW t \in Threads, Serves(t) \/ \E q \in Requests : Asks(t, q)
      PROVE  stored'[x] # None
  <2>1. CASE SavesUsers(t)
    <3>1. pc[t] = "saving"
      BY <2>1 DEF SavesUsers, Saves
    <3>2. hand[t] # None
      BY <3>1 DEF IInv, AllWork, InHand
    <3> QED BY <2>1, <3>2, SavedClean
  <2>2. CASE ~SavesUsers(t)
    BY <1>1, <2>2 DEF Serves, Asks, Finds, FindsNone, Fails, Reuses,
       NeedsCredentials, TakesGiven, Reads, IsTyped, Verifies,
       TakesUntried, CreatesDatabase, CreatesUser, SetsUser, Makes, RereadsUsers, Binds
  <2> QED BY <2>1, <2>2
<1>2. CASE Restart \/ UNCHANGED vars
  BY <1>2 DEF Restart, vars
<1> QED BY <1>1, <1>2, Steps

(* A password is bound that is stored, or has just been. *)
LEMMA BoundIsStored ==
    ASSUME IInv, NEW t \in Threads, clean', pc'[t] = "bound", [Next]_vars,
           hand'[t] # None,
           Serves(t) \/ \E q \in Requests : Asks(t, q)
    PROVE  stored'[req'[t].res] # None
<1> USE DEF IInv, TypeOK, Goes, Answers
<1>1. req[t].res \in Resources
  BY RequestType
<1>2. CASE SavesUsers(t)
  <2>1. pc[t] = "saving" /\ req' = req
    BY <1>2 DEF SavesUsers, Saves
  <2>2. hand[t] # None
    BY <2>1 DEF AllWork, InHand
  <2> QED BY <1>1, <1>2, <2>1, <2>2, SavedClean
<1>3. CASE Reuses(t)
  <2>1. PICK m \in Maps(req[t].res) : Reads(t, m) /\ m[req[t].res] # None
                                      /\ req' = req
    BY <1>3 DEF Reuses
  <2>2. m = MapOf(req[t].res)
    BY <2>1 DEF Reads
  <2>3. stored[req[t].res] # None
    BY <1>1, <2>1, <2>2 DEF MapOf
  <2> QED BY <1>1, <2>1, <2>3, StoredKept
<1>4. CASE \/ CreatesUser(t) \/ SetsUser(t) \/ Verifies(t) \/ TakesUntried(t)
         \/ RereadsUsers(t)
  BY <1>4 DEF CreatesUser, SetsUser, Makes, Verifies, TakesUntried, RereadsUsers
<1>5. CASE Finds(t) \/ FindsNone(t) \/ Fails(t) \/ NeedsCredentials(t)
  BY <1>5 DEF Finds, FindsNone, Fails, NeedsCredentials
<1>6. CASE TakesGiven(t) \/ IsTyped(t) \/ CreatesDatabase(t) \/ Binds(t)
  BY <1>6 DEF TakesGiven, IsTyped, CreatesDatabase, Binds
<1>7. CASE \E q \in Requests : Asks(t, q)
  BY <1>7 DEF Asks
<1> QED BY <1>2, <1>3, <1>4, <1>5, <1>6, <1>7 DEF Serves

LEMMA CleanStep == IInv /\ [Next]_vars => CleanIsKept'
<1> SUFFICES ASSUME IInv, [Next]_vars, clean' PROVE CleanIsKept'
  BY DEF CleanIsKept
<1>1. clean
  BY CleanBefore
<1>2. /\ \A r \in Resources : /\ made[r] \subseteq accepted[r]
                              /\ \A s, u \in accepted[r] : s = u
      /\ \A r \in Resources : told[r] # None => stored[r] # None
      /\ \A t \in Threads : pc[t] = "bound" /\ hand[t] # None =>
             stored[req[t].res] # None
  BY <1>1 DEF IInv, CleanIsKept
<1>3. \A t \in Threads : req[t].res \in Resources
  BY RequestType DEF IInv, TypeOK
<1>4. ASSUME NEW t \in Threads, Serves(t) \/ \E q \in Requests : Asks(t, q)
      PROVE  CleanIsKept'
  <2>1. ASSUME NEW r \in Resources
        PROVE  made'[r] \subseteq accepted'[r] /\ \A s, u \in accepted'[r] : s = u
    <3>1. CASE CreatesUser(t) \/ SetsUser(t)
      <4>1. Making(t)
        BY <3>1, MakingStep DEF IInv
      <4>2. accepted[req[t].res] = {}
        BY <3>1 DEF CreatesUser, SetsUser, Makes
      <4>3. r = req[t].res => made'[r] = {hand[t]} /\ accepted'[r] = {hand[t]}
        BY <1>2, <1>3, <4>1, <4>2 DEF Making, IInv, TypeOK
      <4>4. r # req[t].res => made'[r] = made[r] /\ accepted'[r] = accepted[r]
        BY <4>1 DEF Making, IInv, TypeOK
      <4> QED BY <1>2, <4>3, <4>4
    <3>2. CASE Quiet(t) \/ FindsNone(t) \/ CreatesDatabase(t)
      BY <1>2, <3>2 DEF Quiet, FindsNone, CreatesDatabase, serverVars, history
    <3> QED BY <1>4, <3>1, <3>2, QuietSteps DEF IInv
  <2>2. ASSUME NEW r \in Resources, told'[r] # None PROVE stored'[r] # None
    <3>1. \/ told'[r] = told[r]
          \/ pc[t] = "bound" /\ r = req[t].res /\ hand[t] = told'[r]
      BY <1>4, ToldEffect DEF IInv
    <3>2. stored[r] # None
      BY <1>2, <2>2, <3>1
    <3> QED BY <3>2, StoredKept
  <2>3. ASSUME NEW u \in Threads, pc'[u] = "bound", hand'[u] # None
        PROVE  stored'[req'[u].res] # None
    <3>1. CASE u = t
      BY <1>4, <2>3, <3>1, BoundIsStored
    <3>2. CASE u # t
      <4>1. pc[u] = "bound" /\ req'[u] = req[u] /\ hand[u] # None
        BY <1>4, <2>3, <3>2, OtherThreads DEF Others, IInv
      <4> QED BY <1>2, <1>3, <4>1, StoredKept
    <3> QED BY <3>1, <3>2
  <2> QED BY <2>1, <2>2, <2>3 DEF CleanIsKept
<1>5. CASE Restart
  BY <1>2, <1>5 DEF Restart, CleanIsKept, serverVars
<1>6. CASE UNCHANGED vars
  BY <1>2, <1>6 DEF vars, threadVars, serverVars, history, CleanIsKept
<1> QED BY <1>4, <1>5, <1>6, Steps
-----------------------------------------------------------------------------
(* A request that creates goes on to the end, or leaves an orphan. *)
LEMMA CreatesOn ==
    ASSUME IInv, NEW t \in Threads, Creates(t), clean',
           Serves(t) \/ \E q \in Requests : Asks(t, q)
    PROVE  \/ req[t].res \in orphans'
           \/ req'[t] = req[t] /\ Creates(t)'
           \/ stored'[req[t].res] # None
<1> USE DEF IInv, TypeOK, Goes, Answers
<1>1. pc[t] \in {"schema", "created", "saving"}
  BY DEF Creates
<1>2. CASE Fails(t)
  BY <1>1, <1>2 DEF Fails
<1>3. CASE CreatesUser(t)
  BY <1>3 DEF CreatesUser, Makes, Creates
<1>4. CASE RereadsUsers(t)
  <2>1. pc[t] = "created" /\ hand[t] \in made[req[t].res]
    BY <1>4 DEF RereadsUsers, HandFits
  <2>2. made' = made
    BY <1>4 DEF RereadsUsers, Reads
  <2>3. pc'[t] = "saving" /\ hand'[t] = hand[t] /\ req' = req
    BY <1>4 DEF RereadsUsers
  <2> QED BY <2>1, <2>2, <2>3 DEF Creates
<1>5. CASE SavesUsers(t)
  <2>1. hand[t] # None
    BY <1>5 DEF SavesUsers, Saves, AllWork, InHand
  <2>2. req[t].res \in Resources
    BY RequestType
  <2> QED BY <1>5, <2>1, <2>2, SavedClean
<1>6. CASE Finds(t) \/ FindsNone(t) \/ Reuses(t) \/ NeedsCredentials(t)
  BY <1>1, <1>6 DEF Finds, FindsNone, Reuses, NeedsCredentials
<1>7. CASE \/ TakesGiven(t) \/ IsTyped(t) \/ Verifies(t) \/ TakesUntried(t)
         \/ CreatesDatabase(t)
  BY <1>1, <1>7 DEF TakesGiven, IsTyped, Verifies, TakesUntried, CreatesDatabase
<1>8. CASE SetsUser(t) \/ Binds(t) \/ \E q \in Requests : Asks(t, q)
  BY <1>1, <1>8 DEF SetsUser, Binds, Asks
<1> QED BY <1>2, <1>3, <1>4, <1>5, <1>6, <1>7, <1>8 DEF Serves

LEMMA OrphansStay ==
    ASSUME [Next]_vars
    PROVE  orphans \subseteq orphans'
<1>1. ASSUME NEW t \in Threads, Serves(t) \/ \E q \in Requests : Asks(t, q)
      PROVE  orphans \subseteq orphans'
  BY <1>1 DEF Serves, Asks, Finds, FindsNone, Fails, Reuses, NeedsCredentials,
              TakesGiven, Reads, IsTyped, Verifies, TakesUntried,
              CreatesDatabase,
              CreatesUser, SetsUser, Makes, RereadsUsers, SavesUsers, Saves,
              Binds, history
<1>2. CASE Restart \/ UNCHANGED vars
  BY <1>2 DEF Restart, vars, history
<1> QED BY <1>1, <1>2, Steps

(* A resource comes into being by a request that knows of it. *)
LEMMA FoundByCreation ==
    ASSUME IInv, NEW t \in Threads, NEW r \in Resources, ~Found(r), Found(r)',
           Serves(t) \/ \E q \in Requests : Asks(t, q)
    PROVE  \/ r \in orphans'
           \/ req'[t].res = r /\ Creates(t)'
<1> USE DEF IInv, TypeOK
<1>1. CASE CreatesDatabase(t)
  BY <1>1 DEF CreatesDatabase, Goes, Found, Creates
<1>2. CASE CreatesUser(t) \/ SetsUser(t)
  <2>1. Making(t)
    BY <1>2, MakingStep
  <2>2. r = req[t].res
    BY <2>1 DEF Making, Found
  <2>3. (pc'[t] = "created" /\ req' = req) \/ req[t].res \in orphans'
    BY <1>2 DEF CreatesUser, SetsUser, Makes, Goes, Answers
  <2> QED BY <2>2, <2>3 DEF Creates
<1>3. CASE Quiet(t) \/ FindsNone(t)
  BY <1>3 DEF Quiet, FindsNone, serverVars, Found
<1> QED BY <1>1, <1>2, <1>3, QuietSteps

LEMMA CreatedStep == IInv /\ [Next]_vars => CreatedIsStored'
<1> SUFFICES ASSUME IInv, [Next]_vars, clean',
                    NEW r \in Resources, r \notin Existing, r \notin orphans',
                    Found(r)'
             PROVE  \/ stored'[r] # None
                    \/ \E u \in Threads : req'[u].res = r /\ Creates(u)'
  BY DEF CreatedIsStored
<1>1. clean /\ r \notin orphans
  BY CleanBefore, OrphansStay
<1>2. Found(r) => \/ stored[r] # None
                  \/ \E u \in Threads : req[u].res = r /\ Creates(u)
  BY <1>1 DEF IInv, CreatedIsStored
<1>3. CASE stored[r] # None
  BY <1>3, StoredKept
<1>4. ASSUME NEW t \in Threads, Serves(t) \/ \E q \in Requests : Asks(t, q)
      PROVE  \/ stored'[r] # None
             \/ \E u \in Threads : req'[u].res = r /\ Creates(u)'
  <2>1. CASE ~Found(r)
    BY <1>4, <2>1, FoundByCreation
  <2>2. CASE Found(r) /\ stored[r] = None
    <3>1. PICK u \in Threads : req[u].res = r /\ Creates(u)
      BY <1>2, <2>2
    <3>2. CASE u = t
      BY <1>4, <3>1, <3>2, CreatesOn
    <3>3. CASE u # t
      <4>1. pc'[u] = pc[u] /\ req'[u] = req[u] /\ hand'[u] = hand[u]
        BY <1>4, <3>3, OtherThreads DEF Others, IInv
      <4>2. made[r] \subseteq made'[r]
        BY Monotone DEF IInv
      <4> QED BY <3>1, <4>1, <4>2 DEF Creates
    <3> QED BY <3>2, <3>3
  <2> QED BY <1>3, <2>1, <2>2
<1>5. CASE Restart
  BY <1>2, <1>3, <1>5 DEF Restart, Found, serverVars
<1>6. CASE UNCHANGED vars
  BY <1>2, <1>6 DEF vars, threadVars, serverVars, history, Found, Creates
<1> QED BY <1>4, <1>5, <1>6, Steps
-----------------------------------------------------------------------------
LEMMA InvStep == IInv /\ [Next]_vars => IInv'
  BY TypeStep, HandStep, WorkStep, CleanStep, CreatedStep DEF IInv

THEOREM Invariant == Spec => []IInv
  BY InitInv, InvStep, PTL DEF Spec

(* Every password that is stored, that an app's config holds or that is    *)
(* answered works, whatever fails (mysql.go, redis.go, provision.go).      *)
THEOREM CredentialsWorkHolds == Spec => []CredentialsWork
<1>1. IInv => CredentialsWork
  BY DEF IInv, AllWork, InHand, CredentialsWork
<1> QED BY <1>1, Invariant, PTL

(* What was created is stored, or its creation was cut off.                *)
THEOREM CreatedIsStoredHolds == Spec => []CreatedIsStored
<1>1. IInv => CreatedIsStored
  BY DEF IInv
<1> QED BY <1>1, Invariant, PTL

(* While the maps are clean there is one password per resource: what has   *)
(* been told is what is answered again, and no password is asked for.      *)
THEOREM BindIsRepeatableHolds == Spec => BindIsRepeatable
<1> DEFINE Repeats == clean' => \A t \in Threads :
                         LET r == req[t].res IN
                         told[r] # None =>
                           /\ pc[t] = "bound" /\ hand[t] # None /\ ~Untried(r) =>
                                  hand[t] = told[r]
                           /\ ~NeedsCredentials(t) /\ ~TakesGiven(t)
<1>1. IInv /\ [Next]_vars => Repeats
  <2> SUFFICES ASSUME IInv, [Next]_vars, clean', NEW t \in Threads,
                      told[req[t].res] # None
               PROVE  /\ pc[t] = "bound" /\ hand[t] # None
                             /\ ~Untried(req[t].res) =>
                             hand[t] = told[req[t].res]
                      /\ ~NeedsCredentials(t) /\ ~TakesGiven(t)
    OBVIOUS
  <2> DEFINE r == req[t].res
  <2>1. clean /\ r \in Resources
    BY CleanBefore, RequestType DEF IInv, TypeOK
  <2>2. /\ made[r] \subseteq accepted[r]
        /\ \A s, u \in accepted[r] : s = u
        /\ stored[r] # None
    BY <2>1 DEF IInv, CleanIsKept
  <2>4. ASSUME pc[t] = "bound", hand[t] # None, ~Untried(r)
        PROVE  hand[t] = told[r]
    <3>1. Works(r, hand[t]) /\ Works(r, told[r])
      BY <2>1, <2>4 DEF IInv, AllWork, InHand
    <3>2. \A x : [res |-> r, pw |-> x] \notin unproven
      BY <2>4 DEF Untried
    <3> QED BY <2>2, <3>1, <3>2 DEF Works
  <2>5. ASSUME NeedsCredentials(t) \/ TakesGiven(t) PROVE FALSE
    <3>1. PICK m \in Maps(r) : Reads(t, m) /\ m[r] = None
      BY <2>5 DEF NeedsCredentials, TakesGiven
    <3>2. m[r] = stored[r]
      BY <2>1, <3>1 DEF Reads, MapOf
    <3> QED BY <2>2, <3>1, <3>2
  <2> QED BY <2>4, <2>5
<1>2. []IInv /\ [][Next]_vars => BindIsRepeatable
  BY <1>1, PTL DEF BindIsRepeatable
<1> QED BY <1>2, Invariant, PTL DEF Spec
=============================================================================
