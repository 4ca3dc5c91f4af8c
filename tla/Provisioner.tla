----------------------------- MODULE Provisioner ----------------------------
(***************************************************************************)
(* internal/provisioner and the provision action of internal/appcenter:    *)
(* binding an app to a MySQL database or a Redis user.  A resource that    *)
(* does not exist is created with a random password; of one that exists    *)
(* the password must be known.  The passwords are kept in two rows of      *)
(* system_config, mysql_users and redis_users, each a map that is read,    *)
(* changed and written back as a whole, by any number of requests at once. *)
(*                                                                         *)
(* The servers of MySQL and Redis are external: a database or user with    *)
(* the set of passwords it can be used with.                               *)
(***************************************************************************)
CONSTANTS
    Apps,
    Databases, Users,    \* MySQL databases and Redis users
    Existing,            \* those that someone else has made
    Threads,             \* goroutines that serve requests
    Secrets,             \* what generateRandomPassword may return
    Known, Wrong,        \* the password of what exists; one of nothing
    Inputs,              \* passwords that clients and operators give
    Requests,            \* the requests that are sent
    Faults,              \* do system_config and ACL GETUSER fail at times?
    None

Resources == Databases \cup Users
Password  == Secrets \cup {Known, Wrong}
Request   == [app : Apps, res : Resources, given : Inputs \cup {None},
              dry : BOOLEAN, via : {"http"}]
        \cup [app : Apps, res : Resources, given : {None},
              dry : {FALSE}, via : {"tcp"}]

ASSUME ProvisionAssumption ==
    /\ Databases \cap Users = {}
    /\ Existing \subseteq Resources
    /\ Known \notin Secrets
    /\ Inputs \subseteq Password
    /\ Requests \subseteq Request /\ Requests # {}
    /\ Faults \in BOOLEAN
    /\ None \notin Password

VARIABLES
    schemas,     \* the databases that exist
    accepted,    \* resource -> the passwords its user can log in with
    stored,      \* resource -> its entry in mysql_users or redis_users
    config,      \* app -> kind -> what configmanager has for it
    pc,          \* thread -> where its request is
    req,         \* thread -> the request it serves
    view,        \* thread -> the map it has read
    hand,        \* thread -> the password it works with
    made,        \* history: resource -> passwords it was created with
    told,        \* history: resource -> the password first answered
    orphans,     \* history: resources whose creation was cut off
    unproven,    \* history: passwords that were neither tried nor set
    clean        \* history: has nothing gone wrong with the two maps?

serverVars == <<schemas, accepted>>
threadVars == <<pc, req, view, hand>>
history == <<made, told, orphans, unproven, clean>>
vars == <<serverVars, stored, config, threadVars, history>>

Kinds == {"mysql", "redis"}
Kind(r) == IF r \in Databases THEN "mysql" ELSE "redis"
Credential == [res : Resources, pw : Password]

(* idle: none, or answered; existing: found, its password is to be looked  *)
(* up; prompt: waits for the terminal; given: a password to be verified;   *)
(* new: to be created; schema: the database is made, its user is not;      *)
(* created: the map is to be read; saving: the map is to be written;       *)
(* bound: the app's config is.                                             *)
PC == {"idle", "asked", "existing", "prompt", "given", "new", "schema",
       "created", "saving", "bound"}

TypeOK ==
    /\ schemas \in SUBSET Databases
    /\ accepted \in [Resources -> SUBSET Password]
    /\ stored \in [Resources -> Password \cup {None}]
    /\ config \in [Apps -> [Kinds -> Credential \cup {None}]]
    /\ pc \in [Threads -> PC]
    /\ req \in [Threads -> Request]
    /\ view \in [Threads -> [Resources -> Password \cup {None}]]
    /\ hand \in [Threads -> Password \cup {None}]
    /\ made \in [Resources -> SUBSET Secrets]
    /\ told \in [Resources -> Password \cup {None}]
    /\ orphans \in SUBSET Resources
    /\ unproven \in SUBSET Credential
    /\ clean \in BOOLEAN

Nothing == [r \in Resources |-> None]
NoRequest == CHOOSE q \in Requests : TRUE

(* A database may be gone, or never have been made, and its user be there. *)
Init ==
    /\ schemas = Existing \cap Databases
    /\ \E left \in SUBSET (Databases \ Existing) :
           accepted = [r \in Resources |->
                           IF r \in Existing \cup left THEN {Known} ELSE {}]
    /\ stored = Nothing
    /\ config = [a \in Apps |-> [k \in Kinds |-> None]]
    /\ pc = [t \in Threads |-> "idle"]
    /\ req = [t \in Threads |-> NoRequest]
    /\ view = [t \in Threads |-> Nothing]
    /\ hand = [t \in Threads |-> None]
    /\ made = [r \in Resources |-> {}]
    /\ told = Nothing
    /\ orphans = {}
    /\ unproven = {}
    /\ clean = TRUE
-----------------------------------------------------------------------------
Asks(t, q) ==
    /\ pc[t] = "idle"
    /\ pc' = [pc EXCEPT ![t] = "asked"]
    /\ req' = [req EXCEPT ![t] = q]
    /\ UNCHANGED <<serverVars, stored, config, view, hand, history>>

Goes(t, p, s) ==
    /\ pc' = [pc EXCEPT ![t] = p]
    /\ hand' = [hand EXCEPT ![t] = s]
    /\ UNCHANGED req

Answers(t) ==
    /\ pc' = [pc EXCEPT ![t] = "idle"]
    /\ req' = [req EXCEPT ![t] = NoRequest]
    /\ hand' = [hand EXCEPT ![t] = None]

Forgets(t) == view' = [view EXCEPT ![t] = Nothing]

(* Whether the resource exists.  That ACL GETUSER fails is taken for no.   *)
Found(r) == IF r \in Databases THEN r \in schemas ELSE accepted[r] # {}

Finds(t) ==
    /\ pc[t] = "asked" /\ Found(req[t].res)
    /\ Goes(t, "existing", None)
    /\ UNCHANGED <<serverVars, stored, config, view, history>>

FindsNone(t) ==
    LET r == req[t].res IN
    /\ pc[t] = "asked"
    /\ ~Found(r) \/ (Faults /\ r \in Users)
    /\ IF req[t].dry THEN Answers(t)
                     ELSE \E s \in Secrets : Goes(t, "new", s)
    /\ UNCHANGED <<serverVars, stored, config, view, history>>

(* Any statement but those on system_config that fails ends the request:   *)
(* no connection, no check, a password that is not accepted, no database.  *)
Fails(t) ==
    /\ pc[t] \in {"asked", "given", "new", "schema"}
    /\ Answers(t)
    /\ Forgets(t)
    /\ orphans' = IF pc[t] = "schema" THEN orphans \cup {req[t].res}
                                      ELSE orphans
    /\ UNCHANGED <<serverVars, stored, config, made, told, unproven, clean>>
-----------------------------------------------------------------------------
(* The maps of passwords.  An error of GetSystemConfigJSON is not looked   *)
(* at: the map is then empty.                                              *)

MapOf(r) == [x \in Resources |-> IF Kind(x) = Kind(r) THEN stored[x] ELSE None]

Reads(t, m) ==
    LET r == req[t].res IN
    /\ m = MapOf(r) \/ (Faults /\ m = Nothing)
    /\ clean' = (clean /\ m = MapOf(r))
    /\ UNCHANGED <<serverVars, stored, config, made, told, orphans, unproven>>

Maps(r) == {MapOf(r), Nothing}

(* The resource exists: its stored password is used; if there is none, one *)
(* must come with the request, or be typed at the server's terminal.       *)
Reuses(t) ==
    LET r == req[t].res IN
    /\ pc[t] = "existing"
    /\ \E m \in Maps(r) : /\ Reads(t, m)
                          /\ m[r] # None
                          /\ Goes(t, "bound", m[r])
    /\ UNCHANGED view

NeedsCredentials(t) ==
    LET r == req[t].res IN
    /\ pc[t] = "existing" /\ req[t].given = None
    /\ \E m \in Maps(r) :
        /\ Reads(t, m)
        /\ m[r] = None
        /\ IF req[t].via = "tcp"
           THEN Goes(t, "prompt", None) /\ view' = [view EXCEPT ![t] = m]
           ELSE Answers(t) /\ UNCHANGED view

(* A dry run does not look at the password that was given, and goes on to  *)
(* answer success, with a DSN without user and password.                   *)
TakesGiven(t) ==
    LET r == req[t].res IN
    /\ pc[t] = "existing" /\ req[t].given # None
    /\ \E m \in Maps(r) :
        /\ Reads(t, m)
        /\ m[r] = None
        /\ IF req[t].dry
           THEN Goes(t, "bound", None) /\ UNCHANGED view
           ELSE Goes(t, "given", req[t].given) /\ view' = [view EXCEPT ![t] = m]

(* The terminal, on which there may be nobody. *)
IsTyped(t) ==
    /\ pc[t] = "prompt"
    /\ \/ Answers(t) /\ Forgets(t)
       \/ \E s \in Inputs : Goes(t, "given", s) /\ UNCHANGED view
    /\ UNCHANGED <<serverVars, stored, config, history>>

(* Mutant: the login is not tried. *)
VerifiesNothing(t) ==
    /\ pc[t] = "given"
    /\ Goes(t, "saving", hand[t])
    /\ UNCHANGED <<serverVars, stored, config, view, history>>

(* A login with it shows that the password is good. *)
Verifies(t) ==
    /\ pc[t] = "given"
    /\ hand[t] \in accepted[req[t].res]
    /\ Goes(t, "saving", hand[t])
    /\ UNCHANGED <<serverVars, stored, config, view, history>>

Held(t) == [res |-> req[t].res, pw |-> hand[t]]

(* sql.Open gives an error, so that there is no login: over TCP, the       *)
(* password is then taken as it is.                                        *)
TakesUntried(t) ==
    /\ pc[t] = "given"
    /\ unproven' = unproven \cup {Held(t)}
    /\ Goes(t, "saving", hand[t])
    /\ UNCHANGED <<serverVars, stored, config, view, made, told, orphans, clean>>
-----------------------------------------------------------------------------
(* Creation.  Whatever goes wrong after the first statement leaves a       *)
(* resource that exists, and a password that is nowhere.                   *)

CreatesDatabase(t) ==
    /\ pc[t] = "new" /\ req[t].res \in Databases
    /\ schemas' = schemas \cup {req[t].res}
    /\ Goes(t, "schema", hand[t])
    /\ UNCHANGED <<accepted, stored, config, view, history>>

Makes(t, passwords) ==
    LET r == req[t].res IN
    /\ accepted' = [accepted EXCEPT ![r] = passwords]
    /\ made' = [made EXCEPT ![r] = @ \cup {hand[t]}]
    /\ clean' = (clean /\ accepted[r] = {})
    /\ \/ Goes(t, "created", hand[t]) /\ UNCHANGED orphans
       \/ Answers(t) /\ orphans' = orphans \cup {r}
    /\ UNCHANGED <<schemas, stored, config, view, told>>

(* CREATE USER IF NOT EXISTS leaves a user that exists its password, and   *)
(* does not say so; GRANT may fail after it.                               *)
CreatesUser(t) ==
    LET r == req[t].res IN
    /\ pc[t] = "schema"
    /\ \/ accepted[r] = {} /\ Makes(t, {hand[t]}) /\ UNCHANGED unproven
       \/ /\ accepted[r] # {} /\ Makes(t, accepted[r])
          /\ unproven' = unproven \cup {Held(t)}

(* Mutant: the passwords the user has had are taken away. *)
ResetsUser(t) ==
    /\ pc[t] = "new" /\ req[t].res \in Users
    /\ Makes(t, {hand[t]})
    /\ UNCHANGED unproven

(* ACL SETUSER name on >password: one more password for the user. *)
SetsUser(t) ==
    LET r == req[t].res IN
    /\ pc[t] = "new" /\ r \in Users
    /\ Makes(t, accepted[r] \cup {hand[t]})
    /\ UNCHANGED unproven

(* Mutant: a created user is not saved. *)
RereadsAndForgets(t) ==
    /\ pc[t] = "created"
    /\ \E m \in Maps(req[t].res) : Reads(t, m)
    /\ Goes(t, "bound", hand[t])
    /\ UNCHANGED view

RereadsUsers(t) ==
    /\ pc[t] = "created"
    /\ \E m \in Maps(req[t].res) : Reads(t, m) /\ view' = [view EXCEPT ![t] = m]
    /\ Goes(t, "saving", hand[t])

(* The whole map is written, as it was read but for one entry.  That it    *)
(* cannot be written is ignored.                                           *)
Saves(t, map) ==
    LET r == req[t].res IN
    /\ pc[t] = "saving"
    /\ \/ /\ stored' = [x \in Resources |->
                            IF x = r THEN hand[t]
                            ELSE IF Kind(x) = Kind(r) THEN map[x] ELSE stored[x]]
          /\ clean' = (clean /\ view[t] = MapOf(r))
       \/ Faults /\ UNCHANGED stored /\ clean' = FALSE
    /\ Goes(t, "bound", hand[t])
    /\ Forgets(t)
    /\ UNCHANGED <<serverVars, config, made, told, orphans, unproven>>

(* Mutant: a map of one entry is written. *)
SavesOne(t) == Saves(t, Nothing)

SavesUsers(t) == Saves(t, view[t])

(* The connection data go to the app's config, which may fail unnoticed,   *)
(* and to the client; a dry run only tells them.                           *)
Binds(t) ==
    LET q == req[t] IN
    /\ pc[t] = "bound"
    /\ \/ /\ ~q.dry
          /\ config' = [config EXCEPT ![q.app][Kind(q.res)] = Held(t)]
       \/ UNCHANGED config
    /\ told' = IF ~q.dry /\ told[q.res] = None
               THEN [told EXCEPT ![q.res] = hand[t]] ELSE told
    /\ Answers(t)
    /\ UNCHANGED <<serverVars, stored, view, made, orphans, unproven, clean>>

(* The server dies and starts again.  A password in its hands is lost. *)
Creates(t) == pc[t] \in {"schema", "created"} \/
              (pc[t] = "saving" /\ hand[t] \in made[req[t].res])

Restart ==
    /\ pc' = [t \in Threads |-> "idle"]
    /\ req' = [t \in Threads |-> NoRequest]
    /\ view' = [t \in Threads |-> Nothing]
    /\ hand' = [t \in Threads |-> None]
    /\ orphans' = orphans \cup {req[t].res : t \in {u \in Threads : Creates(u)}}
    /\ UNCHANGED <<serverVars, stored, config, made, told, unproven, clean>>
-----------------------------------------------------------------------------
(* The four handlers; a request for a resource of the other kind is none   *)
(* of theirs.                                                              *)
LooksUp(t) == Finds(t) \/ FindsNone(t)
Looks(t)   == Reuses(t) \/ NeedsCredentials(t) \/ TakesGiven(t) \/ Verifies(t)
Finishes(t) == RereadsUsers(t) \/ SavesUsers(t) \/ Binds(t)

ProvisionMySQL(t) ==
    /\ req[t].via = "http" /\ req[t].res \in Databases
    /\ \/ LooksUp(t) \/ Looks(t)
       \/ CreatesDatabase(t) \/ CreatesUser(t) \/ Finishes(t) \/ Fails(t)

ProvisionRedis(t) ==
    /\ req[t].via = "http" /\ req[t].res \in Users
    /\ LooksUp(t) \/ Looks(t) \/ SetsUser(t) \/ Finishes(t) \/ Fails(t)

provisionMySQL(t) ==
    /\ req[t].via = "tcp" /\ req[t].res \in Databases
    /\ \/ LooksUp(t) \/ Looks(t) \/ IsTyped(t) \/ TakesUntried(t)
       \/ CreatesDatabase(t) \/ CreatesUser(t) \/ Finishes(t) \/ Fails(t)

provisionRedis(t) ==
    /\ req[t].via = "tcp" /\ req[t].res \in Users
    /\ \/ LooksUp(t) \/ Looks(t) \/ IsTyped(t)
       \/ SetsUser(t) \/ Finishes(t) \/ Fails(t)

Next ==
    \/ \E t \in Threads :
        \/ \E q \in Requests : Asks(t, q)
        \/ ProvisionMySQL(t) \/ ProvisionRedis(t)
        \/ provisionMySQL(t) \/ provisionRedis(t)
    \/ Restart

Spec == Init /\ [][Next]_vars
-----------------------------------------------------------------------------
(* Properties *)

Works(r, s) == s \in accepted[r] \/ [res |-> r, pw |-> s] \in unproven

(* Every password that is stored, that an app's config holds or that a     *)
(* request goes on to answer opens its resource: what clients give is      *)
(* verified, what is generated is set before it is stored, and no entry of *)
(* a map gets to another resource, in any interleaving of requests, with   *)
(* statements that fail and a server that dies (mysql.go, redis.go).       *)
(* There are two ways in for a password that may not: CREATE USER IF NOT   *)
(* EXISTS, for a user that is there already and keeps its own; and the     *)
(* TCP bind to a database with a typed password that sql.Open stumbles     *)
(* over.  And a dry run that is given a password answers none.             *)
CredentialsWork ==
    /\ \A r \in Resources : stored[r] # None => Works(r, stored[r])
    /\ \A a \in Apps, k \in Kinds : config[a][k] # None =>
           Works(config[a][k].res, config[a][k].pw)
    /\ \A t \in Threads : pc[t] = "bound" =>
           \/ Works(req[t].res, hand[t])
           \/ req[t].dry /\ req[t].given # None /\ hand[t] = None

Untried(r) == \E c \in unproven : c.res = r

(* openspec resource-provisioning: a bind that is repeated returns the     *)
(* same.  It does as long as no request wrote a map that another had       *)
(* written since it was read, no access to a map failed, no user that      *)
(* exists was created, and no password was taken untried: nothing else     *)
(* that can happen makes the answer to a later bind another one (but that  *)
(* to a dry run with a password, which answers none); and while the maps   *)
(* are clean nothing at all makes it a demand for the password.            *)
BindIsRepeatable ==
    [][clean' => \A t \in Threads :
          LET r == req[t].res IN
          told[r] # None =>
            /\ pc[t] = "bound" /\ hand[t] # None /\ ~Untried(r) =>
                   hand[t] = told[r]
            /\ ~NeedsCredentials(t) /\ ~TakesGiven(t)
      ]_vars

(* openspec resource-provisioning: generated credentials are kept by the   *)
(* server.  While the maps are clean, a resource the server created has    *)
(* its password stored, unless its creation was cut off by a statement     *)
(* that failed or the server's end.                                        *)
CreatedIsStored ==
    clean => \A r \in Resources \ (Existing \cup orphans) :
        Found(r) => \/ stored[r] # None
                    \/ \E t \in Threads : req[t].res = r /\ Creates(t)

(* openspec resource-provisioning: binding is idempotent, a resource that  *)
(* has been bound is reused.                                               *)
BoundIsReused ==
    [][\A t \in Threads :
          NeedsCredentials(t) => told[req[t].res] = None
      ]_vars
-----------------------------------------------------------------------------
(* The inductive invariant of the proofs. *)

(* Where the password in a request's hands comes from. *)
HandFits ==
    \A t \in Threads :
        /\ pc[t] \in {"new", "schema"} => hand[t] \in Secrets
        /\ pc[t] = "created" => hand[t] \in made[req[t].res]
        /\ pc[t] = "given" => hand[t] \in Inputs

(* Wherever a password goes once it has been verified or set, it works. *)
InHand == {"created", "saving", "bound"}
AllWork ==
    /\ \A r \in Resources : stored[r] # None => Works(r, stored[r])
    /\ \A r \in Resources : told[r] # None => Works(r, told[r])
    /\ \A a \in Apps, k \in Kinds : config[a][k] # None =>
           Works(config[a][k].res, config[a][k].pw)
    /\ \A t \in Threads, r \in Resources : view[t][r] # None =>
           Works(r, view[t][r])
    /\ \A t \in Threads : pc[t] \in InHand =>
           IF hand[t] = None
           THEN pc[t] = "bound" /\ req[t].dry /\ req[t].given # None
           ELSE Works(req[t].res, hand[t])

(* Clean maps: one password each, kept once it has been told. *)
CleanIsKept ==
    clean =>
        /\ \A r \in Resources : /\ made[r] \subseteq accepted[r]
                                /\ \A s, u \in accepted[r] : s = u
        /\ \A r \in Resources : told[r] # None => stored[r] # None
        /\ \A t \in Threads : pc[t] = "bound" /\ hand[t] # None =>
               stored[req[t].res] # None

IInv == /\ TypeOK
        /\ HandFits
        /\ AllWork
        /\ CleanIsKept
        /\ CreatedIsStored
=============================================================================
