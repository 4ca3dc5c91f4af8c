---------------------------- MODULE ConfigStore -----------------------------
(***************************************************************************)
(* What the configuration store promises: one config per app, and calls    *)
(* that take effect at once, at some moment between call and return.  A    *)
(* call that reports success has taken effect exactly once, one that       *)
(* reports an error has had none; a server that dies forgets the open      *)
(* calls, whether they have taken effect or not.                           *)
(***************************************************************************)
CONSTANTS Apps, Threads, Config, Request,
          Absent                 \* no config

VARIABLES
    store,    \* app -> config or Absent
    phase,    \* thread -> idle, open, done (effect taken), ok, failed
    ask,      \* thread -> the request it serves
    answer    \* thread -> the config a get has read, or Absent

vars == <<store, phase, ask, answer>>

Domain(c) == IF c = Absent THEN {} ELSE DOMAIN c

(* The old config with the new one's keys on top. *)
Overlay(old, new) ==
    [k \in Domain(old) \cup Domain(new) |->
        IF k \in Domain(new) THEN new[k] ELSE old[k]]

Effect(r, old) ==
    CASE r.op = "get"     -> old
      [] r.op = "replace" -> r.config
      [] r.op = "merge"   -> Overlay(old, r.config)

Init ==
    /\ store \in [Apps -> Config \cup {Absent}]
    /\ ask \in [Threads -> Request]
    /\ phase = [t \in Threads |-> "idle"]
    /\ answer = [t \in Threads |-> Absent]

Ask(t, r) ==
    /\ phase[t] \in {"idle", "ok", "failed"}
    /\ phase' = [phase EXCEPT ![t] = "open"]
    /\ ask' = [ask EXCEPT ![t] = r]
    /\ answer' = [answer EXCEPT ![t] = Absent]
    /\ UNCHANGED store

Take(t) ==
    LET a == ask[t].app IN
    /\ phase[t] = "open"
    /\ ask[t].op = "get" => store[a] # Absent
    /\ store' = [store EXCEPT ![a] = Effect(ask[t], @)]
    /\ answer' = [answer EXCEPT ![t] = IF ask[t].op = "get" THEN store[a]
                                                            ELSE @]
    /\ phase' \in {[phase EXCEPT ![t] = p] : p \in {"done", "ok"}}
    /\ UNCHANGED ask

Succeed(t) ==
    /\ phase[t] = "done"
    /\ phase' = [phase EXCEPT ![t] = "ok"]
    /\ UNCHANGED <<store, ask, answer>>

Fail(t) ==
    /\ phase[t] = "open"
    /\ phase' = [phase EXCEPT ![t] = "failed"]
    /\ UNCHANGED <<store, ask, answer>>

Restart ==
    /\ phase' = [t \in Threads |-> "idle"]
    /\ answer' = [t \in Threads |-> Absent]
    /\ UNCHANGED <<store, ask>>

Next ==
    \/ \E t \in Threads : \/ \E r \in Request : Ask(t, r)
                          \/ Take(t) \/ Succeed(t) \/ Fail(t)
    \/ Restart

Spec == Init /\ [][Next]_vars
=============================================================================
