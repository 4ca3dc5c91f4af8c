---------------------------- MODULE MCProvisioner ---------------------------
(* Provisioner on small instances. *)
EXTENDS Provisioner, Naturals, FiniteSets, TLC

Symmetry == Permutations(Threads) \cup Permutations(Secrets)

(* One request of each kind: the password is given for what exists, and    *)
(* it or a wrong one typed; a dry run without one is tried on a database   *)
(* that does not.                                                          *)
Plain(a, r) == [app |-> a, res |-> r, given |-> None, dry |-> FALSE,
                via |-> "http"]
PlainRequests == {Plain(a, r) : a \in Apps, r \in Resources}
MixedRequests ==
    PlainRequests
    \cup {q \in Request : q.res \in Existing /\ q.given # Wrong
                              /\ (q.dry => q.given = Known)}
    \cup {q \in Request : q.res \in Databases \ Existing
                              /\ q.dry /\ q.given = None}
    \cup {q \in Request : q.res \in Users /\ q.via = "tcp"}

(* Bounds: a password is generated once, and either one creation is cut    *)
(* off or one password is taken untried.                                   *)
FewSecrets ==
    /\ Cardinality(unproven) + Cardinality(orphans) <= 1
    /\ \A t \in Threads : pc[t] = "new" =>
          /\ \A r \in Resources : hand[t] \notin made[r]
          /\ \A u \in Threads \ {t} : hand[u] # hand[t]
=============================================================================
