----------------------- MODULE MCAppManagerRefinement -----------------------
(* AppManagerRefinement on a small instance, with one way to make each call. *)
EXTENDS AppManagerRefinement

PlainCalls == {c \in Call : ~c.flag /\ (c.op = "start" => c.cmd = "file")}

(* The apps have no port and domain, which the life cycle does not know;   *)
(* no step gives them any.                                                 *)
NotExposed == \A a \in Apps : ~Exposed(db[a])
=============================================================================
