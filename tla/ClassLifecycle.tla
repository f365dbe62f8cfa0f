--------------------------- MODULE ClassLifecycle ---------------------------
(***************************************************************************)
(* What becomes of a class over the run of the VM, as its users see it: it *)
(* is loaded once, its initialiser is started at most once, and once the   *)
(* class is ready it stays so.  ClassLoading shows that the interpreter    *)
(* implements this.                                                        *)
(***************************************************************************)
CONSTANT Classes

VARIABLE state

States == {"absent", "waiting", "initializing", "ready"}

TypeOK == state \in [Classes -> States]

\* The native classes are loaded before anything runs.
Init == /\ TypeOK
        /\ \A c \in Classes : state[c] \in {"absent", "waiting"}

Become(c, from, to) == /\ state[c] \in from
                       /\ state' = [state EXCEPT ![c] = to]

\* The initialiser of c is called; it returns; c needs none, or gets none.
Start(c)  == Become(c, {"absent", "waiting"}, "initializing")
Finish(c) == Become(c, {"initializing"}, "ready")
Skip(c)   == Become(c, {"absent", "waiting"}, "ready")

Next == \E c \in Classes : Start(c) \/ Finish(c) \/ Skip(c)

Spec == Init /\ [][Next]_state
=============================================================================
