----------------------------- MODULE MCLauncher -----------------------------
(***************************************************************************)
(* Launcher for TLC.  Booster types are told apart by nothing but their    *)
(* letter, and invokers by nothing but their pid, so the states that differ*)
(* in a permutation of either need to be checked only once.                *)
(***************************************************************************)
EXTENDS Launcher, TLC

\* For invariants.
Symmetry == Permutations(Types) \cup Permutations(Invokers)

(* For liveness, in Launcher_live.cfg, three state constraints.            *)

\* Of the behaviours that differ in such a permutation, the one in which i1 is
\* accepted before i2, and by a booster of type m.
Representative ==
    /\ \A p \in Pids : pinv[p] = "i1" => ptype[p] = "m"
    /\ (\E p \in Pids : pinv[p] = "i2") => \E p \in Pids : pinv[p] = "i1"

\* The hypothesis of both liveness properties: nothing else needs exploring.
InStep == ~Interleaved

\* Bound: two processes end, in whatever way.
FewEnd == Cardinality({p \in Pids : how[p] # "none"}) <= 2
=============================================================================
