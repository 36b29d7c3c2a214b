----------------------------- MODULE MCScalars -----------------------------
(* Small instances of Scalars for TLC. *)
EXTENDS Scalars, TLC

Symmetry == Permutations(Threads) \cup Permutations(Connections)

(* Both ends of i64 at the width of the instance, and both signs. *)
SignedDeltas == {-(Modulus \div 2), -1, 3}

============================================================================
