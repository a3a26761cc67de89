------------------------------ MODULE MCSessions ------------------------------
(* Instances of Sessions. *)
EXTENDS Sessions, TLC

CONSTANTS a, b, p, q

Symmetric == Permutations({a, b}) \union Permutations({p, q})

=============================================================================
