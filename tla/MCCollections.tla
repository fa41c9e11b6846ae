--------------------------- MODULE MCCollections ---------------------------
(* Constants of the run of Collections. *)
EXTENDS Collections

CONSTANTS c1, c2, s1, s2, n1, n2, p1, p2

OneTail == {<<s2, s1>>}    \* the name of s2 ends with that of s1

Symmetry == Permutations({c1, c2}) \cup Permutations({s1, s2})
              \cup Permutations({n1, n2}) \cup Permutations({p1, p2})

=============================================================================
