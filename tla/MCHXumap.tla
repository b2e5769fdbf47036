------------------------------ MODULE MCHXumap ------------------------------
(* Small instances of HXumap for TLC: tables of 2, 5 and 11 buckets, so    *)
(* that four keys are enough to grow twice and shrink again, with hashes   *)
(* that collide differently at each size.                                  *)
EXTENDS HXumap, TLC

CONSTANTS k1, k2, k3, k4

MCHash == [k \in Keys |-> CASE k = k1 -> 0 [] k = k2 -> 2
                             [] k = k3 -> 5 [] k = k4 -> 10]

MCPrimes == (0 :> 2) @@ (1 :> 5) @@ (2 :> 11)

NodeSymmetry == Permutations(Nodes)

(* The table of map.c as far as TLC's integers reach (the last size of the *)
(* code, 3221225473, does not fit) satisfies LoadAssumption.               *)
CodePrimes == <<23, 53, 97, 193, 389, 769, 1543, 3079, 6151, 12289, 24593,
    49157, 98317, 196613, 393241, 786433, 1572869, 3145739, 6291469, 12582917,
    25165843, 50331653, 100663319, 201326611, 402653189, 805306457, 1610612741>>

ASSUME CodePrimesAssumption ==
    \A i \in 2 .. Len(CodePrimes) :
        /\ CodePrimes[i] \div 4 <= x_frac(7, 10, CodePrimes[i - 1])
        /\ x_frac(7, 10, CodePrimes[i - 1]) < x_frac(7, 10, CodePrimes[i])
=============================================================================
