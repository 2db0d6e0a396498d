----------------------------- MODULE MCKeyedCache ------------------------------
(* KeyedCache for TLC: three fibers, so that one may hold a key's permit,    *)
(* one wait for it and one come when the first has left.                     *)
EXTENDS KeyedCache, TLC

Symmetry == Permutations(Fibers) \cup Permutations(Keys) \cup Permutations(Values)
===============================================================================
