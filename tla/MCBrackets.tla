------------------------------ MODULE MCBrackets ------------------------------
(* Brackets for TLC: Hyperband and BOHB over two levels (two and three        *)
(* configurations at first) and three levels, in which a round promotes two.  *)
EXTENDS Brackets

(* The logarithms of these are exact in doubles too: 1, 1 and 2.              *)
MCTopologies == {<<2, 2, 1>>, <<3, 3, 1>>, <<4, 2, 2>>}
===============================================================================
