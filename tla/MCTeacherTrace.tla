----------------------------- MODULE MCTeacherTrace ----------------------------
(* TeacherTrace for TLC: three examples, two at a time, two rounds each, so   *)
(* that rounds and examples overlap and the third example starts late.       *)
EXTENDS TeacherTrace
===============================================================================
