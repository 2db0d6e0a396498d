------------------------------ MODULE KeyedStore -------------------------------
(***************************************************************************)
(* What Cache.ts promises of a cache: a store in which every operation on a  *)
(* key is one atomic step between its request and its answer.  A read        *)
(* answers what is stored at that moment.  A resolution answers what is      *)
(* stored or else stores and answers what it computed; nobody else's value   *)
(* is ever overwritten by one.  An operation that gives up answers nothing,  *)
(* and may have taken effect.  KeyedCache.tla is shown to implement this.    *)
(***************************************************************************)
CONSTANTS Fibers, Keys, Values, Garbled, None

VARIABLES
  contents,   \* what is stored under each key
  task,       \* the operation a fiber waits for, and whether it has taken effect
  answer      \* the answer the last step gave, and to whom

vars == <<contents, task, answer>>

Stored == Values \cup {Garbled, None}
Ops == {"get", "set", "remove", "resolve"}

Failed(f) == [to |-> f, tag |-> "failed", value |-> None]
Found(f, x) == [to |-> f, tag |-> "found", value |-> x]
Made(f, x) == [to |-> f, tag |-> "made", value |-> x]

Init ==
  /\ contents = [k \in Keys |-> None]
  /\ task = [f \in Fibers |-> None]
  /\ answer = None

(* Only a set brings its value along.                                       *)
Request(f, op, k, x) ==
  /\ task[f] = None
  /\ x \in (IF op = "set" THEN Values ELSE {None})
  /\ task' = [task EXCEPT ![f] = [op |-> op, key |-> k, value |-> x, done |-> FALSE]]
  /\ answer' = None
  /\ UNCHANGED contents

Answer(f, a) ==
  /\ task' = [task EXCEPT ![f] = None]
  /\ answer' = a

(* A read or a resolution finds what is stored now.                         *)
Read(f) ==
  /\ task[f] # None /\ ~task[f].done
  /\ task[f].op \in {"get", "resolve"}
  /\ LET x == contents[task[f].key] IN
       /\ x # Garbled
       /\ task[f].op = "resolve" => x # None
       /\ Answer(f, Found(f, x))
  /\ UNCHANGED contents

(* A mutation takes effect, once; a resolution's only where nothing is      *)
(* stored.                                                                  *)
Store(f, x) ==
  /\ task[f] # None /\ ~task[f].done
  /\ \/ task[f].op = "set" /\ x = task[f].value
     \/ task[f].op = "remove" /\ x = None
     \/ task[f].op = "resolve" /\ x \in Values /\ contents[task[f].key] = None
  /\ contents' = [contents EXCEPT ![task[f].key] = x]
  /\ task' = [task EXCEPT ![f] = [op |-> @.op, key |-> @.key, value |-> x, done |-> TRUE]]
  /\ answer' = None

Confirm(f) ==
  /\ task[f] # None /\ task[f].done
  /\ Answer(f, Made(f, task[f].value))
  /\ UNCHANGED contents

(* A write that is cut short may leave something that is no value.          *)
GiveUp(f) ==
  /\ task[f] # None
  /\ Answer(f, Failed(f))
  /\ \/ UNCHANGED contents
     \/ /\ ~task[f].done
        /\ \/ task[f].op = "set"
           \/ task[f].op = "resolve" /\ contents[task[f].key] = None
        /\ contents' = [contents EXCEPT ![task[f].key] = Garbled]

(* A step that concerns nobody outside.                                     *)
Pass ==
  /\ answer' = None
  /\ UNCHANGED <<contents, task>>

Next ==
  Pass \/ \E f \in Fibers :
    \/ \E op \in Ops, k \in Keys, x \in Stored : Request(f, op, k, x)
    \/ Read(f) \/ Confirm(f) \/ GiveUp(f)
    \/ \E x \in Stored : Store(f, x)

Spec == Init /\ [][Next]_vars
===============================================================================
