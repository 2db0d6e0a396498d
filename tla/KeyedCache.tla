------------------------------ MODULE KeyedCache -------------------------------
(***************************************************************************)
(* The cache of effect-search (internal/cache/cache.ts): a bounded lookup    *)
(* cache in front of a key-value store, and a semaphore per key, which       *)
(* exists as long as some operation refers to it.  An operation gets its     *)
(* key's semaphore from the registry, waits for its permit, reads through    *)
(* the lookup cache and, when it has something to store, writes to the store *)
(* and publishes the result locally.  Any operation may fail or be           *)
(* interrupted wherever it waits.                                            *)
(***************************************************************************)
CONSTANTS
  Fibers,   \* the callers
  Keys,     \* the fingerprints of keys, within their keyspaces
  Values,   \* the encoded values
  Garbled,  \* stored text that does not decode: what a torn write leaves
  Unknown,  \* no entry in the lookup cache
  None      \* nothing stored

VARIABLES
  store,     \* the key-value store
  lookup,    \* the lookup cache; absence is cached as None
  registry,  \* the semaphore of each key, named by the fiber it was made for
  pc,        \* where each fiber's operation is
  call,      \* that operation, with the value it has at hand
  sem,       \* the semaphore it refers to
  answer     \* how the operation ended that the last step ended

vars == <<store, lookup, registry, pc, call, sem, answer>>

Stored == Values \cup {Garbled, None}
Ops == {"get", "set", "remove", "resolve"}

ASSUME KeyedCacheAssumption ==
  /\ None \notin Values /\ Garbled \notin Values /\ Unknown \notin Values
  /\ None # Garbled /\ None # Unknown /\ Garbled # Unknown
  /\ None \notin Fibers
  /\ None \notin [op : Ops, key : Keys, value : Stored]
  /\ None \notin [op : Ops, key : Keys, value : Stored, done : BOOLEAN]

Failed(f) == [to |-> f, tag |-> "failed", value |-> None]
Found(f, x) == [to |-> f, tag |-> "found", value |-> x]
Made(f, x) == [to |-> f, tag |-> "made", value |-> x]

Init ==
  /\ store = [k \in Keys |-> None]
  /\ lookup = [k \in Keys |-> Unknown]
  /\ registry = [k \in Keys |-> None]
  /\ pc = [f \in Fibers |-> "idle"]
  /\ call = [f \in Fibers |-> None]
  /\ sem = [f \in Fibers |-> None]
  /\ answer = None

Go(f, there) == pc' = [pc EXCEPT ![f] = there]

-------------------------------------------------------------------------------
(* Locks                                                                    *)

Call(f, op, k, x) ==
  /\ pc[f] = "idle"
  /\ x \in (IF op = "set" THEN Values ELSE {None})
  /\ call' = [call EXCEPT ![f] = [op |-> op, key |-> k, value |-> x]]
  /\ Go(f, "entering")
  /\ answer' = None
  /\ UNCHANGED <<store, lookup, registry, sem>>

(* Variant: the semaphore made for a key is not kept in the registry.       *)
ReferUnregistered(f) ==
  LET k == call[f].key IN
  /\ pc[f] = "entering"
  /\ sem' = [sem EXCEPT ![f] = IF registry[k] = None THEN f ELSE registry[k]]
  /\ Go(f, "waiting")
  /\ answer' = None
  /\ UNCHANGED <<store, lookup, registry, call>>

(* RcMap.get: the key's semaphore, made now if there is none.  The          *)
(* reference is kept until the operation's scope closes.                    *)
Refer(f) ==
  LET k == call[f].key
      s == IF registry[k] = None THEN f ELSE registry[k] IN
  /\ pc[f] = "entering"
  /\ registry' = [registry EXCEPT ![k] = s]
  /\ sem' = [sem EXCEPT ![f] = s]
  /\ Go(f, "waiting")
  /\ answer' = None
  /\ UNCHANGED <<store, lookup, call>>

(* The operations that work under their key's permit.                       *)
Inside(f) == pc[f] \in {"reading", "fetched", "computing", "writing", "landed"}
Shares(f, g) == sem[f] # None /\ sem[f] = sem[g] /\ call[f].key = call[g].key

Acquire(f) ==
  /\ pc[f] = "waiting"
  /\ \A g \in Fibers : Inside(g) => ~Shares(f, g)
  /\ Go(f, IF call[f].op \in {"get", "resolve"} THEN "reading" ELSE "writing")
  /\ answer' = None
  /\ UNCHANGED <<store, lookup, registry, call, sem>>

(* Variant: the reference closes with the permit, whoever still refers.     *)
LeaveAlone(f, a) ==
  /\ answer' = a
  /\ registry' = [registry EXCEPT ![call[f].key] = None]
  /\ sem' = [sem EXCEPT ![f] = None]
  /\ call' = [call EXCEPT ![f] = None]
  /\ Go(f, "idle")

(* The permit is given back and the scope closes: the last operation that   *)
(* refers to a semaphore takes it out of the registry.                      *)
Leave(f, a) ==
  LET k == call[f].key IN
  /\ answer' = a
  /\ registry' = [registry EXCEPT ![k] =
       IF sem[f] = @ /\ ~\E g \in Fibers \ {f} : Shares(f, g) THEN None ELSE @]
  /\ sem' = [sem EXCEPT ![f] = None]
  /\ call' = [call EXCEPT ![f] = None]
  /\ Go(f, "idle")

(* An interruption may take the place of an answer that is on its way.      *)
Reply(f, a) == Leave(f, a) \/ Leave(f, Failed(f))

-------------------------------------------------------------------------------
(* Operations                                                               *)

(* Variant: a resolution does not ask what was found.                       *)
DecodeAnyway(f, x) ==
  IF call[f].op = "resolve"
  THEN /\ Go(f, "computing")
       /\ call' = [call EXCEPT ![f].value = None]
       /\ answer' = None
       /\ UNCHANGED <<registry, sem>>
  ELSE Reply(f, IF x = Garbled THEN Failed(f) ELSE Found(f, x))

(* What readResolved makes of an entry: text that does not decode is an     *)
(* error, and a resolution goes on to compute what is absent.               *)
Decode(f, x) ==
  IF x = None /\ call[f].op = "resolve"
  THEN /\ Go(f, "computing")
       /\ call' = [call EXCEPT ![f].value = None]
       /\ answer' = None
       /\ UNCHANGED <<registry, sem>>
  ELSE Reply(f, IF x = Garbled THEN Failed(f) ELSE Found(f, x))

ReadLocal(f) ==
  LET x == lookup[call[f].key] IN
  /\ pc[f] = "reading"
  /\ x # Unknown
  /\ Decode(f, x)
  /\ UNCHANGED <<store, lookup>>

(* The store answers a read with what it held at some moment of the read.   *)
Fetch(f) ==
  /\ pc[f] = "reading"
  /\ lookup[call[f].key] = Unknown
  /\ call' = [call EXCEPT ![f].value = store[call[f].key]]
  /\ Go(f, "fetched")
  /\ answer' = None
  /\ UNCHANGED <<store, lookup, registry, sem>>

Fill(f) ==
  /\ pc[f] = "fetched"
  /\ lookup' = [lookup EXCEPT ![call[f].key] = call[f].value]
  /\ Decode(f, call[f].value)
  /\ UNCHANGED store

Compute(f, x) ==
  /\ pc[f] = "computing"
  /\ call' = [call EXCEPT ![f].value = x]
  /\ Go(f, "writing")
  /\ answer' = None
  /\ UNCHANGED <<store, lookup, registry, sem>>

(* The store has taken a write or a removal, and its caller is yet to hear. *)
Land(f) ==
  /\ pc[f] = "writing"
  /\ store' = [store EXCEPT ![call[f].key] = call[f].value]
  /\ Go(f, "landed")
  /\ answer' = None
  /\ UNCHANGED <<lookup, registry, call, sem>>

(* A write's success is published locally; a removal only forgets.          *)
Publish(f) ==
  /\ pc[f] = "landed"
  /\ lookup' = [lookup EXCEPT ![call[f].key] =
                  IF call[f].op = "remove" THEN Unknown ELSE call[f].value]
  /\ Reply(f, Made(f, call[f].value))
  /\ UNCHANGED store

-------------------------------------------------------------------------------
(* Failures and interruptions                                               *)

(* Before the permit, an operation can only be interrupted; a read may fail *)
(* in the store, a computation on its own, a write's value may not encode.  *)
Quit(f) ==
  /\ pc[f] \in {"entering", "waiting", "computing", "writing"}
  /\ pc[f] = "writing" => call[f].op # "remove"
  /\ Leave(f, Failed(f))
  /\ UNCHANGED <<store, lookup>>

(* Variant: the entry stays.                                                *)
BreakKeeping(f) ==
  /\ pc[f] \in {"reading", "fetched", "writing", "landed"}
  /\ \/ UNCHANGED store
     \/ /\ pc[f] = "writing" /\ call[f].op # "remove"
        /\ store' = [store EXCEPT ![call[f].key] = Garbled]
  /\ Leave(f, Failed(f))
  /\ UNCHANGED lookup

(* A read or mutation that fails or is interrupted forgets the entry.  A    *)
(* write that did not land may have torn what was there.                    *)
Break(f) ==
  LET k == call[f].key IN
  /\ pc[f] \in {"reading", "fetched", "writing", "landed"}
  /\ \/ UNCHANGED store
     \/ /\ pc[f] = "writing" /\ call[f].op # "remove"
        /\ store' = [store EXCEPT ![k] = Garbled]
  /\ lookup' = [lookup EXCEPT ![k] = Unknown]
  /\ Leave(f, Failed(f))

(* The lookup cache drops an entry for want of room or because it is old.   *)
Evict(k) ==
  /\ lookup[k] # Unknown
  /\ lookup' = [lookup EXCEPT ![k] = Unknown]
  /\ answer' = None
  /\ UNCHANGED <<store, registry, pc, call, sem>>

(* A step that is not the cache's.                                          *)
Pass ==
  /\ answer' = None
  /\ UNCHANGED <<store, lookup, registry, pc, call, sem>>

Operate(f) ==
  \/ Refer(f) \/ Acquire(f) \/ ReadLocal(f) \/ Fetch(f) \/ Fill(f)
  \/ Land(f) \/ Publish(f) \/ Quit(f) \/ Break(f)
  \/ \E x \in Values : Compute(f, x)

Next ==
  \/ \E f \in Fibers :
       \/ \E op \in Ops, k \in Keys, x \in Stored : Call(f, op, k, x)
       \/ Operate(f)
  \/ \E k \in Keys : Evict(k)
  \/ Pass

Spec == Init /\ [][Next]_vars

-------------------------------------------------------------------------------
TypeOK ==
  /\ store \in [Keys -> Stored]
  /\ lookup \in [Keys -> Stored \cup {Unknown}]
  /\ registry \in [Keys -> Fibers \cup {None}]
  /\ pc \in [Fibers -> {"idle", "entering", "waiting", "reading", "fetched",
                        "computing", "writing", "landed"}]
  /\ call \in [Fibers -> [op : Ops, key : Keys, value : Stored] \cup {None}]
  /\ \A f \in Fibers : pc[f] = "idle" <=> call[f] = None
  /\ sem \in [Fibers -> Fibers \cup {None}]
  /\ answer \in [to : Fibers, tag : {"failed", "found", "made"}, value : Stored] \cup {None}

(* Two operations never work on one key at once, though the semaphore that  *)
(* keeps them apart is made anew whenever the last one that refers to it is  *)
(* gone (Cache.ts: "Every operation for one persisted key is serialized").   *)
OneAtATime ==
  \A f, g \in Fibers :
    Inside(f) /\ Inside(g) /\ call[f].key = call[g].key => f = g

(* A local entry is what the store holds, unless a mutation of its key has   *)
(* landed and is not yet published: failed and interrupted writes leave none *)
(* ("interrupted mutations never publish uncertain local state").            *)
LookupCoherent ==
  \A k \in Keys :
    \/ lookup[k] \in {store[k], Unknown}
    \/ \E f \in Fibers : pc[f] = "landed" /\ call[f].key = k

(* The semaphores in the registry are those that are referred to.            *)
RegistryExact ==
  \A k \in Keys :
    registry[k] # None <=> \E f \in Fibers : sem[f] # None /\ call[f].key = k

(* The cache is a store of atomic operations: every answer is right at one   *)
(* moment of its call, and a resolution never overwrites.                    *)
Task(f) ==
  IF pc[f] = "idle" THEN None
  ELSE [op |-> call[f].op, key |-> call[f].key,
        value |-> IF call[f].op = "set" \/ pc[f] = "landed" THEN call[f].value ELSE None,
        done |-> pc[f] = "landed"]

AsStore == INSTANCE KeyedStore WITH contents <- store, task <- [f \in Fibers |-> Task(f)]
ImplementsStore == AsStore!Spec

===============================================================================
