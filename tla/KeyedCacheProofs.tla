--------------------------- MODULE KeyedCacheProofs ---------------------------
(***************************************************************************)
(* Theorems about KeyedCache, for any callers, keys and values.  What keeps *)
(* two operations off one key is that whoever refers to a semaphore refers  *)
(* to the one in the registry (Current), although semaphores come and go:   *)
(* the one that leaves takes it along only when nobody else refers to it.   *)
(* That one operation works on a key at a time makes what it has read stay  *)
(* true until it leaves (Held), and from this follows the refinement.       *)
(***************************************************************************)
EXTENDS KeyedCache, TLAPS

Key(f) == call[f].key

(* A fiber refers to a semaphore from the registry's answer on, and it is    *)
(* the registry's.                                                          *)
Referring == \A f \in Fibers : sem[f] # None <=> pc[f] \notin {"idle", "entering"}
Current == \A f \in Fibers : sem[f] # None => sem[f] = registry[Key(f)]
Locks == Referring /\ Current /\ RegistryExact /\ OneAtATime

(* What an operation has at hand fits what it does and where it is.          *)
Fits(f) ==
  /\ pc[f] \in {"reading", "fetched"} => call[f].op \in {"get", "resolve"}
  /\ pc[f] = "computing" => call[f].op = "resolve"
  /\ pc[f] \in {"writing", "landed"} => call[f].op \in {"set", "remove", "resolve"}
  /\ pc[f] # "idle" /\ call[f].op = "set" => call[f].value \in Values
  /\ pc[f] # "idle" /\ call[f].op = "remove" => call[f].value = None
  /\ pc[f] \in {"writing", "landed"} /\ call[f].op = "resolve" => call[f].value \in Values

(* What it has read, or written, is what the store holds.                   *)
Holds(f) ==
  /\ pc[f] \in {"fetched", "landed"} => call[f].value = store[Key(f)]
  /\ pc[f] = "computing" \/ (pc[f] = "writing" /\ call[f].op = "resolve")
       => store[Key(f)] = None

Held == \A f \in Fibers : Fits(f) /\ Holds(f)

IInv == TypeOK /\ Locks /\ Held /\ LookupCoherent

-------------------------------------------------------------------------------
LEMMA InitHolds ==
  ASSUME KeyedCacheAssumption, Init
  PROVE  IInv
BY DEF KeyedCacheAssumption, Init, IInv, TypeOK, Locks, Referring, Current, RegistryExact,
       OneAtATime, Inside, Held, Fits, Holds, LookupCoherent, Stored, Key

(* Whoever leaves keeps the locks: the semaphore leaves the registry only    *)
(* with the last that refers to it.                                         *)
LEMMA LeaveKeepsLocks ==
  ASSUME KeyedCacheAssumption, TypeOK, Locks,
         NEW f \in Fibers, NEW a, pc[f] # "idle", Leave(f, a)
  PROVE  Locks'
<1>. DEFINE k == call[f].key
<1>1. /\ pc' = [pc EXCEPT ![f] = "idle"]
      /\ sem' = [sem EXCEPT ![f] = None]
      /\ call' = [call EXCEPT ![f] = None]
      /\ registry' = [registry EXCEPT ![k] =
           IF sem[f] = @ /\ ~\E g \in Fibers \ {f} : Shares(f, g) THEN None ELSE @]
  BY DEF Leave, Go
<1>2. k \in Keys /\ call[f] \in [op : Ops, key : Keys, value : Stored]
  BY DEF TypeOK
<1>3. \A g \in Fibers \ {f} :
        pc'[g] = pc[g] /\ sem'[g] = sem[g] /\ call'[g] = call[g]
  BY <1>1 DEF TypeOK
<1>4. pc'[f] = "idle" /\ sem'[f] = None /\ call'[f] = None
  BY <1>1 DEF TypeOK
<1>5. Referring'
  BY <1>3, <1>4 DEF Locks, Referring
<1>6. \A j \in Keys \ {k} : registry'[j] = registry[j]
  BY <1>1, <1>2 DEF TypeOK
<1>7. registry'[k] = IF sem[f] = registry[k] /\ ~\E g \in Fibers \ {f} : Shares(f, g)
                     THEN None ELSE registry[k]
  BY <1>1, <1>2 DEF TypeOK
<1>8. \A g \in Fibers : sem[g] # None => call[g].key \in Keys
  BY DEF TypeOK, Locks, Referring
<1>9. ASSUME NEW g \in Fibers \ {f}, sem[g] # None, call[g].key = k
      PROVE  registry'[k] = registry[k]
  <2>1. sem[g] = registry[k]
    BY <1>9 DEF Locks, Current, Key
  <2>2. sem[f] = registry[k] => Shares(f, g)
    BY <2>1, <1>9 DEF Shares
  <2>. QED BY <2>2, <1>7
<1>10. Current'
  <2>1. ASSUME NEW g \in Fibers \ {f}, sem[g] # None PROVE sem[g] = registry'[call[g].key]
    <3>1. CASE call[g].key = k
      BY <2>1, <3>1, <1>9 DEF Locks, Current, Key
    <3>2. CASE call[g].key # k
      BY <2>1, <3>2, <1>6, <1>8 DEF Locks, Current, Key
    <3>. QED BY <3>1, <3>2
  <2>. QED BY <2>1, <1>3, <1>4 DEF Current, Key
<1>11. RegistryExact'
  <2>1. ASSUME NEW j \in Keys, registry'[j] # None
        PROVE  \E g \in Fibers : sem'[g] # None /\ call'[g].key = j
    <3>1. registry'[j] = registry[j]
      BY <2>1, <1>6, <1>7
    <3>2. PICK g \in Fibers : sem[g] # None /\ call[g].key = j
      BY <2>1, <3>1 DEF Locks, RegistryExact
    <3>3. CASE g # f
      BY <3>2, <3>3, <1>3
    <3>4. CASE g = f
      <4>1. sem[f] = registry[k] /\ j = k
        BY <3>2, <3>4 DEF Locks, Current, Key
      <4>2. PICK h \in Fibers \ {f} : Shares(f, h)
        BY <4>1, <2>1, <1>7
      <4>. QED BY <4>1, <4>2, <1>3, <3>2 DEF Shares
    <3>. QED BY <3>3, <3>4
  <2>2. ASSUME NEW j \in Keys, NEW g \in Fibers, sem'[g] # None, call'[g].key = j
        PROVE  registry'[j] # None
    BY <2>2, <1>3, <1>4, <1>10 DEF Current, Key
  <2>. QED BY <2>1, <2>2 DEF RegistryExact
<1>12. OneAtATime'
  BY <1>3, <1>4 DEF Locks, OneAtATime, Inside
<1>. QED BY <1>5, <1>10, <1>11, <1>12 DEF Locks

(* Whoever goes on under the permit it has, or takes one nobody shares,      *)
(* keeps the locks.                                                         *)
LEMMA StepKeepsLocks ==
  ASSUME KeyedCacheAssumption, TypeOK, Locks, NEW f \in Fibers, NEW there,
         pc[f] \notin {"idle", "entering"}, there \notin {"idle", "entering"},
         Go(f, there), UNCHANGED <<registry, sem>>,
         \A g \in Fibers : Key(g)' = Key(g),
         Inside(f) \/ \A g \in Fibers : Inside(g) => ~Shares(f, g)
  PROVE  Locks'
<1>1. \A g \in Fibers \ {f} : pc'[g] = pc[g]
  BY DEF Go, TypeOK
<1>2. pc'[f] = there
  BY DEF Go, TypeOK
<1>3. Referring' /\ Current' /\ RegistryExact'
  BY <1>1, <1>2 DEF Locks, Referring, Current, RegistryExact, Key
<1>4. ASSUME NEW g \in Fibers, g # f, Inside(g), Key(g) = Key(f) PROVE FALSE
  <2>1. sem[g] = sem[f] /\ sem[f] # None
    BY <1>4 DEF Locks, Referring, Current, Inside
  <2>2. Inside(f)
    BY <2>1, <1>4 DEF Shares, Key
  <2>. QED BY <2>2, <1>4 DEF Locks, OneAtATime, Key
<1>5. OneAtATime'
  <2>1. \A g, h \in Fibers : g # f /\ h # f /\ Inside(g)' /\ Inside(h)' /\ Key(g)' = Key(h)'
          => g = h
    BY <1>1 DEF Locks, OneAtATime, Inside, Key
  <2>2. \A g \in Fibers : g # f /\ Inside(g)' => Key(g)' # Key(f)'
    BY <1>1, <1>4 DEF Inside
  <2>. QED BY <2>1, <2>2 DEF OneAtATime, Key
<1>. QED BY <1>3, <1>5 DEF Locks

(* The step of one fiber leaves what the others have at hand, when it        *)
(* changes the store only under its own permit.                             *)
Alone(f) == \A g \in Fibers \ {f} : pc'[g] = pc[g] /\ call'[g] = call[g]

LEMMA OthersHold ==
  ASSUME TypeOK, Locks, Held, NEW f \in Fibers, Alone(f),
         \A k \in Keys : store'[k] # store[k] => Inside(f) /\ k = Key(f)
  PROVE  \A g \in Fibers \ {f} : Fits(g)' /\ Holds(g)'
<1>. SUFFICES ASSUME NEW g \in Fibers \ {f} PROVE Fits(g)' /\ Holds(g)'
  OBVIOUS
<1>1. pc'[g] = pc[g] /\ call'[g] = call[g] /\ Fits(g) /\ Holds(g)
  BY DEF Alone, Held
<1>2. Fits(g)'
  BY <1>1 DEF Fits
<1>3. Inside(g) => store'[Key(g)] = store[Key(g)]
  <2>1. Inside(g) => Key(g) \in Keys
    BY DEF Inside, Key, TypeOK
  <2>2. Inside(g) /\ Inside(f) => Key(g) # Key(f)
    BY DEF Locks, OneAtATime, Key
  <2>. QED BY <2>1, <2>2
<1>4. Holds(g)'
  BY <1>1, <1>3 DEF Holds, Inside, Key
<1>. QED BY <1>2, <1>4

(* A local entry of another key stays coherent.                             *)
Coherent(k) ==
  \/ lookup[k] \in {store[k], Unknown}
  \/ \E f \in Fibers : pc[f] = "landed" /\ call[f].key = k

LEMMA OthersCohere ==
  ASSUME LookupCoherent, NEW f \in Fibers, Alone(f), NEW k \in Keys,
         store'[k] = store[k], lookup'[k] \in {lookup[k], Unknown},
         pc[f] = "landed" => Key(f) # k
  PROVE  Coherent(k)'
<1>1. CASE lookup[k] \in {store[k], Unknown}
  BY <1>1 DEF Coherent
<1>2. CASE \E g \in Fibers : pc[g] = "landed" /\ call[g].key = k
  <2>1. PICK g \in Fibers : pc[g] = "landed" /\ call[g].key = k
    BY <1>2
  <2>. QED BY <2>1 DEF Coherent, Alone, Key
<1>. QED BY <1>1, <1>2 DEF LookupCoherent

LEMMA CoherentAll ==
  ASSUME \A k \in Keys : Coherent(k)'
  PROVE  LookupCoherent'
BY DEF Coherent, LookupCoherent

(* Under the permit a local entry is what the store holds.                  *)
LEMMA LocalIsStored ==
  ASSUME TypeOK, Locks, LookupCoherent, NEW f \in Fibers, Inside(f), pc[f] # "landed",
         lookup[Key(f)] # Unknown
  PROVE  lookup[Key(f)] = store[Key(f)]
<1>1. Key(f) \in Keys
  BY DEF Inside, Key, TypeOK
<1>2. \A g \in Fibers : pc[g] = "landed" => call[g].key # Key(f)
  BY DEF Locks, OneAtATime, Inside, Key
<1>. QED BY <1>1, <1>2 DEF LookupCoherent

-------------------------------------------------------------------------------
(* Leaving, with what is stored and known locally of the fiber's own key     *)
(* given: the invariant stays.                                              *)
LEMMA LeavePreserves ==
  ASSUME KeyedCacheAssumption, IInv, NEW f \in Fibers, NEW a, pc[f] # "idle", Leave(f, a),
         a \in [to : Fibers, tag : {"failed", "found", "made"}, value : Stored],
         store' \in [Keys -> Stored], lookup' \in [Keys -> Stored \cup {Unknown}],
         \A k \in Keys : store'[k] # store[k] => Inside(f) /\ k = Key(f),
         \A k \in Keys \ {Key(f)} : lookup'[k] = lookup[k],
         \/ lookup'[Key(f)] \in {store'[Key(f)], Unknown}
         \/ pc[f] # "landed" /\ UNCHANGED <<store, lookup>>
  PROVE  IInv'
<1>. USE DEF IInv
<1>0. /\ pc' = [pc EXCEPT ![f] = "idle"]
      /\ sem' = [sem EXCEPT ![f] = None]
      /\ call' = [call EXCEPT ![f] = None]
      /\ answer' = a
  BY DEF Leave, Go
<1>1. Locks'
  BY LeaveKeepsLocks
<1>2. Alone(f)
  BY <1>0 DEF Alone, TypeOK
<1>3. Key(f) \in Keys
  BY DEF TypeOK, Key
<1>4. TypeOK'
  <2>1. registry' \in [Keys -> Fibers \cup {None}]
    BY DEF Leave, TypeOK
  <2>. QED BY <1>0, <2>1 DEF TypeOK
<1>5. Held'
  <2>1. \A g \in Fibers \ {f} : Fits(g)' /\ Holds(g)'
    BY <1>2, OthersHold
  <2>2. Fits(f)' /\ Holds(f)'
    BY <1>0 DEF TypeOK, Fits, Holds
  <2>. QED BY <2>1, <2>2 DEF Held
<1>6. \A k \in Keys : Coherent(k)'
  <2>1. ASSUME NEW k \in Keys, k # Key(f) PROVE Coherent(k)'
    BY <2>1, <1>2, OthersCohere
  <2>2. ASSUME NEW k \in Keys, k = Key(f) PROVE Coherent(k)'
    <3>1. CASE lookup'[Key(f)] \in {store'[Key(f)], Unknown}
      BY <2>2, <3>1 DEF Coherent
    <3>2. CASE pc[f] # "landed" /\ UNCHANGED <<store, lookup>>
      BY <3>2, <1>2, OthersCohere
    <3>. QED BY <3>1, <3>2
  <2>. QED BY <2>1, <2>2
<1>7. LookupCoherent'
  BY <1>6, CoherentAll
<1>. QED BY <1>1, <1>4, <1>5, <1>7

(* Going on to another place without leaving: the invariant stays, when what *)
(* the fiber has at hand there fits and is what the store holds.            *)
LEMMA GoPreserves ==
  ASSUME KeyedCacheAssumption, IInv, NEW f \in Fibers, NEW there, NEW x \in Stored,
         pc[f] \notin {"idle", "entering"}, there \in {"reading", "fetched", "computing",
                                                     "writing", "landed"},
         Go(f, there), answer' = None, UNCHANGED <<registry, sem>>,
         call' = [call EXCEPT ![f].value = x],
         Inside(f) \/ \A g \in Fibers : Inside(g) => ~Shares(f, g),
         store' \in [Keys -> Stored], lookup' \in [Keys -> Stored \cup {Unknown}],
         \A k \in Keys : store'[k] # store[k] => Inside(f) /\ k = Key(f),
         \A k \in Keys \ {Key(f)} : lookup'[k] = lookup[k],
         \/ lookup'[Key(f)] \in {store'[Key(f)], Unknown}
         \/ there = "landed"
         \/ pc[f] # "landed" /\ UNCHANGED <<store, lookup>>,
         Fits(f)', Holds(f)'
  PROVE  IInv'
<1>. USE DEF IInv
<1>0. /\ pc' = [pc EXCEPT ![f] = there]
      /\ call[f] \in [op : Ops, key : Keys, value : Stored]
      /\ call'[f] = [call[f] EXCEPT !.value = x]
  BY DEF Go, TypeOK
<1>1. Alone(f)
  BY <1>0 DEF Alone, TypeOK
<1>2. Key(f) \in Keys /\ Key(f)' = Key(f) /\ \A g \in Fibers \ {f} : Key(g)' = Key(g)
  BY <1>0, <1>1 DEF Key, Alone
<1>3. Locks'
  BY <1>2, StepKeepsLocks
<1>4. TypeOK'
  <2>1. /\ call' \in [Fibers -> [op : Ops, key : Keys, value : Stored] \cup {None}]
        /\ \A g \in Fibers : pc'[g] = "idle" <=> call'[g] = None
    <3>1. call'[f] \in [op : Ops, key : Keys, value : Stored]
      BY <1>0
    <3>2. call'[f] # None
      BY <3>1 DEF KeyedCacheAssumption
    <3>. QED BY <1>0, <1>1, <3>1, <3>2 DEF TypeOK, Alone
  <2>. QED BY <1>0, <2>1 DEF TypeOK
<1>5. Held'
  BY <1>1, OthersHold DEF Held
<1>6. \A k \in Keys : Coherent(k)'
  <2>1. ASSUME NEW k \in Keys, k # Key(f) PROVE Coherent(k)'
    BY <2>1, <1>1, OthersCohere
  <2>2. ASSUME NEW k \in Keys, k = Key(f) PROVE Coherent(k)'
    <3>1. CASE lookup'[Key(f)] \in {store'[Key(f)], Unknown}
      BY <2>2, <3>1 DEF Coherent
    <3>2. CASE pc[f] # "landed" /\ UNCHANGED <<store, lookup>>
      BY <3>2, <1>1, OthersCohere
    <3>3. CASE there = "landed"
      BY <3>3, <2>2, <1>0, <1>2 DEF Coherent, Key, TypeOK
    <3>. QED BY <3>1, <3>2, <3>3
  <2>. QED BY <2>1, <2>2
<1>7. LookupCoherent'
  BY <1>6, CoherentAll
<1>. QED BY <1>3, <1>4, <1>5, <1>7

-------------------------------------------------------------------------------
(* Every step keeps the invariant                                           *)

LEMMA CallPreserves ==
  ASSUME KeyedCacheAssumption, IInv, NEW f \in Fibers, NEW op \in Ops, NEW k \in Keys,
         NEW x \in Stored, Call(f, op, k, x)
  PROVE  IInv'
<1>. USE DEF IInv
<1>. DEFINE r == [op |-> op, key |-> k, value |-> x]
<1>1. /\ pc' = [pc EXCEPT ![f] = "entering"] /\ pc[f] = "idle" /\ sem[f] = None
      /\ call' = [call EXCEPT ![f] = r]
      /\ answer' = None /\ UNCHANGED <<store, lookup, registry, sem>>
  BY DEF Call, Go, Locks, Referring
<1>2. r \in [op : Ops, key : Keys, value : Stored] /\ r # None
  BY DEF KeyedCacheAssumption
<1>. HIDE DEF r
<1>3. Alone(f) /\ pc'[f] = "entering" /\ call'[f] = r
  BY <1>1 DEF TypeOK, Alone
<1>4. TypeOK'
  BY <1>1, <1>2, <1>3 DEF TypeOK, Alone
<1>5. Referring' /\ Current'
  BY <1>1, <1>3 DEF Locks, Referring, Current, Key, Alone
<1>6. RegistryExact'
  BY <1>1, <1>3 DEF Locks, RegistryExact, Alone
<1>7. OneAtATime'
  BY <1>1, <1>3 DEF Locks, OneAtATime, Inside, Alone
<1>8. Held'
  <2>1. \A g \in Fibers \ {f} : Fits(g)' /\ Holds(g)'
    BY <1>1, <1>3, OthersHold
  <2>2. Fits(f)' /\ Holds(f)'
    <3>1. (op = "set" => x \in Values) /\ (op # "set" => x = None)
      BY DEF Call
    <3>2. r.op = op /\ r.value = x
      BY DEF r
    <3>. QED BY <1>3, <3>1, <3>2 DEF Fits, Holds
  <2>. QED BY <2>1, <2>2 DEF Held
<1>9. LookupCoherent'
  BY <1>1, <1>3 DEF LookupCoherent, Alone
<1>. QED BY <1>4, <1>5, <1>6, <1>7, <1>8, <1>9 DEF Locks

LEMMA ReferPreserves ==
  ASSUME KeyedCacheAssumption, IInv, NEW f \in Fibers, Refer(f)
  PROVE  IInv'
<1>. USE DEF IInv
<1>. DEFINE k == call[f].key
            s == IF registry[k] = None THEN f ELSE registry[k]
<1>1. /\ pc' = [pc EXCEPT ![f] = "waiting"] /\ pc[f] = "entering" /\ sem[f] = None
      /\ registry' = [registry EXCEPT ![k] = s] /\ sem' = [sem EXCEPT ![f] = s]
      /\ answer' = None /\ UNCHANGED <<store, lookup, call>>
  BY DEF Refer, Go, Locks, Referring
<1>2. k \in Keys /\ s \in Fibers /\ s # None
  BY <1>1 DEF TypeOK, KeyedCacheAssumption
<1>3. registry[k] # None => s = registry[k]
  OBVIOUS
<1>4. call[f].key = k
  OBVIOUS
<1>. HIDE DEF k, s
<1>5. Alone(f) /\ pc'[f] = "waiting" /\ sem'[f] = s /\ registry'[k] = s
      /\ \A g \in Fibers \ {f} : sem'[g] = sem[g]
  BY <1>1, <1>2 DEF TypeOK, Alone
<1>6. \A j \in Keys : registry'[j] = registry[j] \/ (j = k /\ registry[j] = None)
  BY <1>1, <1>2, <1>3 DEF TypeOK
<1>7. TypeOK'
  BY <1>1, <1>2 DEF TypeOK
<1>8. Referring'
  BY <1>2, <1>5 DEF Locks, Referring, Alone
<1>9. Current'
  <2>1. ASSUME NEW g \in Fibers \ {f}, sem[g] # None PROVE sem[g] = registry'[call[g].key]
    <3>1. call[g].key \in Keys /\ registry[call[g].key] = sem[g]
      BY <2>1 DEF Locks, Current, Key, Referring, TypeOK
    <3>. QED BY <3>1, <2>1, <1>6
  <2>. QED BY <1>1, <1>4, <1>5, <2>1 DEF Current, Key
<1>10. RegistryExact'
  <2>1. ASSUME NEW j \in Keys, j # k
        PROVE  registry'[j] # None <=> \E g \in Fibers : sem'[g] # None /\ call'[g].key = j
    BY <2>1, <1>1, <1>4, <1>5, <1>6 DEF Locks, RegistryExact
  <2>2. registry'[k] # None /\ \E g \in Fibers : sem'[g] # None /\ call'[g].key = k
    BY <1>1, <1>2, <1>4, <1>5
  <2>. QED BY <2>1, <2>2 DEF RegistryExact
<1>11. OneAtATime'
  BY <1>1, <1>5 DEF Locks, OneAtATime, Inside, Alone
<1>12. Held'
  <2>1. \A g \in Fibers \ {f} : Fits(g)' /\ Holds(g)'
    BY <1>1, <1>5, OthersHold
  <2>2. Fits(f)' /\ Holds(f)'
    BY <1>1, <1>5 DEF Held, Fits, Holds
  <2>. QED BY <2>1, <2>2 DEF Held
<1>13. LookupCoherent'
  BY <1>1, <1>5 DEF LookupCoherent, Alone
<1>. QED BY <1>7, <1>8, <1>9, <1>10, <1>11, <1>12, <1>13 DEF Locks

(* A step that keeps the operation's value: EXCEPT with that value.          *)
LEMMA SameValue ==
  ASSUME TypeOK, NEW f \in Fibers, pc[f] # "idle", UNCHANGED call
  PROVE  call' = [call EXCEPT ![f].value = call[f].value] /\ call[f].value \in Stored
<1>1. call \in [Fibers -> [op : Ops, key : Keys, value : Stored] \cup {None}]
      /\ call[f] \in [op : Ops, key : Keys, value : Stored]
  BY DEF TypeOK
<1>2. [call[f] EXCEPT !.value = call[f].value] = call[f]
  BY <1>1
<1>. QED BY <1>1, <1>2

LEMMA AcquirePreserves ==
  ASSUME KeyedCacheAssumption, IInv, NEW f \in Fibers, Acquire(f)
  PROVE  IInv'
<1>. DEFINE there == IF call[f].op \in {"get", "resolve"} THEN "reading" ELSE "writing"
<1>1. /\ pc[f] = "waiting" /\ Go(f, there) /\ answer' = None
      /\ UNCHANGED <<store, lookup, registry, call, sem>>
      /\ \A g \in Fibers : Inside(g) => ~Shares(f, g)
  BY DEF Acquire
<1>2. call' = [call EXCEPT ![f].value = call[f].value] /\ call[f].value \in Stored
  BY <1>1, SameValue DEF IInv
<1>3. there \in {"reading", "writing"} /\ pc'[f] = there /\ call'[f] = call[f]
      /\ call[f].op \in Ops
  BY <1>1 DEF Go, IInv, TypeOK
<1>4. Fits(f)' /\ Holds(f)'
  BY <1>1, <1>3 DEF IInv, Held, Fits, Holds, Ops
<1>5. store' \in [Keys -> Stored] /\ lookup' \in [Keys -> Stored \cup {Unknown}]
  BY <1>1 DEF IInv, TypeOK
<1>. HIDE DEF there
<1>. QED BY <1>1, <1>2, <1>3, <1>4, <1>5, GoPreserves

(* What is decoded is what the store holds: the fiber answers it, or goes on *)
(* to compute because nothing is there.                                     *)
LEMMA DecodePreserves ==
  ASSUME KeyedCacheAssumption, IInv, NEW f \in Fibers, NEW x \in Stored,
         pc[f] \in {"reading", "fetched"}, x = store[Key(f)], Decode(f, x), UNCHANGED store,
         lookup' = [lookup EXCEPT ![Key(f)] = x]
  PROVE  IInv'
<1>1. Key(f) \in Keys /\ call[f] \in [op : Ops, key : Keys, value : Stored]
  BY DEF IInv, TypeOK, Key
<1>2. /\ store' \in [Keys -> Stored] /\ lookup' \in [Keys -> Stored \cup {Unknown}]
      /\ lookup'[Key(f)] = x /\ \A k \in Keys \ {Key(f)} : lookup'[k] = lookup[k]
  BY <1>1 DEF IInv, TypeOK
<1>3. lookup'[Key(f)] \in {store'[Key(f)], Unknown}
  BY <1>2
<1>4. CASE x = None /\ call[f].op = "resolve"
  <2>1. /\ Go(f, "computing") /\ call' = [call EXCEPT ![f].value = None]
        /\ answer' = None /\ UNCHANGED <<registry, sem>>
    BY <1>4 DEF Decode
  <2>2. pc'[f] = "computing" /\ call'[f] = [call[f] EXCEPT !.value = None]
    BY <2>1 DEF Go, IInv, TypeOK
  <2>3. Fits(f)' /\ Holds(f)'
    BY <1>1, <1>4, <2>2 DEF Fits, Holds, Key
  <2>4. Inside(f) /\ None \in Stored
    BY DEF Inside, Stored
  <2>. QED BY <1>2, <1>3, <2>1, <2>3, <2>4, GoPreserves
<1>5. CASE ~(x = None /\ call[f].op = "resolve")
  <2>1. PICK a \in {Failed(f), Found(f, x)} : Leave(f, a)
    BY <1>5 DEF Decode, Reply
  <2>2. a \in [to : Fibers, tag : {"failed", "found", "made"}, value : Stored]
    BY DEF Failed, Found, Stored
  <2>. QED BY <1>2, <1>3, <2>1, <2>2, LeavePreserves
<1>. QED BY <1>4, <1>5

LEMMA ReadLocalPreserves ==
  ASSUME KeyedCacheAssumption, IInv, NEW f \in Fibers, ReadLocal(f)
  PROVE  IInv'
<1>1. pc[f] = "reading" /\ lookup[Key(f)] # Unknown /\ Decode(f, lookup[Key(f)])
      /\ UNCHANGED <<store, lookup>>
  BY DEF ReadLocal, Key
<1>2. lookup[Key(f)] = store[Key(f)]
  BY <1>1, LocalIsStored DEF IInv, Inside
<1>3. Key(f) \in Keys
  BY <1>1 DEF IInv, TypeOK, Key
<1>4. lookup[Key(f)] \in Stored /\ lookup' = [lookup EXCEPT ![Key(f)] = lookup[Key(f)]]
  BY <1>1, <1>2, <1>3 DEF IInv, TypeOK
<1>. QED BY <1>1, <1>2, <1>4, DecodePreserves

LEMMA FillPreserves ==
  ASSUME KeyedCacheAssumption, IInv, NEW f \in Fibers, Fill(f)
  PROVE  IInv'
<1>1. pc[f] = "fetched" /\ Decode(f, call[f].value) /\ UNCHANGED store
      /\ lookup' = [lookup EXCEPT ![Key(f)] = call[f].value]
  BY DEF Fill, Key
<1>2. call[f].value = store[Key(f)] /\ call[f].value \in Stored
  BY <1>1 DEF IInv, Held, Holds, TypeOK
<1>. QED BY <1>1, <1>2, DecodePreserves

(* The steps that change what the fiber has at hand, and nothing local.      *)
LEMMA WorkPreserves ==
  ASSUME KeyedCacheAssumption, IInv, NEW f \in Fibers,
         Fetch(f) \/ \E x \in Values : Compute(f, x)
  PROVE  IInv'
<1>1. PICK there \in {"fetched", "writing"}, x \in Stored :
        /\ Go(f, there) /\ call' = [call EXCEPT ![f].value = x]
        /\ answer' = None /\ UNCHANGED <<store, lookup, registry, sem>>
        /\ \/ pc[f] = "reading" /\ there = "fetched" /\ x = store[Key(f)]
           \/ pc[f] = "computing" /\ there = "writing" /\ x \in Values
  <2>1. CASE Fetch(f)
    <3>1. pc[f] = "reading" /\ store[Key(f)] \in Stored
      BY <2>1 DEF Fetch, IInv, TypeOK, Key
    <3>. QED BY <2>1, <3>1 DEF Fetch, Key
  <2>2. CASE \E x \in Values : Compute(f, x)
    BY <2>2 DEF Compute, Stored
  <2>. QED BY <2>1, <2>2
<1>2. /\ call[f] \in [op : Ops, key : Keys, value : Stored] /\ Key(f) \in Keys
      /\ pc'[f] = there /\ call'[f] = [call[f] EXCEPT !.value = x]
  BY <1>1 DEF Go, IInv, TypeOK, Key
<1>3. Fits(f)' /\ Holds(f)'
  BY <1>1, <1>2 DEF IInv, Held, Fits, Holds, Key
<1>4. store' \in [Keys -> Stored] /\ lookup' \in [Keys -> Stored \cup {Unknown}]
  BY <1>1 DEF IInv, TypeOK
<1>5. Inside(f) /\ pc[f] # "landed"
  BY <1>1 DEF Inside
<1>. QED BY <1>1, <1>3, <1>4, <1>5, GoPreserves

LEMMA LandPreserves ==
  ASSUME KeyedCacheAssumption, IInv, NEW f \in Fibers, Land(f)
  PROVE  IInv'
<1>1. /\ pc[f] = "writing" /\ Go(f, "landed") /\ answer' = None
      /\ store' = [store EXCEPT ![Key(f)] = call[f].value]
      /\ UNCHANGED <<lookup, registry, call, sem>>
  BY DEF Land, Key
<1>2. call' = [call EXCEPT ![f].value = call[f].value] /\ call[f].value \in Stored
  BY <1>1, SameValue DEF IInv
<1>3. Key(f) \in Keys /\ pc'[f] = "landed" /\ call'[f] = call[f]
  BY <1>1 DEF Go, IInv, TypeOK, Key
<1>4. /\ store' \in [Keys -> Stored] /\ lookup' \in [Keys -> Stored \cup {Unknown}]
      /\ \A k \in Keys : store'[k] # store[k] => k = Key(f)
      /\ store'[Key(f)] = call[f].value
  BY <1>1, <1>2, <1>3 DEF IInv, TypeOK
<1>5. Fits(f)' /\ Holds(f)'
  BY <1>1, <1>3, <1>4 DEF IInv, Held, Fits, Holds, Key
<1>6. Inside(f)
  BY <1>1 DEF Inside
<1>. QED BY <1>1, <1>2, <1>4, <1>5, <1>6, GoPreserves

LEMMA PublishPreserves ==
  ASSUME KeyedCacheAssumption, IInv, NEW f \in Fibers, Publish(f)
  PROVE  IInv'
<1>1. /\ pc[f] = "landed" /\ UNCHANGED store
      /\ lookup' = [lookup EXCEPT ![Key(f)] =
                      IF call[f].op = "remove" THEN Unknown ELSE call[f].value]
      /\ \E a \in {Failed(f), Made(f, call[f].value)} : Leave(f, a)
  BY DEF Publish, Reply, Key
<1>2. Key(f) \in Keys /\ call[f].value \in Stored /\ call[f].value = store[Key(f)]
  BY <1>1 DEF IInv, TypeOK, Held, Holds, Key
<1>3. /\ store' \in [Keys -> Stored] /\ lookup' \in [Keys -> Stored \cup {Unknown}]
      /\ lookup'[Key(f)] \in {store'[Key(f)], Unknown}
      /\ \A k \in Keys \ {Key(f)} : lookup'[k] = lookup[k]
  BY <1>1, <1>2 DEF IInv, TypeOK
<1>4. PICK a \in {Failed(f), Made(f, call[f].value)} : Leave(f, a)
  BY <1>1
<1>5. a \in [to : Fibers, tag : {"failed", "found", "made"}, value : Stored]
  BY <1>2 DEF Failed, Made, Stored
<1>. QED BY <1>1, <1>3, <1>4, <1>5, LeavePreserves

LEMMA QuitPreserves ==
  ASSUME KeyedCacheAssumption, IInv, NEW f \in Fibers, Quit(f)
  PROVE  IInv'
<1>1. pc[f] \notin {"idle", "landed"} /\ Leave(f, Failed(f)) /\ UNCHANGED <<store, lookup>>
  BY DEF Quit
<1>2. Failed(f) \in [to : Fibers, tag : {"failed", "found", "made"}, value : Stored]
  BY DEF Failed, Stored
<1>3. store' \in [Keys -> Stored] /\ lookup' \in [Keys -> Stored \cup {Unknown}]
  BY <1>1 DEF IInv, TypeOK
<1>. QED BY <1>1, <1>2, <1>3, LeavePreserves

LEMMA BreakPreserves ==
  ASSUME KeyedCacheAssumption, IInv, NEW f \in Fibers, Break(f)
  PROVE  IInv'
<1>1. /\ pc[f] \in {"reading", "fetched", "writing", "landed"}
      /\ store' = store \/ store' = [store EXCEPT ![Key(f)] = Garbled]
      /\ lookup' = [lookup EXCEPT ![Key(f)] = Unknown]
      /\ Leave(f, Failed(f))
  BY DEF Break, Key
<1>2. Failed(f) \in [to : Fibers, tag : {"failed", "found", "made"}, value : Stored]
  BY DEF Failed, Stored
<1>3. Key(f) \in Keys /\ Inside(f)
  BY <1>1 DEF IInv, TypeOK, Key, Inside
<1>4. /\ store' \in [Keys -> Stored] /\ lookup' \in [Keys -> Stored \cup {Unknown}]
      /\ \A k \in Keys : store'[k] # store[k] => k = Key(f)
      /\ lookup'[Key(f)] = Unknown
      /\ \A k \in Keys \ {Key(f)} : lookup'[k] = lookup[k]
  BY <1>1, <1>3 DEF IInv, TypeOK, Stored
<1>. QED BY <1>1, <1>2, <1>3, <1>4, LeavePreserves

(* Steps of nobody: the clock and the room of the lookup cache, the world.   *)
LEMMA IdlePreserves ==
  ASSUME KeyedCacheAssumption, IInv, (\E k \in Keys : Evict(k)) \/ Pass \/ UNCHANGED vars
  PROVE  IInv'
<1>1. /\ UNCHANGED <<store, registry, pc, call, sem>> /\ answer' \in {None, answer}
      /\ lookup' \in [Keys -> Stored \cup {Unknown}]
      /\ \A k \in Keys : lookup'[k] \in {lookup[k], Unknown}
  BY DEF Evict, Pass, vars, IInv, TypeOK
<1>2. TypeOK'
  BY <1>1 DEF IInv, TypeOK
<1>3. Locks'
  BY <1>1 DEF IInv, Locks, Referring, Current, RegistryExact, OneAtATime, Inside, Key
<1>4. Held'
  BY <1>1 DEF IInv, Held, Fits, Holds, Key
<1>5. LookupCoherent'
  BY <1>1 DEF IInv, LookupCoherent
<1>. QED BY <1>2, <1>3, <1>4, <1>5 DEF IInv

LEMMA NextPreserves ==
  ASSUME KeyedCacheAssumption, IInv, [Next]_vars
  PROVE  IInv'
<1>1. ASSUME NEW f \in Fibers, Operate(f) PROVE IInv'
  BY <1>1, ReferPreserves, AcquirePreserves, ReadLocalPreserves, WorkPreserves, FillPreserves,
     LandPreserves, PublishPreserves, QuitPreserves, BreakPreserves DEF Operate
<1>. QED BY <1>1, CallPreserves, IdlePreserves DEF Next

-------------------------------------------------------------------------------
(* Every step is one of the store of atomic operations                      *)

Tasks == [f \in Fibers |-> Task(f)]

LEMMA OneTaskChanges ==
  ASSUME NEW f \in Fibers, Alone(f)
  PROVE  Tasks' = [Tasks EXCEPT ![f] = Task(f)']
BY DEF Tasks, Task, Alone

(* A step that changes no task and stores nothing concerns nobody outside.   *)
LEMMA Passes ==
  ASSUME NEW f \in Fibers, Alone(f), Task(f)' = Task(f), answer' = None, UNCHANGED store
  PROVE  AsStore!Next
<1>1. Tasks' = Tasks
  BY OneTaskChanges DEF Tasks
<1>2. AsStore!Pass
  BY <1>1 DEF AsStore!Pass, Tasks
<1>. QED BY <1>2 DEF AsStore!Next

LEMMA LeavesAlone ==
  ASSUME TypeOK, NEW f \in Fibers, NEW a, Leave(f, a)
  PROVE  Alone(f) /\ Task(f)' = None /\ answer' = a /\ Tasks' = [Tasks EXCEPT ![f] = None]
<1>1. Alone(f) /\ pc'[f] = "idle" /\ answer' = a
  BY DEF Leave, Go, TypeOK, Alone
<1>2. Task(f)' = None
  BY <1>1 DEF Task
<1>. QED BY <1>1, <1>2, OneTaskChanges

(* An operation that leaves with a failure has given up.                    *)
LEMMA GivesUp ==
  ASSUME TypeOK, NEW f \in Fibers, pc[f] # "idle", Leave(f, Failed(f)), Task(f) # None,
         \/ UNCHANGED store
         \/ /\ ~Task(f).done
            /\ Task(f).op = "set" \/ (Task(f).op = "resolve" /\ store[Task(f).key] = None)
            /\ store' = [store EXCEPT ![Task(f).key] = Garbled]
  PROVE  AsStore!Next
<1>1. Tasks' = [Tasks EXCEPT ![f] = None] /\ answer' = AsStore!Failed(f) /\ Tasks[f] = Task(f)
  BY LeavesAlone DEF Failed, AsStore!Failed, Tasks
<1>2. AsStore!GiveUp(f)
  BY <1>1 DEF AsStore!GiveUp, AsStore!Answer, Tasks
<1>. QED BY <1>2 DEF AsStore!Next

(* The task of an operation in progress.                                    *)
LEMMA TaskIs ==
  ASSUME KeyedCacheAssumption, TypeOK, NEW f \in Fibers, pc[f] # "idle"
  PROVE  /\ Task(f) # None /\ Task(f).op = call[f].op /\ Task(f).key = Key(f)
         /\ Task(f).done <=> pc[f] = "landed"
         /\ call[f].op = "set" \/ pc[f] = "landed" => Task(f).value = call[f].value
<1>1. call[f] \in [op : Ops, key : Keys, value : Stored]
  BY DEF TypeOK
<1>2. Task(f) = [op |-> call[f].op, key |-> call[f].key,
                 value |-> IF call[f].op = "set" \/ pc[f] = "landed" THEN call[f].value ELSE None,
                 done |-> pc[f] = "landed"]
  BY DEF Task
<1>3. Task(f) \in [op : Ops, key : Keys, value : Stored, done : BOOLEAN]
  BY <1>1, <1>2 DEF Stored
<1>4. Task(f) # None
  BY <1>3 DEF KeyedCacheAssumption
<1>5. Task(f).op = call[f].op /\ Task(f).key = Key(f)
  BY <1>2 DEF Key
<1>6. Task(f).done <=> pc[f] = "landed"
  <2>. DEFINE d == pc[f] = "landed"
             v == IF call[f].op = "set" \/ pc[f] = "landed" THEN call[f].value ELSE None
  <2>1. Task(f) = [op |-> call[f].op, key |-> call[f].key, value |-> v, done |-> d]
    BY <1>2
  <2>. HIDE DEF d, v
  <2>2. Task(f).done = d
    BY <2>1
  <2>. QED BY <2>2 DEF d
<1>7. call[f].op = "set" \/ pc[f] = "landed" => Task(f).value = call[f].value
  BY <1>2
<1>. QED BY <1>4, <1>5, <1>6, <1>7

LEMMA TaskStays ==
  ASSUME TypeOK, NEW f \in Fibers, pc[f] \notin {"idle", "landed"},
         pc'[f] \notin {"idle", "landed"}, call'[f].op = call[f].op,
         call'[f].key = call[f].key, call[f].op = "set" => call'[f].value = call[f].value
  PROVE  Task(f)' = Task(f)
BY DEF Task

LEMMA CallRequests ==
  ASSUME KeyedCacheAssumption, IInv, NEW f \in Fibers, NEW op \in Ops, NEW k \in Keys,
         NEW x \in Stored, Call(f, op, k, x)
  PROVE  AsStore!Next
<1>1. /\ pc' = [pc EXCEPT ![f] = "entering"] /\ pc[f] = "idle"
      /\ call' = [call EXCEPT ![f] = [op |-> op, key |-> k, value |-> x]]
      /\ x \in (IF op = "set" THEN Values ELSE {None})
      /\ answer' = None /\ UNCHANGED store
  BY DEF Call, Go
<1>2. /\ Alone(f) /\ pc'[f] = "entering"
      /\ call'[f] = [op |-> op, key |-> k, value |-> x]
  BY <1>1 DEF IInv, TypeOK, Alone
<1>3. Task(f)' = [op |-> op, key |-> k, value |-> x, done |-> FALSE]
  <2>. DEFINE d == pc'[f] = "landed"
             v == IF call'[f].op = "set" \/ pc'[f] = "landed" THEN call'[f].value ELSE None
  <2>1. Task(f)' = [op |-> call'[f].op, key |-> call'[f].key, value |-> v, done |-> d]
    BY <1>2 DEF Task
  <2>2. v = x /\ call'[f].op = op /\ call'[f].key = k
    BY <1>1, <1>2
  <2>3. d = FALSE
    BY <1>2
  <2>. HIDE DEF d, v
  <2>. QED BY <2>1, <2>2, <2>3, Zenon
<1>4. Tasks[f] = None /\ Tasks' = [Tasks EXCEPT ![f] = Task(f)']
  BY <1>1, <1>2, OneTaskChanges DEF Tasks, Task
<1>5. AsStore!Request(f, op, k, x)
  BY <1>1, <1>3, <1>4 DEF AsStore!Request, Tasks
<1>. QED BY <1>5 DEF AsStore!Next, Ops, Stored, AsStore!Ops, AsStore!Stored

LEMMA MovesPass ==
  ASSUME KeyedCacheAssumption, IInv, NEW f \in Fibers,
         Refer(f) \/ Acquire(f) \/ Fetch(f) \/ \E x \in Values : Compute(f, x)
  PROVE  AsStore!Next
<1>1. PICK there \in {"waiting", "reading", "writing", "fetched"} :
        pc[f] \notin {"idle", "landed"} /\ pc' = [pc EXCEPT ![f] = there]
  BY DEF Refer, Acquire, Fetch, Compute, Go
<1>2. /\ answer' = None /\ UNCHANGED store
      /\ \/ UNCHANGED call
         \/ /\ pc[f] \in {"reading", "computing"}
            /\ \E x \in Stored : call' = [call EXCEPT ![f].value = x]
  <2>1. CASE Fetch(f)
    <3>1. store[call[f].key] \in Stored
      BY <2>1 DEF Fetch, IInv, TypeOK
    <3>. QED BY <2>1, <3>1 DEF Fetch
  <2>2. CASE Refer(f) \/ Acquire(f) \/ \E x \in Values : Compute(f, x)
    BY <2>2 DEF Refer, Acquire, Compute, Stored
  <2>. QED BY <2>1, <2>2
<1>3. Alone(f) /\ pc'[f] = there
  BY <1>1, <1>2 DEF IInv, TypeOK, Alone
<1>4. call[f] \in [op : Ops, key : Keys, value : Stored]
  BY <1>1 DEF IInv, TypeOK
<1>5. /\ call'[f].op = call[f].op /\ call'[f].key = call[f].key
      /\ call[f].op = "set" => call'[f].value = call[f].value
  <2>1. CASE UNCHANGED call
    BY <2>1
  <2>2. CASE /\ pc[f] \in {"reading", "computing"}
             /\ \E x \in Stored : call' = [call EXCEPT ![f].value = x]
    <3>1. call[f].op # "set"
      BY <2>2 DEF IInv, Held, Fits
    <3>. QED BY <2>2, <3>1, <1>4 DEF IInv, TypeOK
  <2>. QED BY <1>2, <2>1, <2>2
<1>6. Task(f)' = Task(f)
  BY <1>1, <1>3, <1>5, TaskStays DEF IInv
<1>. QED BY <1>2, <1>3, <1>6, Passes

(* A read answers what the store holds, and a resolution too; text that does *)
(* not decode is a failure.                                                 *)
LEMMA DecodeReads ==
  ASSUME KeyedCacheAssumption, IInv, NEW f \in Fibers, NEW x \in Stored,
         pc[f] \in {"reading", "fetched"}, x = store[Key(f)], Decode(f, x), UNCHANGED store
  PROVE  AsStore!Next
<1>1. /\ Task(f) # None /\ Task(f).op = call[f].op /\ Task(f).key = Key(f) /\ ~Task(f).done
      /\ Tasks[f] = Task(f)
  BY TaskIs DEF IInv, Tasks
<1>2. call[f].op \in {"get", "resolve"} /\ call[f] \in [op : Ops, key : Keys, value : Stored]
  BY DEF IInv, Held, Fits, TypeOK
<1>3. CASE x = None /\ call[f].op = "resolve"
  <2>1. /\ pc' = [pc EXCEPT ![f] = "computing"] /\ answer' = None
        /\ call' = [call EXCEPT ![f].value = None]
    BY <1>3 DEF Decode, Go
  <2>2. /\ Alone(f) /\ pc'[f] = "computing"
        /\ call'[f].op = call[f].op /\ call'[f].key = call[f].key
    BY <2>1, <1>2 DEF IInv, TypeOK, Alone
  <2>3. Task(f)' = Task(f)
    BY <1>3, <2>2, TaskStays DEF IInv
  <2>. QED BY <2>1, <2>2, <2>3, Passes
<1>4. CASE ~(x = None /\ call[f].op = "resolve") /\ Leave(f, Failed(f))
  BY <1>1, <1>4, GivesUp DEF IInv
<1>5. CASE ~(x = None /\ call[f].op = "resolve") /\ x # Garbled /\ Leave(f, Found(f, x))
  <2>1. Tasks' = [Tasks EXCEPT ![f] = None] /\ answer' = AsStore!Found(f, x)
    BY <1>5, LeavesAlone DEF IInv, Found, AsStore!Found
  <2>2. AsStore!Read(f)
    BY <1>1, <1>2, <1>5, <2>1 DEF AsStore!Read, AsStore!Answer, Tasks
  <2>. QED BY <2>2 DEF AsStore!Next
<1>. QED BY <1>3, <1>4, <1>5 DEF Decode, Reply

LEMMA ReadsRead ==
  ASSUME KeyedCacheAssumption, IInv, NEW f \in Fibers, ReadLocal(f) \/ Fill(f)
  PROVE  AsStore!Next
<1>1. CASE ReadLocal(f)
  <2>1. pc[f] = "reading" /\ lookup[Key(f)] # Unknown /\ Decode(f, lookup[Key(f)])
        /\ UNCHANGED store /\ Key(f) \in Keys
    BY <1>1 DEF ReadLocal, Key, IInv, TypeOK
  <2>2. lookup[Key(f)] = store[Key(f)] /\ store[Key(f)] \in Stored
    BY <2>1, LocalIsStored DEF IInv, Inside, TypeOK
  <2>. QED BY <2>1, <2>2, DecodeReads
<1>2. CASE Fill(f)
  <2>1. pc[f] = "fetched" /\ Decode(f, call[f].value) /\ UNCHANGED store
    BY <1>2 DEF Fill
  <2>2. call[f].value = store[Key(f)] /\ call[f].value \in Stored
    BY <2>1 DEF IInv, Held, Holds, TypeOK
  <2>. QED BY <2>1, <2>2, DecodeReads
<1>. QED BY <1>1, <1>2

LEMMA LandStores ==
  ASSUME KeyedCacheAssumption, IInv, NEW f \in Fibers, Land(f)
  PROVE  AsStore!Next
<1>. DEFINE x == call[f].value
<1>1. /\ pc[f] = "writing" /\ pc' = [pc EXCEPT ![f] = "landed"] /\ answer' = None
      /\ store' = [store EXCEPT ![Key(f)] = x] /\ UNCHANGED call
  BY DEF Land, Key, Go
<1>2. /\ Task(f) # None /\ Task(f).op = call[f].op /\ Task(f).key = Key(f) /\ ~Task(f).done
      /\ call[f].op = "set" => Task(f).value = x
      /\ Tasks[f] = Task(f)
  BY <1>1, TaskIs DEF IInv, Tasks
<1>3. /\ call[f] \in [op : Ops, key : Keys, value : Stored]
      /\ Alone(f) /\ pc'[f] = "landed" /\ call'[f] = call[f]
  BY <1>1 DEF IInv, TypeOK, Alone
<1>4. \/ call[f].op = "set"
      \/ call[f].op = "remove" /\ x = None
      \/ call[f].op = "resolve" /\ x \in Values /\ store[Key(f)] = None
  BY <1>1 DEF IInv, Held, Fits, Holds
<1>5. Task(f)' = [op |-> Task(f).op, key |-> Task(f).key, value |-> x, done |-> TRUE]
  <2>. DEFINE d == pc'[f] = "landed"
             v == IF call'[f].op = "set" \/ pc'[f] = "landed" THEN call'[f].value ELSE None
  <2>1. Task(f)' = [op |-> call'[f].op, key |-> call'[f].key, value |-> v, done |-> d]
    BY <1>3 DEF Task
  <2>2. d = TRUE /\ v = x /\ call'[f].op = Task(f).op /\ call'[f].key = Task(f).key
    BY <1>2, <1>3 DEF Key
  <2>. HIDE DEF d, v, x
  <2>. QED BY <2>1, <2>2, Zenon
<1>6. Tasks' = [Tasks EXCEPT ![f] =
                  [op |-> Tasks[f].op, key |-> Tasks[f].key, value |-> x, done |-> TRUE]]
  BY <1>2, <1>3, <1>5, OneTaskChanges
<1>. HIDE DEF x
<1>7. AsStore!Store(f, x)
  BY <1>1, <1>2, <1>4, <1>6 DEF AsStore!Store, Tasks
<1>8. x \in Stored
  BY <1>3 DEF x
<1>. QED BY <1>7, <1>8 DEF AsStore!Next, AsStore!Stored, Stored

LEMMA PublishConfirms ==
  ASSUME KeyedCacheAssumption, IInv, NEW f \in Fibers, Publish(f)
  PROVE  AsStore!Next
<1>1. /\ pc[f] = "landed" /\ UNCHANGED store
      /\ Leave(f, Failed(f)) \/ Leave(f, Made(f, call[f].value))
  BY DEF Publish, Reply
<1>2. Task(f) # None /\ Task(f).done /\ Task(f).value = call[f].value /\ Tasks[f] = Task(f)
  BY <1>1, TaskIs DEF IInv, Tasks
<1>3. CASE Leave(f, Failed(f))
  BY <1>1, <1>2, <1>3, GivesUp DEF IInv
<1>4. CASE Leave(f, Made(f, call[f].value))
  <2>1. Tasks' = [Tasks EXCEPT ![f] = None] /\ answer' = AsStore!Made(f, Task(f).value)
    BY <1>2, <1>4, LeavesAlone DEF IInv, Made, AsStore!Made
  <2>2. AsStore!Confirm(f)
    BY <1>1, <1>2, <2>1 DEF AsStore!Confirm, AsStore!Answer, Tasks
  <2>. QED BY <2>2 DEF AsStore!Next
<1>. QED BY <1>1, <1>3, <1>4

LEMMA FailuresGiveUp ==
  ASSUME KeyedCacheAssumption, IInv, NEW f \in Fibers, Quit(f) \/ Break(f)
  PROVE  AsStore!Next
<1>1. /\ pc[f] # "idle" /\ Leave(f, Failed(f))
      /\ \/ UNCHANGED store
         \/ /\ pc[f] = "writing" /\ call[f].op # "remove"
            /\ store' = [store EXCEPT ![Key(f)] = Garbled]
  BY DEF Quit, Break, Key
<1>2. /\ Task(f) # None /\ Task(f).op = call[f].op /\ Task(f).key = Key(f)
      /\ Task(f).done <=> pc[f] = "landed"
  BY <1>1, TaskIs DEF IInv
<1>3. pc[f] = "writing" /\ call[f].op # "remove" =>
        call[f].op = "set" \/ (call[f].op = "resolve" /\ store[Key(f)] = None)
  BY DEF IInv, Held, Fits, Holds
<1>. QED BY <1>1, <1>2, <1>3, GivesUp DEF IInv

LEMMA IdlePasses ==
  ASSUME (\E k \in Keys : Evict(k)) \/ Pass
  PROVE  AsStore!Next
<1>1. answer' = None /\ UNCHANGED <<store, pc, call>>
  BY DEF Evict, Pass
<1>2. Tasks' = Tasks
  BY <1>1 DEF Tasks, Task
<1>3. AsStore!Pass
  BY <1>1, <1>2 DEF AsStore!Pass, Tasks
<1>. QED BY <1>3 DEF AsStore!Next

LEMMA NextImplements ==
  ASSUME KeyedCacheAssumption, IInv, [Next]_vars
  PROVE  [AsStore!Next]_(AsStore!vars)
<1>1. ASSUME NEW f \in Fibers, Operate(f) PROVE AsStore!Next
  BY <1>1, MovesPass, ReadsRead, LandStores, PublishConfirms, FailuresGiveUp DEF Operate
<1>2. CASE Next
  BY <1>1, <1>2, CallRequests, IdlePasses DEF Next
<1>3. CASE UNCHANGED vars
  <2>1. Tasks' = Tasks
    BY <1>3 DEF vars, Tasks, Task
  <2>. QED BY <1>3, <2>1 DEF vars, AsStore!vars, Tasks
<1>. QED BY <1>2, <1>3

LEMMA InitImplements ==
  ASSUME Init
  PROVE  AsStore!Init
BY DEF Init, AsStore!Init, Task

-------------------------------------------------------------------------------
(* The inductive invariant: types, whose value each operation has at hand    *)
(* (Current, Held), and who refers to and holds which semaphore (Locks).      *)
THEOREM InvariantHolds == Spec => []IInv
<1>1. Init => IInv
  BY InitHolds, KeyedCacheAssumption
<1>2. IInv /\ [Next]_vars => IInv'
  BY NextPreserves, KeyedCacheAssumption
<1>. QED BY <1>1, <1>2, PTL DEF Spec

(* The types of the cache's state (internal/cache/cache.ts).                 *)
THEOREM TypesHold == Spec => []TypeOK
<1>1. IInv => TypeOK
  BY DEF IInv
<1>. QED BY <1>1, InvariantHolds, PTL

(* Two operations never work on one key, though semaphores come and go as    *)
(* they are referred to (withKeyLock).                                      *)
THEOREM OperationsExcludeEachOther == Spec => [](OneAtATime /\ RegistryExact)
<1>1. IInv => OneAtATime /\ RegistryExact
  BY DEF IInv, Locks
<1>. QED BY <1>1, InvariantHolds, PTL

(* A local entry is what the store holds: failed and interrupted operations  *)
(* leave none (writeResolved, removeResolved).                              *)
THEOREM LookupStaysCoherent == Spec => []LookupCoherent
<1>1. IInv => LookupCoherent
  BY DEF IInv, Locks
<1>. QED BY <1>1, InvariantHolds, PTL

(* The cache implements a store of atomic operations: every answer is right  *)
(* at one moment of its call and a resolution never overwrites (Cache.ts).   *)
THEOREM Linearizable == Spec => ImplementsStore
<1>1. Init => IInv /\ AsStore!Init
  BY InitHolds, InitImplements, KeyedCacheAssumption
<1>2. IInv /\ [Next]_vars => IInv' /\ [AsStore!Next]_(AsStore!vars)
  BY NextPreserves, NextImplements, KeyedCacheAssumption
<1>. QED BY <1>1, <1>2, PTL DEF Spec, ImplementsStore, AsStore!Spec
===============================================================================
