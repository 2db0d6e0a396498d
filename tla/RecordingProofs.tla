--------------------------- MODULE RecordingProofs ----------------------------
(***************************************************************************)
(* Proofs about Recording: types, the readability of the file, the          *)
(* coherence of the cache and the durability of receipts, for any callers,  *)
(* runs and contents; and that a recording is an EventLog.                  *)
(***************************************************************************)
EXTENDS Recording, SequenceTheorems, FiniteSetTheorems, TLAPS

-------------------------------------------------------------------------------
(* Facts about record sequences.                                            *)

(* The elements of a sequence with one more record.                         *)
LEMMA AppendElements ==
  ASSUME NEW s \in Seq(Wire), NEW w \in Wire
  PROVE  /\ Append(s, w) \in Seq(Wire)
         /\ Len(s) \in Nat
         /\ DOMAIN s = 1..Len(s)
         /\ Len(Append(s, w)) = Len(s) + 1
         /\ DOMAIN Append(s, w) = 1..(Len(s) + 1)
         /\ \A i \in 1..Len(s) : Append(s, w)[i] = s[i]
         /\ Append(s, w)[Len(s) + 1] = w
BY AppendProperties, LenProperties

(* Appending does not disturb the earlier prefixes.                         *)
LEMMA AppendPrefix ==
  ASSUME NEW s \in Seq(Wire), NEW w \in Wire, NEW n \in 0..Len(s)
  PROVE  SubSeq(Append(s, w), 1, n) = SubSeq(s, 1, n)
<1>1. /\ Len(s) \in Nat /\ n \in Int
      /\ \A i \in 1..n : s[i] \in Wire /\ Append(s, w)[i] = s[i]
  BY AppendElements, ElementOfSeq
<1>2. /\ SubSeq(s, 1, n) \in Seq(Wire)
      /\ Len(SubSeq(s, 1, n)) = n
      /\ \A i \in 1..n : SubSeq(s, 1, n)[i] = s[i]
  BY <1>1, SubSeqProperties, Z3
<1>3. /\ SubSeq(Append(s, w), 1, n) \in Seq(Wire)
      /\ Len(SubSeq(Append(s, w), 1, n)) = n
      /\ \A i \in 1..n : SubSeq(Append(s, w), 1, n)[i] = Append(s, w)[i]
  BY <1>1, SubSeqProperties, Z3
<1>. QED
  BY <1>1, <1>2, <1>3, SeqEqual

(* A file whose records were accepted one by one stays so when one more     *)
(* acceptable record is added.                                              *)
LEMMA RetainedAppend ==
  ASSUME NEW s \in Seq(Wire), NEW w \in Wire, Retained(s), Acceptable(s, w)
  PROVE  Retained(Append(s, w))
<1>. SUFFICES ASSUME NEW i \in 1..(Len(s) + 1)
              PROVE  Acceptable(SubSeq(Append(s, w), 1, i - 1), Append(s, w)[i])
  BY AppendElements DEF Retained
<1>0. Len(s) \in Nat /\ i - 1 \in 0..Len(s)
  BY LenProperties
<1>1. SubSeq(Append(s, w), 1, i - 1) = SubSeq(s, 1, i - 1)
  BY <1>0, AppendPrefix
<1>2. CASE i \in 1..Len(s)
  BY <1>1, <1>2, AppendElements DEF Retained
<1>3. CASE i = Len(s) + 1
  <2>1. SubSeq(s, 1, i - 1) = s
    BY <1>0, <1>3, SubSeqFull
  <2>. QED
    BY <1>1, <1>3, <2>1, AppendElements
<1>. QED
  BY <1>0, <1>2, <1>3

-------------------------------------------------------------------------------
(* Types.                                                                   *)

(* What read returns is typed, and so is the cache it leaves.               *)
LEMMA ReadTypes ==
  ASSUME TypeOK
  PROVE  /\ Index \in Seq(Wire)
         /\ Stamp \in Nat \X BOOLEAN
         /\ Refreshed = None \/ Refreshed \in Cached
<1>1. Len(file) \in Nat
  BY LenProperties DEF TypeOK
<1>2. Index \in Seq(Wire)
  BY DEF TypeOK, Index, CacheHit, Cached
<1>. QED
  BY <1>1, <1>2 DEF TypeOK, Stamp, Refreshed, Cached

(* A receipt of an event record is typed.                                   *)
LEMMA ReceiptType ==
  ASSUME NEW e \in Wire, e.tag = "Event"
  PROVE  /\ e \in EventRecord
         /\ Receipt(e) \in [run : Runs, id : RecordIds, cursor : Nat \ {0}, payload : Payloads]
BY DEF Wire, OpenedRecord, EventRecord, CheckpointRecord, Receipt

LEMMA WireFields ==
  ASSUME NEW w \in Wire
  PROVE  /\ w.run \in Runs /\ w.digest \in Digests
         /\ w.tag = "Opened" \/ w.tag = "Event" \/ w.tag = "Checkpoint"
         /\ w.tag = "Event" => w \in EventRecord
         /\ w.tag = "Checkpoint" => w \in CheckpointRecord
BY DEF Wire, OpenedRecord, EventRecord, CheckpointRecord

(* The events of a sequence are finite in number.                           *)
LEMMA SizeType ==
  ASSUME NEW s \in Seq(Wire), NEW r
  PROVE  IsFiniteSet(EventsOf(s, r)) /\ Size(s, r) \in Nat
<1>1. IsFiniteSet(1..Len(s))
  BY LenProperties, FS_Interval
<1>2. EventsOf(s, r) \in SUBSET (1..Len(s))
  BY LenProperties DEF EventsOf
<1>. QED
  BY <1>1, <1>2, FS_Subset, FS_CardinalityType DEF Size

-------------------------------------------------------------------------------
(* The invariant of the file.                                               *)

(* The events of a run are numbered from one, without gaps, and neither a   *)
(* cursor nor an identity occurs twice.                                     *)
Numbered(s) == \A r \in Runs :
  /\ \A n \in 1..Size(s, r) : \E i \in EventsOf(s, r) : s[i].cursor = n
  /\ \A i \in EventsOf(s, r) : s[i].cursor \in 1..Size(s, r)
  /\ \A i, j \in EventsOf(s, r) :
       s[i].cursor = s[j].cursor \/ s[i].id = s[j].id => i = j

CheckpointsExact(s) ==
  \A i \in DOMAIN s : s[i].tag = "Checkpoint" => Exact(s, s[i].run, s[i])

(* A run with checkpoints has a latest one.                                 *)
LatestExists(s) == \A r \in Runs : CheckpointsOf(s, r) # {} =>
  \E i \in CheckpointsOf(s, r) : \A j \in CheckpointsOf(s, r) : j <= i

FileInv(s) ==
  Retained(s) /\ Numbered(s) /\ CheckpointsExact(s) /\ LatestExists(s)

(* A record adds itself to the events of its own run, if it is an event.    *)
LEMMA EventsAppend ==
  ASSUME NEW s \in Seq(Wire), NEW w \in Wire, NEW r \in Runs
  PROVE  /\ EventsOf(Append(s, w), r) =
              IF w.tag = "Event" /\ w.run = r
              THEN EventsOf(s, r) \cup {Len(s) + 1} ELSE EventsOf(s, r)
         /\ Size(Append(s, w), r) =
              IF w.tag = "Event" /\ w.run = r THEN Size(s, r) + 1 ELSE Size(s, r)
         /\ Len(s) + 1 \notin EventsOf(s, r)
         /\ EventsOf(s, r) \subseteq 1..Len(s)
<1>1. Len(s) + 1 \notin EventsOf(s, r) /\ EventsOf(s, r) \subseteq 1..Len(s)
  BY AppendElements DEF EventsOf
<1>2. EventsOf(Append(s, w), r) =
        IF w.tag = "Event" /\ w.run = r
        THEN EventsOf(s, r) \cup {Len(s) + 1} ELSE EventsOf(s, r)
  <2>1. \A i \in 1..Len(s) : i \in EventsOf(Append(s, w), r) <=> i \in EventsOf(s, r)
    BY AppendElements DEF EventsOf
  <2>2. Len(s) + 1 \in EventsOf(Append(s, w), r) <=> w.tag = "Event" /\ w.run = r
    BY AppendElements DEF EventsOf
  <2>3. EventsOf(Append(s, w), r) \subseteq 1..(Len(s) + 1)
    BY AppendElements DEF EventsOf
  <2>4. Len(s) \in Nat
    BY AppendElements
  <2>5. 1..(Len(s) + 1) = 1..Len(s) \cup {Len(s) + 1}
    BY <2>4
  <2>6. \A i \in EventsOf(Append(s, w), r) :
          \/ i \in EventsOf(s, r)
          \/ i = Len(s) + 1 /\ w.tag = "Event" /\ w.run = r
    BY <2>1, <2>2, <2>3, <2>5
  <2>7. EventsOf(s, r) \subseteq EventsOf(Append(s, w), r)
    BY <1>1, <2>1
  <2>8. CASE w.tag = "Event" /\ w.run = r
    BY <2>2, <2>6, <2>7, <2>8
  <2>9. CASE ~(w.tag = "Event" /\ w.run = r)
    BY <2>6, <2>7, <2>9
  <2>. QED
    BY <2>8, <2>9
<1>3. IsFiniteSet(EventsOf(s, r)) /\ Size(s, r) \in Nat
  BY SizeType
<1>4. Size(Append(s, w), r) =
        IF w.tag = "Event" /\ w.run = r THEN Size(s, r) + 1 ELSE Size(s, r)
  <2>1. Cardinality(EventsOf(s, r) \cup {Len(s) + 1}) = Cardinality(EventsOf(s, r)) + 1
    BY <1>1, <1>3, FS_AddElement
  <2>. QED
    BY <1>2, <2>1 DEF Size
<1>. QED
  BY <1>1, <1>2, <1>4

(* An acceptable record keeps the numbering.                                *)
LEMMA NumberedAppend ==
  ASSUME NEW s \in Seq(Wire), NEW w \in Wire, Numbered(s), Acceptable(s, w)
  PROVE  Numbered(Append(s, w))
<1>. DEFINE t == Append(s, w)
<1>. SUFFICES ASSUME NEW r \in Runs
              PROVE  /\ \A n \in 1..Size(t, r) : \E i \in EventsOf(t, r) : t[i].cursor = n
                     /\ \A i \in EventsOf(t, r) : t[i].cursor \in 1..Size(t, r)
                     /\ \A i, j \in EventsOf(t, r) :
                          t[i].cursor = t[j].cursor \/ t[i].id = t[j].id => i = j
  BY DEF Numbered
<1>1. Size(s, r) \in Nat
  BY SizeType
<1>2. /\ EventsOf(s, r) \subseteq 1..Len(s)
      /\ \A i \in EventsOf(s, r) : t[i] = s[i]
      /\ t[Len(s) + 1] = w
      /\ Len(s) + 1 \notin EventsOf(s, r)
  BY EventsAppend, AppendElements
<1>3. /\ \A n \in 1..Size(s, r) : \E i \in EventsOf(s, r) : s[i].cursor = n
      /\ \A i \in EventsOf(s, r) : s[i].cursor \in 1..Size(s, r)
      /\ \A i, j \in EventsOf(s, r) :
           s[i].cursor = s[j].cursor \/ s[i].id = s[j].id => i = j
  BY DEF Numbered
<1>4. CASE ~(w.tag = "Event" /\ w.run = r)
  <2>1. EventsOf(t, r) = EventsOf(s, r) /\ Size(t, r) = Size(s, r)
    BY <1>4, EventsAppend
  <2>. HIDE DEF t
  <2>. QED
    BY <1>2, <1>3, <2>1
<1>5. CASE w.tag = "Event" /\ w.run = r
  <2>1. /\ EventsOf(t, r) = EventsOf(s, r) \cup {Len(s) + 1}
        /\ Size(t, r) = Size(s, r) + 1
    BY <1>5, EventsAppend
  <2>2. w.cursor = Size(s, r) + 1 /\ \A i \in EventsOf(s, r) : s[i].id # w.id
    BY <1>5 DEF Acceptable, Duplicate
  <2>. HIDE DEF t
  <2>3. \A n \in 1..Size(t, r) : \E i \in EventsOf(t, r) : t[i].cursor = n
    <3>. TAKE n \in 1..Size(t, r)
    <3>1. n \in 1..Size(s, r) \/ n = Size(s, r) + 1
      BY <1>1, <2>1
    <3>. QED
      BY <1>2, <1>3, <2>1, <2>2, <3>1
  <2>4. \A i \in EventsOf(t, r) : t[i].cursor \in 1..Size(t, r)
    BY <1>1, <1>2, <1>3, <2>1, <2>2
  <2>5. \A i, j \in EventsOf(t, r) :
          t[i].cursor = t[j].cursor \/ t[i].id = t[j].id => i = j
    <3>1. \A i \in EventsOf(s, r) : s[i].cursor # w.cursor
      BY <1>1, <1>3, <2>2
    <3>. QED
      BY <1>2, <1>3, <2>1, <2>2, <3>1
  <2>. QED
    BY <2>3, <2>4, <2>5
<1>. QED
  BY <1>4, <1>5

(* The event at a committed cursor stays the same.                          *)
LEMMA EventAtAppend ==
  ASSUME NEW s \in Seq(Wire), NEW w \in Wire, Numbered(s), Acceptable(s, w),
         NEW r \in Runs, NEW n \in 1..Size(s, r)
  PROVE  /\ EventAt(Append(s, w), r, n) = EventAt(s, r, n)
         /\ EventAt(s, r, n).id \in RecordIds
<1>. DEFINE t == Append(s, w)
<1>1. PICK i \in EventsOf(s, r) : s[i].cursor = n
  BY DEF Numbered
<1>2. \A j \in EventsOf(s, r) : s[j].cursor = n => j = i
  BY <1>1 DEF Numbered
<1>3. EventAt(s, r, n) = s[i]
  BY <1>1, <1>2 DEF EventAt
<1>4. i \in 1..Len(s) /\ s[i] \in Wire /\ s[i].tag = "Event"
  BY EventsAppend, ElementOfSeq DEF EventsOf
<1>5. s[i].id \in RecordIds
  BY <1>4 DEF Wire, OpenedRecord, EventRecord, CheckpointRecord
<1>6. t[i] = s[i] /\ i \in EventsOf(t, r)
  BY <1>4, EventsAppend, AppendElements
<1>7. Numbered(t)
  BY NumberedAppend
<1>. HIDE DEF t
<1>8. \A j \in EventsOf(t, r) : t[j].cursor = n => j = i
  BY <1>1, <1>6, <1>7 DEF Numbered
<1>9. EventAt(t, r, n) = t[i]
  BY <1>1, <1>6, <1>8 DEF EventAt
<1>. QED
  BY <1>3, <1>5, <1>6, <1>9 DEF t

(* A state that is exact stays exact: the log is only extended.             *)
LEMMA ExactAppend ==
  ASSUME NEW s \in Seq(Wire), NEW w \in Wire, Numbered(s), Acceptable(s, w),
         NEW r \in Runs, NEW p, p.through \in Nat, Exact(s, r, p)
  PROVE  Exact(Append(s, w), r, p)
<1>1. Size(s, r) \in Nat /\ p.through <= Size(s, r)
  BY SizeType DEF Exact
<1>2. p.through <= Size(Append(s, w), r)
  BY <1>1, EventsAppend
<1>3. \A k \in 1..p.through : k \in 1..Size(s, r)
  BY <1>1
<1>4. \A k \in 1..p.through :
        EventAt(Append(s, w), r, k).id = EventAt(s, r, k).id
  BY <1>3, EventAtAppend
<1>. QED
  BY <1>2, <1>4 DEF Exact

LEMMA LatestAppend ==
  ASSUME NEW s \in Seq(Wire), NEW w \in Wire, LatestExists(s)
  PROVE  LatestExists(Append(s, w))
<1>. DEFINE t == Append(s, w)
<1>. SUFFICES ASSUME NEW r \in Runs, CheckpointsOf(t, r) # {}
              PROVE  \E i \in CheckpointsOf(t, r) : \A j \in CheckpointsOf(t, r) : j <= i
  BY DEF LatestExists
<1>1. /\ CheckpointsOf(t, r) \subseteq 1..(Len(s) + 1)
      /\ CheckpointsOf(s, r) \subseteq 1..Len(s)
      /\ \A i \in 1..Len(s) : i \in CheckpointsOf(t, r) <=> i \in CheckpointsOf(s, r)
      /\ Len(s) \in Nat
  BY AppendElements DEF CheckpointsOf
<1>. HIDE DEF t
<1>2. CASE Len(s) + 1 \in CheckpointsOf(t, r)
  BY <1>1, <1>2
<1>3. CASE Len(s) + 1 \notin CheckpointsOf(t, r)
  <2>0. 1..(Len(s) + 1) = 1..Len(s) \cup {Len(s) + 1}
    BY <1>1
  <2>1. CheckpointsOf(t, r) = CheckpointsOf(s, r)
    <3>1. CheckpointsOf(t, r) \subseteq 1..Len(s)
      BY <1>1, <1>3, <2>0, Zenon
    <3>. QED
      BY <1>1, <3>1, Zenon
  <2>. QED
    BY <2>1 DEF LatestExists
<1>. QED
  BY <1>2, <1>3

LEMMA FileInvAppend ==
  ASSUME NEW s \in Seq(Wire), NEW w \in Wire, FileInv(s), Acceptable(s, w),
         w.tag = "Checkpoint" => Exact(s, w.run, w)
  PROVE  FileInv(Append(s, w))
<1>1. Retained(Append(s, w)) /\ Numbered(Append(s, w))
  BY RetainedAppend, NumberedAppend DEF FileInv
<1>2. ASSUME NEW i \in 1..(Len(s) + 1), Append(s, w)[i].tag = "Checkpoint"
      PROVE  Exact(Append(s, w), Append(s, w)[i].run, Append(s, w)[i])
  <2>. DEFINE v == Append(s, w)[i]
  <2>1. v \in Wire /\ Exact(s, v.run, v)
    <3>1. CASE i \in 1..Len(s)
      BY <1>2, <3>1, AppendElements, ElementOfSeq DEF FileInv, CheckpointsExact
    <3>2. CASE i = Len(s) + 1
      BY <1>2, <3>2, AppendElements
    <3>. QED
      BY <3>1, <3>2, AppendElements
  <2>2. v.run \in Runs /\ v.through \in Nat
    BY <1>2, <2>1, WireFields DEF CheckpointRecord
  <2>. HIDE DEF v
  <2>3. Exact(Append(s, w), v.run, v)
    BY <2>1, <2>2, ExactAppend DEF FileInv
  <2>. QED
    BY <2>3 DEF v
<1>3. LatestExists(Append(s, w))
  BY LatestAppend DEF FileInv
<1>. QED
  BY <1>1, <1>2, <1>3, AppendElements DEF FileInv, CheckpointsExact

-------------------------------------------------------------------------------
(* The inductive invariant: beside the file, what the cache and each call   *)
(* in progress know of it.  Only the holder of the permit writes, there is  *)
(* no cache while it does, and the record it writes was accepted against    *)
(* the file as it still is.                                                 *)

CacheInv == cache # None /\ cache.stamp = Stamp => ~torn /\ cache.records = file

CallInv(c) ==
  /\ pc[c] # "idle" => up
  /\ lock = c => pc[c] \in {"writing", "written"}
  /\ pc[c] \in {"waiting", "writing", "written"} => req[c] \in Wire
  /\ pc[c] = "loaded" => req[c] \in ReplayRequest
  /\ pc[c] \in {"waiting", "writing"} /\ req[c].tag = "Checkpoint"
       => Exact(file, req[c].run, req[c])
  /\ pc[c] \in {"writing", "written"} => lock = c /\ cache = None /\ ~torn
  /\ pc[c] = "writing" =>
       Acceptable(file, req[c]) /\ staged[c] = Append(file, req[c])
  /\ pc[c] = "written" =>
       staged[c] = file /\ \E i \in DOMAIN file : file[i] = req[c]

IInv ==
  /\ TypeOK
  /\ FileInv(file)
  /\ CacheInv
  /\ \A c \in Clients : CallInv(c)
  /\ ReplayExact
  /\ AckedDurable

LEMMA IndexIsFile ==
  ASSUME IInv, Readable
  PROVE  Index = file /\ ~torn /\ (Refreshed # None => Refreshed.stamp = Stamp /\ Refreshed.records = file)
<1>1. Index = file /\ ~torn
  BY DEF IInv, CacheInv, Readable, Index, CacheHit
<1>. QED
  BY <1>1 DEF Refreshed

LEMMA ExactZero ==
  ASSUME NEW s \in Seq(Wire), NEW r
  PROVE  Exact(s, r, [through |-> 0, state |-> <<>>])
<1>1. Size(s, r) \in Nat
  BY SizeType
<1>2. [k \in 1..0 |-> EventAt(s, r, k).id] = <<>>
  OBVIOUS
<1>. QED
  BY <1>1, <1>2 DEF Exact

LEMMA InitInv == Init => IInv
<1>. SUFFICES ASSUME Init PROVE IInv
  OBVIOUS
<1>1. file \in Seq(Wire) /\ DOMAIN file = {} /\ file = <<>>
  BY EmptySeq DEF Init
<1>2. TypeOK
  <2>1. <<>> \in Seq(RecordIds)
    BY EmptySeq
  <2>2. progress \in [Clients -> [Runs -> Reduced]]
    BY <2>1 DEF Init, Reduced
  <2>. QED
    BY <1>1, <2>2 DEF Init, TypeOK
<1>3. \A r : EventsOf(file, r) = {} /\ Size(file, r) = 0
  BY <1>1, FS_EmptySet DEF EventsOf, Size
<1>4. FileInv(file)
  BY <1>1, <1>3 DEF FileInv, Retained, Numbered, CheckpointsExact, LatestExists, CheckpointsOf
<1>5. ReplayExact
  BY <1>1, ExactZero DEF Init, ReplayExact
<1>. QED
  BY <1>2, <1>4, <1>5, RecordingAssumption DEF Init, IInv, CacheInv, CallInv, AckedDurable

(* A step that leaves the file alone and the cache as it was, dropped or    *)
(* refreshed by a successful read keeps the cache coherent.                 *)
LEMMA CacheKept ==
  ASSUME IInv, UNCHANGED <<file, torn>>,
         cache' = cache \/ cache' = None \/ (Readable /\ cache' = Refreshed)
  PROVE  CacheInv' /\ (cache' = None \/ cache' \in Cached)
BY IndexIsFile, ReadTypes DEF IInv, CacheInv, Stamp, TypeOK

(* A step that ends the call of c, changes no other call and leaves the     *)
(* file alone keeps what is known of the calls in progress.                 *)
LEMMA ReturnKept ==
  ASSUME IInv, NEW c \in Clients, Return(c), UNCHANGED <<file, torn, up>>,
         lock \in {c, None} \/ cache' = cache
  PROVE  /\ \A d \in Clients : CallInv(d)'
         /\ pc' \in [Clients -> {"idle", "waiting", "writing", "written", "loaded"}]
         /\ req' \in [Clients -> Wire \cup ReplayRequest \cup {None}]
         /\ staged' \in [Clients -> Seq(Wire) \cup {None}]
         /\ lock' \in Clients \cup {None}
<1>. USE DEF IInv, TypeOK, Return
<1>1. ASSUME NEW d \in Clients PROVE CallInv(d)'
  <2>1. CASE d = c
    BY <2>1, RecordingAssumption DEF CallInv
  <2>2. CASE d # c
    <3>1. /\ pc'[d] = pc[d] /\ req'[d] = req[d] /\ staged'[d] = staged[d]
          /\ lock' = d <=> lock = d
      BY <2>2, RecordingAssumption
    <3>2. pc[d] \in {"writing", "written"} => lock = d /\ cache' = None
      BY <2>2, RecordingAssumption DEF CallInv
    <3>3. CallInv(d)
      OBVIOUS
    <3>. QED
      BY <3>1, <3>2, <3>3 DEF CallInv
  <2>. QED
    BY <2>1, <2>2
<1>. QED
  BY <1>1

(* A step that leaves the file alone keeps what is known of it, of the      *)
(* states reduced from it and of the receipts.                              *)
LEMMA FileKept ==
  ASSUME IInv, UNCHANGED <<file, torn>>
  PROVE  /\ FileInv(file)'
         /\ progress' = progress => ReplayExact'
         /\ acked' = acked => AckedDurable'
BY DEF IInv, ReplayExact, AckedDurable

LEMMA GrantTypes ==
  ASSUME IInv, NEW c \in Clients, NEW w \in Wire, NEW e,
         Grant(c, w, e), w.tag = "Event" => e \in Wire /\ e.tag = "Event"
  PROVE  /\ handles' \in [Clients -> SUBSET (Runs \X Digests)]
         /\ acked' \in SUBSET [run : Runs, id : RecordIds, cursor : Nat \ {0}, payload : Payloads]
<1>1. <<w.run, w.digest>> \in Runs \X Digests
  BY WireFields
<1>2. w.tag = "Event" => Receipt(e) \in [run : Runs, id : RecordIds, cursor : Nat \ {0}, payload : Payloads]
  BY ReceiptType
<1>. QED
  BY <1>1, <1>2 DEF IInv, TypeOK, Grant

(* A receipt of an event that is in the file may be returned.               *)
LEMMA GrantDurable ==
  ASSUME IInv, UNCHANGED file, NEW c, NEW w, NEW e, Grant(c, w, e),
         w.tag = "Event" => e.tag = "Event" /\ \E i \in DOMAIN file : file[i] = e
  PROVE  AckedDurable'
<1>1. CASE w.tag = "Event"
  <2>1. \A a \in acked' : a \in acked \/ a = Receipt(e)
    BY <1>1 DEF Grant
  <2>. QED
    BY <1>1, <2>1 DEF IInv, AckedDurable
<1>2. CASE w.tag # "Event"
  BY <1>2 DEF IInv, AckedDurable, Grant
<1>. QED
  BY <1>1, <1>2

LEMMA StartInv == ASSUME IInv, Start PROVE IInv'
<1>1. CacheInv' /\ (cache' = None \/ cache' \in Cached)
  BY CacheKept DEF Start
<1>2. \A c \in Clients : CallInv(c)'
  <2>1. \A c \in Clients : pc[c] = "idle" /\ lock # c
    BY DEF IInv, CallInv, Start
  <2>. QED
    BY <2>1 DEF Start, CallInv
<1>. QED
  BY <1>1, <1>2, FileKept DEF IInv, TypeOK, Start

LEMMA RequestInv ==
  ASSUME IInv, NEW c \in Clients, NEW w \in Wire, Request(c, w)
  PROVE  IInv'
<1>1. CacheInv'
  BY CacheKept DEF Request
<1>2. TypeOK'
  BY DEF IInv, TypeOK, Request
<1>3. ASSUME NEW d \in Clients PROVE CallInv(d)'
  <2>1. CASE d = c
    <3>1. w.tag = "Checkpoint" => Exact(file, w.run, w)
      <4>1. w.run \in Runs
        BY WireFields
      <4>. QED
        BY <4>1 DEF IInv, ReplayExact, Exact, Request
    <3>. QED
      BY <2>1, <3>1 DEF IInv, TypeOK, CallInv, Request
  <2>2. CASE d # c
    <3>1. pc'[d] = pc[d] /\ req'[d] = req[d]
      BY <2>2 DEF IInv, TypeOK, Request
    <3>. QED
      BY <3>1 DEF IInv, CallInv, Request
  <2>. QED
    BY <2>1, <2>2
<1>. QED
  BY <1>1, <1>2, <1>3, FileKept DEF IInv, Request

LEMMA ReturnOriginalInv ==
  ASSUME IInv, NEW c \in Clients, ReturnOriginal(c)
  PROVE  IInv'
<1>1. CacheInv' /\ (cache' = None \/ cache' \in Cached)
  BY CacheKept DEF ReturnOriginal
<1>2. Index = file
  BY IndexIsFile DEF ReturnOriginal
<1>3. req[c] \in Wire
  BY DEF IInv, CallInv, ReturnOriginal
<1>4. PICK i \in DOMAIN file :
        /\ req[c].tag = "Event" => i \in Duplicate(file, req[c])
        /\ Grant(c, req[c], file[i])
  BY <1>2 DEF ReturnOriginal
<1>5. req[c].tag = "Event" => file[i] \in Wire /\ file[i].tag = "Event"
  BY <1>4, LenProperties, ElementOfSeq DEF Duplicate, EventsOf, IInv, TypeOK
<1>6. AckedDurable'
  BY <1>4, <1>5, GrantDurable DEF ReturnOriginal
<1>7. TypeOK'
  BY <1>1, <1>3, <1>4, <1>5, GrantTypes, ReturnKept DEF IInv, TypeOK, ReturnOriginal
<1>8. \A d \in Clients : CallInv(d)'
  BY ReturnKept DEF ReturnOriginal
<1>. QED
  BY <1>1, <1>6, <1>7, <1>8, FileKept DEF IInv, ReturnOriginal

LEMMA RefuseInv ==
  ASSUME IInv, NEW c \in Clients, Refuse(c)
  PROVE  IInv'
<1>1. CacheInv' /\ (cache' = None \/ cache' \in Cached)
  BY CacheKept DEF Refuse
<1>2. TypeOK'
  BY <1>1, ReturnKept DEF IInv, TypeOK, Refuse
<1>3. \A d \in Clients : CallInv(d)'
  BY ReturnKept DEF Refuse
<1>. QED
  BY <1>1, <1>2, <1>3, FileKept DEF IInv, Refuse

LEMMA AbandonInv ==
  ASSUME IInv, NEW c \in Clients, Abandon(c)
  PROVE  IInv'
<1>1. CacheInv' /\ (cache' = None \/ cache' \in Cached)
  BY CacheKept DEF Abandon
<1>2. TypeOK'
  BY <1>1, ReturnKept DEF IInv, TypeOK, Abandon
<1>3. \A d \in Clients : CallInv(d)'
  BY ReturnKept DEF Abandon
<1>. QED
  BY <1>1, <1>2, <1>3, FileKept DEF IInv, Abandon

LEMMA StatFailsInv ==
  ASSUME IInv, NEW c \in Clients, StatFails(c)
  PROVE  IInv'
<1>1. lock = c /\ cache = None /\ cache' = None
  BY DEF IInv, CallInv, StatFails
<1>2. CacheInv'
  BY <1>1, CacheKept DEF StatFails
<1>3. TypeOK'
  BY <1>1, ReturnKept DEF IInv, TypeOK, StatFails
<1>4. \A d \in Clients : CallInv(d)'
  BY <1>1, ReturnKept DEF StatFails
<1>. QED
  BY <1>2, <1>3, <1>4, FileKept DEF IInv, StatFails

LEMMA BeginWriteInv ==
  ASSUME IInv, NEW c \in Clients, BeginWrite(c)
  PROVE  IInv'
<1>1. Index = file /\ ~torn
  BY IndexIsFile DEF BeginWrite
<1>2. CacheInv'
  BY CacheKept DEF BeginWrite
<1>3. req[c] \in Wire /\ Append(file, req[c]) \in Seq(Wire)
  BY AppendElements DEF IInv, TypeOK, CallInv, BeginWrite
<1>4. TypeOK'
  BY <1>1, <1>3 DEF IInv, TypeOK, BeginWrite
<1>5. ASSUME NEW d \in Clients PROVE CallInv(d)'
  <2>1. CASE d = c
    BY <1>1, <1>3, <2>1 DEF IInv, TypeOK, CallInv, BeginWrite, ToWrite
  <2>2. CASE d # c
    <3>1. pc'[d] = pc[d] /\ req'[d] = req[d] /\ staged'[d] = staged[d]
      BY <2>2 DEF IInv, TypeOK, BeginWrite
    <3>2. CallInv(d) /\ pc[d] \notin {"writing", "written"}
      BY <2>2, RecordingAssumption DEF IInv, CallInv, BeginWrite
    <3>. QED
      BY <2>2, <3>1, <3>2 DEF CallInv, BeginWrite
  <2>. QED
    BY <2>1, <2>2
<1>. QED
  BY <1>2, <1>4, <1>5, FileKept DEF IInv, BeginWrite

-------------------------------------------------------------------------------
(* A write that reaches the file: what it does to all that refers to it.    *)

LEMMA FileExtended ==
  ASSUME IInv, NEW c \in Clients, pc[c] = "writing",
         file' = Append(file, req[c])
  PROVE  /\ file' \in Seq(Wire)
         /\ FileInv(file)'
         /\ progress' = progress => ReplayExact'
         /\ acked' = acked => AckedDurable'
         /\ \A p : \A r \in Runs : p.through \in Nat /\ Exact(file, r, p) => Exact(file', r, p)
         /\ \E i \in DOMAIN file' : file'[i] = req[c]
<1>. DEFINE w == req[c]
<1>1. /\ w \in Wire /\ Acceptable(file, w) /\ file \in Seq(Wire) /\ FileInv(file)
      /\ w.tag = "Checkpoint" => Exact(file, w.run, w)
  BY DEF IInv, TypeOK, CallInv
<1>. HIDE DEF w
<1>2. FileInv(Append(file, w)) /\ Append(file, w) \in Seq(Wire)
  BY <1>1, FileInvAppend, AppendElements
<1>3. \A p : \A r \in Runs : p.through \in Nat /\ Exact(file, r, p) => Exact(Append(file, w), r, p)
  BY <1>1, ExactAppend DEF FileInv
<1>4. file' = Append(file, w)
  BY DEF w
<1>5. progress' = progress => ReplayExact'
  <2>1. \A d \in Clients, r \in Runs : progress[d][r].through \in Nat
    BY DEF IInv, TypeOK, Reduced
  <2>. QED
    BY <1>3, <1>4, <2>1 DEF IInv, ReplayExact
<1>6. acked' = acked => AckedDurable'
  BY <1>1, <1>4, AppendElements DEF IInv, AckedDurable
<1>7. \E i \in DOMAIN file' : file'[i] = w
  BY <1>1, <1>4, AppendElements
<1>. QED
  BY <1>2, <1>3, <1>4, <1>5, <1>6, <1>7 DEF w

(* With the record of c written, the other calls see what they saw.         *)
LEMMA OthersExtended ==
  ASSUME IInv, NEW c \in Clients, pc[c] = "writing",
         file' = Append(file, req[c]), UNCHANGED up,
         NEW d \in Clients, d # c,
         pc'[d] = pc[d], req'[d] = req[d], staged'[d] = staged[d], lock' # d
  PROVE  CallInv(d)'
<1>1. lock # d /\ pc[d] \notin {"writing", "written"}
  BY RecordingAssumption DEF IInv, CallInv
<1>2. pc[d] = "waiting" /\ req[d].tag = "Checkpoint" => Exact(file', req[d].run, req[d])
  <2>1. ASSUME pc[d] = "waiting", req[d].tag = "Checkpoint"
        PROVE  /\ Exact(file, req[d].run, req[d])
               /\ req[d].run \in Runs /\ req[d].through \in Nat
    BY <2>1, WireFields DEF IInv, CallInv, CheckpointRecord
  <2>. QED
    BY <2>1, FileExtended
<1>. QED
  BY <1>1, <1>2 DEF IInv, CallInv

LEMMA WriteInv ==
  ASSUME IInv, NEW c \in Clients, Write(c)
  PROVE  IInv'
<1>1. pc[c] = "writing" /\ file' = Append(file, req[c])
  BY DEF Write
<1>2. /\ lock = c /\ cache = None /\ ~torn /\ req[c] \in Wire /\ up
      /\ staged[c] = Append(file, req[c])
  BY <1>1 DEF IInv, CallInv
<1>3. TypeOK'
  BY <1>1, FileExtended DEF IInv, TypeOK, Write
<1>4. CacheInv'
  BY <1>2 DEF CacheInv, Write
<1>5. ASSUME NEW d \in Clients PROVE CallInv(d)'
  <2>1. CASE d = c
    <3>1. \E i \in DOMAIN file' : file'[i] = req[c]
      BY <1>1, FileExtended
    <3>2. pc'[c] = "written"
      BY DEF IInv, TypeOK, Write
    <3>. QED
      BY <1>1, <1>2, <2>1, <3>1, <3>2 DEF CallInv, Write
  <2>2. CASE d # c
    <3>1. pc'[d] = pc[d] /\ req'[d] = req[d] /\ staged'[d] = staged[d] /\ lock' # d /\ up' = up
      BY <1>2, <2>2 DEF IInv, TypeOK, Write
    <3>. QED
      BY <1>1, <2>2, <3>1, OthersExtended
  <2>. QED
    BY <2>1, <2>2
<1>. QED
  BY <1>1, <1>3, <1>4, <1>5, FileExtended DEF IInv, Write

LEMMA WriteFailsInv ==
  ASSUME IInv, NEW c \in Clients, WriteFails(c)
  PROVE  IInv'
<1>1. /\ pc[c] = "writing" /\ lock = c /\ cache = None /\ ~torn /\ cache' = None
      /\ file \in Seq(Wire)
  BY DEF IInv, TypeOK, CallInv, WriteFails
<1>2. CacheInv'
  BY <1>1 DEF CacheInv
<1>3. TypeOK' /\ \A d \in Clients : CallInv(d)'
  <2>1. CASE file' = file
    <3>1. /\ \A d \in Clients : d # c => CallInv(d)'
          /\ CallInv(c)'
      <4>1. \A d \in Clients : d # c => pc[d] \notin {"writing", "written"} /\ lock # d
        BY <1>1 DEF IInv, CallInv
      <4>2. \A d \in Clients : d # c => pc'[d] = pc[d] /\ req'[d] = req[d] /\ lock' = None
        BY <1>1 DEF IInv, TypeOK, WriteFails, Return
      <4>3. pc'[c] = "idle" /\ lock' = None
        BY <1>1 DEF IInv, TypeOK, WriteFails, Return
      <4>. QED
        BY <2>1, <4>1, <4>2, <4>3, RecordingAssumption DEF IInv, CallInv, WriteFails
    <3>2. TypeOK'
      BY <1>1, <2>1 DEF IInv, TypeOK, WriteFails, Return, PartialWrite
    <3>. QED
      BY <3>1, <3>2
  <2>2. CASE file' = Append(file, req[c])
    <3>1. TypeOK'
      BY <1>1, <2>2, FileExtended DEF IInv, TypeOK, WriteFails, Return, PartialWrite
    <3>2. ASSUME NEW d \in Clients, d # c PROVE CallInv(d)'
      <4>1. pc'[d] = pc[d] /\ req'[d] = req[d] /\ staged'[d] = staged[d] /\ lock' # d /\ up' = up
        BY <1>1, <3>2, RecordingAssumption DEF IInv, TypeOK, WriteFails, Return
      <4>. QED
        BY <1>1, <2>2, <3>2, <4>1, OthersExtended
    <3>3. CallInv(c)'
      BY <1>1, RecordingAssumption DEF IInv, TypeOK, CallInv, WriteFails, Return
    <3>. QED
      BY <3>1, <3>2, <3>3
  <2>. QED
    BY <2>1, <2>2 DEF WriteFails, PartialWrite
<1>4. FileInv(file)' /\ ReplayExact' /\ AckedDurable'
  <2>1. CASE file' = file
    BY <2>1 DEF IInv, WriteFails, ReplayExact, AckedDurable
  <2>2. CASE file' = Append(file, req[c])
    BY <1>1, <2>2, FileExtended DEF WriteFails
  <2>. QED
    BY <2>1, <2>2 DEF WriteFails, PartialWrite
<1>. QED
  BY <1>2, <1>3, <1>4 DEF IInv

LEMMA SettleInv ==
  ASSUME IInv, NEW c \in Clients, Settle(c)
  PROVE  IInv'
<1>1. /\ pc[c] = "written" /\ lock = c /\ ~torn /\ req[c] \in Wire
      /\ staged[c] = file /\ \E i \in DOMAIN file : file[i] = req[c]
  BY DEF IInv, CallInv, Settle
<1>2. CacheInv'
  BY <1>1 DEF CacheInv, Settle, Stamp
<1>3. cache' \in Cached
  <2>1. Stamp \in Nat \X BOOLEAN
    BY ReadTypes DEF IInv
  <2>. QED
    BY <1>1, <2>1 DEF IInv, TypeOK, Cached, Settle
<1>4. TypeOK'
  BY <1>1, <1>3, GrantTypes, ReturnKept DEF IInv, TypeOK, Settle
<1>5. \A d \in Clients : CallInv(d)'
  BY <1>1, ReturnKept DEF Settle
<1>6. AckedDurable'
  BY <1>1, GrantDurable DEF Settle
<1>. QED
  BY <1>2, <1>4, <1>5, <1>6, FileKept DEF IInv, Settle

-------------------------------------------------------------------------------
(* Replay.                                                                  *)

(* The identities of n events of a run, from the one after cursor m.        *)
Ids(s, r, m, n) == [k \in 1..n |-> EventAt(s, r, m + k).id]

LEMMA IdsType ==
  ASSUME NEW s \in Seq(Wire), Numbered(s), NEW r \in Runs,
         NEW m \in Nat, NEW n \in Nat, m + n <= Size(s, r)
  PROVE  /\ Ids(s, r, m, n) \in Seq(RecordIds)
         /\ Len(Ids(s, r, m, n)) = n
         /\ \A k \in 1..n : Ids(s, r, m, n)[k] = EventAt(s, r, m + k).id
<1>1. \A j \in 1..Size(s, r) : EventAt(s, r, j).id \in RecordIds
  <2>. TAKE j \in 1..Size(s, r)
  <2>1. PICK i \in EventsOf(s, r) : s[i].cursor = j
    BY DEF Numbered
  <2>2. \A h \in EventsOf(s, r) : s[h].cursor = j => h = i
    BY <2>1 DEF Numbered
  <2>3. EventAt(s, r, j) = s[i]
    BY <2>1, <2>2 DEF EventAt
  <2>4. s[i] \in Wire /\ s[i].tag = "Event"
    BY LenProperties, ElementOfSeq DEF EventsOf
  <2>. QED
    BY <2>3, <2>4, WireFields DEF EventRecord
<1>2. Size(s, r) \in Nat
  BY SizeType
<1>3. \A k \in 1..n : m + k \in 1..Size(s, r)
  BY <1>2
<1>4. Ids(s, r, m, n) \in [1..n -> RecordIds]
  BY <1>1, <1>3 DEF Ids
<1>5. \A k \in 1..n : Ids(s, r, m, n)[k] = EventAt(s, r, m + k).id
  BY DEF Ids
<1>. HIDE DEF Ids
<1>. QED
  BY <1>4, <1>5, SeqDef, LenProperties

(* Two stretches of events, one after the other, are one stretch.           *)
LEMMA IdsConcat ==
  ASSUME NEW s \in Seq(Wire), Numbered(s), NEW r \in Runs,
         NEW m \in Nat, NEW d \in Nat, m + d <= Size(s, r)
  PROVE  Ids(s, r, 0, m) \o Ids(s, r, m, d) = Ids(s, r, 0, m + d)
<1>0. Size(s, r) \in Nat
  BY SizeType
<1>1. /\ Ids(s, r, 0, m) \in Seq(RecordIds) /\ Len(Ids(s, r, 0, m)) = m
      /\ \A k \in 1..m : Ids(s, r, 0, m)[k] = EventAt(s, r, 0 + k).id
  BY <1>0, IdsType
<1>2. /\ Ids(s, r, m, d) \in Seq(RecordIds) /\ Len(Ids(s, r, m, d)) = d
      /\ \A k \in 1..d : Ids(s, r, m, d)[k] = EventAt(s, r, m + k).id
  BY IdsType
<1>3. /\ Ids(s, r, 0, m + d) \in Seq(RecordIds) /\ Len(Ids(s, r, 0, m + d)) = m + d
      /\ \A k \in 1..(m + d) : Ids(s, r, 0, m + d)[k] = EventAt(s, r, 0 + k).id
  <2>1. m + d \in Nat /\ 0 + (m + d) <= Size(s, r)
    OBVIOUS
  <2>. QED
    BY <2>1, IdsType
<1>. DEFINE pre == Ids(s, r, 0, m)
            post == Ids(s, r, m, d)
            all == Ids(s, r, 0, m + d)
<1>4. /\ pre \o post \in Seq(RecordIds)
      /\ Len(pre \o post) = m + d
      /\ \A i \in 1..(m + d) : (pre \o post)[i] = IF i <= m THEN pre[i] ELSE post[i - m]
  <2>1. pre \in Seq(RecordIds) /\ Len(pre) = m /\ post \in Seq(RecordIds) /\ Len(post) = d
    BY <1>1, <1>2
  <2>. HIDE DEF pre, post
  <2>. QED
    BY <2>1, ConcatProperties
<1>5. \A i \in 1..(m + d) : (pre \o post)[i] = all[i]
  <2>. TAKE i \in 1..(m + d)
  <2>1. CASE i <= m
    <3>1. i \in 1..m
      BY <2>1
    <3>. QED
      BY <1>1, <1>3, <1>4, <2>1, <3>1
  <2>2. CASE ~(i <= m)
    <3>1. i - m \in 1..d /\ m + (i - m) = 0 + i
      BY <2>2
    <3>. QED
      BY <1>2, <1>3, <1>4, <2>2, <3>1
  <2>. QED
    BY <2>1, <2>2
<1>6. all \in Seq(RecordIds) /\ Len(all) = m + d
  BY <1>3
<1>. HIDE DEF pre, post, all
<1>7. pre \o post = all
  BY <1>4, <1>5, <1>6, SeqEqual
<1>. QED
  BY <1>7 DEF pre, post, all

(* An exact state is the stretch from the start.                            *)
LEMMA ExactIds ==
  ASSUME NEW s, NEW r, NEW p
  PROVE  Exact(s, r, p) <=> p.through <= Size(s, r) /\ p.state = Ids(s, r, 0, p.through)
<1>1. Ids(s, r, 0, p.through) = [k \in 1..p.through |-> EventAt(s, r, k).id]
  BY DEF Ids
<1>. QED
  BY <1>1 DEF Exact

(* Reducing the tail after an exact state gives the exact state at the tail.*)
LEMMA ReduceTailExact ==
  ASSUME NEW s \in Seq(Wire), Numbered(s), NEW r \in Runs,
         NEW p \in Reduced, Exact(s, r, p)
  PROVE  ReduceTail(s, r, p) \in Reduced /\ Exact(s, r, ReduceTail(s, r, p))
<1>. DEFINE n == Size(s, r)
            m == p.through
            q == ReduceTail(s, r, p)
<1>1. n \in Nat /\ m \in Nat /\ m <= n /\ p.state = Ids(s, r, 0, m)
  BY SizeType, ExactIds DEF Reduced
<1>2. n - m \in Nat /\ m + (n - m) = n
  BY <1>1
<1>3. q.through = n /\ q.state = p.state \o Ids(s, r, m, n - m)
  BY DEF ReduceTail, Ids
<1>4. q = [through |-> q.through, state |-> q.state]
  BY DEF ReduceTail
<1>5. Ids(s, r, 0, m) \o Ids(s, r, m, n - m) = Ids(s, r, 0, n)
  <2>1. m + (n - m) <= Size(s, r)
    BY <1>1, <1>2
  <2>2. Ids(s, r, 0, m) \o Ids(s, r, m, n - m) = Ids(s, r, 0, m + (n - m))
    BY <1>1, <1>2, <2>1, IdsConcat
  <2>. QED
    BY <1>2, <2>2
<1>6. Ids(s, r, 0, n) \in Seq(RecordIds)
  <2>1. 0 + n <= Size(s, r)
    BY <1>1
  <2>. QED
    BY <1>1, <2>1, IdsType
<1>7. q.through = n /\ q.state = Ids(s, r, 0, n)
  BY <1>1, <1>3, <1>5
<1>8. q \in Reduced
  <2>. HIDE DEF q, n
  <2>. QED
    BY <1>1, <1>4, <1>6, <1>7 DEF Reduced
<1>9. Exact(s, r, q)
  <2>. HIDE DEF q
  <2>1. q.through <= Size(s, r) /\ q.state = Ids(s, r, 0, q.through)
    BY <1>1, <1>7
  <2>. QED
    BY <2>1, ExactIds
<1>. QED
  BY <1>8, <1>9

LEMMA LatestCheckpointExact ==
  ASSUME NEW s \in Seq(Wire), FileInv(s), NEW r \in Runs
  PROVE  LatestCheckpoint(s, r) \in Reduced /\ Exact(s, r, LatestCheckpoint(s, r))
<1>1. CASE CheckpointsOf(s, r) = {}
  <2>1. <<>> \in Seq(RecordIds)
    BY EmptySeq
  <2>. QED
    BY <1>1, <2>1, ExactZero DEF LatestCheckpoint, Reduced
<1>2. CASE CheckpointsOf(s, r) # {}
  <2>. DEFINE last == CHOOSE i \in CheckpointsOf(s, r) : \A j \in CheckpointsOf(s, r) : j <= i
  <2>1. last \in CheckpointsOf(s, r)
    BY <1>2 DEF FileInv, LatestExists
  <2>2. LatestCheckpoint(s, r) = [through |-> s[last].through, state |-> s[last].state]
    BY <1>2 DEF LatestCheckpoint
  <2>. HIDE DEF last
  <2>3. /\ last \in DOMAIN s /\ s[last] \in Wire
        /\ s[last].tag = "Checkpoint" /\ s[last].run = r
    BY <2>1, LenProperties, ElementOfSeq DEF CheckpointsOf
  <2>4. s[last] \in CheckpointRecord /\ Exact(s, r, s[last])
    BY <2>3, WireFields DEF FileInv, CheckpointsExact
  <2>. QED
    BY <2>2, <2>4 DEF Exact, Reduced, CheckpointRecord
<1>. QED
  BY <1>1, <1>2

LEMMA LoadCheckpointInv ==
  ASSUME IInv, NEW c \in Clients, NEW r \in Runs, LoadCheckpoint(c, r)
  PROVE  IInv'
<1>1. CacheInv' /\ (cache' = None \/ cache' \in Cached)
  BY CacheKept DEF LoadCheckpoint
<1>. DEFINE p == LatestCheckpoint(file, r)
<1>2. p \in Reduced /\ Exact(file, r, p)
  BY LatestCheckpointExact DEF IInv, TypeOK
<1>3. progress' = [progress EXCEPT ![c][r] = p]
  BY IndexIsFile DEF LoadCheckpoint
<1>. HIDE DEF p
<1>4. ReplayExact' /\ progress' \in [Clients -> [Runs -> Reduced]]
  BY <1>2, <1>3 DEF IInv, TypeOK, ReplayExact, LoadCheckpoint
<1>5. TypeOK'
  BY <1>1, <1>4 DEF IInv, TypeOK, LoadCheckpoint, ReplayRequest
<1>6. ASSUME NEW d \in Clients PROVE CallInv(d)'
  <2>1. CASE d = c
    BY <2>1, RecordingAssumption DEF IInv, TypeOK, CallInv, LoadCheckpoint, ReplayRequest
  <2>2. CASE d # c
    <3>1. pc'[d] = pc[d] /\ req'[d] = req[d] /\ staged'[d] = staged[d]
      BY <2>2 DEF IInv, TypeOK, LoadCheckpoint
    <3>2. CallInv(d) /\ pc[d] \notin {"writing", "written"}
      BY RecordingAssumption DEF IInv, CallInv, LoadCheckpoint
    <3>. QED
      BY <3>1, <3>2 DEF CallInv, LoadCheckpoint
  <2>. QED
    BY <2>1, <2>2
<1>. QED
  BY <1>1, <1>4, <1>5, <1>6, FileKept DEF IInv, LoadCheckpoint

LEMMA ReadTailInv ==
  ASSUME IInv, NEW c \in Clients, ReadTail(c)
  PROVE  IInv'
<1>. DEFINE r == req[c].run
            p == ReduceTail(file, r, progress[c][r])
<1>1. CacheInv' /\ (cache' = None \/ cache' \in Cached)
  BY CacheKept DEF ReadTail
<1>2. r \in Runs /\ progress[c][r] \in Reduced
  BY DEF IInv, TypeOK, CallInv, ReadTail, ReplayRequest
<1>3. p \in Reduced /\ Exact(file, r, p)
  BY <1>2, ReduceTailExact DEF IInv, TypeOK, FileInv, ReplayExact
<1>4. progress' = progress \/ progress' = [progress EXCEPT ![c][r] = p]
  BY IndexIsFile DEF ReadTail
<1>. HIDE DEF p, r
<1>5. ReplayExact' /\ progress' \in [Clients -> [Runs -> Reduced]]
  BY <1>2, <1>3, <1>4 DEF IInv, TypeOK, ReplayExact, ReadTail
<1>6. TypeOK'
  BY <1>1, <1>5, ReturnKept DEF IInv, TypeOK, ReadTail
<1>7. \A d \in Clients : CallInv(d)'
  BY ReturnKept DEF ReadTail
<1>. QED
  BY <1>1, <1>5, <1>6, <1>7, FileKept DEF IInv, ReadTail

(* After a crash nothing is known but the file and the receipts returned.   *)
LEMMA CrashInv ==
  ASSUME IInv, Crash
  PROVE  IInv'
<1>1. \/ file' = file
      \/ \E c \in Clients : pc[c] = "writing" /\ file' = Append(file, req[c])
  BY DEF Crash, PartialWrite
<1>2. file' \in Seq(Wire) /\ FileInv(file)' /\ AckedDurable' /\ torn' \in BOOLEAN
  <2>0. torn' \in BOOLEAN
    BY DEF IInv, TypeOK, Crash, PartialWrite
  <2>1. CASE file' = file
    BY <2>0, <2>1 DEF IInv, TypeOK, AckedDurable, Crash
  <2>2. CASE \E c \in Clients : pc[c] = "writing" /\ file' = Append(file, req[c])
    BY <2>0, <2>2, FileExtended DEF Crash
  <2>. QED
    BY <1>1, <2>1, <2>2
<1>3. <<>> \in Seq(RecordIds)
  BY EmptySeq
<1>4. TypeOK'
  BY <1>2, <1>3 DEF IInv, TypeOK, Crash, Reduced
<1>5. ReplayExact'
  BY <1>2, ExactZero DEF ReplayExact, Crash
<1>6. \A c \in Clients : CallInv(c)'
  BY RecordingAssumption DEF CallInv, Crash
<1>. QED
  BY <1>2, <1>4, <1>5, <1>6 DEF IInv, CacheInv, Crash

(* The records the callers ask to commit are wire records.                  *)
LEMMA RequestsTyped ==
  ASSUME IInv, NEW c \in Clients,
         RequestOpen(c) \/ RequestAppend(c) \/ RequestCheckpoint(c)
  PROVE  \E w \in Wire : Request(c, w)
<1>1. \A h \in handles[c] : h[1] \in Runs /\ h[2] \in Digests /\ progress[c][h[1]] \in Reduced
  BY DEF IInv, TypeOK
<1>2. CASE RequestOpen(c)
  BY <1>2 DEF RequestOpen, Wire, OpenedRecord
<1>3. CASE RequestAppend(c)
  <2>1. PICK h \in handles[c], i \in RecordIds, p \in Payloads, e \in 0..MaxLines :
          Request(c, [tag |-> "Event", run |-> h[1], digest |-> h[2],
                      id |-> i, cursor |-> e + 1, payload |-> p])
    BY <1>3 DEF RequestAppend
  <2>2. e + 1 \in Nat \ {0}
    BY RecordingAssumption
  <2>3. [tag |-> "Event", run |-> h[1], digest |-> h[2],
         id |-> i, cursor |-> e + 1, payload |-> p] \in EventRecord
    BY <1>1, <2>2 DEF EventRecord
  <2>. QED
    BY <2>1, <2>3 DEF Wire
<1>4. CASE RequestCheckpoint(c)
  <2>1. PICK h \in handles[c] :
          Request(c, [tag |-> "Checkpoint", run |-> h[1], digest |-> h[2],
                      through |-> progress[c][h[1]].through,
                      state |-> progress[c][h[1]].state])
    BY <1>4 DEF RequestCheckpoint
  <2>2. [tag |-> "Checkpoint", run |-> h[1], digest |-> h[2],
         through |-> progress[c][h[1]].through,
         state |-> progress[c][h[1]].state] \in CheckpointRecord
    BY <1>1 DEF CheckpointRecord, Reduced
  <2>. QED
    BY <2>1, <2>2 DEF Wire
<1>. QED
  BY <1>2, <1>3, <1>4

LEMMA NextInv ==
  ASSUME IInv, Next
  PROVE  IInv'
<1>1. CASE Start
  BY <1>1, StartInv
<1>2. CASE Crash
  BY <1>2, CrashInv
<1>3. ASSUME NEW c \in Clients, Call(c) PROVE IInv'
  <2>1. CASE RequestOpen(c) \/ RequestAppend(c) \/ RequestCheckpoint(c)
    BY <2>1, RequestsTyped, RequestInv
  <2>2. CASE ReturnOriginal(c)
    BY <2>2, ReturnOriginalInv
  <2>3. CASE Refuse(c)
    BY <2>3, RefuseInv
  <2>4. CASE BeginWrite(c)
    BY <2>4, BeginWriteInv
  <2>5. CASE Write(c)
    BY <2>5, WriteInv
  <2>6. CASE WriteFails(c)
    BY <2>6, WriteFailsInv
  <2>7. CASE Settle(c)
    BY <2>7, SettleInv
  <2>8. CASE StatFails(c)
    BY <2>8, StatFailsInv
  <2>9. CASE Abandon(c)
    BY <2>9, AbandonInv
  <2>10. CASE \E r \in Runs : LoadCheckpoint(c, r)
    BY <2>10, LoadCheckpointInv
  <2>11. CASE ReadTail(c)
    BY <2>11, ReadTailInv
  <2>. QED
    BY <1>3, <2>1, <2>2, <2>3, <2>4, <2>5, <2>6, <2>7, <2>8, <2>9, <2>10, <2>11
       DEF Call, Replay
<1>. QED
  BY <1>1, <1>2, <1>3 DEF Next

LEMMA StutterInv ==
  ASSUME IInv, UNCHANGED vars
  PROVE  IInv'
<1>. USE DEF vars
<1>1. TypeOK' /\ CacheInv' /\ ReplayExact' /\ AckedDurable'
  BY DEF IInv, TypeOK, CacheInv, Stamp, ReplayExact, AckedDurable
<1>2. \A c \in Clients : CallInv(c)'
  BY DEF IInv, CallInv
<1>. QED
  BY <1>1, <1>2 DEF IInv

(* The invariant on which the theorems below rest.                          *)
THEOREM InvariantHolds == Spec => []IInv
<1>1. IInv /\ [Next]_vars => IInv'
  BY NextInv, StutterInv
<1>. QED
  BY <1>1, InitInv, PTL DEF Spec

(* Every variable keeps its type, whatever calls fail or crash.             *)
THEOREM TypesHold == Spec => []TypeOK
<1>1. IInv => TypeOK
  BY DEF IInv
<1>. QED
  BY <1>1, InvariantHolds, PTL

(* Every complete line of the file is one that the strict reader accepts,   *)
(* however many writes failed, were repeated or were cut by a crash.        *)
THEOREM RecordsStayReadable == Spec => []RecordsReadable
<1>1. IInv => RecordsReadable
  BY DEF IInv, FileInv, RecordsReadable
<1>. QED
  BY <1>1, InvariantHolds, PTL

(* A cached index that the stat lets a read use is the index of the file.   *)
THEOREM CacheStaysCoherent == Spec => []CacheCoherent
<1>1. IInv => CacheCoherent
  BY DEF IInv, CacheInv, CacheCoherent, CacheHit
<1>. QED
  BY <1>1, InvariantHolds, PTL

(* A receipt that a caller was given names an event of the file for ever.   *)
THEOREM ReceiptsDurable == Spec => []AckedDurable
<1>1. IInv => AckedDurable
  BY DEF IInv
<1>. QED
  BY <1>1, InvariantHolds, PTL

(* What replay returns is the reduction of exactly the events it claims.    *)
THEOREM ReplayIsExact == Spec => []ReplayExact
<1>1. IInv => ReplayExact
  BY DEF IInv
<1>. QED
  BY <1>1, InvariantHolds, PTL

-------------------------------------------------------------------------------
(* What a step may never do, and the abstract log.                          *)

(* A recording that ends in a partial line is never written to again.       *)
THEOREM DamageStays == Spec => DamageIsFinal
<1>1. ASSUME IInv, [Next]_vars
      PROVE  [torn => UNCHANGED <<file, torn>>]_vars
  <2>1. SUFFICES ASSUME Next, torn PROVE UNCHANGED <<file, torn>>
    BY <1>1
  <2>2. \A c \in Clients : pc[c] # "writing"
    BY <1>1, <2>1 DEF IInv, CallInv
  <2>3. CASE Start
    BY <2>3 DEF Start
  <2>4. CASE Crash
    BY <2>2, <2>4 DEF Crash
  <2>5. ASSUME NEW c \in Clients, Call(c) PROVE UNCHANGED <<file, torn>>
    <3>1. CASE RequestOpen(c) \/ RequestAppend(c) \/ RequestCheckpoint(c)
      <4>1. \E w \in Wire : Request(c, w)
        BY <1>1, <3>1, RequestsTyped
      <4>. QED
        BY <4>1 DEF Request
    <3>2. CASE ReturnOriginal(c) \/ Refuse(c) \/ BeginWrite(c)
      BY <3>2 DEF ReturnOriginal, Refuse, BeginWrite
    <3>3. CASE Write(c) \/ WriteFails(c)
      BY <2>2, <3>3 DEF Write, WriteFails
    <3>4. CASE Settle(c) \/ StatFails(c) \/ Abandon(c) \/ Replay(c)
      BY <3>4 DEF Settle, StatFails, Abandon, Replay, LoadCheckpoint, ReadTail
    <3>. QED
      BY <2>5, <3>1, <3>2, <3>3, <3>4 DEF Call
  <2>. QED
    BY <2>1, <2>3, <2>4, <2>5 DEF Next
<1>. QED
  BY <1>1, InvariantHolds, PTL DEF Spec, DamageIsFinal

(* The abstract log has as many events of a run as the file has.            *)
LEMMA LogSize ==
  ASSUME IInv, NEW r \in Runs
  PROVE  Log!Cardinality(Log!OfRun(r)) = Size(file, r)
<1>. DEFINE f == [i \in EventsOf(file, r) |-> Receipt(file[i])]
<1>1. IsFiniteSet(EventsOf(file, r))
  BY SizeType DEF IInv, TypeOK
<1>2. Log!OfRun(r) = {Receipt(file[i]) : i \in EventsOf(file, r)}
  BY DEF Log!OfRun, Committed, EventsOf, Receipt
<1>3. f \in Bijection(EventsOf(file, r), Log!OfRun(r))
  <2>1. f \in [EventsOf(file, r) -> Log!OfRun(r)]
    BY <1>2
  <2>2. \A i, j \in EventsOf(file, r) : f[i] = f[j] => i = j
    <3>1. \A i, j \in EventsOf(file, r) : f[i] = f[j] => file[i].cursor = file[j].cursor
      BY DEF Receipt
    <3>. QED
      BY <3>1 DEF IInv, FileInv, Numbered
  <2>3. \A e \in Log!OfRun(r) : \E i \in EventsOf(file, r) : f[i] = e
    BY <1>2
  <2>. HIDE DEF f
  <2>. QED
    BY <2>1, <2>2, <2>3 DEF Bijection, Injection, Surjection, IsInjective
<1>. HIDE DEF f
<1>4. Cardinality(Log!OfRun(r)) = Size(file, r)
  BY <1>1, <1>3, FS_Bijection DEF Size, ExistsBijection
<1>5. Log!Cardinality(Log!OfRun(r)) = Cardinality(Log!OfRun(r))
  BY DEF Log!Cardinality, Cardinality
<1>. QED
  BY <1>4, <1>5

(* A record that reaches the file adds its event, if it is one, to the log. *)
LEMMA CommittedAppend ==
  ASSUME IInv, NEW c \in Clients, pc[c] = "writing",
         file' = Append(file, req[c]), UNCHANGED acked
  PROVE  [Log!Next]_(Log!vars)
<1>. DEFINE w == req[c]
<1>1. w \in Wire /\ Acceptable(file, w) /\ file \in Seq(Wire)
  BY DEF IInv, TypeOK, CallInv
<1>. HIDE DEF w
<1>2. file' = Append(file, w)
  BY DEF w
<1>3. /\ DOMAIN file = 1..Len(file)
      /\ DOMAIN file' = 1..Len(file) \cup {Len(file) + 1}
      /\ \A i \in 1..Len(file) : file'[i] = file[i]
      /\ file'[Len(file) + 1] = w
  <2>1. Len(file) \in Nat
    BY <1>1, AppendElements
  <2>2. 1..(Len(file) + 1) = 1..Len(file) \cup {Len(file) + 1}
    BY <2>1
  <2>. QED
    BY <1>1, <1>2, <2>2, AppendElements
<1>4. CASE w.tag # "Event"
  <2>1. Committed' = Committed
    BY <1>3, <1>4 DEF Committed
  <2>. QED
    BY <2>1 DEF Log!vars
<1>5. CASE w.tag = "Event"
  <2>1. Committed' = Committed \cup {Receipt(w)}
    BY <1>3, <1>5 DEF Committed
  <2>2. /\ w.run \in Runs /\ w.id \in RecordIds /\ w.payload \in Payloads
        /\ w.cursor = Size(file, w.run) + 1 /\ Duplicate(file, w) = {}
    BY <1>1, <1>5, WireFields DEF Acceptable, EventRecord
  <2>3. Receipt(w) = [run |-> w.run, id |-> w.id,
          cursor |-> Log!Cardinality(Log!OfRun(w.run)) + 1, payload |-> w.payload]
    BY <2>2, LogSize DEF Receipt
  <2>4. \A x \in Log!OfRun(w.run) : x.id # w.id
    BY <2>2 DEF Log!OfRun, Committed, Receipt, Duplicate, EventsOf
  <2>5. Log!Commit(w.run, w.id, w.payload)
    BY <2>1, <2>3, <2>4 DEF Log!Commit
  <2>. QED
    BY <2>2, <2>5 DEF Log!Next, Log!CommitSome
<1>. QED
  BY <1>4, <1>5

(* A receipt that is returned is that of an event in the log.               *)
LEMMA GrantAcknowledges ==
  ASSUME IInv, UNCHANGED file, NEW c, NEW w, NEW e, Grant(c, w, e),
         w.tag = "Event" => e.tag = "Event" /\ \E i \in DOMAIN file : file[i] = e
  PROVE  [Log!Next]_(Log!vars)
<1>1. Committed' = Committed
  BY DEF Committed
<1>2. CASE w.tag = "Event"
  <2>1. Receipt(e) \in Committed
    BY <1>2 DEF Committed
  <2>2. Log!Acknowledge(Receipt(e))
    BY <1>1, <1>2, <2>1 DEF Log!Acknowledge, Grant
  <2>. QED
    BY <2>1, <2>2 DEF Log!Next, Log!AcknowledgeSome
<1>3. CASE w.tag # "Event"
  BY <1>1, <1>3 DEF Grant, Log!vars
<1>. QED
  BY <1>2, <1>3

LEMMA StepImplements ==
  ASSUME IInv, [Next]_vars
  PROVE  [Log!Next]_(Log!vars)
<1>1. ASSUME UNCHANGED <<file, acked>> PROVE [Log!Next]_(Log!vars)
  BY <1>1 DEF Committed, Log!vars
<1>2. CASE UNCHANGED vars
  BY <1>1, <1>2 DEF vars
<1>3. CASE Start
  BY <1>1, <1>3 DEF Start
<1>4. CASE Crash
  BY <1>1, <1>4, CommittedAppend DEF Crash, PartialWrite
<1>5. ASSUME NEW c \in Clients, Call(c) PROVE [Log!Next]_(Log!vars)
  <2>1. CASE RequestOpen(c) \/ RequestAppend(c) \/ RequestCheckpoint(c)
    <3>1. \E w \in Wire : Request(c, w)
      BY <2>1, RequestsTyped
    <3>. QED
      BY <1>1, <3>1 DEF Request
  <2>2. CASE ReturnOriginal(c)
    <3>1. Index = file
      BY <2>2, IndexIsFile DEF ReturnOriginal
    <3>2. PICK i \in DOMAIN file :
            /\ req[c].tag = "Event" => i \in Duplicate(file, req[c])
            /\ Grant(c, req[c], file[i])
      BY <2>2, <3>1 DEF ReturnOriginal
    <3>. QED
      BY <2>2, <3>2, GrantAcknowledges DEF ReturnOriginal, Duplicate, EventsOf
  <2>3. CASE Refuse(c) \/ BeginWrite(c) \/ StatFails(c) \/ Abandon(c)
    BY <1>1, <2>3 DEF Refuse, BeginWrite, StatFails, Abandon
  <2>4. CASE Write(c)
    BY <2>4, CommittedAppend DEF Write
  <2>5. CASE WriteFails(c)
    BY <1>1, <2>5, CommittedAppend DEF WriteFails, PartialWrite
  <2>6. CASE Settle(c)
    <3>1. \E i \in DOMAIN file : file[i] = req[c]
      BY <2>6 DEF IInv, CallInv, Settle
    <3>. QED
      BY <2>6, <3>1, GrantAcknowledges DEF Settle
  <2>7. CASE Replay(c)
    BY <1>1, <2>7 DEF Replay, LoadCheckpoint, ReadTail
  <2>. QED
    BY <1>5, <2>1, <2>2, <2>3, <2>4, <2>5, <2>6, <2>7 DEF Call
<1>. QED
  BY <1>2, <1>3, <1>4, <1>5 DEF Next

(* The events of the file, with the receipts returned, are an EventLog:     *)
(* every step commits one event of one run at the next cursor, returns the  *)
(* receipt of a committed event, or changes neither.                        *)
THEOREM RecordingIsEventLog == Spec => ImplementsEventLog
<1>1. Init => Log!Init
  BY DEF Init, Log!Init, Committed
<1>. QED
  BY <1>1, StepImplements, InvariantHolds, PTL DEF Spec, ImplementsEventLog, Log!Spec
===============================================================================
