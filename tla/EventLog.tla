------------------------------- MODULE EventLog -------------------------------
(***************************************************************************)
(* What StudyStorage promises of the events of its runs, with the storage   *)
(* left out: an event gets the next cursor of its run when it is committed, *)
(* its identity is never used twice in a run, and a receipt is handed out   *)
(* only for a committed event.  Recording.tla is shown to implement this    *)
(* specification, crashes and failed writes included.                       *)
(***************************************************************************)
EXTENDS Naturals, FiniteSets

CONSTANTS Runs, RecordIds, Payloads

VARIABLES
  committed,   \* the events of all runs, with the cursor each one was given
  acked        \* the receipts callers hold (each with the payload it stands for)

vars == <<committed, acked>>

OfRun(r) == {e \in committed : e.run = r}

Init == committed = {} /\ acked = {}

(* One event becomes part of its run, at the position after the last one.  *)
Commit(r, i, p) ==
  /\ \A x \in OfRun(r) : x.id # i
  /\ committed' = committed \cup
       {[run |-> r, id |-> i, cursor |-> Cardinality(OfRun(r)) + 1, payload |-> p]}
  /\ UNCHANGED acked

(* A caller learns the receipt of a committed event: of one it has just    *)
(* written, or of the original when it repeats a request.                  *)
Acknowledge(e) ==
  /\ e \in committed
  /\ acked' = acked \cup {e}
  /\ UNCHANGED committed

CommitSome == \E r \in Runs, i \in RecordIds, p \in Payloads : Commit(r, i, p)
AcknowledgeSome == \E e \in committed : Acknowledge(e)

Next == CommitSome \/ AcknowledgeSome

Spec == Init /\ [][Next]_vars
===============================================================================
