----------------------------- MODULE MCRecording ------------------------------
(* Recording for TLC: two callers and two runs, opened under two            *)
(* definitions; two identities and two payloads give retries of the same    *)
(* event, conflicting content and conflicting cursors.  Only the data is    *)
(* symmetric: fairness and CallsReturn name the callers, and neither names  *)
(* a run, a digest, an identity or a payload, so the reduction is sound for *)
(* the liveness that is checked in the same run.                            *)
EXTENDS Recording, TLC

Symmetry ==
  Permutations(Runs) \cup Permutations(Digests)
    \cup Permutations(RecordIds) \cup Permutations(Payloads)
===============================================================================
