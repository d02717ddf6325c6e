------------------------------ MODULE CommitRun ------------------------------
(***************************************************************************)
(* What a batch may commit for one partition, as a function of the set S  *)
(* of next-offsets (record offset + 1) registered as processed.  The code *)
(* computes it with a loop over a map (OffsetTracker models that loop and  *)
(* shows that it computes this operator).                                  *)
(***************************************************************************)
EXTENDS Naturals, FiniteSetsExt

\* e is the last element of the run of consecutive numbers that starts at the
\* least element of S.
IsRunEnd(S, e) ==
    /\ e \in S
    /\ \A k \in Min(S) .. e : k \in S
    /\ e + 1 \notin S

RunEnd(S) == CHOOSE e \in S : IsRunEnd(S, e)

=============================================================================
