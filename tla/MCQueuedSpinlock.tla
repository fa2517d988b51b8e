-------------------------- MODULE MCQueuedSpinlock --------------------------
(* Small instances of QueuedSpinlock for TLC. *)
EXTENDS QueuedSpinlock

\* The threads behave alike whatever their first count is; one uncleared pool
\* with different counts is enough for the large instance.
MixedInit == Init /\ count = [t \in Threads |-> t % 4]
MixedFairSpec ==
  MixedInit /\ [][Next]_vars /\ \A t \in Threads : WF_vars(Step(t))
=============================================================================
