----------------------------- MODULE BatchTally -----------------------------
(***************************************************************************)
(* What GET /batches/:batch_id promises a client that polls it, apart from *)
(* how jobs and rows bring it about: the number of orders is fixed when    *)
(* the batch is submitted, the invalid ones count at once, every other     *)
(* order counts once, one at a time, and the batch is completed with the   *)
(* step that counts the last one (DESIGN.md:150-152).                      *)
(***************************************************************************)
EXTENDS Naturals

CONSTANT Batch

VARIABLES
  total,     \* batch -> its orders, 0 until it is submitted
  counted,   \* batch -> success_count + failure_count
  completed  \* batch -> status is COMPLETED

tally == <<total, counted, completed>>

TallyInit == /\ total = [b \in Batch |-> 0] /\ counted = [b \in Batch |-> 0]
             /\ completed = [b \in Batch |-> FALSE]

Submit(b) == /\ total[b] = 0
             /\ total'[b] \in Nat \ {0} /\ counted'[b] \in 0..total'[b]
             /\ total' = [total EXCEPT ![b] = total'[b]]
             /\ counted' = [counted EXCEPT ![b] = counted'[b]]
             /\ completed' = [completed EXCEPT ![b] = (counted'[b] = total'[b])]

CountOne(b) == /\ counted[b] < total[b]
               /\ counted' = [counted EXCEPT ![b] = @ + 1]
               /\ completed' = [completed EXCEPT ![b] = (counted[b] + 1 = total[b])]
               /\ UNCHANGED total

TallyNext == \E b \in Batch : Submit(b) \/ CountOne(b)

TallySpec == TallyInit /\ [][TallyNext]_tally
=============================================================================
