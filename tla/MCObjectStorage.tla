--------------------------- MODULE MCObjectStorage ---------------------------
(* One image, whose objects and runs are all that interact here. *)
EXTENDS ObjectStorage

CONSTANTS i1, w1, w2

MCImages  == {i1}
MCWorkers == {w1, w2}
MCSimilar == [i \in MCImages |-> {}]

=============================================================================
