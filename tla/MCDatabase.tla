------------------------------ MODULE MCDatabase ------------------------------
(***************************************************************************)
(* Instances of Database for TLC: the spec sets the runs choose from.      *)
(***************************************************************************)
EXTENDS Database

Kept    == [cluster |-> "c", name |-> "", reclaimPolicy |-> "Retain"]
Dropped == [Kept EXCEPT !.reclaimPolicy = "Delete"]

PolicySpecs == {Kept, Dropped}

SlowInformers == {"objects", "clusters"}
=============================================================================
