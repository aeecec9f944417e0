--------------------------- MODULE MCScheduledBackup ---------------------------
(***************************************************************************)
(* Instances of ScheduledBackup for TLC: the specs the runs choose from.   *)
(***************************************************************************)
EXTENDS ScheduledBackup

Nightly   == [valid |-> TRUE, suspend |-> FALSE, immediate |-> FALSE, keep |-> 1]
Prompt    == [Nightly EXCEPT !.immediate = TRUE]
Suspended == [Nightly EXCEPT !.suspend = TRUE]
Garbled   == [Nightly EXCEPT !.valid = FALSE]
Hoarding  == [Nightly EXCEPT !.keep = KeepAll]
Pair      == [Nightly EXCEPT !.keep = 2]

KeepSpecs  == {Prompt, Pair}
MixedSpecs == {Prompt, Hoarding, Suspended, Garbled}
=============================================================================
