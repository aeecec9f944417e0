---------------------------- MODULE MCServerSecret ----------------------------
(***************************************************************************)
(* Instances of ServerSecret for TLC: the spec sets the runs choose from.  *)
(***************************************************************************)
EXTENDS ServerSecret

Inline == [cluster |-> "c", name |-> "", secret |-> FALSE, options |-> "x"]
Values == [Inline EXCEPT !.secret = TRUE]
Wrong  == [Inline EXCEPT !.options = Bad]

OptionSpecs == {Inline, Values, Wrong}

SlowInformers == {"objects", "secrets"}
=============================================================================
