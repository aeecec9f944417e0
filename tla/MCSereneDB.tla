------------------------------ MODULE MCSereneDB ------------------------------
(***************************************************************************)
(* Instances of SereneDB for TLC: the spec sets the runs choose from.      *)
(***************************************************************************)
EXTENDS SereneDB, TLC

Base == [tag |-> "v1", conf |-> "a", port |-> "p1", auth |-> "generated",
         key |-> "password", tls |-> "off", whenDeleted |-> "Retain",
         claim |-> "template", netpol |-> FALSE]

Upgrade  == [Base EXCEPT !.tag = "v2", !.conf = "b"]
Existing == [Base EXCEPT !.auth = "existing"]
Guarded  == [Existing EXCEPT !.tls = "on"]
Unnamed  == [Base EXCEPT !.tls = "unnamed"]
Rekeyed  == [Base EXCEPT !.key = "other"]
Fenced   == [Base EXCEPT !.netpol = TRUE]
Dropped  == [Base EXCEPT !.whenDeleted = "Delete"]
OwnClaim == [Dropped EXCEPT !.claim = "existing"]

RolloutSpecs  == {Upgrade, Guarded, Unnamed, Rekeyed}
RetainSpecs   == {Base, Existing}
PolicySpecs   == {Base, Fenced}
DeleteSpecs   == {Dropped}
OwnClaimSpecs == {OwnClaim}

NoKinds    == {}
SlowDb     == {"db"}
SlowSts    == {"statefulset"}
SlowSecret == {"secret"}

\* Passwords are only ever compared.
Symmetric == Permutations(Passwords)
=============================================================================
