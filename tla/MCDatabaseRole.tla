---------------------------- MODULE MCDatabaseRole ----------------------------
(***************************************************************************)
(* Instances of DatabaseRole for TLC: the spec sets the runs choose from.  *)
(***************************************************************************)
EXTENDS DatabaseRole

App     == [cluster |-> "c", name |-> "", reclaimPolicy |-> "Delete", secret |-> TRUE,
            login |-> TRUE, until |-> "2030", inRoles |-> {"readers"}]
Bare    == [App EXCEPT !.secret = FALSE, !.until = "", !.inRoles = {}]
Unsound == [Bare EXCEPT !.name = Nul]

RoleSpecs == {App, Unsound}

SlowSecrets == {"secrets"}
=============================================================================
