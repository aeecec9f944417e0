-------------------------------- MODULE Guarded --------------------------------
(***************************************************************************)
(* What a finalizer promises, whatever the object and its row are: a row   *)
(* is written only while its object exists, and the object goes only after *)
(* its row.  Objects are known by their uids.                              *)
(***************************************************************************)
CONSTANT Uids   \* objects there can ever be

VARIABLES there,   \* objects that exist
          stored   \* objects with a row on a server that is to stay

Init == there = {} /\ stored = {}

Create(u) == u \notin there /\ there' = there \cup {u} /\ UNCHANGED stored

\* Writing a row may replace that of another object.
Store(u) ==
  /\ u \in there
  /\ \E kept \in SUBSET stored : stored' = kept \cup {u}
  /\ UNCHANGED there

\* Dropped by the operator or by hand, or gone with the server.
Lose == stored' \in SUBSET stored /\ UNCHANGED there

Leave(u) == u \in there \ stored /\ there' = there \ {u} /\ UNCHANGED stored

Next == Lose \/ \E u \in Uids : Create(u) \/ Store(u) \/ Leave(u)

Spec == Init /\ [][Next]_<<there, stored>>
=============================================================================
