----------------------------- MODULE DatabaseRole -----------------------------
(***************************************************************************)
(* DatabaseRoleReconciler (internal/controller/databaserole_controller.go):*)
(* the roles of a server.  A row holds the attributes, the version of the  *)
(* Secret its password is from, and the roles it is a member of.  login    *)
(* stands for the attributes every statement sets, until for the ones it   *)
(* sets when the spec has them.                                            *)
(***************************************************************************)
EXTENDS SecretSource

CONSTANT Groups   \* the other roles that exist on the servers

SpecType == [cluster : Clusters, name : STRING, reclaimPolicy : {"Retain", "Delete"},
             secret : BOOLEAN, login : BOOLEAN, until : STRING, inRoles : SUBSET STRING]

ASSUME DatabaseRoleAssumption == Specs \subseteq SpecType

VARIABLE current   \* the memberships converge has read, and changed since

roleVars == <<vars, current>>

Untils == {s.until : s \in Specs} \cup {""}
Roles  == [login : BOOLEAN, until : Untils, pw : Nat, groups : SUBSET Groups]

Steps == {"guard", "secret", "connect", "exists", "create", "alter", "members", "grant",
          "revoke", "status", "finalize", "dropExists", "drop", "release"}

TypeOK ==
  /\ DependentTypeOK(VersionedStatus)
  /\ SecretSourceTypeOK
  /\ rows \in [Clusters -> [Names -> Maybe(Roles)]]
  /\ pc \in Steps \cup {"idle"}
  /\ current \subseteq Groups

Init == DependentInit /\ SecretSourceInit /\ current = {}

\* password: the Secret, and the key the spec names in it.
password ==
  readSecret("PasswordSecretMissing", seen.spec.secret => secretCache.form # "keyless",
             "PasswordSecretMissing")

\* A plausible slip: one condition on the noted version for both statements.
passwordIfNew(present) == read # NoObj /\ Version # seen.status.version

\* Does the statement carry the password?  Always if it creates the role.
withPassword(present) == read # NoObj /\ (~present \/ Version # seen.status.version)

\* roleStatement: a validUntil or a password with a NUL byte cannot be rendered.
Renderable(present) ==
  seen.spec.until # Nul /\ (withPassword(present) => read.form # "unsound")

\* apply after openSession: which statement, and can it be rendered?
exists ==
  /\ pc = "exists"
  /\ IF Name = Nul
     THEN Finish("InvalidSpec") /\ UNCHANGED <<api, dbs, server, budget>>
     ELSE Query(IF ~Renderable(Row # NoObj) THEN Finish("InvalidSpec")
                ELSE Goto(IF Row = NoObj THEN "create" ELSE "alter"))

\* The attributes of a role after a statement: what the spec leaves unset is not
\* mentioned and stays as it was.
render(role, present) ==
  [role EXCEPT !.login = seen.spec.login,
               !.until = IF seen.spec.until = "" THEN @ ELSE seen.spec.until,
               !.pw    = IF withPassword(present) THEN Version ELSE @]

CreateRole == With(render([login |-> FALSE, until |-> "", pw |-> 0, groups |-> {}], FALSE))
AlterRole  == With(render(Row, TRUE))

\* CREATE ROLE or ALTER ROLE, as the query said.
create == pc = "create" /\ IF Row # NoObj THEN Refused ELSE Exec(CreateRole, Goto("members"))
alter  == pc = "alter" /\ IF Row = NoObj THEN Refused ELSE Exec(AlterRole, Goto("members"))

RoleMemberships     == IF Row = NoObj THEN {} ELSE Row.groups
GrantMembership(g)  == With([Row EXCEPT !.groups = @ \cup {g}])
RevokeMembership(g) == With([Row EXCEPT !.groups = @ \ {g}])

\* converge: what is left to do once the memberships are `now`.
Converge(now) ==
  IF ~ seen.spec.inRoles \subseteq now THEN Goto("grant")
  ELSE IF now # seen.spec.inRoles THEN Goto("revoke")
  ELSE FinishApplied

Remember(now) == current' = IF pc' \in {"grant", "revoke"} THEN now ELSE {}

converge ==
  \/ /\ pc = "members"
     /\ Query(Converge(RoleMemberships)) /\ Remember(RoleMemberships)
  \/ /\ pc = "grant"
     /\ \E g \in seen.spec.inRoles \ current :
          /\ IF Row = NoObj \/ g \notin Groups THEN Refused
             ELSE Exec(GrantMembership(g), Converge(current \cup {g}))
          /\ Remember(current \cup {g})
  \/ /\ pc = "revoke"
     /\ \E g \in current \ seen.spec.inRoles :
          /\ IF Row = NoObj THEN Refused
             ELSE Exec(RevokeMembership(g), Converge(current \ {g}))
          /\ Remember(current \ {g})

Calm(A) == A /\ Remember(current)

dropRole == dropExists \/ drop

\* Reconcile: drop is nil unless the policy is Delete.
Reconcile ==
  \/ Calm(password)
  \/ Calm(Plain(\/ ensureFinalizer
                \/ finalize(seen.spec.reclaimPolicy = "Delete")
                \/ dropRole \/ removeFinalizer
                \/ openSession(IF seen.deleting THEN "dropExists" ELSE "exists")
                \/ GetFails({"finalize", "connect"}) \/ readFails
                \/ exists \/ create \/ alter
                \/ PatchStatus))
  \/ Plain(converge)

Worker == Calm(Plain(\E k \in Keys : Begin(k, "secret"))) \/ Reconcile

\* Somebody changes an attribute or a membership of a role by hand.
HandAlter(c, n) ==
  /\ reach[c] = "ok" /\ rows[c][n] # NoObj
  /\ drift < MaxDrift
  /\ drift' = drift + 1
  /\ \E login \in BOOLEAN, groups \in SUBSET Groups :
       rows' = [rows EXCEPT ![c][n].login = login, ![c][n].groups = groups]
  /\ rows' # rows
  /\ UNCHANGED <<api, dbs, held, queued, worker, uids, edits, faults, clusters>>

Next ==
  \/ Worker
  \/ Calm(Plain(\/ \E k \in Keys : Create(k, NewStatus)
                \/ \E c \in Clusters, n \in Names : HandAlter(c, n)
                \/ Surroundings \/ Hold \/ LetGo))
  \/ Calm(WriteSecret(Forms) \/ DeleteSecret \/ DeliverSecret \/ RestartAll)

Spec == Init /\ [][Next]_roleVars

\* The worker and its queue, the informers, and a server that comes (back) up or goes.
Fairness ==
  /\ WF_roleVars(Worker) /\ WF_roleVars(Calm(DeliverSecret))
  /\ \A k \in Keys : WF_roleVars(Calm(Plain(Deliver(k))))
  /\ \A c \in Clusters :
       /\ WF_roleVars(Calm(Plain(DeliverDb(c)))) /\ WF_roleVars(Calm(Plain(Serve(c))))
       /\ WF_roleVars(Calm(Plain(RemoveDb(c))))

FairSpec == Spec /\ Fairness

(***************************************************************************)
(* Properties.                                                             *)
(***************************************************************************)
RowOf(k) == rows[obj[k].spec.cluster][NameOf(k, obj[k].spec)]

\* "The Secret whose password was last applied": a role on the server never has an
\* older password than the status says, through lost status updates, refused
\* GRANTs and roles dropped by hand; the operator would not repair it, since the
\* version it noted is the only thing it compares.
NotedPasswordIsSet ==
  \A k \in Keys :
    obj[k] # NoObj /\ ~obj[k].deleting /\ obj[k].spec.secret /\ RowOf(k) # NoObj
      => RowOf(k).pw >= obj[k].status.version

Live(k) ==
  /\ obj[k] # NoObj /\ ~obj[k].deleting
  /\ db[obj[k].spec.cluster] # NoObj /\ ~db[obj[k].spec.cluster].deleting

\* Why the role of a live object cannot be applied, if so: the checks of apply, in
\* their order.
Obstacle(k) ==
  LET s == obj[k].spec IN
  IF s.secret /\ (secret = NoObj \/ (secret # NoObj /\ secret.form = "keyless"))
  THEN "PasswordSecretMissing"
  ELSE IF Nul \in {s.until, NameOf(k, s)} \/ (s.secret /\ secret.form = "unsound")
  THEN "InvalidSpec"
  ELSE IF ~ s.inRoles \subseteq Groups THEN "SQLError"
  ELSE "Applied"

\* The role is as the spec and the Secret say.
Matches(k) ==
  LET s == obj[k].spec IN
  /\ RowOf(k) # NoObj
  /\ RowOf(k).login = s.login
  /\ s.until # "" => RowOf(k).until = s.until
  /\ RowOf(k).groups = s.inRoles
  /\ s.secret => RowOf(k).pw = secret.rv /\ obj[k].status.version = secret.rv

\* Once everything around it is quiet, a role matches its spec and the current
\* password, also when it was changed or dropped by hand, a statement of several
\* failed, or the password was rotated in between; or the status says why not.
EventuallyMatches ==
  \A k \in Keys :
    <>[](Live(k) => /\ obj[k].status.ready.reason = Obstacle(k)
                    /\ obj[k].status.ready.gen = obj[k].gen
                    /\ Obstacle(k) = "Applied" => Matches(k))
=============================================================================
