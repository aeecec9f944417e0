------------------------------ MODULE Resources ------------------------------
(***************************************************************************)
(* The pure builders of internal/resources: what the reconciler derives    *)
(* from the spec of one SereneDB.  A spec is abstracted to the fields the  *)
(* control flow of the reconciler and the properties tell apart:           *)
(*   tag          image tag, the version that is rolled out                *)
(*   conf         everything under spec.config                             *)
(*   port         spec.listeners (ports of container, services, policy)    *)
(*   auth, key    spec.auth: generated or user-provided Secret, and the    *)
(*                name of the key that holds the password                  *)
(*   tls          disabled, enabled without a Secret name, or enabled      *)
(*   whenDeleted  spec.persistence.retentionPolicy.whenDeleted             *)
(*   claim        a claim template, or spec.persistence.existingClaim      *)
(*   netpol       spec.networkPolicy.enabled                               *)
(***************************************************************************)

SpecType == [tag : STRING, conf : STRING, port : STRING,
             auth : {"generated", "existing"}, key : STRING,
             tls : {"off", "unnamed", "on"},
             whenDeleted : {"Retain", "Delete"},
             claim : {"template", "existing"},
             netpol : BOOLEAN]

Unowned == 0    \* no controller owner reference

\* The flagfile lines that depend on the spec.
Flagfile(s) == [conf |-> s.conf, port |-> s.port, tls |-> s.tls # "off"]

ConfigMap(s) == [owner |-> Unowned, data |-> Flagfile(s)]

\* SHA-256 of the ConfigMap data: a digest that differs when the data does.
ConfigHash(data) == [sha256 |-> data]

\* The Secret the database password comes from, named by its object below:
\* "secret" is the generated one, "auth" the one spec.auth.existingSecret names.
SecretName(s) == IF s.auth = "existing" THEN "auth" ELSE "secret"

\* The password p is random.
GeneratedSecret(s, p) == [owner |-> Unowned, pw |-> p, key |-> s.key]

\* A plausible slip: the Secret is always handed to the garbage collector.
AlwaysOwned(s) == TRUE

\* Is the generated Secret collected together with the SereneDB?
SecretOwnedByDatabase(s) == s.whenDeleted = "Delete"

\* Client and headless Service differ in fields nothing here depends on.
Service(s) == [owner |-> Unowned, port |-> s.port]

NetworkPolicy(s) == [owner |-> Unowned, port |-> s.port]

\* A plausible slip: the policy of the spec is not passed on.
AlwaysRetain(s) == "Retain"

\* With an existing claim the StatefulSet carries no claim template and no
\* retention policy; the API server then defaults the policy to Retain.
RetentionPolicy(s) == IF s.claim = "existing" THEN "Retain" ELSE s.whenDeleted

PodTemplate(s, hash) ==
  [image |-> s.tag, hash |-> hash, port |-> s.port,
   secretName |-> SecretName(s), key |-> s.key, tls |-> s.tls,
   claim |-> s.claim]

\* The pod template of a spec, with the hash reconcileConfigMap returns for it.
Template(s) == PodTemplate(s, ConfigHash(Flagfile(s)))
=============================================================================
