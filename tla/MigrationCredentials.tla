------------------------ MODULE MigrationCredentials ------------------------
(***************************************************************************)
(* What cmd/configsctl/migrationcredentials.go derives, before a migration *)
(* command touches anything, from the credentials that the configurations  *)
(* of both commits declare: which device accounts it rotates, which hosts  *)
(* it locks, and what the environment of each workspace holds.             *)
(*                                                                         *)
(* A binding is the configured credential of one workspace in one scope:   *)
(*   scope, selector     the configuration and the workspace in it         *)
(*   account             the endpoint and the account id of the device     *)
(*   host, endpoint      the lock host by name, and where that name leads  *)
(*   user, pass          the variables of the provider                     *)
(*   supplied            those of them that have a default or a value in a *)
(*                       reviewed automatic variable file                  *)
(*   key, secret         the vault key of the rotator and what it holds    *)
(* Bindings are a sequence: scopes in their order, selectors sorted.       *)
(***************************************************************************)
EXTENDS Naturals, Sequences

CONSTANT Missing    \* the secret of a vault key that is absent or empty

Bound(bindings) == {bindings[i] : i \in DOMAIN bindings}

\* sameMigrationCredentialBinding
Adapter(b) == <<b.account, b.host, b.user, b.pass, b.key>>

\* newMigrationCredentialBinding and validateTofuCredentials: the variables of
\* the provider and the key of the rotator are distinct.
DistinctNames(b) == b.user # b.key /\ b.pass # b.key /\ b.user # b.pass

\* matchMigrationCredentialBindings: one adapter for each account, and a moved
\* workspace keeps its adapter.
AccountsAgree(bindings) ==
  \A a, b \in Bound(bindings) : a.account = b.account => Adapter(a) = Adapter(b)

AdaptersOf(bindings, scope, selector) ==
  {Adapter(b) : b \in {c \in Bound(bindings) : c.scope = scope /\ c.selector = selector}}

MovesKeepAdapter(bindings, moves) ==
  \A move \in moves : AdaptersOf(bindings, "original", move.source)
                      = AdaptersOf(bindings, "cutover", move.destination)

\* prepareMigrationCredentials: every vault holds the key, and all of them hold
\* the same secret for an account.
SecretsAgree(bindings) ==
  /\ \A b \in Bound(bindings) : b.secret # Missing
  /\ \A a, b \in Bound(bindings) : a.account = b.account => a.secret = b.secret

\* One credential for each account, as the first binding configures it.
Deployments(bindings) ==
  {bindings[i] : i \in {j \in DOMAIN bindings :
     \A k \in 1..(j - 1) : bindings[k].account # bindings[j].account}}

\* migrationCredentialHosts: a name leads to one endpoint, and an endpoint is
\* locked once, under the first of its names.
HostsAgree(bindings) ==
  \A a, b \in Bound(bindings) : a.host = b.host => a.endpoint = b.endpoint

Hosts(bindings) ==
  {<<bindings[i].host, bindings[i].endpoint>> : i \in {j \in DOMAIN bindings :
     \A k \in 1..(j - 1) : bindings[k].endpoint # bindings[j].endpoint}}

Without(environment, names) ==
  [name \in DOMAIN environment \ names |-> environment[name]]

\* migrationCredentialEnvironment: the variables of the binding hold the new
\* credential of its account.
CredentialEnvironment(environment, b) ==
  [name \in (DOMAIN environment \ {b.key}) \cup {b.user, b.pass} |->
     IF name = b.user THEN <<"user", b.account>>
     ELSE IF name = b.pass THEN <<"password", b.account>>
     ELSE environment[name]]

\* stripMigrationRotators: no workspace sees the rotator of any binding.
StripRotators(bindings, environment, b) ==
  Without(environment, {c.key : c \in Bound(bindings)})

Environment(bindings, environment, b) ==
  StripRotators(bindings, CredentialEnvironment(environment, b), b)

\* requireMigrationInputs: a variable that nothing else supplies has a value.
InputsComplete(bindings, environment) ==
  \A b \in Bound(bindings) :
    {b.user, b.pass} \ b.supplied \subseteq DOMAIN Environment(bindings, environment, b)

Accepted(bindings, moves, environment) ==
  /\ \A b \in Bound(bindings) : DistinctNames(b)
  /\ AccountsAgree(bindings)
  /\ MovesKeepAdapter(bindings, moves)
  /\ SecretsAgree(bindings)
  /\ HostsAgree(bindings)
  /\ InputsComplete(bindings, environment)

-----------------------------------------------------------------------------
\* What an accepted configuration gives to the session.

\* What a workspace gets for the variables of its provider is the credential that
\* the rotation of its account makes valid, and one that it does not get has
\* another source; no workspace gets the secret of a rotator.
EnvironmentReady(bindings, environment) ==
  \A b \in Bound(bindings) :
    LET given == Environment(bindings, environment, b)
    IN  /\ {b.user, b.pass} \ b.supplied \subseteq DOMAIN given
        /\ b.user \in DOMAIN given => given[b.user] = <<"user", b.account>>
        /\ b.pass \in DOMAIN given => given[b.pass] = <<"password", b.account>>
        /\ \A c \in Bound(bindings) : c.key \notin DOMAIN given

\* Every account that a workspace uses is rotated, once and with the secret that
\* each of its bindings names, under a lock of its host; no host is asked twice.
RotationCovered(bindings) ==
  /\ \A b \in Bound(bindings) :
       \E d \in Deployments(bindings) : d.account = b.account /\ d.secret = b.secret
  /\ \A d, e \in Deployments(bindings) : d.account = e.account => d = e
  /\ \A b \in Bound(bindings) : \E h \in Hosts(bindings) : h[2] = b.endpoint
  /\ \A h, i \in Hosts(bindings) : h[2] = i[2] => h = i
=============================================================================
