----------------------------- MODULE ConfigLoad -----------------------------
(***************************************************************************)
(* The finalize of a decoded configuration (gateway/config.go) and         *)
(* ValidateProviders: one pass over maps, each visited in an order Go      *)
(* picks at random, that checks, fills in defaults and stops at the first  *)
(* error.                                                                  *)
(*                                                                         *)
(* A file is [anonymous, jwt, basics, inline, envs, routes, profiles,      *)
(* keys].  basics says that durations and store settings pass, jwt is      *)
(* "off", "good" or "bad".  inline maps tokens, and envs names of          *)
(* environment variables, to principals [sound, providers].  A route is    *)
(* [sound, fits, provider, ops, weight, timeout, concurrency], or None     *)
(* where the YAML is null; sound says that its own fields pass             *)
(* validateRoute, fits that its provider's ValidateRoute takes it.         *)
(* A profile is [sound, providers]; keys maps quota keys to profiles.      *)
(***************************************************************************)
EXTENDS Integers, FiniteSets, Functions

CONSTANTS Files,     \* files to load
          Environs,  \* environments: functions from variables to tokens or None
          Supported, \* the operations of each registered provider
          DefaultTimeout,
          None

\* A route as decoded; one that passes validateRoute has no negative weight or timeout.
IsRoute(r) ==
  /\ r = [sound |-> r.sound, fits |-> r.fits, provider |-> r.provider, ops |-> r.ops,
          weight |-> r.weight, timeout |-> r.timeout, concurrency |-> r.concurrency]
  /\ r.sound => r.weight \in Nat /\ r.timeout \in Nat

\* What the constants must satisfy: maps are finite.
ConfigLoadAssumption ==
  /\ DefaultTimeout \in Nat \ {0}
  /\ \A f \in Files : /\ f.jwt \in {"off", "good", "bad"}
                      /\ IsFiniteSet(DOMAIN f.envs)
                      /\ \A n \in DOMAIN f.routes : f.routes[n] = None \/ IsRoute(f.routes[n])

VARIABLES file, environ,
          loadPc,    \* the map being visited, "accepted" or "rejected"
          todo,      \* its keys not visited yet
          tokens,    \* snapshot.Auth.Tokens
          routes,    \* snapshot.Routes so far
          seen       \* providerConcurrency

loadVars == <<file, environ, loadPc, todo, tokens, routes, seen>>

LoadInit ==
  /\ file \in Files
  /\ environ \in Environs
  /\ loadPc = "inline"
  /\ todo = DOMAIN file.inline
  /\ tokens = file.inline
  /\ routes = file.routes
  /\ seen = [p \in {} |-> 0]

Reject == loadPc' = "rejected" /\ UNCHANGED <<todo, tokens, routes, seen>>

\* On to the next map.
Enter(next, keys) == todo = {} /\ loadPc' = next /\ todo' = keys

-----------------------------------------------------------------------------
(* resolveAndValidateAuth                                                  *)

Inline(t) ==
  /\ loadPc = "inline"
  /\ t \in todo
  /\ IF ~file.inline[t].sound THEN Reject
     ELSE todo' = todo \ {t} /\ UNCHANGED <<loadPc, tokens, routes, seen>>
  /\ UNCHANGED <<file, environ>>

InlineDone ==
  /\ loadPc = "inline"
  /\ Enter("envs", DOMAIN file.envs)
  /\ UNCHANGED <<file, environ, tokens, routes, seen>>

EnvOverwrites(v) ==
  LET token == environ[v]
  IN  /\ loadPc = "envs"
      /\ v \in todo
      /\ IF ~file.envs[v].sound \/ token = None THEN Reject
         ELSE /\ tokens' = [t \in DOMAIN tokens \cup {token} |->
                              IF t = token THEN file.envs[v] ELSE tokens[t]]
              /\ todo' = todo \ {v}
              /\ UNCHANGED <<loadPc, routes, seen>>
      /\ UNCHANGED <<file, environ>>

\* A token of the environment joins the tokens unless it is one of them.
Env(v) ==
  LET token == environ[v]
  IN  /\ loadPc = "envs"
      /\ v \in todo
      /\ IF ~file.envs[v].sound \/ token = None \/ token \in DOMAIN tokens THEN Reject
         ELSE /\ tokens' = [t \in DOMAIN tokens \cup {token} |->
                              IF t = token THEN file.envs[v] ELSE tokens[t]]
              /\ todo' = todo \ {v}
              /\ UNCHANGED <<loadPc, routes, seen>>
      /\ UNCHANGED <<file, environ>>

\* The rest of the authentication, the durations and the stores' settings.
AuthDone ==
  /\ loadPc = "envs"
  /\ todo = {}
  /\ IF \/ file.jwt = "bad"
        \/ ~file.anonymous /\ DOMAIN tokens = {} /\ file.jwt = "off"
        \/ ~file.basics
        \/ DOMAIN file.routes = {}
     THEN Reject
     ELSE Enter("routes", DOMAIN file.routes) /\ UNCHANGED <<tokens, routes, seen>>
  /\ UNCHANGED <<file, environ>>

-----------------------------------------------------------------------------
(* Routes, quotas and providers                                            *)

WithoutDefaults(r) == [r EXCEPT !.timeout = IF @ = 0 THEN DefaultTimeout ELSE @]

WithDefaults(r) == [r EXCEPT !.weight = IF @ = 0 THEN 1 ELSE @,
                             !.timeout = IF @ = 0 THEN DefaultTimeout ELSE @]

AgreesIfSet(r) == r.provider \in DOMAIN seen /\ r.concurrency # 0 => seen[r.provider] = r.concurrency

\* All routes of a provider state one concurrency.
Agrees(r) == r.provider \in DOMAIN seen => seen[r.provider] = r.concurrency

Route(n) ==
  LET r == file.routes[n]
  IN  /\ loadPc = "routes"
      /\ n \in todo
      /\ IF r = None THEN Reject
         ELSE IF ~r.sound \/ ~Agrees(r) THEN Reject
         ELSE /\ seen' = [p \in DOMAIN seen \cup {r.provider} |->
                            IF p = r.provider THEN r.concurrency ELSE seen[p]]
              /\ routes' = [routes EXCEPT ![n] = WithDefaults(r)]
              /\ todo' = todo \ {n}
              /\ UNCHANGED <<loadPc, tokens>>
      /\ UNCHANGED <<file, environ>>

RoutesDone ==
  /\ loadPc = "routes"
  /\ Enter("profiles", DOMAIN file.profiles)
  /\ UNCHANGED <<file, environ, tokens, routes, seen>>

Profile(p) ==
  /\ loadPc = "profiles"
  /\ p \in todo
  /\ IF ~file.profiles[p].sound THEN Reject
     ELSE todo' = todo \ {p} /\ UNCHANGED <<loadPc, tokens, routes, seen>>
  /\ UNCHANGED <<file, environ>>

ConfiguredProviders == {routes[n].provider : n \in DOMAIN routes}

\* validateConfiguredProviderReferences: any order gives the same answer here,
\* nothing changes on the way.
ReferencesHold ==
  \A x \in Range(tokens) \cup Range(file.envs) \cup Range(file.profiles) :
    x.providers \subseteq ConfiguredProviders

ProfilesDone ==
  /\ loadPc = "profiles"
  /\ todo = {}
  /\ IF ~ReferencesHold THEN Reject
     ELSE Enter("keys", DOMAIN file.keys) /\ UNCHANGED <<tokens, routes, seen>>
  /\ UNCHANGED <<file, environ>>

QuotaKey(k) ==
  /\ loadPc = "keys"
  /\ k \in todo
  /\ IF file.keys[k] \notin DOMAIN file.profiles THEN Reject
     ELSE todo' = todo \ {k} /\ UNCHANGED <<loadPc, tokens, routes, seen>>
  /\ UNCHANGED <<file, environ>>

\* ValidateProviders goes through the routes in the order of their names.
ProvidersSupport ==
  \A n \in DOMAIN routes : /\ routes[n].provider \in DOMAIN Supported
                           /\ routes[n].ops \subseteq Supported[routes[n].provider]
                           /\ routes[n].fits

KeysDone ==
  /\ loadPc = "keys"
  /\ todo = {}
  /\ loadPc' = IF ProvidersSupport THEN "accepted" ELSE "rejected"
  /\ UNCHANGED <<file, environ, todo, tokens, routes, seen>>

LoadNext ==
  \/ \E t \in todo : Inline(t)
  \/ InlineDone
  \/ \E v \in todo : Env(v)
  \/ AuthDone
  \/ \E n \in todo : Route(n)
  \/ RoutesDone
  \/ \E p \in todo : Profile(p)
  \/ ProfilesDone
  \/ \E k \in todo : QuotaKey(k)
  \/ KeysDone

LoadSpec == LoadInit /\ [][LoadNext]_loadVars

-----------------------------------------------------------------------------
(* Properties                                                              *)

\* The variables' types; a configuration is accepted with weights and timeouts
\* that routing and calls can use (the defaults of finalize).
LoadTypeOK ==
  /\ loadPc \in {"inline", "envs", "routes", "profiles", "keys", "accepted", "rejected"}
  /\ DOMAIN routes = DOMAIN file.routes
  /\ loadPc = "accepted" => \A n \in DOMAIN routes : routes[n].weight > 0 /\ routes[n].timeout > 0

\* What makes a file acceptable, whatever the order of its maps.
Acceptable ==
  LET rs == Range(file.routes)
      envTokens == {environ[v] : v \in DOMAIN file.envs}
      named == Range(file.inline) \cup Range(file.envs) \cup Range(file.profiles)
  IN  /\ \A x \in named : x.sound
      /\ None \notin envTokens
      /\ Cardinality(envTokens) = Cardinality(DOMAIN file.envs)
      /\ envTokens \cap DOMAIN file.inline = {}
      /\ file.jwt # "bad"
      /\ file.anonymous \/ file.jwt = "good" \/ DOMAIN file.inline \cup envTokens # {}
      /\ file.basics
      /\ rs # {} /\ None \notin rs
      /\ \A r \in rs : /\ r.sound
                       /\ r.provider \in DOMAIN Supported
                       /\ r.ops \subseteq Supported[r.provider]
                       /\ r.fits
      /\ \A r, s \in rs : r.provider = s.provider => r.concurrency = s.concurrency
      /\ \A x \in named : x.providers \subseteq {r.provider : r \in rs}
      /\ Range(file.keys) \subseteq DOMAIN file.profiles

\* A file is accepted just when it is acceptable.
VerdictIsRight ==
  /\ loadPc = "accepted" => Acceptable
  /\ loadPc = "rejected" => ~Acceptable

\* Once accepted, each configured credential stands for the principal it was
\* configured for: no two of them became one (the duplicate check of TokenEnvs).
CredentialsKeepPrincipals ==
  loadPc = "accepted" =>
    /\ \A t \in DOMAIN file.inline : tokens[t] = file.inline[t]
    /\ \A v \in DOMAIN file.envs : tokens[environ[v]] = file.envs[v]

\* Whether a file is accepted does not depend on the order its maps are visited in: a
\* reload of a file that started the gateway never fails by chance.  Once accepted, each
\* credential stands for the principal it was configured for, and routes have weights and
\* timeouts that routing and calls can use (finalize, the duplicate check of TokenEnvs).
VerdictIsOrderFree == LoadTypeOK /\ VerdictIsRight /\ CredentialsKeepPrincipals
=============================================================================
