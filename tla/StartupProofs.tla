---------------------------- MODULE StartupProofs ----------------------------
(***************************************************************************)
(* How a gateway process comes up and goes down, for every configuration   *)
(* file, environment and set of providers: the verdict on a file           *)
(* (ConfigLoad), and what a start, a reload and a stop hold (Startup).     *)
(***************************************************************************)
EXTENDS ConfigLoad, Startup, FiniteSetTheorems, TLAPS

(***************************************************************************)
(* Loading.  While no error was found, what was visited so far is sound:   *)
(* each of the sets below is what the pass has been through.               *)
(***************************************************************************)
InlineSeen == IF loadPc = "inline" THEN DOMAIN file.inline \ todo ELSE DOMAIN file.inline

EnvSeen ==
  IF loadPc = "inline" THEN {} ELSE IF loadPc = "envs" THEN DOMAIN file.envs \ todo ELSE DOMAIN file.envs

RouteSeen ==
  IF loadPc \in {"inline", "envs"} THEN {}
  ELSE IF loadPc = "routes" THEN DOMAIN file.routes \ todo ELSE DOMAIN file.routes

ProfileSeen ==
  IF loadPc \in {"inline", "envs", "routes"} THEN {}
  ELSE IF loadPc = "profiles" THEN DOMAIN file.profiles \ todo ELSE DOMAIN file.profiles

KeySeen ==
  IF loadPc \in {"inline", "envs", "routes", "profiles"} THEN {}
  ELSE IF loadPc = "keys" THEN DOMAIN file.keys \ todo ELSE DOMAIN file.keys

TodoOK ==
  /\ loadPc = "inline" => todo \subseteq DOMAIN file.inline
  /\ loadPc = "envs" => todo \subseteq DOMAIN file.envs
  /\ loadPc = "routes" => todo \subseteq DOMAIN file.routes
  /\ loadPc = "profiles" => todo \subseteq DOMAIN file.profiles
  /\ loadPc = "keys" => todo \subseteq DOMAIN file.keys

TokensOK ==
  /\ \A t \in InlineSeen : file.inline[t].sound
  /\ DOMAIN tokens = DOMAIN file.inline \cup {environ[v] : v \in EnvSeen}
  /\ \A t \in DOMAIN file.inline : tokens[t] = file.inline[t]
  /\ \A v \in EnvSeen : /\ file.envs[v].sound /\ environ[v] # None
                        /\ environ[v] \notin DOMAIN file.inline
                        /\ tokens[environ[v]] = file.envs[v]
  /\ \A v, w \in EnvSeen : environ[v] = environ[w] => v = w

AuthOK ==
  loadPc \in {"routes", "profiles", "keys", "accepted"} =>
    /\ file.jwt # "bad" /\ file.basics /\ DOMAIN file.routes # {}
    /\ file.anonymous \/ file.jwt = "good" \/ DOMAIN tokens # {}

RoutesOK ==
  /\ DOMAIN routes = DOMAIN file.routes
  /\ \A n \in DOMAIN file.routes :
       routes[n] = IF n \in RouteSeen THEN WithDefaults(file.routes[n]) ELSE file.routes[n]
  /\ \A n \in RouteSeen : /\ file.routes[n] # None /\ file.routes[n].sound
                          /\ seen[file.routes[n].provider] = file.routes[n].concurrency
  /\ DOMAIN seen = {file.routes[n].provider : n \in RouteSeen}

RestOK ==
  /\ \A p \in ProfileSeen : file.profiles[p].sound
  /\ loadPc \in {"keys", "accepted"} => ReferencesHold
  /\ \A k \in KeySeen : file.keys[k] \in DOMAIN file.profiles
  /\ loadPc = "accepted" => ProvidersSupport

LoadInv ==
  /\ file \in Files
  /\ loadPc \in {"inline", "envs", "routes", "profiles", "keys", "accepted", "rejected"}
  /\ loadPc = "rejected" => ~Acceptable /\ DOMAIN routes = DOMAIN file.routes
  /\ loadPc # "rejected" => TodoOK /\ TokensOK /\ AuthOK /\ RoutesOK /\ RestOK
-----------------------------------------------------------------------------
\* Variables of the environment hold as many tokens as there are variables just when no
\* two of them hold the same.
LEMMA DistinctTokens ==
  ASSUME NEW S, NEW e, IsFiniteSet(S)
  PROVE  Cardinality({e[v] : v \in S}) = Cardinality(S) <=> \A v, w \in S : e[v] = e[w] => v = w
<1> DEFINE T == {e[v] : v \in S}
           f == [v \in S |-> e[v]]
<1>1. f \in Surjection(S, T) BY DEF Surjection
<1>2. Cardinality(T) = Cardinality(S) <=> f \in Injection(S, T) BY <1>1, FS_Surjection
<1>3. f \in Injection(S, T) <=> \A v, w \in S : e[v] = e[w] => v = w BY DEF Injection, IsInjective
<1> QED BY <1>2, <1>3

\* What an acceptable file satisfies, map by map.
LEMMA AcceptableParts ==
  ASSUME ConfigLoadAssumption, file \in Files
  PROVE  Acceptable <=>
    /\ \A t \in DOMAIN file.inline : file.inline[t].sound
    /\ \A v \in DOMAIN file.envs : /\ file.envs[v].sound /\ environ[v] # None
                                   /\ environ[v] \notin DOMAIN file.inline
    /\ \A v, w \in DOMAIN file.envs : environ[v] = environ[w] => v = w
    /\ \A p \in DOMAIN file.profiles : file.profiles[p].sound
    /\ file.jwt # "bad" /\ file.basics /\ DOMAIN file.routes # {}
    /\ \/ file.anonymous \/ file.jwt = "good"
       \/ DOMAIN file.inline \cup {environ[v] : v \in DOMAIN file.envs} # {}
    /\ \A n \in DOMAIN file.routes :
         /\ file.routes[n] # None /\ file.routes[n].sound /\ file.routes[n].fits
         /\ file.routes[n].provider \in DOMAIN Supported
         /\ file.routes[n].ops \subseteq Supported[file.routes[n].provider]
    /\ \A n, m \in DOMAIN file.routes : file.routes[n].provider = file.routes[m].provider =>
         file.routes[n].concurrency = file.routes[m].concurrency
    /\ \A x \in Range(file.inline) \cup Range(file.envs) \cup Range(file.profiles) :
         x.providers \subseteq {file.routes[n].provider : n \in DOMAIN file.routes}
    /\ \A k \in DOMAIN file.keys : file.keys[k] \in DOMAIN file.profiles
<1> DEFINE rs == Range(file.routes)
           envTokens == {environ[v] : v \in DOMAIN file.envs}
           named == Range(file.inline) \cup Range(file.envs) \cup Range(file.profiles)
           A1 == \A x \in named : x.sound
           A2 == None \notin envTokens
           A3 == Cardinality(envTokens) = Cardinality(DOMAIN file.envs)
           A4 == envTokens \cap DOMAIN file.inline = {}
           A5 == rs # {} /\ None \notin rs
           A6 == \A r \in rs : /\ r.sound
                               /\ r.provider \in DOMAIN Supported
                               /\ r.ops \subseteq Supported[r.provider]
                               /\ r.fits
           A7 == \A r, s \in rs : r.provider = s.provider => r.concurrency = s.concurrency
           A8 == \A x \in named : x.providers \subseteq {r.provider : r \in rs}
           A9 == Range(file.keys) \subseteq DOMAIN file.profiles
<1>0. Acceptable <=>
        /\ A1 /\ A2 /\ A3 /\ A4 /\ file.jwt # "bad"
        /\ file.anonymous \/ file.jwt = "good" \/ DOMAIN file.inline \cup envTokens # {}
        /\ file.basics /\ A5 /\ A6 /\ A7 /\ A8 /\ A9
  BY DEF Acceptable
<1>1. A1 <=> /\ \A t \in DOMAIN file.inline : file.inline[t].sound
             /\ \A v \in DOMAIN file.envs : file.envs[v].sound
             /\ \A p \in DOMAIN file.profiles : file.profiles[p].sound
  BY DEF Range
<1>2. A2 <=> \A v \in DOMAIN file.envs : environ[v] # None OBVIOUS
<1>3. A3 <=> \A v, w \in DOMAIN file.envs : environ[v] = environ[w] => v = w
  BY DistinctTokens DEF ConfigLoadAssumption
<1>4. A4 <=> \A v \in DOMAIN file.envs : environ[v] \notin DOMAIN file.inline OBVIOUS
<1>5. A5 <=> DOMAIN file.routes # {} /\ \A n \in DOMAIN file.routes : file.routes[n] # None
  BY DEF Range
<1>6. A6 <=> \A n \in DOMAIN file.routes :
         /\ file.routes[n].sound /\ file.routes[n].fits
         /\ file.routes[n].provider \in DOMAIN Supported
         /\ file.routes[n].ops \subseteq Supported[file.routes[n].provider]
  BY DEF Range
<1>7. A7 <=> \A n, m \in DOMAIN file.routes : file.routes[n].provider = file.routes[m].provider =>
         file.routes[n].concurrency = file.routes[m].concurrency
  BY DEF Range
<1>8. {r.provider : r \in rs} = {file.routes[n].provider : n \in DOMAIN file.routes}
  BY DEF Range
<1>9. A9 <=> \A k \in DOMAIN file.keys : file.keys[k] \in DOMAIN file.profiles BY DEF Range
<1> HIDE DEF A1, A2, A3, A4, A5, A6, A7, A9
<1> QED BY <1>0, <1>1, <1>2, <1>3, <1>4, <1>5, <1>6, <1>7, <1>8, <1>9

\* The pass begins with nothing visited.
LEMMA LoadStarts == ASSUME LoadInit PROVE LoadInv
<1> USE DEF LoadInit
<1>1. InlineSeen = {} /\ EnvSeen = {} /\ RouteSeen = {} /\ ProfileSeen = {} /\ KeySeen = {}
  BY DEF InlineSeen, EnvSeen, RouteSeen, ProfileSeen, KeySeen
<1>2. TodoOK /\ TokensOK BY <1>1 DEF TokensOK, TodoOK
<1>3. AuthOK BY DEF AuthOK
<1>4. RoutesOK BY <1>1 DEF RoutesOK
<1>5. RestOK BY <1>1 DEF RestOK
<1> QED BY <1>2, <1>3, <1>4, <1>5 DEF LoadInv

\* Whether the file is acceptable does not change while it is loaded.
LEMMA SameFile ==
  ASSUME UNCHANGED <<file, environ>>
  PROVE  Acceptable' <=> Acceptable
BY DEF Acceptable

\* A file rejected for a reason is not acceptable.
LEMMA RejectKeeps ==
  ASSUME LoadInv, loadPc' = "rejected", UNCHANGED <<file, environ, routes>>, ~Acceptable
  PROVE  LoadInv'
<1>1. DOMAIN routes = DOMAIN file.routes BY DEF LoadInv, RoutesOK
<1> QED BY <1>1, SameFile DEF LoadInv

\* A pass through a map that only reads: its next key is sound, or the map is done.
LEMMA VisitKeeps ==
  ASSUME LoadInv, loadPc \in {"inline", "profiles", "keys"},
         UNCHANGED <<file, environ, loadPc, tokens, routes, seen>>, todo' \subseteq todo,
         loadPc = "inline" => \A t \in todo \ todo' : file.inline[t].sound,
         loadPc = "profiles" => \A p \in todo \ todo' : file.profiles[p].sound,
         loadPc = "keys" => \A k \in todo \ todo' : file.keys[k] \in DOMAIN file.profiles
  PROVE  LoadInv'
<1>1. TodoOK /\ TokensOK /\ AuthOK /\ RoutesOK /\ RestOK BY DEF LoadInv
<1>2. EnvSeen' = EnvSeen /\ RouteSeen' = RouteSeen BY DEF EnvSeen, RouteSeen
<1>3. InlineSeen' \subseteq InlineSeen \cup (IF loadPc = "inline" THEN todo \ todo' ELSE {}) BY DEF InlineSeen
<1>4. ProfileSeen' \subseteq ProfileSeen \cup (IF loadPc = "profiles" THEN todo \ todo' ELSE {}) BY DEF ProfileSeen
<1>5. KeySeen' \subseteq KeySeen \cup (IF loadPc = "keys" THEN todo \ todo' ELSE {}) BY DEF KeySeen
<1>6. TodoOK' BY <1>1 DEF TodoOK
<1>7. TokensOK' BY <1>1, <1>2, <1>3 DEF TokensOK
<1>8. AuthOK' BY <1>1 DEF AuthOK
<1>9. RoutesOK' BY <1>1, <1>2 DEF RoutesOK, WithDefaults
<1>10. RestOK'
  <2>1. ReferencesHold' <=> ReferencesHold BY DEF ReferencesHold, ConfiguredProviders
  <2> QED BY <1>1, <1>4, <1>5, <2>1 DEF RestOK
<1> QED BY <1>6, <1>7, <1>8, <1>9, <1>10 DEF LoadInv

LEMMA InlineKeeps ==
  ASSUME ConfigLoadAssumption, LoadInv, NEW t \in todo, Inline(t)
  PROVE  LoadInv'
<1>1. loadPc = "inline" /\ file \in Files /\ t \in DOMAIN file.inline /\ UNCHANGED <<file, environ>>
  BY DEF Inline, LoadInv, TodoOK
<1>2. CASE ~file.inline[t].sound
  <2>1. ~Acceptable BY <1>1, <1>2, AcceptableParts
  <2> QED BY <1>2, <2>1, RejectKeeps DEF Inline, Reject
<1>3. CASE file.inline[t].sound BY <1>1, <1>3, VisitKeeps DEF Inline
<1> QED BY <1>2, <1>3

LEMMA InlineDoneKeeps ==
  ASSUME LoadInv, InlineDone
  PROVE  LoadInv'
<1>1. TodoOK /\ TokensOK /\ AuthOK /\ RoutesOK /\ RestOK BY DEF LoadInv, InlineDone
<1>2. /\ loadPc = "inline" /\ loadPc' = "envs" /\ todo = {} /\ todo' = DOMAIN file.envs
      /\ UNCHANGED <<file, environ, tokens, routes, seen>>
  BY DEF InlineDone, Enter
<1>3. /\ InlineSeen' = InlineSeen /\ EnvSeen' = EnvSeen /\ RouteSeen' = RouteSeen
      /\ ProfileSeen' = ProfileSeen /\ KeySeen' = KeySeen
  BY <1>2 DEF InlineSeen, EnvSeen, RouteSeen, ProfileSeen, KeySeen
<1>4. TodoOK' /\ AuthOK' BY <1>2 DEF TodoOK, AuthOK
<1>5. TokensOK' BY <1>1, <1>2, <1>3 DEF TokensOK
<1>6. RoutesOK' BY <1>1, <1>2, <1>3 DEF RoutesOK, WithDefaults
<1>7. RestOK' BY <1>1, <1>2, <1>3 DEF RestOK
<1> QED BY <1>2, <1>4, <1>5, <1>6, <1>7 DEF LoadInv

\* resolveAndValidateAuth: a token of the environment.
LEMMA EnvKeeps ==
  ASSUME ConfigLoadAssumption, LoadInv, NEW v \in todo, Env(v)
  PROVE  LoadInv'
<1>1. /\ loadPc = "envs" /\ file \in Files /\ v \in DOMAIN file.envs /\ UNCHANGED <<file, environ>>
      /\ TodoOK /\ TokensOK /\ AuthOK /\ RoutesOK /\ RestOK
  BY DEF Env, LoadInv, TodoOK
<1>2. EnvSeen = DOMAIN file.envs \ todo BY <1>1 DEF EnvSeen
<1>3. CASE ~file.envs[v].sound \/ environ[v] = None \/ environ[v] \in DOMAIN tokens
  <2>1. environ[v] \in DOMAIN tokens =>
          \/ environ[v] \in DOMAIN file.inline
          \/ \E w \in DOMAIN file.envs : w # v /\ environ[w] = environ[v]
    BY <1>1, <1>2 DEF TokensOK
  <2>2. ~Acceptable BY <1>1, <1>3, <2>1, AcceptableParts
  <2> QED BY <1>1, <1>3, <2>2, RejectKeeps DEF Env, Reject
<1>4. CASE ~(~file.envs[v].sound \/ environ[v] = None \/ environ[v] \in DOMAIN tokens)
  <2>1. /\ tokens' = [t \in DOMAIN tokens \cup {environ[v]} |->
                        IF t = environ[v] THEN file.envs[v] ELSE tokens[t]]
        /\ todo' = todo \ {v} /\ UNCHANGED <<loadPc, routes, seen>>
    BY <1>4 DEF Env
  <2>2. /\ InlineSeen' = InlineSeen /\ EnvSeen' = EnvSeen \cup {v} /\ RouteSeen' = RouteSeen
        /\ ProfileSeen' = ProfileSeen /\ KeySeen' = KeySeen
    BY <1>1, <2>1 DEF InlineSeen, EnvSeen, RouteSeen, ProfileSeen, KeySeen
  <2>3. TodoOK' /\ AuthOK' BY <1>1, <2>1 DEF TodoOK, AuthOK
  <2>4. TokensOK'
    <3>1. DOMAIN tokens' = DOMAIN file.inline \cup {environ[w] : w \in EnvSeen'}
      BY <1>1, <2>1, <2>2 DEF TokensOK
    <3>2. \A t \in DOMAIN tokens : tokens'[t] = tokens[t] BY <1>4, <2>1
    <3>3. tokens'[environ[v]] = file.envs[v] BY <2>1
    <3>4. \A w \in EnvSeen : environ[w] \in DOMAIN tokens BY <1>1 DEF TokensOK
    <3>5. \A w \in EnvSeen : environ[w] # environ[v] BY <1>4, <3>4
    <3>6. \A t \in DOMAIN file.inline : t \in DOMAIN tokens BY <1>1 DEF TokensOK
    <3> QED BY <1>1, <1>4, <2>2, <3>1, <3>2, <3>3, <3>4, <3>5, <3>6 DEF TokensOK
  <2>5. RoutesOK' BY <1>1, <2>1, <2>2 DEF RoutesOK, WithDefaults
  <2>6. RestOK' BY <1>1, <2>1, <2>2 DEF RestOK
  <2> QED BY <1>1, <2>1, <2>3, <2>4, <2>5, <2>6 DEF LoadInv
<1> QED BY <1>3, <1>4

\* What is left of the authentication, and the settings.
LEMMA AuthDoneKeeps ==
  ASSUME ConfigLoadAssumption, LoadInv, AuthDone
  PROVE  LoadInv'
<1> DEFINE bad == \/ file.jwt = "bad"
                  \/ ~file.anonymous /\ DOMAIN tokens = {} /\ file.jwt = "off"
                  \/ ~file.basics
                  \/ DOMAIN file.routes = {}
<1>1. /\ loadPc = "envs" /\ todo = {} /\ file \in Files /\ UNCHANGED <<file, environ>>
      /\ TokensOK /\ RoutesOK /\ RestOK /\ file.jwt \in {"off", "good", "bad"}
  BY DEF AuthDone, LoadInv, ConfigLoadAssumption
<1>2. DOMAIN tokens = DOMAIN file.inline \cup {environ[v] : v \in DOMAIN file.envs}
  BY <1>1 DEF TokensOK, EnvSeen
<1>3. CASE bad
  <2>1. ~Acceptable BY <1>1, <1>2, <1>3, AcceptableParts
  <2> QED BY <1>1, <1>3, <2>1, RejectKeeps DEF AuthDone, Reject
<1>4. CASE ~bad
  <2>1. /\ loadPc' = "routes" /\ todo' = DOMAIN file.routes /\ UNCHANGED <<tokens, routes, seen>>
    BY <1>4 DEF AuthDone, Enter
  <2>2. /\ InlineSeen' = InlineSeen /\ EnvSeen' = EnvSeen /\ RouteSeen' = RouteSeen
        /\ ProfileSeen' = ProfileSeen /\ KeySeen' = KeySeen
    BY <1>1, <2>1 DEF InlineSeen, EnvSeen, RouteSeen, ProfileSeen, KeySeen
  <2>3. TodoOK' BY <1>1, <2>1 DEF TodoOK
  <2>4. AuthOK' BY <1>1, <1>4, <2>1 DEF AuthOK
  <2>5. TokensOK' BY <1>1, <2>1, <2>2 DEF TokensOK
  <2>6. RoutesOK' BY <1>1, <2>1, <2>2 DEF RoutesOK, WithDefaults
  <2>7. RestOK' BY <1>1, <2>1, <2>2 DEF RestOK
  <2> QED BY <1>1, <2>1, <2>3, <2>4, <2>5, <2>6, <2>7 DEF LoadInv
<1> QED BY <1>3, <1>4

\* finalize: a route, and the concurrency its provider was seen with.
LEMMA RouteKeeps ==
  ASSUME ConfigLoadAssumption, LoadInv, NEW n \in todo, Route(n)
  PROVE  LoadInv'
<1> DEFINE r == file.routes[n]
<1>1. /\ loadPc = "routes" /\ file \in Files /\ n \in DOMAIN file.routes /\ UNCHANGED <<file, environ>>
      /\ TodoOK /\ TokensOK /\ AuthOK /\ RoutesOK /\ RestOK
  BY DEF Route, LoadInv, TodoOK
<1>2. RouteSeen = DOMAIN file.routes \ todo BY <1>1 DEF RouteSeen
<1>3. CASE r = None \/ ~r.sound \/ ~Agrees(r)
  <2>1. ~Agrees(r) => \E m \in DOMAIN file.routes : /\ file.routes[m].provider = r.provider
                                                    /\ file.routes[m].concurrency # r.concurrency
    BY <1>1, <1>2 DEF Agrees, RoutesOK
  <2>2. ~Acceptable BY <1>1, <1>3, <2>1, AcceptableParts
  <2> QED BY <1>1, <1>3, <2>2, RejectKeeps DEF Route, Reject
<1>4. CASE ~(r = None \/ ~r.sound \/ ~Agrees(r))
  <2>1. /\ seen' = [p \in DOMAIN seen \cup {r.provider} |->
                      IF p = r.provider THEN r.concurrency ELSE seen[p]]
        /\ routes' = [routes EXCEPT ![n] = WithDefaults(r)]
        /\ todo' = todo \ {n} /\ UNCHANGED <<loadPc, tokens>>
    BY <1>4 DEF Route
  <2>2. /\ InlineSeen' = InlineSeen /\ EnvSeen' = EnvSeen /\ RouteSeen' = RouteSeen \cup {n}
        /\ ProfileSeen' = ProfileSeen /\ KeySeen' = KeySeen
    BY <1>1, <2>1 DEF InlineSeen, EnvSeen, RouteSeen, ProfileSeen, KeySeen
  <2>3. TodoOK' /\ AuthOK' BY <1>1, <2>1 DEF TodoOK, AuthOK
  <2>4. TokensOK' BY <1>1, <2>1, <2>2 DEF TokensOK
  <2>5. RoutesOK'
    <3>1. DOMAIN seen' = {file.routes[m].provider : m \in RouteSeen'}
      BY <1>1, <2>1, <2>2 DEF RoutesOK
    <3>2. \A m \in RouteSeen : file.routes[m].provider \in DOMAIN seen BY <1>1 DEF RoutesOK
    <3>3. \A m \in RouteSeen' : /\ file.routes[m] # None /\ file.routes[m].sound
                                /\ seen'[file.routes[m].provider] = file.routes[m].concurrency
      BY <1>1, <1>4, <2>1, <2>2, <3>2 DEF RoutesOK, Agrees
    <3>4. \A m \in DOMAIN file.routes : routes'[m] = IF m = n THEN WithDefaults(r) ELSE routes[m]
      BY <1>1, <2>1 DEF RoutesOK
    <3>5. \A m \in DOMAIN file.routes :
            routes'[m] = IF m \in RouteSeen' THEN WithDefaults(file.routes[m]) ELSE file.routes[m]
      BY <1>1, <2>2, <3>4 DEF RoutesOK
    <3>6. DOMAIN routes' = DOMAIN file.routes BY <1>1, <2>1 DEF RoutesOK
    <3>7. \A m \in DOMAIN file.routes :
            routes'[m] = (IF m \in RouteSeen THEN WithDefaults(file.routes[m]) ELSE file.routes[m])'
      BY <1>1, <3>5 DEF WithDefaults
    <3> QED BY <1>1, <3>1, <3>3, <3>6, <3>7 DEF RoutesOK
  <2>6. RestOK' BY <1>1, <2>1, <2>2 DEF RestOK
  <2> QED BY <1>1, <2>1, <2>3, <2>4, <2>5, <2>6 DEF LoadInv
<1> QED BY <1>3, <1>4

LEMMA RoutesDoneKeeps ==
  ASSUME LoadInv, RoutesDone
  PROVE  LoadInv'
<1>1. TodoOK /\ TokensOK /\ AuthOK /\ RoutesOK /\ RestOK BY DEF LoadInv, RoutesDone
<1>2. /\ loadPc = "routes" /\ loadPc' = "profiles" /\ todo = {} /\ todo' = DOMAIN file.profiles
      /\ UNCHANGED <<file, environ, tokens, routes, seen>>
  BY DEF RoutesDone, Enter
<1>3. /\ InlineSeen' = InlineSeen /\ EnvSeen' = EnvSeen /\ RouteSeen' = RouteSeen
      /\ ProfileSeen' = ProfileSeen /\ KeySeen' = KeySeen
  BY <1>2 DEF InlineSeen, EnvSeen, RouteSeen, ProfileSeen, KeySeen
<1>4. TodoOK' /\ AuthOK' BY <1>1, <1>2 DEF TodoOK, AuthOK
<1>5. TokensOK' BY <1>1, <1>2, <1>3 DEF TokensOK
<1>6. RoutesOK' BY <1>1, <1>2, <1>3 DEF RoutesOK, WithDefaults
<1>7. RestOK' BY <1>1, <1>2, <1>3 DEF RestOK
<1> QED BY <1>2, <1>4, <1>5, <1>6, <1>7 DEF LoadInv

LEMMA ProfileKeeps ==
  ASSUME ConfigLoadAssumption, LoadInv, NEW p \in todo, Profile(p)
  PROVE  LoadInv'
<1>1. loadPc = "profiles" /\ file \in Files /\ p \in DOMAIN file.profiles /\ UNCHANGED <<file, environ>>
  BY DEF Profile, LoadInv, TodoOK
<1>2. CASE ~file.profiles[p].sound
  <2>1. ~Acceptable BY <1>1, <1>2, AcceptableParts
  <2> QED BY <1>2, <2>1, RejectKeeps DEF Profile, Reject
<1>3. CASE file.profiles[p].sound BY <1>1, <1>3, VisitKeeps DEF Profile
<1> QED BY <1>2, <1>3

LEMMA KeyKeeps ==
  ASSUME ConfigLoadAssumption, LoadInv, NEW k \in todo, QuotaKey(k)
  PROVE  LoadInv'
<1>1. loadPc = "keys" /\ file \in Files /\ k \in DOMAIN file.keys /\ UNCHANGED <<file, environ>>
  BY DEF QuotaKey, LoadInv, TodoOK
<1>2. CASE file.keys[k] \notin DOMAIN file.profiles
  <2>1. ~Acceptable BY <1>1, <1>2, AcceptableParts
  <2> QED BY <1>2, <2>1, RejectKeeps DEF QuotaKey, Reject
<1>3. CASE file.keys[k] \in DOMAIN file.profiles BY <1>1, <1>3, VisitKeeps DEF QuotaKey
<1> QED BY <1>2, <1>3

\* Defaults change weight and timeout, and leave both positive.
LEMMA DefaultsFill ==
  ASSUME ConfigLoadAssumption, file \in Files, RoutesOK, NEW n \in RouteSeen, n \in DOMAIN file.routes
  PROVE  /\ routes[n].provider = file.routes[n].provider /\ routes[n].ops = file.routes[n].ops
         /\ routes[n].fits = file.routes[n].fits
         /\ routes[n].weight > 0 /\ routes[n].timeout > 0
<1> DEFINE r == file.routes[n]
           w == IF r.weight = 0 THEN 1 ELSE r.weight
           u == IF r.timeout = 0 THEN DefaultTimeout ELSE r.timeout
<1>1. r # None /\ r.sound /\ routes[n] = WithDefaults(r) BY DEF RoutesOK
<1>2. IsRoute(r) BY <1>1 DEF ConfigLoadAssumption
<1>3. w \in Nat /\ w > 0 /\ u \in Nat /\ u > 0 BY <1>1, <1>2 DEF ConfigLoadAssumption, IsRoute
<1>4. r = [sound |-> r.sound, fits |-> r.fits, provider |-> r.provider, ops |-> r.ops,
           weight |-> r.weight, timeout |-> r.timeout, concurrency |-> r.concurrency]
  BY <1>2 DEF IsRoute
<1>5. routes[n] = [r EXCEPT !.weight = w, !.timeout = u] BY <1>1 DEF WithDefaults
<1> HIDE DEF w, u
<1>6. /\ routes[n].provider = r.provider /\ routes[n].ops = r.ops /\ routes[n].fits = r.fits
      /\ routes[n].weight = w /\ routes[n].timeout = u
  BY <1>4, <1>5
<1> QED BY <1>3, <1>6

\* validateConfiguredProviderReferences looks at the tokens, which are those of the file
\* and of the environment.
LEMMA ReferencesAreTheFiles ==
  ASSUME ConfigLoadAssumption, file \in Files, TokensOK, RoutesOK,
         EnvSeen = DOMAIN file.envs, RouteSeen = DOMAIN file.routes
  PROVE  ReferencesHold <=>
           \A x \in Range(file.inline) \cup Range(file.envs) \cup Range(file.profiles) :
             x.providers \subseteq {file.routes[n].provider : n \in DOMAIN file.routes}
<1>1. ConfiguredProviders = {file.routes[n].provider : n \in DOMAIN file.routes}
  <2>1. DOMAIN routes = DOMAIN file.routes BY DEF RoutesOK
  <2>2. \A n \in DOMAIN file.routes : routes[n].provider = file.routes[n].provider BY DefaultsFill
  <2> QED BY <2>1, <2>2 DEF ConfiguredProviders
<1>2. Range(tokens) \subseteq Range(file.inline) \cup Range(file.envs)
  <2> SUFFICES ASSUME NEW t \in DOMAIN tokens PROVE tokens[t] \in Range(file.inline) \cup Range(file.envs)
    BY DEF Range
  <2>1. CASE t \in DOMAIN file.inline BY <2>1 DEF TokensOK, Range
  <2>2. CASE t \notin DOMAIN file.inline
    <3>1. PICK v \in EnvSeen : t = environ[v] BY <2>2 DEF TokensOK
    <3> QED BY <3>1 DEF TokensOK, Range
  <2> QED BY <2>1, <2>2
<1>3. Range(file.inline) \subseteq Range(tokens) BY DEF TokensOK, Range
<1> QED BY <1>1, <1>2, <1>3 DEF ReferencesHold

LEMMA ProfilesDoneKeeps ==
  ASSUME ConfigLoadAssumption, LoadInv, ProfilesDone
  PROVE  LoadInv'
<1>1. /\ loadPc = "profiles" /\ todo = {} /\ file \in Files /\ UNCHANGED <<file, environ>>
      /\ TokensOK /\ AuthOK /\ RoutesOK /\ RestOK
  BY DEF ProfilesDone, LoadInv
<1>2. EnvSeen = DOMAIN file.envs /\ RouteSeen = DOMAIN file.routes BY <1>1 DEF EnvSeen, RouteSeen
<1>3. CASE ~ReferencesHold
  <2>1. ~Acceptable BY <1>1, <1>2, <1>3, ReferencesAreTheFiles, AcceptableParts
  <2> QED BY <1>1, <1>3, <2>1, RejectKeeps DEF ProfilesDone, Reject
<1>4. CASE ReferencesHold
  <2>1. loadPc' = "keys" /\ todo' = DOMAIN file.keys /\ UNCHANGED <<tokens, routes, seen>>
    BY <1>4 DEF ProfilesDone, Enter
  <2>2. /\ InlineSeen' = InlineSeen /\ EnvSeen' = EnvSeen /\ RouteSeen' = RouteSeen
        /\ ProfileSeen' = ProfileSeen /\ KeySeen' = KeySeen
    BY <1>1, <2>1 DEF InlineSeen, EnvSeen, RouteSeen, ProfileSeen, KeySeen
  <2>3. TodoOK' /\ AuthOK' BY <1>1, <2>1 DEF TodoOK, AuthOK
  <2>4. TokensOK' BY <1>1, <2>1, <2>2 DEF TokensOK
  <2>5. RoutesOK' BY <1>1, <2>1, <2>2 DEF RoutesOK, WithDefaults
  <2>6. ReferencesHold' BY <1>1, <1>4, <2>1 DEF ReferencesHold, ConfiguredProviders
  <2>7. RestOK' BY <1>1, <2>1, <2>2, <2>6 DEF RestOK
  <2> QED BY <1>1, <2>1, <2>3, <2>4, <2>5, <2>7 DEF LoadInv
<1> QED BY <1>3, <1>4

\* ValidateProviders, the last step.
LEMMA KeysDoneKeeps ==
  ASSUME ConfigLoadAssumption, LoadInv, KeysDone
  PROVE  LoadInv'
<1>1. /\ loadPc = "keys" /\ todo = {} /\ file \in Files
      /\ UNCHANGED <<file, environ, todo, tokens, routes, seen>>
      /\ TokensOK /\ AuthOK /\ RoutesOK /\ RestOK
  BY DEF KeysDone, LoadInv
<1>2. RouteSeen = DOMAIN file.routes BY <1>1 DEF RouteSeen
<1>3. CASE ~ProvidersSupport
  <2>1. \E n \in DOMAIN file.routes : ~ /\ file.routes[n].provider \in DOMAIN Supported
                                        /\ file.routes[n].ops \subseteq Supported[file.routes[n].provider]
                                        /\ file.routes[n].fits
    BY <1>1, <1>2, <1>3, DefaultsFill DEF ProvidersSupport, RoutesOK
  <2>2. ~Acceptable BY <1>1, <2>1, AcceptableParts
  <2> QED BY <1>1, <1>3, <2>2, RejectKeeps DEF KeysDone
<1>4. CASE ProvidersSupport
  <2>1. loadPc' = "accepted" BY <1>4 DEF KeysDone
  <2>2. /\ InlineSeen' = InlineSeen /\ EnvSeen' = EnvSeen /\ RouteSeen' = RouteSeen
        /\ ProfileSeen' = ProfileSeen /\ KeySeen' = KeySeen
    BY <1>1, <2>1 DEF InlineSeen, EnvSeen, RouteSeen, ProfileSeen, KeySeen
  <2>3. TodoOK' /\ AuthOK' BY <1>1, <2>1 DEF TodoOK, AuthOK
  <2>4. TokensOK' BY <1>1, <2>1, <2>2 DEF TokensOK
  <2>5. RoutesOK' BY <1>1, <2>1, <2>2 DEF RoutesOK, WithDefaults
  <2>6. ReferencesHold' <=> ReferencesHold BY <1>1 DEF ReferencesHold, ConfiguredProviders
  <2>7. ProvidersSupport' BY <1>1, <1>4 DEF ProvidersSupport
  <2>8. RestOK' BY <1>1, <2>1, <2>2, <2>6, <2>7 DEF RestOK
  <2> QED BY <1>1, <2>1, <2>3, <2>4, <2>5, <2>8 DEF LoadInv
<1> QED BY <1>3, <1>4

\* An accepted file passed every check that makes it acceptable.
LEMMA AcceptedIsAcceptable ==
  ASSUME ConfigLoadAssumption, LoadInv, loadPc = "accepted"
  PROVE  Acceptable
<1>1. file \in Files /\ TokensOK /\ AuthOK /\ RoutesOK /\ RestOK BY DEF LoadInv
<1>2. /\ InlineSeen = DOMAIN file.inline /\ EnvSeen = DOMAIN file.envs
      /\ RouteSeen = DOMAIN file.routes /\ ProfileSeen = DOMAIN file.profiles
      /\ KeySeen = DOMAIN file.keys
  BY DEF InlineSeen, EnvSeen, RouteSeen, ProfileSeen, KeySeen
<1>3. \A n \in DOMAIN file.routes :
        /\ file.routes[n] # None /\ file.routes[n].sound /\ file.routes[n].fits
        /\ file.routes[n].provider \in DOMAIN Supported
        /\ file.routes[n].ops \subseteq Supported[file.routes[n].provider]
  BY <1>1, <1>2, DefaultsFill DEF RestOK, ProvidersSupport, RoutesOK
<1>4. \A n, m \in DOMAIN file.routes : file.routes[n].provider = file.routes[m].provider =>
        file.routes[n].concurrency = file.routes[m].concurrency
  BY <1>1, <1>2 DEF RoutesOK
<1>5. \A x \in Range(file.inline) \cup Range(file.envs) \cup Range(file.profiles) :
        x.providers \subseteq {file.routes[n].provider : n \in DOMAIN file.routes}
  BY <1>1, <1>2, ReferencesAreTheFiles DEF RestOK
<1>6. /\ file.jwt # "bad" /\ file.basics /\ DOMAIN file.routes # {}
      /\ \/ file.anonymous \/ file.jwt = "good"
         \/ DOMAIN file.inline \cup {environ[v] : v \in DOMAIN file.envs} # {}
  BY <1>1, <1>2 DEF AuthOK, TokensOK
<1>7. /\ \A t \in DOMAIN file.inline : file.inline[t].sound
      /\ \A v \in DOMAIN file.envs : /\ file.envs[v].sound /\ environ[v] # None
                                     /\ environ[v] \notin DOMAIN file.inline
      /\ \A v, w \in DOMAIN file.envs : environ[v] = environ[w] => v = w
  BY <1>1, <1>2 DEF TokensOK
<1>8. /\ \A p \in DOMAIN file.profiles : file.profiles[p].sound
      /\ \A k \in DOMAIN file.keys : file.keys[k] \in DOMAIN file.profiles
  BY <1>1, <1>2 DEF RestOK
<1> QED BY <1>1, <1>3, <1>4, <1>5, <1>6, <1>7, <1>8, AcceptableParts

\* The verdict on a file, and what an accepted one is turned into, are the same in every
\* order in which Go visits its maps (finalize, resolveAndValidateAuth, ValidateProviders):
\* a file is accepted just when it is acceptable.
THEOREM ConfigVerdictIsOrderFree ==
  ASSUME ConfigLoadAssumption
  PROVE  LoadSpec => []VerdictIsOrderFree
<1>1. LoadInit => LoadInv BY LoadStarts
<1>2. LoadInv /\ [LoadNext]_loadVars => LoadInv'
  <2> SUFFICES ASSUME LoadInv, [LoadNext]_loadVars PROVE LoadInv' OBVIOUS
  <2>1. CASE LoadNext
    BY <2>1, InlineKeeps, InlineDoneKeeps, EnvKeeps, AuthDoneKeeps, RouteKeeps, RoutesDoneKeeps,
       ProfileKeeps, ProfilesDoneKeeps, KeyKeeps, KeysDoneKeeps DEF LoadNext
  <2>2. CASE UNCHANGED loadVars
    <3>1. CASE loadPc = "rejected" BY <2>2, <3>1, SameFile DEF LoadInv, loadVars
    <3>2. CASE loadPc # "rejected"
      <4>1. /\ InlineSeen' = InlineSeen /\ EnvSeen' = EnvSeen /\ RouteSeen' = RouteSeen
            /\ ProfileSeen' = ProfileSeen /\ KeySeen' = KeySeen
        BY <2>2 DEF loadVars, InlineSeen, EnvSeen, RouteSeen, ProfileSeen, KeySeen
      <4>2. TodoOK' /\ AuthOK' /\ TokensOK' BY <2>2, <3>2, <4>1 DEF LoadInv, loadVars, TodoOK, AuthOK, TokensOK
      <4>3. RoutesOK' BY <2>2, <3>2, <4>1 DEF LoadInv, loadVars, RoutesOK, WithDefaults
      <4>4. RestOK'
        BY <2>2, <3>2, <4>1
           DEF LoadInv, loadVars, RestOK, ReferencesHold, ConfiguredProviders, ProvidersSupport
      <4> QED BY <2>2, <3>2, <4>2, <4>3, <4>4 DEF LoadInv, loadVars
    <3> QED BY <3>1, <3>2
  <2> QED BY <2>1, <2>2
<1>3. LoadInv => VerdictIsOrderFree
  <2> SUFFICES ASSUME LoadInv PROVE VerdictIsOrderFree OBVIOUS
  <2>1. LoadTypeOK
    <3>1. loadPc = "accepted" => \A n \in DOMAIN routes : routes[n].weight > 0 /\ routes[n].timeout > 0
      BY DefaultsFill DEF LoadInv, RoutesOK, RouteSeen
    <3> QED BY <3>1 DEF LoadTypeOK, LoadInv, RoutesOK
  <2>2. VerdictIsRight BY AcceptedIsAcceptable DEF LoadInv, VerdictIsRight
  <2>3. CredentialsKeepPrincipals BY DEF LoadInv, TokensOK, EnvSeen, CredentialsKeepPrincipals
  <2> QED BY <2>1, <2>2, <2>3 DEF VerdictIsOrderFree
<1> QED BY <1>1, <1>2, <1>3, PTL DEF LoadSpec
-----------------------------------------------------------------------------
(***************************************************************************)
(* Startup and its end.  What the process holds is determined by where New *)
(* is and by the stores the configuration asks for.                        *)
(***************************************************************************)
PostgresHeld == IF config.postgres THEN {"pool", "refresher"} ELSE {}
RedisHeld == IF config.redis THEN {"redis"} ELSE {}

OpenOK ==
  /\ bootPc \in {"load", "postgres", "failed", "stopped"} => open = {}
  /\ bootPc = "schema" => open = {"pool"} /\ config.postgres
  /\ bootPc = "redis" => open = PostgresHeld
  /\ bootPc \in {"check", "stopping"} => open = PostgresHeld \cup RedisHeld
  /\ bootPc = "running" => open = {"listener"} \cup PostgresHeld \cup RedisHeld

\* Readiness checks go through the stores in order, and all pass before the service runs.
CheckedOK ==
  /\ checked \in {<<>>, <<"redis">>, <<"limits">>, <<"redis", "limits">>}
  /\ bootPc \in {"load", "postgres", "schema", "redis"} => checked = <<>>
  /\ bootPc = "check" => \/ checked = <<>>
                         \/ checked = <<"redis">> /\ config.redis
                         \/ checked = UniqueStores(config)
  /\ bootPc \in {"running", "stopping"} => checked = UniqueStores(config)

ClosesOK ==
  /\ closes \in [Stores -> 0 .. 1]
  /\ bootPc \notin {"failed", "stopped"} => \A s \in Stores : closes[s] = 0

BootInv ==
  /\ bootFile \in BootFiles /\ config \in BootFiles \cup {NoConfig}
  /\ bootPc \in {"load", "postgres", "schema", "redis", "check", "running", "stopping", "failed", "stopped"}
  /\ OpenOK /\ CheckedOK /\ ClosesOK

\* The two stores in one list.
LEMMA BothStores ==
  /\ <<"redis">> \o <<"limits">> = <<"redis", "limits">>
  /\ Append(<<"redis">>, "limits") = <<"redis", "limits">>
<1> DEFINE S == {"redis", "limits"}
           a == <<"redis">>
           b == <<"limits">>
<1>1. a \in Seq(S) /\ b \in Seq(S) OBVIOUS
<1>2. Len(a) = 1 /\ Len(b) = 1 OBVIOUS
<1>3. a[1] = "redis" /\ b[1] = "limits" OBVIOUS
<1>4. "limits" \in S OBVIOUS
<1> DEFINE c == a \o b
           d == Append(a, "limits")
<1> HIDE DEF S, a, b
<1>5. /\ c \in Seq(S) /\ Len(c) = Len(a) + Len(b)
      /\ \A i \in 1 .. Len(a) + Len(b) : c[i] = IF i <= Len(a) THEN a[i] ELSE b[i - Len(a)]
  BY <1>1
<1>6. d \in Seq(S) /\ Len(d) = Len(a) + 1 BY <1>1, <1>4
<1>7. d[Len(a) + 1] = "limits" BY <1>1, <1>4
<1>8. \A i \in 1 .. Len(a) : d[i] = a[i] BY <1>1, <1>4
<1> HIDE DEF c, d
<1>9. c \in Seq(S) /\ Len(c) = 2 /\ c[1] = a[1] /\ c[2] = b[1] BY <1>2, <1>5
<1>10. c = <<"redis", "limits">> BY <1>3, <1>9
<1>11. d = <<"redis", "limits">> BY <1>2, <1>3, <1>6, <1>7, <1>8
<1> QED BY <1>10, <1>11 DEF a, b, c, d

\* The stores a configuration asks for, each once.
LEMMA StoresOfConfig ==
  ASSUME NEW c
  PROVE  UniqueStores(c) = IF c.redis THEN IF c.postgres THEN <<"redis", "limits">> ELSE <<"redis">>
                                ELSE IF c.postgres THEN <<"limits">> ELSE <<>>
<1> DEFINE b == Built(c)
<1>1. /\ b[1] = (IF c.redis THEN "redis" ELSE "memory") /\ b[2] = (IF c.redis THEN "redis" ELSE "memory")
      /\ b[3] = IF c.postgres THEN "limits" ELSE "memory"
  BY DEF Built
<1>2. b[2] = b[1] BY <1>1
<1>3. Entry(b[1]) = IF c.redis THEN <<"redis">> ELSE <<>> BY <1>1 DEF Entry, Stores
<1>4. (IF b[3] \in {b[1], b[2]} THEN <<>> ELSE Entry(b[3])) = IF c.postgres THEN <<"limits">> ELSE <<>>
  BY <1>1 DEF Entry, Stores
<1>5. UniqueStores(c) =
        (IF c.redis THEN <<"redis">> ELSE <<>>) \o <<>> \o (IF c.postgres THEN <<"limits">> ELSE <<>>)
  BY <1>2, <1>3, <1>4 DEF UniqueStores
<1>6. /\ <<>> \o <<>> \o <<>> = <<>> /\ <<"redis">> \o <<>> \o <<>> = <<"redis">>
      /\ <<>> \o <<>> \o <<"limits">> = <<"limits">>
      /\ <<"redis">> \o <<>> \o <<"limits">> = <<"redis", "limits">>
  <2>1. <<>> \o <<>> = <<>> OBVIOUS
  <2>2. <<"redis">> \o <<>> = <<"redis">> OBVIOUS
  <2>3. <<>> \o <<"limits">> = <<"limits">> OBVIOUS
  <2>4. <<"redis">> \o <<"limits">> = <<"redis", "limits">>
    BY BothStores
  <2> QED BY <2>1, <2>2, <2>3, <2>4
<1> QED BY <1>5, <1>6

\* Closing a list of stores closes each once and lets go of what it holds.
LEMMA CloseAllCloses ==
  ASSUME NEW S \in {<<>>, <<"redis">>, <<"limits">>, <<"redis", "limits">>}, CloseAll(S),
         closes \in [Stores -> 0 .. 1], \A s \in Stores : closes[s] = 0
  PROVE  /\ closes' \in [Stores -> 0 .. 1]
         /\ S = <<>> => open' = open
         /\ S = <<"redis">> => open' = open \ {"redis"}
         /\ S = <<"limits">> => open' = open \ {"pool", "refresher"}
         /\ S = <<"redis", "limits">> => open' = open \ {"redis", "pool", "refresher"}
<1>1. ASSUME NEW s PROVE Cardinality({i \in DOMAIN S : S[i] = s}) \in 0 .. 1
  <2> DEFINE I == {i \in DOMAIN S : S[i] = s}
  <2>1. I = {} \/ I = {1} \/ I = {2}
    <3>1. CASE S = <<>> BY <3>1
    <3>2. CASE S = <<"redis">> \/ S = <<"limits">> BY <3>2
    <3>3. CASE S = <<"redis", "limits">> BY <3>3
    <3> QED BY <3>1, <3>2, <3>3
  <2> HIDE DEF I
  <2>3. Cardinality({}) = 0 /\ Cardinality({1}) = 1 /\ Cardinality({2}) = 1
    BY FS_EmptySet, FS_Singleton
  <2>4. Cardinality(I) = 0 \/ Cardinality(I) = 1 BY <2>1, <2>3
  <2>5. Cardinality(I) \in 0 .. 1 BY <2>4
  <2> QED BY <2>5 DEF I
<1>2. closes' \in [Stores -> 0 .. 1]
  <2>1. closes' = [s \in Stores |-> closes[s] + Cardinality({i \in DOMAIN S : S[i] = s})]
    BY DEF CloseAll
  <2>2. \A s \in Stores : closes[s] + Cardinality({i \in DOMAIN S : S[i] = s}) \in 0 .. 1
    <3> SUFFICES ASSUME NEW s \in Stores
                 PROVE  closes[s] + Cardinality({i \in DOMAIN S : S[i] = s}) \in 0 .. 1
      OBVIOUS
    <3> DEFINE n == Cardinality({i \in DOMAIN S : S[i] = s})
    <3>1. n \in 0 .. 1 BY <1>1
    <3> HIDE DEF n
    <3>2. closes[s] + n \in 0 .. 1 BY <3>1
    <3> QED BY <3>2 DEF n
  <2> QED BY <2>1, <2>2
<1>3. open' = open \ UNION {Held(s) : s \in {S[i] : i \in DOMAIN S}}
  BY DEF CloseAll, Range
<1>4. S = <<>> => open' = open BY <1>3
<1>5. S = <<"redis">> => open' = open \ {"redis"} BY <1>3 DEF Held
<1>6. S = <<"limits">> => open' = open \ {"pool", "refresher"} BY <1>3 DEF Held
<1>7. S = <<"redis", "limits">> => open' = open \ {"redis", "pool", "refresher"} BY <1>3 DEF Held
<1> QED BY <1>2, <1>4, <1>5, <1>6, <1>7

\* Every step of New, of main's signal loop and of the way down keeps the invariant.
LEMMA BootStepKeeps ==
  ASSUME BootInv, [BootNext]_bootVars
  PROVE  BootInv'
<1> DEFINE U == {<<>>, <<"redis">>, <<"limits">>, <<"redis", "limits">>}
<1>0. UniqueStores(config) \in U BY StoresOfConfig
<1>1. CASE Load
  <2>1. /\ bootPc = "load" /\ UNCHANGED <<bootFile, open, checked, closes>>
        /\ bootPc' \in {"postgres", "failed"} /\ config' \in {config, bootFile}
    BY <1>1 DEF Load
  <2> QED BY <2>1 DEF BootInv, OpenOK, CheckedOK, ClosesOK
<1>2. ASSUME NEW ok \in BOOLEAN, OpenPostgres(ok) PROVE BootInv'
  <2>1. OpenOK' BY <1>2 DEF BootInv, OpenOK, OpenPostgres, PostgresHeld, RedisHeld
  <2>2. CheckedOK' BY <1>2 DEF BootInv, CheckedOK, OpenPostgres
  <2>3. ClosesOK' BY <1>2 DEF BootInv, ClosesOK, OpenPostgres
  <2> QED BY <1>2, <2>1, <2>2, <2>3 DEF BootInv, OpenPostgres
<1>3. ASSUME NEW ok \in BOOLEAN, FirstSnapshot(ok) PROVE BootInv'
  <2>1. OpenOK' BY <1>3 DEF BootInv, OpenOK, FirstSnapshot, PostgresHeld, RedisHeld
  <2>2. CheckedOK' BY <1>3 DEF BootInv, CheckedOK, FirstSnapshot
  <2>3. ClosesOK' BY <1>3 DEF BootInv, ClosesOK, FirstSnapshot
  <2> QED BY <1>3, <2>1, <2>2, <2>3 DEF BootInv, FirstSnapshot
<1>4. ASSUME NEW ok \in BOOLEAN, BuildRedis(ok) PROVE BootInv'
  <2>1. /\ bootPc = "redis" /\ UNCHANGED <<bootFile, config, checked>> /\ checked = <<>>
        /\ open = PostgresHeld /\ closes \in [Stores -> 0 .. 1] /\ \A s \in Stores : closes[s] = 0
    BY <1>4 DEF BuildRedis, BootInv, OpenOK, CheckedOK, ClosesOK
  <2>2. CASE config.redis /\ config.url /\ ~ok
    <3> DEFINE S == IF config.postgres THEN <<"limits">> ELSE <<>>
    <3>1. bootPc' = "failed" /\ CloseAll(S) /\ S \in U BY <1>4, <2>2 DEF BuildRedis
    <3>2. /\ closes' \in [Stores -> 0 .. 1]
          /\ S = <<>> => open' = open
          /\ S = <<"limits">> => open' = open \ {"pool", "refresher"}
      BY <2>1, <3>1, CloseAllCloses
    <3>3. open' = {} BY <2>1, <3>2 DEF PostgresHeld
    <3> QED BY <2>1, <3>1, <3>2, <3>3 DEF BootInv, OpenOK, CheckedOK, ClosesOK
  <2>3. CASE ~(config.redis /\ config.url /\ ~ok)
    <3>1. /\ open' = (IF config.redis THEN open \cup {"redis"} ELSE open)
          /\ bootPc' = "check" /\ UNCHANGED closes
      BY <1>4, <2>3 DEF BuildRedis
    <3>2. open' = PostgresHeld' \cup RedisHeld' BY <2>1, <3>1 DEF PostgresHeld, RedisHeld
    <3> QED BY <2>1, <3>1, <3>2 DEF BootInv, OpenOK, CheckedOK, ClosesOK
  <2> QED BY <2>2, <2>3
<1>5. ASSUME bootPc \in {"check", "stopping"}, bootPc' \in {"failed", "stopped"},
             CloseAll(UniqueStores(config)), UNCHANGED <<bootFile, config, checked>>
      PROVE  BootInv'
  <2> DEFINE S == UniqueStores(config)
  <2>1. /\ open = PostgresHeld \cup RedisHeld /\ closes \in [Stores -> 0 .. 1]
        /\ \A s \in Stores : closes[s] = 0
    BY <1>5 DEF BootInv, OpenOK, ClosesOK
  <2>2. S = IF config.redis THEN IF config.postgres THEN <<"redis", "limits">> ELSE <<"redis">>
            ELSE IF config.postgres THEN <<"limits">> ELSE <<>>
    BY StoresOfConfig
  <2> HIDE DEF S
  <2>3. /\ closes' \in [Stores -> 0 .. 1]
        /\ S = <<>> => open' = open
        /\ S = <<"redis">> => open' = open \ {"redis"}
        /\ S = <<"limits">> => open' = open \ {"pool", "refresher"}
        /\ S = <<"redis", "limits">> => open' = open \ {"redis", "pool", "refresher"}
    <3>1. CloseAll(S) BY <1>5 DEF S
    <3>2. S \in U BY <1>0 DEF S
    <3> QED BY <2>1, <3>1, <3>2, CloseAllCloses
  <2>4. open' = {}
    <3>1. CASE config.redis /\ config.postgres BY <2>1, <2>2, <2>3, <3>1 DEF PostgresHeld, RedisHeld
    <3>2. CASE config.redis /\ ~config.postgres BY <2>1, <2>2, <2>3, <3>2 DEF PostgresHeld, RedisHeld
    <3>3. CASE ~config.redis /\ config.postgres BY <2>1, <2>2, <2>3, <3>3 DEF PostgresHeld, RedisHeld
    <3>4. CASE ~config.redis /\ ~config.postgres BY <2>1, <2>2, <2>3, <3>4 DEF PostgresHeld, RedisHeld
    <3> QED BY <3>1, <3>2, <3>3, <3>4
  <2> QED BY <1>5, <2>3, <2>4 DEF BootInv, OpenOK, CheckedOK, ClosesOK
<1>6. ASSUME NEW ok \in BOOLEAN, Check(ok) PROVE BootInv'
  <2> DEFINE S == UniqueStores(config)
             next == S[Len(checked) + 1]
  <2>1. bootPc = "check" /\ Len(checked) < Len(S) /\ UNCHANGED <<bootFile, config>>
    BY <1>6 DEF Check
  <2>2. CASE ~ok
    <3>1. CloseAll(S) /\ bootPc' = "failed" /\ UNCHANGED checked BY <1>6, <2>2 DEF Check
    <3> QED BY <1>5, <2>1, <3>1
  <2>3. CASE ok
    <3>1. checked' = Append(checked, next) /\ UNCHANGED <<open, closes, bootPc>> BY <1>6, <2>3 DEF Check
    <3>2. checked = <<>> \/ checked = S \/ (checked = <<"redis">> /\ config.redis)
      <4>1. CheckedOK BY DEF BootInv
      <4> HIDE DEF S
      <4>2. checked = <<>> \/ checked = UniqueStores(config) \/ (checked = <<"redis">> /\ config.redis)
        BY <2>1, <4>1, Zenon DEF CheckedOK
      <4> QED BY <4>2 DEF S
    <3>3. S = IF config.redis THEN IF config.postgres THEN <<"redis", "limits">> ELSE <<"redis">>
              ELSE IF config.postgres THEN <<"limits">> ELSE <<>>
      BY StoresOfConfig
    <3> DEFINE n == next
    <3>4. CASE checked = <<>>
      <4>1. n = S[1] /\ S # <<>> BY <2>1, <3>4
      <4>2. checked' = <<n>> BY <3>1, <3>4
      <4>3. checked' = S \/ (checked' = <<"redis">> /\ config.redis) BY <3>3, <4>1, <4>2
      <4> QED BY <2>1, <3>1, <3>3, <4>3 DEF BootInv, OpenOK, CheckedOK, ClosesOK, PostgresHeld, RedisHeld
    <3>5. CASE checked = <<"redis">> /\ config.redis
      <4>1. S = <<"redis", "limits">> BY <2>1, <3>3, <3>5
      <4>2. n = "limits" BY <3>5, <4>1
      <4> HIDE DEF n
      <4>3. checked' = Append(<<"redis">>, "limits") BY <3>1, <3>5, <4>2 DEF n
      <4>4. checked' = <<"redis", "limits">> BY <4>3, BothStores
      <4> QED BY <2>1, <3>1, <4>1, <4>4 DEF BootInv, OpenOK, CheckedOK, ClosesOK, PostgresHeld, RedisHeld
    <3>6. checked # S BY <2>1, <3>3
    <3> QED BY <3>2, <3>4, <3>5, <3>6
  <2> QED BY <2>2, <2>3
<1>7. ASSUME NEW ok \in BOOLEAN, Listen(ok) PROVE BootInv'
  <2> DEFINE S == UniqueStores(config)
  <2>1. bootPc = "check" /\ Len(checked) = Len(S) /\ UNCHANGED <<bootFile, config, checked>>
    BY <1>7 DEF Listen
  <2>2. CASE ~ok
    <3>1. bootPc' = "failed" /\ CloseAll(S) BY <1>7, <2>2 DEF Listen
    <3> QED BY <1>5, <2>1, <3>1
  <2>3. CASE ok
    <3>1. bootPc' = "running" /\ open' = open \cup {"listener"} /\ UNCHANGED closes
      BY <1>7, <2>3 DEF Listen
    <3>2. checked = S
      <4>1. checked = <<>> \/ (checked = <<"redis">> /\ config.redis) \/ checked = S
        BY <2>1 DEF BootInv, CheckedOK
      <4>2. S = IF config.redis THEN IF config.postgres THEN <<"redis", "limits">> ELSE <<"redis">>
                ELSE IF config.postgres THEN <<"limits">> ELSE <<>>
        BY StoresOfConfig
      <4> HIDE DEF S
      <4> QED BY <2>1, <4>1, <4>2
    <3>3. checked' = UniqueStores(config)'
      <4>1. UniqueStores(config)' = UniqueStores(config) BY <2>1
      <4> QED BY <2>1, <3>2, <4>1
    <3>4. OpenOK' BY <2>1, <3>1 DEF BootInv, OpenOK, PostgresHeld, RedisHeld
    <3>5. CheckedOK' BY <2>1, <3>1, <3>3 DEF BootInv, CheckedOK
    <3>6. ClosesOK' BY <2>1, <3>1 DEF BootInv, ClosesOK
    <3> QED BY <2>1, <3>1, <3>4, <3>5, <3>6 DEF BootInv
  <2> QED BY <2>2, <2>3
<1>8. ASSUME NEW f \in BootFiles, Edit(f) PROVE BootInv'
  <2>1. bootFile' = f /\ UNCHANGED <<config, bootPc, open, checked, closes>> BY <1>8 DEF Edit
  <2>2. OpenOK' BY <2>1 DEF BootInv, OpenOK, PostgresHeld, RedisHeld
  <2>3. CheckedOK' BY <2>1 DEF BootInv, CheckedOK
  <2>4. ClosesOK' BY <2>1 DEF BootInv, ClosesOK
  <2> QED BY <2>1, <2>2, <2>3, <2>4 DEF BootInv
<1>9. CASE Sighup
  <2>1. /\ bootPc = "running" /\ config' = bootFile /\ bootFile.redis = config.redis
        /\ bootFile.postgres = config.postgres /\ UNCHANGED <<bootFile, bootPc, open, checked, closes>>
    BY <1>9 DEF Sighup, RestartOnly
  <2>2. UniqueStores(bootFile) = UniqueStores(config) BY <2>1, StoresOfConfig
  <2>3. UniqueStores(config)' = UniqueStores(config) BY <2>1, <2>2
  <2>4. OpenOK' BY <2>1 DEF BootInv, OpenOK, PostgresHeld, RedisHeld
  <2>5. CheckedOK' BY <2>1, <2>3 DEF BootInv, CheckedOK
  <2>6. ClosesOK' BY <2>1 DEF BootInv, ClosesOK
  <2> QED BY <2>1, <2>4, <2>5, <2>6 DEF BootInv
<1>10. CASE Shutdown
  <2>1. /\ bootPc = "running" /\ bootPc' = "stopping" /\ open' = open \ {"listener"}
        /\ UNCHANGED <<bootFile, config, checked, closes>>
    BY <1>10 DEF Shutdown
  <2>2. OpenOK' BY <2>1 DEF BootInv, OpenOK, PostgresHeld, RedisHeld
  <2>3. CheckedOK' BY <2>1 DEF BootInv, CheckedOK
  <2>4. ClosesOK' BY <2>1 DEF BootInv, ClosesOK
  <2> QED BY <2>1, <2>2, <2>3, <2>4 DEF BootInv
<1>11. CASE CloseOperationalResources
  <2>1. /\ bootPc = "stopping" /\ bootPc' = "stopped" /\ CloseAll(checked)
        /\ UNCHANGED <<bootFile, config, checked>>
    BY <1>11 DEF CloseOperationalResources
  <2>2. checked = UniqueStores(config) BY <2>1 DEF BootInv, CheckedOK
  <2>3. CloseAll(UniqueStores(config)) BY <2>1, <2>2
  <2> QED BY <1>5, <2>1, <2>3
<1>12. CASE UNCHANGED bootVars
  <2>1. OpenOK' BY <1>12 DEF bootVars, BootInv, OpenOK, PostgresHeld, RedisHeld
  <2>2. CheckedOK' BY <1>12 DEF bootVars, BootInv, CheckedOK
  <2>3. ClosesOK' BY <1>12 DEF bootVars, BootInv, ClosesOK
  <2> QED BY <1>12, <2>1, <2>2, <2>3 DEF bootVars, BootInv
<1> QED
  BY <1>1, <1>2, <1>3, <1>4, <1>6, <1>7, <1>8, <1>9, <1>10, <1>11, <1>12 DEF BootNext

\* Wherever app.New fails, and whenever the service stops after however many reloads, the
\* process holds nothing in the end and closed each store once; while it runs it holds what
\* its configuration asks for (New, buildStores, uniqueClosers, Reload).
THEOREM StartupEndsHoldingNothing == BootSpec => []EndsHoldingNothing
<1>1. BootInit => BootInv
  <2> SUFFICES ASSUME BootInit PROVE BootInv OBVIOUS
  <2>1. OpenOK BY DEF BootInit, OpenOK
  <2>2. CheckedOK BY DEF BootInit, CheckedOK
  <2>3. ClosesOK BY DEF BootInit, ClosesOK
  <2> QED BY <2>1, <2>2, <2>3 DEF BootInit, BootInv
<1>2. BootInv /\ [BootNext]_bootVars => BootInv' BY BootStepKeeps
<1>3. BootInv => EndsHoldingNothing
  <2> SUFFICES ASSUME BootInv PROVE EndsHoldingNothing OBVIOUS
  <2>1. open \subseteq {"pool", "refresher", "redis", "listener"}
    BY DEF BootInv, OpenOK, PostgresHeld, RedisHeld
  <2>2. checked \in Seq(Stores)
    <3>1. CASE checked = <<>> BY <3>1
    <3>2. CASE checked = <<"redis">> BY <3>2 DEF Stores
    <3>3. CASE checked = <<"limits">> BY <3>3 DEF Stores
    <3>4. CASE checked = <<"redis", "limits">> BY <3>4 DEF Stores
    <3> QED BY <3>1, <3>2, <3>3, <3>4 DEF BootInv, CheckedOK
  <2>3. Cardinality(Range(checked)) = Len(checked)
    <3>1. CASE checked = <<>>
      <4>1. Range(checked) = {} BY <3>1 DEF Range
      <4> QED BY <3>1, <4>1, FS_EmptySet
    <3>2. CASE checked = <<"redis">> \/ checked = <<"limits">>
      <4>1. Range(checked) = {checked[1]} /\ Len(checked) = 1 BY <3>2 DEF Range
      <4> QED BY <4>1, FS_Singleton
    <3>3. CASE checked = <<"redis", "limits">>
      <4>1. Range(checked) = {"redis"} \cup {"limits"} /\ Len(checked) = 2
        BY <3>3 DEF Range
      <4>2. IsFiniteSet({"redis"}) /\ Cardinality({"redis"}) = 1 BY FS_Singleton
      <4>3. Cardinality({"redis"} \cup {"limits"}) = 2 BY <4>2, FS_AddElement
      <4> QED BY <4>1, <4>3
    <3> QED BY <3>1, <3>2, <3>3 DEF BootInv, CheckedOK
  <2>4. BootTypeOK BY <2>1, <2>2, <2>3 DEF BootInv, BootTypeOK
  <2>5. HoldsNothing BY DEF BootInv, OpenOK, HoldsNothing
  <2>6. HoldsWhatItSays
    BY DEF BootInv, OpenOK, PostgresHeld, RedisHeld, HoldsWhatItSays, Held
  <2>7. ClosedOnce BY DEF BootInv, ClosesOK, ClosedOnce
  <2> QED BY <2>4, <2>5, <2>6, <2>7 DEF EndsHoldingNothing
<1> QED BY <1>1, <1>2, <1>3, PTL DEF BootSpec
=============================================================================
