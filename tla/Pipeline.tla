------------------------------ MODULE Pipeline ------------------------------
(***************************************************************************)
(* A request from its arrival (api/server.go) through the request          *)
(* interceptors in the order app.New lists them (policy/request.go,        *)
(* token.go, quota.go and CandidatePreflight) to the dispatch of its       *)
(* candidate routes, while the configuration is reloaded and limits are    *)
(* changed.  Routing has Router.Resolve.  Estimates are reduced to an      *)
(* input and an output count; Charge has how they are made.                *)
(*                                                                         *)
(* A configuration is [valid, restart, routes, anonymous, tokens,          *)
(* requireUser, requireProject, maxBody, keys, ttl]: restart stands for    *)
(* the server, store and telemetry settings, tokens is a function from     *)
(* the bearer tokens it accepts (JWTs too) to principals, keys one from    *)
(* quota keys to limits.  Empty allow-lists allow everything.              *)
(***************************************************************************)
EXTENDS Routing

CONSTANTS Configs,   \* configurations the file may hold
          Requests,  \* requests that may arrive
          Limits,    \* limits that may be put
          Hashes,    \* hashes of execution IDs
          Buffer,    \* quotaReservationTTL's settlement buffer
          MaxTTL     \* the largest time.Duration

VARIABLES config,    \* ConfigStore.current
          dynamic,   \* limits in the limit store, by key
          req,       \* the request
          hash,      \* of its execution ID
          pc,        \* the interceptor it is in, "done" at the end
          cfg,       \* the snapshot it is pinned to
          principal, \* who sent it, or None
          cands,     \* its candidates
          scope,     \* its quota limit, or None
          estimate,  \* state.Estimate
          ttl,       \* the TTL of its quota reservation
          outcome    \* "open", "dispatched", or why it was turned away

vars == <<config, dynamic, req, hash, pc, cfg, principal, cands, scope, estimate, ttl,
          outcome>>

Keys == {"anonymous"} \cup UNION {{c.tokens[t].key : t \in DOMAIN c.tokens} : c \in Configs}

Init ==
  /\ config \in {c \in Configs : c.valid}
  /\ dynamic \in [Keys -> {None}]
  /\ req \in Requests
  /\ hash \in Hashes
  /\ pc = "arrive"
  /\ cfg = None
  /\ principal = None
  /\ cands = <<>>
  /\ scope = None
  /\ estimate = None
  /\ ttl = 0
  /\ outcome = "open"

-----------------------------------------------------------------------------
(* Helpers of the interceptors                                             *)

Reject(why) == pc' = "done" /\ outcome' = why
Continue(next) == pc' = next /\ UNCHANGED outcome

\* ReplaceCandidates with what a filter leaves, unless it leaves nothing.
Keep(left, next, why) ==
  IF left = <<>> THEN Reject(why) /\ UNCHANGED cands ELSE Continue(next) /\ cands' = left

Allows(list, x) == list = {} \/ x \in list

\* AuthenticatePrincipal, or an anonymous caller where they are allowed.
Authenticated(c, token) ==
  IF token = None THEN c.anonymous ELSE token \in DOMAIN c.tokens

PrincipalOf(c, token) == IF token = None THEN None ELSE c.tokens[token]

KeyOf(p) == IF p = None THEN "anonymous" ELSE p.key

\* The tokens of a request on a route: its tokenizer's count and surcharges, and
\* the output asked for, or the route's largest, of every choice.
EstimateOf(r, route) ==
  [in  |-> r.in + route.extra,
   out |-> IF r.op = "embeddings" THEN 0
           ELSE r.choices * (IF r.max > 0 THEN r.max ELSE route.maxOut)]

WithEstimate(c) == [c EXCEPT !.estimate = EstimateOf(req, c.route)]

MaxOver(s, F(_)) == FoldLeft(LAMBDA m, c : IF F(c) > m THEN F(c) ELSE m, 0, s)

FirstEstimate(s) == s[1].estimate

MaxEstimate(s) == [in  |-> MaxOver(s, LAMBDA c : c.estimate.in),
                   out |-> MaxOver(s, LAMBDA c : c.estimate.out)]

NeededTTLOfFirst(s) == Buffer + s[1].route.timeout * s[1].route.tries

NeededTTLUnchecked(s) ==
  FoldLeft(LAMBDA t, c : t + c.route.timeout * c.route.tries, Buffer, s)

\* Buffer and the calls of every candidate, the largest duration if need be.
NeededTTL(s) ==
  LET add(t, c) == IF c.route.timeout > (MaxTTL - t) \div c.route.tries THEN MaxTTL
                   ELSE t + c.route.timeout * c.route.tries
  IN  FoldLeft(add, Buffer, s)

ReservationTTL(s, configured) ==
  IF configured < NeededTTL(s) THEN NeededTTL(s) ELSE configured

\* candidateAllowedByScopes and candidateHasRequiredUnitPricing.
AllowedByScope(c, l) ==
  /\ Allows(l.models, req.model)
  /\ Allows(l.providers, c.route.provider)
  /\ l.maxIn > 0 => c.estimate.in <= l.maxIn
  /\ l.maxOut > 0 => (IF req.max > 0 THEN req.max ELSE c.estimate.out) <= l.maxOut
  /\ l.spend /\ req.units => c.route.unitPriced

-----------------------------------------------------------------------------
(* The handler                                                             *)

\* The snapshot is loaded once; the caller is authenticated and the body read
\* under its limit.
Arrive ==
  /\ pc = "arrive"
  /\ cfg' = config
  /\ IF ~Authenticated(config, req.token)
     THEN Reject("unauthorized") /\ UNCHANGED principal
     ELSE /\ principal' = PrincipalOf(config, req.token)
          /\ IF req.bytes > config.maxBody THEN Reject("body_too_large")
             ELSE IF req.badBody THEN Reject("invalid_body")
             ELSE Continue("meta")
  /\ UNCHANGED <<config, dynamic, req, hash, cands, scope, estimate, ttl>>

\* Auth finds the principal of the ingress, or an anonymous caller again; then
\* MetadataValidation and RequireUser.
Meta ==
  /\ pc = "meta"
  /\ IF principal = None /\ ~cfg.anonymous THEN Reject("unauthorized")
     ELSE IF req.badMeta THEN Reject("invalid_metadata")
     ELSE IF cfg.requireUser /\ req.user = None THEN Reject("missing_user")
     ELSE IF cfg.requireProject /\ req.project = None THEN Reject("missing_project")
     ELSE Continue("size")
  /\ UNCHANGED <<config, dynamic, req, hash, cfg, principal, cands, scope, estimate, ttl>>

RoutesNow == config.routes
RoutesPinned == cfg.routes

\* RequestSize is the first to resolve the candidates.
RequestSize ==
  LET resolved == Resolve(RoutesPinned, req, hash)
      fitting == SelectSeq(resolved, LAMBDA c : c.route.maxBody = 0 \/ req.bytes <= c.route.maxBody)
  IN  /\ pc = "size"
      /\ IF OfModel(RoutesPinned, req) = {} THEN Reject("model_not_found") /\ UNCHANGED cands
         ELSE IF resolved = <<>> THEN Reject("unsupported") /\ UNCHANGED cands
         ELSE Keep(fitting, "tokens", "body_too_large")
      /\ UNCHANGED <<config, dynamic, req, hash, cfg, principal, scope, estimate, ttl>>

TokenValidation ==
  LET all == [i \in DOMAIN cands |-> WithEstimate(cands[i])]
      input == SelectSeq(all, LAMBDA c : c.route.maxIn = 0 \/ c.estimate.in <= c.route.maxIn)
      both == SelectSeq(input, LAMBDA c : c.route.maxOut = 0 \/ req.max <= c.route.maxOut)
  IN  /\ pc = "tokens"
      /\ Keep(both, "acl", IF Len(input) < Len(all) THEN "max_input" ELSE "max_output")
      /\ estimate' = IF both = <<>> THEN estimate ELSE MaxEstimate(both)
      /\ UNCHANGED <<config, dynamic, req, hash, cfg, principal, scope, ttl>>

AclFilterModelOnly(s, p) == s

AclFilter(s, p) == SelectSeq(s, LAMBDA c : Allows(p.providers, c.route.provider))

ACL ==
  /\ pc = "acl"
  /\ IF principal = None THEN Continue("preflight") /\ UNCHANGED cands
     ELSE IF ~Allows(principal.models, req.model)
          THEN Reject("forbidden_model") /\ UNCHANGED cands
     ELSE IF ~Allows(principal.projects, req.project)
          THEN Reject("forbidden_project") /\ UNCHANGED cands
     ELSE Keep(AclFilter(cands, principal), "preflight", "forbidden_provider")
  /\ UNCHANGED <<config, dynamic, req, hash, cfg, principal, scope, estimate, ttl>>

\* CandidatePreflight: the one preflight of the built-in adapters refuses to
\* bridge a body it cannot convert, and lets other routes be tried.
Preflight ==
  /\ pc = "preflight"
  /\ Keep(SelectSeq(cands, LAMBDA c : c.bridged => req.bridgeable), "scopes", "not_bridgeable")
  /\ UNCHANGED <<config, dynamic, req, hash, cfg, principal, scope, estimate, ttl>>

LimitOf(key) ==
  IF dynamic[key] # None THEN dynamic[key]
  ELSE IF key \in DOMAIN cfg.keys THEN cfg.keys[key] ELSE None

\* One read of the limit store, or of the pinned configuration.
ResolveScopes ==
  LET l == LimitOf(KeyOf(principal))
      left == SelectSeq(cands, LAMBDA c : AllowedByScope(c, l))
  IN  /\ pc = "scopes"
      /\ IF l = None THEN Continue("quota") /\ UNCHANGED <<cands, scope, estimate>>
         ELSE /\ Keep(left, "quota", IF l.spend /\ req.units THEN "unpriced" ELSE "forbidden_scope")
              /\ IF left = <<>> THEN UNCHANGED <<scope, estimate>>
                 ELSE scope' = l /\ estimate' = MaxEstimate(left)
      /\ UNCHANGED <<config, dynamic, req, hash, cfg, principal, ttl>>

LimitStoreFails ==
  /\ pc = "scopes"
  /\ Reject("limits_unavailable")
  /\ UNCHANGED <<config, dynamic, req, hash, cfg, principal, cands, scope, estimate, ttl>>

\* The quota store admits the request or denies it; Attempt and QuotaAccount
\* have what follows the dispatch.
Quota(admitted) ==
  /\ pc = "quota"
  /\ IF scope = None \/ (scope # None /\ ~scope.counted)
     THEN admitted /\ Continue("dispatch") /\ UNCHANGED ttl
     ELSE /\ ttl' = ReservationTTL(cands, cfg.ttl)
          /\ IF admitted THEN Continue("dispatch") ELSE Reject("quota_denied")
  /\ UNCHANGED <<config, dynamic, req, hash, cfg, principal, cands, scope, estimate>>

Dispatch ==
  /\ pc = "dispatch"
  /\ pc' = "done"
  /\ outcome' = "dispatched"
  /\ UNCHANGED <<config, dynamic, req, hash, cfg, principal, cands, scope, estimate, ttl>>

-----------------------------------------------------------------------------
(* Meanwhile                                                               *)

\* Service.Reload publishes a valid file that changes no restart-only setting.
Reload(c) ==
  /\ config # c
  /\ c.valid
  /\ c.restart = config.restart
  /\ config' = c
  /\ UNCHANGED <<dynamic, req, hash, pc, cfg, principal, cands, scope, estimate, ttl,
                 outcome>>

\* A PUT of the limits of a key (LimitSnapshot has its steps).
PutLimit(k, l) ==
  /\ dynamic[k] # l
  /\ dynamic' = [dynamic EXCEPT ![k] = l]
  /\ UNCHANGED <<config, req, hash, pc, cfg, principal, cands, scope, estimate, ttl,
                 outcome>>

Next ==
  \/ Arrive \/ Meta \/ RequestSize \/ TokenValidation \/ ACL
  \/ Preflight \/ ResolveScopes \/ LimitStoreFails
  \/ \E admitted \in BOOLEAN : Quota(admitted)
  \/ Dispatch
  \/ \E c \in Configs : pc # "done" /\ Reload(c)
  \/ \E k \in Keys, l \in Limits : pc # "done" /\ PutLimit(k, l)

Spec == Init /\ [][Next]_vars

-----------------------------------------------------------------------------
(* GET /v1/models                                                          *)

\* modelsForPrincipal.
Listed(c, p, l) ==
  {r.model : r \in {x \in c.routes :
     /\ p # None => Allows(p.models, x.model) /\ Allows(p.providers, x.provider)
     /\ l # None => Allows(l.models, x.model) /\ Allows(l.providers, x.provider)}}

-----------------------------------------------------------------------------
(* Properties                                                              *)

\* The variables' types; the TTL of a reservation is a duration that did not
\* wrap around (quotaReservationTTL).
TypeOK ==
  /\ pc \in {"arrive", "meta", "size", "tokens", "acl", "preflight", "scopes", "quota",
             "dispatch", "done"}
  /\ ttl \in 0..MaxTTL

\* The routes a request may be sent to, from the snapshot it arrived under and
\* the limit it was given.
Eligible ==
  {r \in cfg.routes :
    /\ r.model = req.model
    /\ Prepares(r, req)
    /\ r.maxBody = 0 \/ req.bytes <= r.maxBody
    /\ r.maxIn = 0 \/ EstimateOf(req, r).in <= r.maxIn
    /\ CanBridge(r, req) /\ req.op \notin r.ops => req.bridgeable
    /\ principal # None => Allows(principal.providers, r.provider)
    /\ scope # None => AllowedByScope(WithEstimate(Candidate(r, req)), scope)}

\* A request is sent to exactly the routes every policy allows: no filter's
\* work is lost when the next one looks at the candidates, and a reload on the
\* way changes nothing (ResolveCandidates, ReplaceCandidates,
\* ExecuteWithSnapshot).
DispatchedAreEligible ==
  pc \in {"quota", "dispatch"} =>
    /\ {cands[i].route : i \in DOMAIN cands} = Eligible
    /\ Len(cands) = Cardinality(Eligible)
    /\ cands # <<>>

\* Whatever the filters remove, a route of higher priority comes first
\* (Router.Resolve).
HigherPriorityFirst ==
  \A i, j \in DOMAIN cands : i < j => cands[i].route.priority >= cands[j].route.priority

\* Of all hashes, each route of a priority group is tried first in proportion
\* to its weight, and no route of the group is lost (rotateWeighted).
WeightsAreHonoured ==
  pc = "size" => \A p \in {r.priority : r \in cfg.routes} :
    LET g == GroupOf(Sorted(cfg.routes, req), p)
        order(h) == RotateWeighted(g, h)
        hashes == 0..(TotalWeight(g) - 1)
    IN  Len(g) > 1 => \A i \in DOMAIN g :
          /\ Cardinality({h \in hashes : order(h)[1] = g[i]}) = g[i].route.weight
          /\ \A h \in hashes : Cardinality({k \in DOMAIN order(h) : order(h)[k] = g[i]}) = 1

\* The estimate the request carries bounds the one of every route it may still
\* be sent to (maxEstimate, again after every filter that may change it).
EstimateCoversCandidates ==
  pc \in {"acl", "preflight", "scopes", "quota", "dispatch"} =>
    \A i \in DOMAIN cands : /\ cands[i].estimate.in <= estimate.in
                            /\ cands[i].estimate.out <= estimate.out

\* A quota reservation outlives every call its request may make, one after the
\* other, or is as long as a duration can be (quotaReservationTTL).
LeaseOutlivesCalls ==
  ttl > 0 =>
    LET calls == FoldLeft(LAMBDA t, c : t + c.route.timeout * c.route.tries, 0, cands)
    IN  ttl >= cfg.ttl /\ (ttl >= Buffer + calls \/ ttl = MaxTTL)

\* What GET /v1/models shows a caller agrees with what the policies do: a model
\* that is served was listed, and one the caller is forbidden, with every route
\* of it in question, was not (modelsForPrincipal, ACL, ResolveScopes).
ListingAgrees ==
  /\ outcome = "dispatched" => req.model \in Listed(cfg, principal, scope)
  /\ outcome \in {"forbidden_model", "forbidden_provider"}
       /\ (\A r \in OfModel(cfg.routes, req) :
             /\ Prepares(r, req)
             /\ r.maxBody = 0 \/ req.bytes <= r.maxBody
             /\ r.maxIn = 0 \/ EstimateOf(req, r).in <= r.maxIn)
     => req.model \notin Listed(cfg, principal, None)
=============================================================================
