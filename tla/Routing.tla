------------------------------ MODULE Routing ------------------------------
(***************************************************************************)
(* Router.Resolve (gateway/gateway.go) as operators: which routes of a     *)
(* snapshot can serve a request, and in which order they are tried.        *)
(*                                                                         *)
(* A route is a record [name, model, provider, priority, weight, ops,      *)
(* caps, maxOut, ...]; names are numbers and sort as such.  A request is   *)
(* [model, provider, op, needs, max, ...]; needs and caps are sets of      *)
(* features (streaming, tools, vision ...).                                *)
(***************************************************************************)
EXTENDS Integers, Sequences, FiniteSets, SequencesExt

CONSTANTS MaxWeight,  \* the largest uint64
          None        \* no provider, token, principal, limit or estimate

ASSUME RoutingAssumption == MaxWeight \in Nat \ {0}

-----------------------------------------------------------------------------
(* prepareRoute                                                            *)

\* planOpenAIBridge: chat completions can stand in for two other operations,
\* for responses only if they are not streamed.
CanBridge(route, req) ==
  /\ route.provider = "openai"
  /\ "chat" \in route.ops
  /\ req.op \in {"responses", "completions"}
  /\ req.op = "responses" => "streaming" \notin req.needs

Serves(route, req) == req.op \in route.ops \/ CanBridge(route, req)

Prepares(route, req) ==
  /\ req.provider # None => route.provider = req.provider
  /\ Serves(route, req)
  /\ req.needs \subseteq route.caps
  /\ req.max > 0 /\ route.maxOut > 0 => req.max <= route.maxOut

\* A resolved route, bridged or not; the estimate comes later.
Candidate(route, req) ==
  [route |-> route, bridged |-> req.op \notin route.ops, estimate |-> None]

-----------------------------------------------------------------------------
(* rotateWeighted                                                          *)

AddWeight(total, c) ==
  IF c.route.weight <= 0 THEN total
  ELSE IF total > MaxWeight - c.route.weight THEN MaxWeight
  ELSE total + c.route.weight

TotalWeight(group) == FoldLeft(AddWeight, 0, group)

PickAtOrBefore(group, target) ==
  LET hit == {i \in DOMAIN group : group[i].route.weight > 0
                                     /\ target <= TotalWeight(SubSeq(group, 1, i))}
  IN  IF hit = {} THEN 1 ELSE CHOOSE i \in hit : \A j \in hit : i <= j

\* The first route whose share of 0 .. total - 1 holds the target.
Pick(group, target) ==
  LET hit == {i \in DOMAIN group : group[i].route.weight > 0
                                     /\ target < TotalWeight(SubSeq(group, 1, i))}
  IN  IF hit = {} THEN 1 ELSE CHOOSE i \in hit : \A j \in hit : i <= j

RotateTo(group, i) == SubSeq(group, i, Len(group)) \o SubSeq(group, 1, i - 1)

\* hash is the FNV hash of the request's private execution ID.
RotateWeighted(group, hash) ==
  IF Len(group) <= 1 \/ TotalWeight(group) = 0 THEN group
  ELSE RotateTo(group, Pick(group, hash % TotalWeight(group)))

-----------------------------------------------------------------------------
(* Resolve                                                                 *)

Before(c, d) ==
  \/ c.route.priority > d.route.priority
  \/ c.route.priority = d.route.priority /\ c.route.name < d.route.name

OfModel(routes, req) == {r \in routes : r.model = req.model}

Sorted(routes, req) ==
  SetToSortSeq({Candidate(r, req) : r \in {x \in OfModel(routes, req) : Prepares(x, req)}}, Before)

GroupOf(cands, priority) == SelectSeq(cands, LAMBDA c : c.route.priority = priority)

ResolveInOneGroup(routes, req, hash) == RotateWeighted(Sorted(routes, req), hash)

\* Each priority's routes, the highest first, rotated by weight.
Resolve(routes, req, hash) ==
  LET cands == Sorted(routes, req)
      priorities == SetToSortSeq({c.route.priority : c \in ToSet(cands)}, >)
  IN  FlattenSeq([i \in DOMAIN priorities |-> RotateWeighted(GroupOf(cands, priorities[i]), hash)])
=============================================================================
