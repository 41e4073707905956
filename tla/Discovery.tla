------------------------------ MODULE Discovery ------------------------------
(***************************************************************************)
(* What crates/discovery makes of an application's routes: the capability  *)
(* it infers for each, the protections it recommends and the drift it      *)
(* finds between the routes and the live authority.                        *)
(*                                                                         *)
(* A path is a sequence of segments.  A segment has a name and a shape:    *)
(* "lower" or "mixed" case, or a parameter written `:x`, `{x}` or `[x]`.   *)
(* A route key is a method and a path; mappings, the protected routes of   *)
(* the live authority, are a function from keys to capabilities.           *)
(***************************************************************************)
EXTENDS Integers, Sequences, SequencesExt, Outcome

Segment(name, shape) == [name |-> name, shape |-> shape]
Key(method, path) == [method |-> method, path |-> path]
Param == Segment("param", ":")

\* normalize_path: parameters become `:param`, words lose their capitals.
normalize_path(path) ==
    [i \in DOMAIN path |-> IF path[i].shape \in {":", "{}", "[]"} THEN Param
                           ELSE Segment(path[i].name, "lower")]
is_parameter(segment) == segment = Param
\* The text of a normalized segment, for the capability that is named after it.
Text(segment) == IF is_parameter(segment) THEN ":param" ELSE segment.name

\* Words that end in s, and not in ss, lose it; "ies" becomes "y".
Plurals == [invoices |-> "invoice", policies |-> "policy", status |-> "statu"]
is_plural(name) == name \in DOMAIN Plurals
singular_resource(name) == IF is_plural(name) THEN Plurals[name] ELSE name

Infrastructure == {"health", "healthz", "ready", "readyz", "metrics"}
parameter_name(segment) == IF segment.shape \in {":", "{}"} THEN segment.name ELSE Param.name

Inference(resource, id, action, confidence) ==
    [capability |-> <<resource, action>>, resource_id |-> id, confidence |-> confidence]

infer_capability(method, path) ==
    LET segments == normalize_path(path)
        resource == Text(segments[1])
        name == singular_resource(resource)
        confidence == IF is_plural(resource) THEN "high" ELSE "low"
        collection == [GET |-> "read", POST |-> "create"]
        item == [GET |-> "read", PUT |-> "update", PATCH |-> "update", DELETE |-> "delete"]
        onItem == Len(segments) = 2 /\ is_parameter(segments[2])
    IN IF segments = <<>> \/ resource \in Infrastructure \cup {"auth"} THEN None ELSE
       CASE Len(segments) = 1 ->
              IF method \in DOMAIN collection
              THEN Inference(name, "*", collection[method], confidence) ELSE None
         [] onItem ->
              IF method \in DOMAIN item
              THEN Inference(name, parameter_name(path[2]), item[method], confidence) ELSE None
         [] Len(segments) = 2 /\ ~onItem /\ ~is_parameter(segments[1]) ->
              Inference(name, "*", Text(segments[2]), IF method = "POST" THEN "high" ELSE "medium")
         [] OTHER -> Inference(name, "*", "review", "low")

classify_protection(path, capability) ==
    LET segments == normalize_path(path)
        open == \/ segments = <<>>
                \/ Len(segments) = 1 /\ Text(segments[1]) \in Infrastructure
                \/ Text(segments[1]) = "auth"
    IN IF capability # None THEN "protected" ELSE IF open THEN "public" ELSE "unprotected"

\* route.capability is what the application itself demands, or None.
describe_route(route, mappings) ==
    LET key == Key(route.method, normalize_path(route.path))
        existing == IF key \in DOMAIN mappings THEN mappings[key] ELSE None
        capability == IF route.capability # None THEN route.capability ELSE existing
    IN [key |-> key, capability |-> capability,
        inference |-> IF capability # None THEN None ELSE infer_capability(route.method, route.path),
        protection |-> classify_protection(route.path, capability)]

\* A hash over the sorted descriptions, taken to tell apart what it hashes.
Bug_discovery_revision(routes) == {[key |-> r.key] : r \in routes}
discovery_revision(routes) ==
    {[key |-> r.key, capability |-> r.capability, inference |-> r.inference] : r \in routes}

\* A route is to be protected when it is open, changes something and has a
\* capability that can be inferred.
Recommended(description) ==
    /\ description.protection = "unprotected" /\ description.capability = None
    /\ description.inference # None
    /\ description.key.method # "GET"

propose_authority(routes, mappings) ==
    LET described == {describe_route(r, mappings) : r \in routes}
    IN [routes |-> described, discovery_revision |-> discovery_revision(described),
        recommendations |-> {[key |-> r.key, capability |-> r.inference.capability] :
                                r \in {d \in described : Recommended(d)}}]

-----------------------------------------------------------------------------
(* Reconciliation.  Every caller passes no previous discovery, so that the *)
(* previous routes are those of the live authority.                        *)

route_family(key) ==
    LET words == SelectSeq(normalize_path(key.path), LAMBDA s : ~is_parameter(s))
    IN IF words = <<>> THEN "" ELSE words[1].name

\* Removed and new routes of one family are paired, the first with the first.
\* The order, by method and path, only settles which of several are paired.
Paired(removed, new) ==
    UNION {LET of == SetToSeq({k \in removed : route_family(k) = f})
               to == SetToSeq({k \in new : route_family(k) = f})
           IN {<<of[i], to[i]>> : i \in DOMAIN of \cap DOMAIN to} : f \in {route_family(k) : k \in removed}}

Drift(kind, key) == [kind |-> kind, key |-> key]

\* history: the stored proposals to protect a route.
Stale(item, current) == item.status # "Applied" /\ item.key \notin current

\* A live mapping that differs from what would be inferred.
Bug_Conflicts(current, mappings) == {}
Conflicts(current, mappings) ==
    {k \in current \cap DOMAIN mappings :
        LET inferred == infer_capability(k.method, k.path)
        IN inferred # None /\ inferred.capability # mappings[k]}

reconcile(routes, mappings, history) ==
    LET proposal == propose_authority(routes, mappings)
        current == {r.key : r \in proposal.routes}
        normal == [k \in DOMAIN mappings |-> Key(k.method, normalize_path(k.path))]
        previous == {normal[k] : k \in DOMAIN mappings}
        items == {[h EXCEPT !.key = Key(@.method, normalize_path(@.path))] : h \in history}
        changed == Paired(previous \ current, current \ previous)
        orphaned == {normal[k] : k \in {k \in DOMAIN mappings : normal[k] \notin current}}
    IN [proposal |-> proposal,
        drift |-> {Drift("new_route", k) : k \in (current \ previous) \ {p[2] : p \in changed}}
             \cup {Drift("removed_route", k) : k \in (previous \ current) \ {p[1] : p \in changed}}
             \cup {Drift("route_changed", p[2]) : p \in changed}
             \cup {Drift("orphaned_authority", k) : k \in orphaned}
             \cup {Drift("stale_proposal", h.key) : h \in {h \in items : Stale(h, current)}}
             \cup {Drift("capability_conflict", k) : k \in Conflicts(current, mappings)}]
=============================================================================
