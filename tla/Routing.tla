------------------------------- MODULE Routing -------------------------------
(***************************************************************************)
(* How a request finds the authority it needs: the rule tables of          *)
(* crates/server/src/router.rs, and the two ways one is made, from the     *)
(* options of a proxy (crates/cli/src/serve.rs) and from the routes an     *)
(* embedded application registers.                                         *)
(*                                                                         *)
(* A pattern is the set of the paths it matches.  A requirement is what    *)
(* the caller must be: "public", "authenticated", or a role, standing for  *)
(* the route's capability that is granted to that role.                    *)
(***************************************************************************)
EXTENDS Naturals, Sequences, FiniteSets, Functions

CONSTANTS
    Path,         \* the application's paths
    PublicEntry,  \* those of them that are public entry paths
    PublicPrefix  \* those under a public prefix: "/assets/", "/src/", "/favicon", ...

Method == {"GET", "HEAD", "POST", "OPTIONS"}
\* OPTIONS is in no rule of a proxy.
all == Method \ {"OPTIONS"}
Rank(method) == CASE method = "GET" -> 1 [] method = "HEAD" -> 2 [] method = "POST" -> 3 [] OTHER -> 4

Route == [method : Method, path : Path]
Access == {"authenticated", "admin", "user"}
Requirement == {"public"} \cup Access
Role == {"anonymous", "user", "admin"}
NoRequirement == "none"

Satisfies(role, requirement) ==
    CASE requirement = "public" -> TRUE
      [] requirement = "authenticated" -> role # "anonymous"
      [] OTHER -> role = requirement

Exact(path) == {path}
Everything == Path
RouteRule(methods, pattern, requirement) ==
    [methods |-> methods, pattern |-> pattern, requirement |-> requirement]

\* The first rule of the path that has the method decides.
Matching(rules, method, path) ==
    {i \in DOMAIN rules : path \in rules[i].pattern /\ method \in rules[i].methods}
resolve(rules, method, path) ==
    LET hits == Matching(rules, method, path) IN
    IF hits = {} THEN NoRequirement
    ELSE rules[CHOOSE i \in hits : \A j \in hits : i <= j].requirement

\* The entries of the saved route access, sorted by path and then by method.
\* Only the order of two entries of one path matters to resolve.
Sorted(access) ==
    CHOOSE order \in Bijection(1..Cardinality(DOMAIN access), DOMAIN access) :
        \A i, j \in DOMAIN order :
            i < j /\ order[i].path = order[j].path => Rank(order[i].method) < Rank(order[j].method)

\* A saved access is demanded of every method of its path.
RequiredExact(access) ==
    [i \in DOMAIN Sorted(access) |->
        RouteRule(all, Exact(Sorted(access)[i].path), access[Sorted(access)[i]])]

\* The prefixes an operator requires capabilities for (Studio names none) and
\* those that are public come before the accesses saved for exact paths.
Public == <<RouteRule({"GET", "HEAD"}, PublicEntry, "public"), RouteRule(all, PublicPrefix, "public")>>
Default == <<RouteRule(all, Everything, "authenticated")>>

Bug_DefaultFirst(required, access) == Public \o required \o Default \o RequiredExact(access)
application_policy(required, access) == Public \o required \o RequiredExact(access) \o Default
=============================================================================
