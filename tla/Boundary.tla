------------------------------- MODULE Boundary -------------------------------
(***************************************************************************)
(* The running boundary as its clients see it: a server is started from a  *)
(* declaration and serves the surface that follows from it; clients send   *)
(* requests and changes of the authority; and reports compare the routes   *)
(* of the application with the live authority, storing a proposal for each *)
(* protection they recommend, while other clients go on changing it.       *)
(*                                                                         *)
(* A report reads the live authority, the stored proposals and the         *)
(* revision at different times: each read is a step.  What happens inside  *)
(* one request to propose, approve, reject or apply is one step here; its  *)
(* own interleavings are those of AuthorityControl.                        *)
(***************************************************************************)
EXTENDS Surface, ControlRequest, Discovery, LiveAuthority

CONSTANTS
    Deployments,  \* what is deployed; see Deployment
    Reader        \* clients that ask for reports

VARIABLES
    deployed,   \* the deployment
    contract,   \* the contract: None before the start, Error if it is refused
    authority,  \* the live authority
    proposals,  \* the stored proposals, by number
    changes,    \* the change records, by number
    local,      \* what each report in the making has read
    answer      \* how the last request was answered, None after another step

vars == <<deployed, contract, authority, proposals, changes, local, answer>>

\* entries and mail say what is declared, source is the text that was written;
\* readers are the clients that ask for reports, max_proposals the bound on the
\* proposals that are ever stored.
Deployment(entries, source, mail, routes, requests, commands, readers, max_proposals) ==
    [entries |-> entries, source |-> source, mail |-> mail, routes |-> routes, requests |-> requests,
     commands |-> commands, readers |-> readers, max_proposals |-> max_proposals]

\* The application's keys and commands are among those the constants give, the
\* requirement of a route names a capability exactly if it is for one, and a
\* request has what the server looks at.
WellFormed(d) ==
    /\ d.readers \subseteq Reader
    /\ IsFiniteSet(d.routes)
    /\ \A c \in d.routes :
         /\ c.capability # None <=> c.requirement.kind = "capability"
         /\ Key(c.method, normalize_path(c.path)) \in Route
         /\ LET inferred == infer_capability(c.method, c.path)
            IN inferred = None \/ inferred.capability \in Capability
    /\ \A request \in d.requests : {"method", "path", "session"} \subseteq DOMAIN request
    /\ \A command \in d.commands : BodyOf(command) # Error =>
         parse_authority_change(BodyOf(command)) \in EditChange \cup {Error}

ASSUME BoundaryAssumption ==
    /\ Error # None /\ Error \notin Authority
    /\ None \notin Nat \cup Experiences \cup ToSet(RouteTable)
    /\ \A d \in Deployments : WellFormed(d)

Idle == [pc |-> "idle", kind |-> None, snapshot |-> NewAuthority, history |-> {}, revision |-> 0,
         todo |-> <<>>, items |-> {}, ids |-> <<>>]

Init ==
    /\ deployed \in Deployments
    /\ contract = None
    /\ authority = NewAuthority
    /\ proposals = <<>> /\ changes = <<>>
    /\ local = [r \in Reader |-> Idle]
    /\ answer = None

\* A declaration that does not parse, does not validate, or names a connector
\* that cannot be had, is not served.
Served(config) == IF config = Error THEN Error ELSE IF from_config_with(config) THEN config ELSE Error
Start ==
    /\ contract = None
    /\ contract' = Served(parse_auth_block(deployed.source, deployed.mail))
    /\ UNCHANGED <<deployed, authority, proposals, changes, local, answer>>

Running == contract # None /\ contract # Error

-----------------------------------------------------------------------------
(* Requests. *)

Spelled(path) == [i \in DOMAIN path |-> path[i].name]

Requirement(kind, capability) == [kind |-> kind, capability |-> capability]
RouteCandidate(method, path, requirement) ==
    [method |-> method, path |-> path, requirement |-> requirement, capability |-> requirement.capability]

\* RouterApp::resolve, by the exact path, and the live protection over it.
Registered(key) == {r \in deployed.routes : r.method = key.method /\ r.path = key.path}
LiveProtection(key) == IF key \in Route THEN authority.content.route_protection[key] ELSE None
Bug_Demand(key) == (CHOOSE r \in Registered(key) : TRUE).requirement
Demand(key) ==
    IF LiveProtection(key) # None THEN Requirement("capability", LiveProtection(key))
    ELSE (CHOOSE r \in Registered(key) : TRUE).requirement

\* handle_application: what is demanded of a request before its handler runs.
handle_application(key) ==
    IF Registered(key) # {} THEN [status |-> None, demand |-> Demand(key)]
    ELSE [status |-> IF \E r \in deployed.routes : r.path = key.path THEN 405 ELSE 404, demand |-> None]

\* An answer changes nothing, so that one after another shows nothing new.
Ask ==
    /\ Running /\ answer = None
    /\ \E request \in deployed.requests :
        LET boundary == handle(contract, [request EXCEPT !.path = Spelled(@)])
            application == handle_application(Key(request.method, request.path))
        IN answer' = IF boundary.by = "application"
                     THEN [to |-> request, by |-> "application", status |-> application.status,
                           demand |-> application.demand]
                     ELSE [to |-> request, by |-> boundary.by, status |-> boundary.status, demand |-> None]
    /\ UNCHANGED <<deployed, contract, authority, proposals, changes, local>>

-----------------------------------------------------------------------------
(* Changes. *)

\* preview_authority_change
Previewed(current, change) ==
    IF change.type # "Revert" THEN apply_change(current, change)
    ELSE IF change.change_id \in DOMAIN changes
         THEN apply_revert_change(current, changes[change.change_id])
         ELSE Error

Stored(change, source, discovery) ==
    [change |-> change, revision |-> authority.revision, source |-> source,
     discovery_revision |-> discovery, status |-> "Pending"]
Room == Len(proposals) < deployed.max_proposals

\* A client's command, as the control plane understands its body.
Propose(command) ==
    LET change == parse_authority_change(BodyOf(command))
    IN /\ Running
       /\ Room
       /\ BodyOf(command) # Error
       /\ proposals' = IF change = Error THEN proposals
                       ELSE IF Previewed(authority, change) = Error THEN proposals
                       ELSE Append(proposals, Stored(change, "explicit", None))
       /\ answer' = [to |-> command, by |-> "propose", change |-> change]
       /\ UNCHANGED <<deployed, contract, authority, changes, local>>

Reverts == {Command("cli", "revert", [change_id |-> id]) : id \in DOMAIN changes}
ProposeChange == \E command \in deployed.commands \cup Reverts : Propose(command)

\* verify_stored_proposal_is_current
IsCurrent(p) == p.revision = authority.revision /\ Previewed(authority, p.change) # Error

SetStatus(i, status) == proposals' = [proposals EXCEPT ![i].status = status]

Approve ==
    /\ \E i \in DOMAIN proposals :
        proposals[i].status = "Pending" /\ IsCurrent(proposals[i]) /\ SetStatus(i, "Approved")
    /\ answer' = None
    /\ UNCHANGED <<deployed, contract, authority, changes, local>>

Reject ==
    /\ \E i \in DOMAIN proposals :
        proposals[i].status \in {"Pending", "Approved"} /\ SetStatus(i, "Rejected")
    /\ answer' = None
    /\ UNCHANGED <<deployed, contract, authority, changes, local>>

\* The proposals of ids, applied one after the other: the records made.
Records(ids) ==
    LET state[k \in 0..Len(ids)] ==
            IF k = 0 THEN authority ELSE Previewed(state[k - 1], proposals[ids[k]].change)
    IN [k \in 1..Len(ids) |-> [previous_state |-> state[k - 1], resulting_state |-> state[k]]]
ApplyThem(ids) ==
    /\ authority' = Last(Records(ids)).resulting_state
    /\ changes' = changes \o Records(ids)
    /\ proposals' = [i \in DOMAIN proposals |->
                        IF i \in ToSet(ids) THEN [proposals[i] EXCEPT !.status = "Applied"] ELSE proposals[i]]

Apply ==
    /\ \E i \in DOMAIN proposals :
        proposals[i].status = "Approved" /\ IsCurrent(proposals[i]) /\ ApplyThem(<<i>>)
    /\ answer' = None
    /\ UNCHANGED <<deployed, contract, local>>

-----------------------------------------------------------------------------
(* Reports: authority_proposal, and reconciliation_result behind the       *)
(* reconciliation and the drift route.                                     *)

\* authority_mappings
Mappings(content) ==
    [k \in {k \in Route : content.route_protection[k] # None} |-> content.route_protection[k]]
\* proposal_history
History ==
    {[key |-> p.change.route, status |-> p.status] : p \in {p \in ToSet(proposals) : p.change.type = "ProtectRoute"}}

Proposed(snapshot) == propose_authority(deployed.routes, Mappings(snapshot.content))

\* The proposals that are not inferred have no discovery revision.
DiscoveryAt(d, protection) ==
    propose_authority(d.routes, Mappings([route_protection |-> protection])).discovery_revision
ASSUME DiscoveryAssumption ==
    \A d \in Deployments, protection \in [Route -> Capability \cup {None}] : DiscoveryAt(d, protection) # None

Read(r, fields) == local' = [local EXCEPT ![r] = fields] /\ answer' = None
Step(r, pc) == local[r].pc = pc /\ UNCHANGED <<deployed, contract, authority, changes>>

ReadAuthority(r, kind) ==
    /\ Running
    /\ local[r].pc \in {"idle", "ready"}
    /\ Read(r, [Idle EXCEPT !.kind = kind, !.snapshot = authority,
                            !.pc = IF kind = "reconciliation" THEN "history" ELSE "revision"])
    /\ UNCHANGED <<deployed, contract, authority, proposals, changes>>

ReadHistory(r) ==
    /\ Step(r, "history")
    /\ Read(r, [local[r] EXCEPT !.pc = "revision", !.history = History])
    /\ UNCHANGED proposals

\* attach_inferred_proposals and attach_reconciliation_proposals: the revision
\* is read once, then each recommendation gets its proposal.
ReadRevision(r) ==
    LET todo == SetToSeq(Proposed(local[r].snapshot).recommendations)
    IN /\ Step(r, "revision")
       /\ Read(r, [local[r] EXCEPT !.pc = IF todo = <<>> THEN "ready" ELSE "find",
                                   !.revision = authority.revision, !.todo = todo])
       /\ UNCHANGED proposals

Bug_NoRevisionLook(stored, revision) ==
    CASE stored.status = "Pending" -> "recommended"
      [] stored.status = "Approved" -> "approved"
      [] stored.status = "Applied" -> "already_protected"
      [] stored.status = "Rejected" -> "rejected"
ReviewStatus(stored, revision) ==
    CASE stored.revision # revision -> "stale"
      [] stored.revision = revision /\ stored.status = "Pending" -> "recommended"
      [] stored.revision = revision /\ stored.status = "Approved" -> "approved"
      [] stored.revision = revision /\ stored.status = "Applied" -> "already_protected"
      [] stored.revision = revision /\ stored.status = "Rejected" -> "rejected"

Protection(item) == [type |-> "ProtectRoute", route |-> item.key, capability |-> item.capability]
DiscoveryOf(r) == Proposed(local[r].snapshot).discovery_revision

\* The recommendation at the head of todo is listed with a stored proposal.
Listing(r, id, stored) ==
    LET head == Head(local[r].todo)
        item == [key |-> head.key, capability |-> head.capability, id |-> id,
                 status |-> ReviewStatus(stored, local[r].revision)]
    IN Read(r, [local[r] EXCEPT !.pc = IF Len(local[r].todo) = 1 THEN "ready" ELSE "find",
                                !.todo = Tail(@), !.items = @ \cup {item}])

\* ensure_proposal: the first one stored for this change and this discovery ...
EnsureFind(r) ==
    LET found == {i \in DOMAIN proposals : /\ proposals[i].change = Protection(Head(local[r].todo))
                                           /\ proposals[i].discovery_revision = DiscoveryOf(r)}
    IN /\ Step(r, "find")
       /\ IF found # {} THEN Listing(r, Least(found), proposals[Least(found)])
          ELSE Read(r, [local[r] EXCEPT !.pc = "store"])
       /\ UNCHANGED proposals

\* ... or else a new one, for the authority as it is by then.
EnsureStore(r) ==
    LET new == Stored(Protection(Head(local[r].todo)), "inferred", DiscoveryOf(r))
    IN /\ Step(r, "store")
       /\ Room
       /\ proposals' = Append(proposals, new)
       /\ Listing(r, Len(proposals) + 1, new)

-----------------------------------------------------------------------------
(* approve --all and apply --all of the command line: a report, the list   *)
(* of the inferred proposals with the newest first, and one bulk request.  *)

NewestInferred ==
    LET newest[n \in 0..Len(proposals)] ==
            IF n = 0 THEN <<>>
            ELSE (IF proposals[n].source = "inferred" THEN <<n>> ELSE <<>>) \o newest[n - 1]
    IN newest[Len(proposals)]
ListInferred(r) ==
    /\ Step(r, "ready")
    /\ local[r].kind = "proposal"
    /\ NewestInferred # <<>>
    /\ Read(r, [local[r] EXCEPT !.pc = "listed", !.ids = NewestInferred])
    /\ UNCHANGED proposals

\* approve_bulk goes on past an approved one, and stops at any other error.
ApproveNext(r) ==
    LET i == Head(local[r].ids)
        fine == proposals[i].status = "Pending" /\ IsCurrent(proposals[i])
        already == proposals[i].status = "Approved"
    IN /\ local[r].pc \in {"listed", "approving"}
       /\ proposals' = IF fine THEN [proposals EXCEPT ![i].status = "Approved"] ELSE proposals
       /\ Read(r, IF (fine \/ already) /\ Len(local[r].ids) > 1
                  THEN [local[r] EXCEPT !.pc = "approving", !.ids = Tail(@)] ELSE Idle)
       /\ UNCHANGED <<deployed, contract, authority, changes>>

\* apply_bulk: all of them, or none.
ApplyBulk(r) ==
    LET chosen == {proposals[local[r].ids[k]] : k \in DOMAIN local[r].ids}
    IN /\ local[r].pc = "listed"
       /\ IF \A p \in chosen : p.status = "Approved" /\ p.revision = authority.revision
          THEN ApplyThem(local[r].ids) ELSE UNCHANGED <<authority, proposals, changes>>
       /\ Read(r, Idle)
       /\ UNCHANGED <<deployed, contract>>

ReaderStep(r) ==
    \/ ReadAuthority(r, "proposal") \/ ReadAuthority(r, "reconciliation")
    \/ ReadHistory(r) \/ ReadRevision(r) \/ EnsureFind(r) \/ EnsureStore(r)
    \/ ListInferred(r) \/ ApproveNext(r) \/ ApplyBulk(r)

Next == Start \/ Ask \/ ProposeChange \/ Approve \/ Reject \/ Apply \/ \E r \in deployed.readers : ReaderStep(r)

Spec == Init /\ [][Next]_vars

-----------------------------------------------------------------------------
(* Properties. *)

AtStart == Running /\ answer = None /\ proposals = <<>> /\ \A r \in Reader : local[r] = Idle

\* AuthConfig::canonical: however a declaration is written (the order of its
\* entries and of its lists, `=` or `:`, commas, comments), it is accepted or
\* refused alike and has the fingerprint of what it declares.
WritingDoesNotMatter ==
    LET declared == Served(FromEntries(deployed.entries, deployed.mail))
    IN /\ contract = Error => declared = Error
       /\ AtStart => declared # Error /\ fingerprint(contract) = fingerprint(declared)

\* AuthConfig::fingerprint stands for the contract: deployments with one
\* fingerprint serve one surface.
SameFingerprintSameSurface ==
    AtStart => \A d \in Deployments :
        LET other == Served(FromEntries(d.entries, d.mail))
        IN other # Error /\ fingerprint(other) = fingerprint(contract)
             => AuthSurface(other) = AuthSurface(contract)

\* The surface and the dispatch agree on ExperienceState::is_invokable: an
\* operation answers some request exactly if the contract does not disable its
\* experience.  (The operation of external_identity is exposed by sign_in.)
OnlyDeclaredExperiences ==
    AtStart => \A e \in Listed(contract) \ {"external_identity"} :
        OperationOf[e] # None =>
            (Reaches(contract, OperationOf[e]) <=> contract.experience[e] # "disabled")

\* AuthRoute::requires_session is kept by handle_auth_route: a route that says
\* it needs a session never serves a request that has none.
SessionRoutesNeedOne ==
    answer # None /\ answer.by \notin {"propose", "application"} =>
        LET found == route(Routes(contract), Spelled(answer.to.path))
        IN found # None /\ found.operation = answer.by /\ found.requires_session /\ ~answer.to.session
             => answer.status \notin {200, 202}

\* parse_authority_change reads the change its client asked for out of the
\* body that the client wrote.
RequestUnderstood ==
    answer # None /\ answer.by = "propose" => answer.change = Meant(answer.to)

ClearCommands == \A d \in Deployments : \A command \in d.commands : Clear(command)

Ready(r) == local[r].pc = "ready"
\* No change was applied since the report first read the authority.
Fresh(r) == Ready(r) /\ local[r].snapshot.revision = authority.revision
RouteOf(key) == {c \in deployed.routes : Key(c.method, normalize_path(c.path)) = key}

\* The application spells each path the way normalize_path does, so that a
\* protection stored under the normalized path is found under the exact one,
\* and serves each method and path once.
PlainRoutes ==
    /\ \A k \in Route : k = Key(k.method, normalize_path(k.path))
    /\ \A d \in Deployments : \A c \in d.routes :
         /\ normalize_path(c.path) = c.path
         /\ \A e \in d.routes : Key(e.method, e.path) = Key(c.method, c.path) => e = c

\* A report's recommendation can be followed while its revision is in force:
\* unless it was rejected since, its proposal passes the checks of approve and
\* apply, the route is open until then, and it demands the capability after.
RecommendedIsActionable ==
    \A r \in Reader : Fresh(r) =>
        \A item \in {i \in local[r].items : i.status \in {"recommended", "approved"}} :
            \/ proposals[item.id].status = "Rejected"
            \/ /\ IsCurrent(proposals[item.id])
               /\ Previewed(authority, proposals[item.id].change).content.route_protection[item.key]
                    = item.capability
               /\ \A c \in RouteOf(item.key) : Demand(Key(c.method, c.path)).kind # "capability"

\* The protection of each route, as a report sees it.
Protections(state) ==
    [c \in deployed.routes |-> describe_route(c, Mappings(state.content)).capability]

\* ensure_proposal finds an outdated proposal only after a change that left
\* the protection of every route as it was: applying one recommendation never
\* leaves the others without a proposal that can be applied.
RecommendationsRenewed ==
    \A r \in Reader : Ready(r) /\ local[r].snapshot.revision = local[r].revision =>
        \A item \in {i \in local[r].items : i.status = "stale"} :
            \/ proposals[item.id].revision > local[r].revision
            \/ \E k \in DOMAIN changes :
                  /\ changes[k].resulting_state.revision <= local[r].revision
                  /\ Protections(changes[k].previous_state) = Protections(local[r].snapshot)

\* A route that a report calls protected is one that handle_application lets
\* nobody pass without a capability.
ReportedProtectedIsGuarded ==
    \A r \in Reader : Fresh(r) =>
        \A c \in deployed.routes :
            describe_route(c, Mappings(local[r].snapshot.content)).protection = "protected"
                => Demand(Key(c.method, c.path)).kind = "capability"

\* reconcile finds no drift only if every route demands the capability that
\* would be inferred for it, nothing is protected that the application does
\* not serve, and no proposal is open for a route it does not serve.
NoDriftMeansGuarded ==
    \A r \in Reader : Fresh(r) /\ local[r].kind = "reconciliation" =>
        LET served == {Key(c.method, normalize_path(c.path)) : c \in deployed.routes}
        IN reconcile(deployed.routes, Mappings(authority.content), local[r].history).drift = {} =>
            /\ \A c \in deployed.routes :
                 LET demand == Demand(Key(c.method, c.path))
                     inferred == infer_capability(c.method, c.path)
                 IN demand.kind = "capability" /\ (inferred # None => demand.capability = inferred.capability)
            /\ DOMAIN Mappings(authority.content) \subseteq served
            /\ \A h \in local[r].history : h.status \in {"Pending", "Approved", "Rejected"} => h.key \in served
=============================================================================
