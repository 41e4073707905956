-------------------------------- MODULE Studio --------------------------------
(***************************************************************************)
(* Studio and the boundary it runs (crates/cli/src/studio.rs, serve.rs,    *)
(* crates/server/src/server.rs): the attachment of the application, the    *)
(* access of its routes and its local users, each kept twice, in a file    *)
(* of the repository and in the running process, while requests are        *)
(* resolved, enforced and forwarded.                                       *)
(*                                                                         *)
(* Every request has a thread.  The files have no lock; the proxy is       *)
(* behind a read-write lock, the live authority behind another, each held  *)
(* for one access.  An action is what a thread does up to its next access  *)
(* to a file, the proxy or the live authority.                             *)
(***************************************************************************)
EXTENDS Routing

CONSTANTS
    StudioThread, ClientThread,
    Upstream, NoUpstream,
    NoProxy,
    Offered,     \* the discovered routes whose access is changed
    Asked,       \* the routes clients ask for
    User, Seed,  \* local users; the accounts init generated, in their order
    MaxOps, MaxRestarts  \* bounds

ASSUME StudioAssumption ==
    /\ StudioThread \cap ClientThread = {}
    /\ NoUpstream \notin Upstream /\ Seed \in Seq(User)
    /\ Offered \subseteq Route /\ Asked \subseteq Route
    /\ {MaxOps, MaxRestarts} \subseteq Nat

VARIABLES
    adoption,     \* the upstream in the adoption file
    access,       \* .authboundry/route-access.json
    accounts,     \* the users in the rows of .authboundry/development.json
    reachable,    \* the upstreams that answer
    proxy,        \* StudioApplication.proxy
    protections,  \* route_protection of the live authority
    users,        \* the local users of the runtime
    proposals,    \* RepositoryStudio.proposals
    local,        \* what each thread holds
    ops, restarts,  \* counters, for the bounds
    outside,      \* history: another process wrote the adoption file since
                  \* Studio last read or wrote it
    created,      \* history: the users Studio said it created
    lost,         \* history: the users whose rows a cut write lost
    seen          \* history: what the rules and the live authority demanded of
                  \* each request's route since it began

files == <<adoption, access, accounts>>
process == <<proxy, protections, users, proposals>>
vars == <<files, reachable, process, local, ops, restarts, outside, created, lost, seen>>

Thread == StudioThread \cup ClientThread
Idle == [pc |-> "idle"]
At(t, pc) == local[t].pc = pc
Become(t, state) == local' = [local EXCEPT ![t] = state]
Goto(t, pc) == local' = [local EXCEPT ![t] = [@ EXCEPT !.pc = pc]]
Done(t) == Become(t, Idle)

\* UpstreamProxy: where it forwards, and its rules.
build_proxy(upstream, saved) == [upstream |-> upstream, policy |-> application_policy(<<>>, saved)]

\* What the boundary demands for a route now.
Static(route) ==
    IF proxy = NoProxy THEN NoRequirement
    ELSE resolve(proxy.policy, route.method, route.path)
Live(route) == IF route \in DOMAIN protections THEN protections[route] ELSE NoRequirement
Demand(route) ==
    IF proxy # NoProxy /\ Live(route) # NoRequirement THEN Live(route) ELSE Static(route)

With(function, x, value) == [y \in DOMAIN function \cup {x} |-> IF y = x THEN value ELSE function[y]]
Without(function, x) == [y \in DOMAIN function \ {x} |-> function[y]]

\* What run does when Studio starts, from the files.
Started ==
    /\ proxy' = IF adoption \in reachable THEN build_proxy(adoption, access) ELSE NoProxy
    /\ protections' = <<>>
    /\ users' = Range(accounts)
    /\ proposals' = {}
    /\ local' = [t \in Thread |-> Idle]

Init ==
    /\ adoption = NoUpstream /\ access = <<>> /\ accounts = Seed
    /\ reachable = Upstream
    /\ proxy = NoProxy /\ protections = <<>> /\ users = Range(Seed) /\ proposals = {}
    /\ local = [t \in Thread |-> Idle]
    /\ ops = 0 /\ restarts = 0
    /\ outside = FALSE /\ created = {} /\ lost = {}
    /\ seen = [t \in ClientThread |-> {}]

-----------------------------------------------------------------------------
(* Studio's pages and buttons. *)

Begins(s) == At(s, "idle") /\ ops < MaxOps /\ ops' = ops + 1

\* The page is rendered after the proxy was brought in line with the file.
page(s) ==
    /\ Begins(s)
    /\ Become(s, [pc |-> "sync", upstream |-> adoption])
    /\ outside' = FALSE
    /\ UNCHANGED <<files, reachable, process, restarts, created, lost>>

upstream_reachable(upstream) == upstream \in reachable

\* The rules are made before the lock is taken.
Sync(s) ==
    LET upstream == local[s].upstream IN
    /\ At(s, "sync")
    /\ IF upstream_reachable(upstream)
       THEN Become(s, [pc |-> "set", proxy |-> build_proxy(upstream, access)]) /\ UNCHANGED proxy
       ELSE proxy' = NoProxy /\ Done(s)
    /\ UNCHANGED <<files, reachable, protections, users, proposals, ops, restarts, outside, created, lost>>

SetProxy(s) ==
    /\ At(s, "set")
    /\ proxy' = local[s].proxy
    /\ Done(s)
    /\ UNCHANGED <<files, reachable, protections, users, proposals, ops, restarts, outside, created, lost>>

\* A proposal's id is a hash of what it was made from and of the upstream.
Preview(s, upstream) ==
    /\ Begins(s)
    /\ upstream \in reachable
    /\ proposals' = proposals \cup {[before |-> adoption, upstream |-> upstream]}
    /\ UNCHANGED <<files, reachable, proxy, protections, users, local, restarts, outside, created, lost>>

\* The proposal is taken out of the store before anything is checked.
Apply(s, plan) ==
    /\ Begins(s)
    /\ plan \in proposals
    /\ proposals' = proposals \ {plan}
    /\ Become(s, [pc |-> "check", plan |-> plan])
    /\ UNCHANGED <<files, reachable, proxy, protections, users, restarts, outside, created, lost>>

ApplyCheck(s) ==
    /\ At(s, "check")
    /\ IF adoption = local[s].plan.before THEN Goto(s, "write") ELSE Done(s)
    /\ UNCHANGED <<files, reachable, process, ops, restarts, outside, created, lost>>

Bug_AttachFirst(s) ==
    LET upstream == local[s].plan.upstream IN
    /\ At(s, "write")
    /\ proxy' = build_proxy(upstream, access)
    /\ IF upstream \in reachable THEN adoption' = upstream ELSE UNCHANGED adoption
    /\ outside' = FALSE
    /\ Done(s)
    /\ UNCHANGED <<access, accounts, reachable, protections, users, proposals, ops, restarts, created, lost>>
ApplyWrite(s) ==
    LET upstream == local[s].plan.upstream IN
    /\ At(s, "write")
    /\ IF upstream \in reachable
       THEN /\ adoption' = upstream
            /\ outside' = FALSE
            /\ Become(s, [pc |-> "attach", upstream |-> upstream])
       ELSE UNCHANGED <<adoption, outside>> /\ Done(s)
    /\ UNCHANGED <<access, accounts, reachable, process, ops, restarts, created, lost>>

\* attach, unlike sync, does not ask whether the upstream answers.
Attach(s) ==
    /\ At(s, "attach")
    /\ Become(s, [pc |-> "set", proxy |-> build_proxy(local[s].upstream, access)])
    /\ UNCHANGED <<files, reachable, process, ops, restarts, outside, created, lost>>

Detach(s) ==
    /\ Begins(s)
    /\ adoption' = NoUpstream
    /\ outside' = FALSE
    /\ Become(s, [pc |-> "unbind"])
    /\ UNCHANGED <<access, accounts, reachable, process, restarts, created, lost>>

Unbind(s) ==
    /\ At(s, "unbind")
    /\ proxy' = NoProxy
    /\ Done(s)
    /\ UNCHANGED <<files, reachable, protections, users, proposals, ops, restarts, outside, created, lost>>

-----------------------------------------------------------------------------
(* The access of a route: the page changes the live authority, and then    *)
(* has the access saved.                                                   *)

\* `default` asks to unprotect the route, which the control plane takes for a
\* protect_route without a capability and refuses (ControlRequest): the page
\* stops there, with nothing changed and nothing saved.
Protect(s, route, level) ==
    /\ Begins(s)
    /\ IF level = "default" THEN UNCHANGED <<protections, local>>
       ELSE /\ protections' = With(protections, route, level)
            /\ Become(s, [pc |-> "save", route |-> route, level |-> level])
    /\ UNCHANGED <<files, reachable, proxy, users, proposals, restarts, outside, created, lost>>

\* The handler would also take `default` away from the file.
SaveRead(s) ==
    /\ At(s, "save")
    /\ Become(s, [pc |-> "rename", saved |->
           IF local[s].level = "default" THEN Without(access, local[s].route)
           ELSE With(access, local[s].route, local[s].level)])
    /\ UNCHANGED <<files, reachable, process, ops, restarts, outside, created, lost>>

\* The file is replaced, and then the adoption file is read for the sync.
SaveAndSync(s) == access' = local[s].saved /\ Goto(s, "resync") /\ UNCHANGED outside

SaveWrite(s) ==
    /\ At(s, "rename")
    /\ SaveAndSync(s)
    /\ UNCHANGED <<adoption, accounts, reachable, process, ops, restarts, created, lost>>

Resync(s) ==
    /\ At(s, "resync")
    /\ Become(s, [pc |-> "sync", upstream |-> adoption])
    /\ outside' = FALSE
    /\ UNCHANGED <<files, reachable, process, ops, restarts, created, lost>>

-----------------------------------------------------------------------------
(* A local user: first in the runtime, then in the file. *)

CreateUser(s, user) ==
    /\ Begins(s)
    /\ user \notin users
    /\ users' = users \cup {user}
    /\ Become(s, [pc |-> "persist", user |-> user])
    /\ UNCHANGED <<files, reachable, proxy, protections, proposals, restarts, outside, created, lost>>

PersistRead(s) ==
    /\ At(s, "persist")
    /\ IF local[s].user \in Range(accounts) THEN Done(s)
       ELSE Become(s, [pc |-> "append", user |-> local[s].user, accounts |-> accounts])
    /\ UNCHANGED <<files, reachable, process, ops, restarts, outside, created, lost>>

Bug_PersistAlone(held, user) == <<user>>
Appended(held, user) == Append(held, user)

\* The file is emptied and filled anew, in place: until the write is over its
\* first rows are there, as a reader takes it.
PersistStart(s) ==
    LET rows == Appended(local[s].accounts, local[s].user) IN
    /\ At(s, "append")
    /\ \E n \in 0..Len(rows) : accounts' = SubSeq(rows, 1, n)
    /\ Goto(s, "fill")
    /\ UNCHANGED <<adoption, access, reachable, process, ops, restarts, outside, created, lost>>

PersistWrite(s) ==
    /\ At(s, "fill")
    /\ accounts' = Appended(local[s].accounts, local[s].user)
    /\ created' = created \cup {local[s].user}
    /\ lost' = lost \ {local[s].user}
    /\ Done(s)
    /\ UNCHANGED <<adoption, access, reachable, process, ops, restarts, outside>>

\* The users that are to be in the file, and are not.
Missing == (Range(Seed) \cup created) \ Range(accounts)

\* The file cannot be opened, or the write stops on the way; nothing is put
\* back, and the user exists until the process ends.
PersistFails(s) ==
    /\ \/ At(s, "append") /\ UNCHANGED lost
       \/ At(s, "fill") /\ lost' = lost \cup Missing
    /\ Done(s)
    /\ UNCHANGED <<files, reachable, process, ops, restarts, outside, created>>

-----------------------------------------------------------------------------
(* The boundary: handle_application, and upgrade for a WebSocket. *)

Request(c, role, route, upgrade) ==
    /\ At(c, "idle")
    /\ Become(c, [pc |-> "resolve", role |-> role, route |-> route, upgrade |-> upgrade,
                  need |-> NoRequirement])
    /\ UNCHANGED <<files, reachable, process, ops, restarts, outside, created, lost>>

\* Not attached, or a method no rule has: refused.
ResolveRoute(c) ==
    LET need == Static(local[c].route) IN
    /\ At(c, "resolve")
    /\ IF need = NoRequirement THEN Done(c)
       ELSE Become(c, [local[c] EXCEPT !.pc = "enforce", !.need = need])
    /\ UNCHANGED <<files, reachable, process, ops, restarts, outside, created, lost>>

\* A live protection replaces what the rules demand; upgrade does not ask for one.
Bug_LiveIgnored(me) == me.need
Needed(me) ==
    IF ~me.upgrade /\ Live(me.route) # NoRequirement THEN Live(me.route) ELSE me.need

Enforce(c) ==
    LET need == Needed(local[c]) IN
    /\ At(c, "enforce")
    /\ IF Satisfies(local[c].role, need)
       THEN Become(c, [local[c] EXCEPT !.pc = "forward", !.need = need])
       ELSE Done(c)
    /\ UNCHANGED <<files, reachable, process, ops, restarts, outside, created, lost>>

\* The proxy of that moment forwards it; with none, the answer is 503.
Forward(c) ==
    /\ At(c, "forward")
    /\ Done(c)
    /\ UNCHANGED <<files, reachable, process, ops, restarts, outside, created, lost>>

-----------------------------------------------------------------------------
(* The surroundings. *)

\* `authboundry attach` in another terminal.
AttachElsewhere(upstream) ==
    /\ ops < MaxOps /\ ops' = ops + 1
    /\ upstream \in reachable /\ upstream # adoption
    /\ adoption' = upstream
    /\ outside' = TRUE
    /\ UNCHANGED <<access, accounts, reachable, process, local, restarts, created, lost>>

Reachability(upstream) ==
    /\ reachable' = IF upstream \in reachable THEN reachable \ {upstream} ELSE reachable \cup {upstream}
    /\ UNCHANGED <<files, process, local, ops, restarts, outside, created, lost>>

Restart ==
    /\ restarts < MaxRestarts /\ restarts' = restarts + 1
    /\ Started
    /\ outside' = FALSE
    /\ lost' = IF \E s \in StudioThread : At(s, "fill") THEN lost \cup Missing ELSE lost
    /\ UNCHANGED <<files, reachable, ops, created>>

StudioStep(s) ==
    \/ page(s) \/ Sync(s) \/ SetProxy(s)
    \/ \E u \in Upstream : Preview(s, u)
    \/ \E plan \in proposals : Apply(s, plan)
    \/ ApplyCheck(s) \/ ApplyWrite(s) \/ Attach(s) \/ Detach(s) \/ Unbind(s)
    \/ \E route \in Offered, level \in Access \cup {"default"} : Protect(s, route, level)
    \/ SaveRead(s) \/ SaveWrite(s) \/ Resync(s)
    \/ \E user \in User : CreateUser(s, user)
    \/ PersistRead(s) \/ PersistStart(s) \/ PersistWrite(s) \/ PersistFails(s)

ClientStep(c) ==
    \/ \E role \in Role, route \in Asked, upgrade \in BOOLEAN : Request(c, role, route, upgrade)
    \/ ResolveRoute(c) \/ Enforce(c) \/ Forward(c)

Step ==
    \/ \E s \in StudioThread : StudioStep(s)
    \/ \E c \in ClientThread : ClientStep(c)
    \/ \E u \in Upstream : AttachElsewhere(u) \/ Reachability(u)
    \/ Restart

\* History follows every step: what is demanded of each pending request's route.
Watch(c) ==
    IF local'[c].pc = "idle" THEN {}
    ELSE (IF local[c].pc = "idle" THEN {} ELSE seen[c]) \cup {<<Static(r), Live(r)>>' : r \in {local'[c].route}}

Next == Step /\ seen' = [c \in ClientThread |-> Watch(c)]

Spec == Init /\ [][Next]_vars
-----------------------------------------------------------------------------
(* Properties *)

StudioQuiet == \A s \in StudioThread : At(s, "idle")

\* The routes the public rules match, whatever was saved.
OpenTo(route) ==
    \/ route.path \in PublicEntry /\ route.method \in {"GET", "HEAD"}
    \/ route.path \in PublicPrefix /\ route.method \in all

\* What a route is meant to demand: its saved access, or its default.
Meant(route) ==
    IF route \in DOMAIN access THEN access[route]
    ELSE IF OpenTo(route) THEN "public"
    ELSE IF route.method \in all THEN "authenticated" ELSE NoRequirement

\* When Studio has answered, an attached application is guarded by the access
\* that was saved, route by route: right after the save, after an attachment
\* or a page made the rules anew, and after a restart lost the live authority.
SavedAccessGoverns ==
    StudioQuiet /\ proxy # NoProxy => \A route \in Offered \cup Asked : Demand(route) = Meant(route)

\* When Studio has answered, the boundary forwards where the adoption file
\* says, or nowhere, unless another process rewrote the file since.
ProxyFollowsFile ==
    StudioQuiet /\ ~outside /\ proxy # NoProxy => proxy.upstream = adoption

\* A request is forwarded only for a caller who satisfies what its route
\* demands, a live protection before the rules, if neither changed while the
\* request was on its way.  (An upgrade is held to the rules alone.)
ForwardsOnlyEntitled ==
    \A c \in ClientThread : At(c, "forward") =>
        \A rules, live \in Requirement \cup {NoRequirement} : seen[c] = {<<rules, live>>} =>
            Satisfies(local[c].role,
                      IF local[c].upgrade \/ live = NoRequirement THEN rules ELSE live)

\* Until a write of the accounts file is cut short, by an error or by the end of
\* the process, the users Studio said it created and those of init are in the
\* file, and so there after a restart; a later creation puts every user the
\* file has back into it.  And the file never has a user the process lacks.
CreatedUsersStay ==
    /\ (\A s \in StudioThread : ~At(s, "fill")) => Missing \subseteq lost
    /\ Range(accounts) \subseteq users
=============================================================================
