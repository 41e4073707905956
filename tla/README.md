# Verification of AuthPort

TLA+ models of the AuthPort runtime (`crates/`), the TLC configurations that check
them, and TLAPS proofs about them. `PROJECT.json` lists components, runs, mutants,
the definition-to-source map, findings, hazards and theorems.

    tlc -workers 2 -config Control.cfg MCAuthorityControl
    tlapm AuthorityControlProofs.tla

## 1. The system

AuthPort puts an authorization boundary in front of an application. A server
(`crates/server`) accepts connections and starts one OS thread for each; every
thread calls into one shared `AuthPortRuntime` (`crates/boundary`), which owns an
`AuthMesh` (`crates/runtime`) over a `StorageBoundary` (`crates/storage`). There is no
global lock: the live authority is behind an `RwLock`, and each store is behind a
mutex that is held for one call. A handler therefore reads, decides and writes in
several critical sections, with every other thread free to run in between. That is
where this code is hard, and what the models keep.

| Component | State | Operations | Depends on | What makes it correct |
|---|---|---|---|---|
| Authority control plane (`boundary/control.rs`, `proposal_store.rs`, `runtime.rs`, `server/control_routes.rs`) | live authority with a revision, proposals with a status, change records | propose, ensure (inferred proposals), approve, reject, apply, bulk apply, apply by the host, revert | one `RwLock`, two mutexes | every change to the authority is in the history, once and in order; what was previewed is what happens; nothing unapproved or stale is applied; a call whose proposals are current gets in |
| Policy engine (`authz`, `contract/delegation.rs`) | none | scopes, validity, envelope, the two evaluators | called by the mesh | a scope that narrows admits no more; a lapsed delegation grants nothing |
| Delegations, agents, runs (`runtime/mesh.rs`, `storage/memory.rs`) | principals, delegations, runs | delegate, revoke, create and cancel a run, agent lifecycle | policy engine, stores, audit | authority only narrows along a chain; a run stays within its delegations and its parent |
| Enforcement path (`boundary/runtime.rs` `enforce`, `mesh.rs` `authorize*`) | a request's context | authenticate, context, live policy, resource and run authorization, audit | all of the above | no allow without a record; nothing revoked before the request lets it through; live policies decide |
| Identity and sessions (`mesh.rs`, `resolution.rs`, `storage`) | identities, principals, bindings, sessions | sign in, sign up, link, log out, resolve | connectors, stores, audit | one principal per external identity, and no identity without one; no live session before the address is verified |
| Local connector (`providers/connectors/local.rs`) | accounts, password history | register, authenticate, change and reset password, mark verified | password policy of the live authority | no reuse within the history; expiry |
| Ceremonies (`boundary/ceremony.rs`, `mailport.rs`) | challenges | issue, consume, revoke, mail | local connector | a challenge works once, for its purpose, before it ends |
| Audit trail (`mesh.rs` `record_decision`, `storage/memory.rs`) | events, the number sequence, the ring of recent decisions | number, append, cite, remember, page | every decision | no answer without its event; the ring and the pages lose nothing |
| Declaration language (`dsl`) | none | find the block, parse, validate, canonical form, fingerprint | | what is declared does not depend on how it is written |
| Surface (`surface`) and dispatch (`server/server.rs`) | none | routes, experiences, screens, providers of a contract; which request reaches what | contract, connectors | exactly what is declared can be reached; a session is looked for where one is needed |
| Discovery (`discovery`) and the reports on it (`server/control_routes.rs`) | stored proposals | normalize, infer, classify, recommend, reconcile | live authority, proposal store | a route called protected is guarded; a recommendation can be acted upon; no drift means guarded |
| Change requests (`cli/control.rs`, the Studio pages, `control_routes.rs`) | none | write a body, parse it | control plane | the change made is the change asked for |
| Adoption (`cli/init.rs`) | the application's files, a rollback journal | init, rollback, cutover, offboard, attach, detach | file system | only what was reviewed is written; an init that a failed write ends takes back what it wrote; rollback restores |
| Studio and the proxied application (`cli/studio.rs`, `cli/serve.rs`, `server/server.rs`) | files, a proxy, live protections, local users | attach, detach, save access, create users; resolve, enforce, forward | control plane, connector | files and process agree; nothing is forwarded that is not allowed |
| FeltDB adapter, injection, JS client, example, storage topology | none or a placeholder | | | not modelled, see section 5 |

`PROJECT.json` gives the same list with the status of each part.

### Hard behaviours

The full list, with lines, is `hazards` in `PROJECT.json`. The main kinds:

* *Check on a copy, write later.* Approve, reject and apply look at the status of a
  retrieved proposal and write it in a later critical section. A request is decided by
  the principal that authentication read and by delegations read at different times.
* *Find, then store.* `ensure_proposal`, delegation and run creation.
* *Optimistic concurrency.* Proposals are made against a clone of the authority and
  are compared with the live revision under the write lock.
* *A lock held over another component's call.* `consume_with` keeps the challenge store
  locked while the connector changes the account.
* *One of several steps fails.* A member of a batch, the audit write, a mail, a file, the undo
  of a file.
* *Boundaries in time.* The instant of expiry, delayed delegations, a clock that moves
  between the steps of a request.
* *Long legal sequences.* Reverts of reverts; chains of delegations of which an inner
  link is revoked; an agent id that is created again; init, offboard and attach in any
  order before a rollback.
* *One thing kept twice.* Studio keeps an attachment, an access rule and a user in a file
  and in the process; they are written one after the other and the process may restart.
* *Crashes.* `init` and `rollback` write several files and can be killed between them; some
  files are rewritten in place and can be cut.
* *Reports on a moving target.* A report reads the authority, the proposals and the
  revision at different times and then stores proposals of its own.
* *Text that stands for a structure.* A change request is recognised by words in its
  body; a contract by the fingerprint of a canonical form.

## 2. Modules

| Module | What it is |
|---|---|
| `LiveAuthority` | the authority state and `control.rs`'s pure transitions: the edits, the password policy check, revert |
| `AuthorityControl` | the control plane with its request threads; properties |
| `AuthorityLog` | what the control plane promises: a versioned log with optimistic concurrency |
| `AuthorityControlProofs`, `AuthorityHistoryProofs` | theorems about `AuthorityControl`: types and apply calls; the history, the refinement of `AuthorityLog`, and statuses |
| `MCAuthorityControl` | TLC instances |
| `PolicyEngine` | scopes, delegations, envelope, `evaluate_capability`, `evaluate_authorization_request` as operators |
| `AgentAuthority` | delegations, agents, runs and the enforcement path with request threads; properties |
| `AgentAuthorityProofs` | theorems about `AgentAuthority` |
| `MCAgentAuthority` | TLC instances |
| `LocalAccount` | accounts, password history, password policies and challenges as records and operators |
| `Identity` | sign-up, sign-in, sign-out, linking, password changes and ceremonies with request threads; properties |
| `IdentityProofs` | theorems about `Identity` |
| `MCIdentity` | TLC instances |
| `AuditTrail`, `AuditTrailProofs`, `MCAuditTrail` | event numbers, the trail, the ring of evidence and the pages, with concurrent requests; properties; theorems; the instance |
| `Outcome` | the constants `None` and `Error` of the operators that may fail |
| `Declaration` | the declaration language: tokens to a contract, validation, canonical form, fingerprint |
| `Surface` | the surface of a contract and the dispatch of a request |
| `Discovery` | normalization, inference, recommendation and drift |
| `ControlRequest` | the bodies clients write for a change and how they are read |
| `Boundary`, `MCBoundary` | composes the four with `LiveAuthority`: a server started from a declaration, its requests, changes and reports; properties; deployments |
| `BoundaryProofs` | theorems about `Boundary` and the operators of the four |
| `Adoption`, `AdoptionProofs`, `MCAdoption` | the commands of `init.rs` over the application's files; properties; theorems; the instance |
| `Routing` | the rules `serve.rs` makes for the proxied application and their order |
| `Studio`, `StudioProofs`, `MCStudio` | Studio, its files and the boundary it runs, with client requests; properties; theorems; the instance |

### Authority control plane

State: `authority` is the `LiveAuthorityState` behind the `RwLock`; its content is a
record of maps (route requirements, capability policies, provider states, password
policy) over abstract values. `writer` is who holds the write lock. `proposals` is the
sequence of stored proposals, `"proposal-i"` being entry *i*. `changes` is the set of
change records. `local` is the stack of each request thread: a program counter, the
clone or the `next` state, copies of retrieved proposals, the token presented, and
the records not yet stored.

Actions: one per stretch between two points where another thread can get in.

| Code | Actions |
|---|---|
| `propose`, `propose_change_with_metadata` | `Propose`, `StoreProposal` |
| `ensure_proposal` | `EnsureFind`, `EnsurePropose`, `StoreProposal` |
| `approve_stored_proposal` | `Approve`, `ApproveVerify`, `MarkApproved` |
| `reject_stored_proposal` | `Reject`, `MarkRejected` |
| `apply_stored_proposal`, `apply_approved_stored_proposal` | `Apply`, `ApplyVerify`, then as `apply_change` |
| `apply_change` (called by a host) | `ApplyDirect`, `AcquireWrite`, `PlanNext`, `Commit`, `MarkApplied`, `StoreRecord` |
| `apply_approved_stored_proposals` | `ApplyBatch`, `BatchRetrieve`, then as above with one turn of `PlanNext` per member |
| any early return before a write | the `ELSE` branch of the step; `Answer` for requests that never change state |

Abstractions. A token is represented by the proposal whose response carried it; it
matches when the changes are equal, since the code hashes the change. A change id is the
pair of revision and index from which the code builds it; the clock part of the id is
dropped, which can only make ids collide more often. The contract is fixed while the
process runs, so its fingerprint comparison always succeeds.

### Agent authority

State: `clock`, the three stores `principals`, `delegations`, `runs`, the live
capability policies `live`, and `local`. A delegation's chain is the sequence of the ids
it came through. `local[t].begun` is a history variable: the time, what was revoked or
cancelled when the request came in, and the live policies seen since; only the
properties read it.

| Code | Actions |
|---|---|
| `AuthMesh::delegate` and `create_delegation` | `Delegate`, `DelegateCheck`, `DelegateCreate` |
| `revoke_delegation` | `RevokeDelegation` |
| `create_agent_run`, `put_run` | `CreateRun`, `RunCheck`, `RunParent`, `PutRun` |
| `cancel_agent_run` | `CancelRun` |
| `suspend_agent`, `revoke_agent`, `retire_agent`, `create_agent` | `SetAgentState`, `CreateAgent` |
| control plane changing a capability policy | `SetLivePolicy` (one step: the control plane's own module has the detail) |
| `enforce`: `authenticate`, `context_for` | `Authenticate`, `Context` |
| `AuthPortRuntime::authorize`, `authorize_resource`, `authorize_run_resource` | `AuthorizeLive`, `AuthorizeResource`, `AuthorizeRun` |
| `AuthMesh::authorize`, `authorize_request` | `AuthorizeMesh` |
| `record_decision` | `Audit` |

Abstractions. One tenant: all stores filter by tenant, and a scope that names another
tenant is a member of `ForeignScope`. Delegation ids are numbers in the order in which
the store sorts them. A policy is a sequence of rules; the resource conditions and the
selectors of a rule are the sets of resources they admit. Denial reasons, evidence and
`Condition::TimeBound` (which reads the system clock) are left out. Sessions are not in
this module: `Authenticate` starts from the principal the session stands for.

### Identity, sessions and ceremonies

State: `clock`; `policy`, the effective password policy; `accounts` of the local
connector; `identities`, `principals` and `bindings` of the identity and principal
stores; `sessions` and `challenges` in the order of creation; `holder`, the thread that
holds the challenge store inside `consume_with`; `local`. History that only properties
read: an account's `past` passwords, a challenge's `uses`, and whether a session was
`given` to a client.

| Code | Actions |
|---|---|
| `AuthPortRuntime::sign_up`, `create_local_user` | `SignUp`, `SignupAccount` |
| `AuthMesh::sign_up`, `provision_principal` | `SignupExternal`, `SignupIdentity`, `SignupBind`, `SignupOpen` |
| the end of `sign_up` | `SignupVerify`, `Issue`, `SignupLogout` |
| `sign_in` | `SignIn`, `SigninOpen`, `SigninCheck`, `SigninRefuse` |
| `sign_out` | `SignOut` |
| `link_account`, `link_external_identity` | `Link`, `LinkIdentity`, `LinkBind` |
| `change_password` | `ChangePassword`, `ConnectorChange` |
| `forgot_password`, `request_email_verification` | `RequestMail`, `Issue` |
| `reset_password`, `verify_email` over `consume_with` | `Redeem`, `Consume`, `Operate`, `Consumed` |
| `revoke_challenge` | `RevokeChallenge` |
| control plane changing the password policy | `SetPolicy` |

Abstractions. One tenant and one connector, the local one. A stored hash verifies the
password it was made of and no other, so the password stands for it; a token is known by
its challenge. A principal's id is a function of the user it was provisioned for, so the
user stands for it. A password policy's character rules are the set of passwords they
accept. Steps are merged where the order cannot be told apart:

* `sign_up` tries the credentials and registers if they fail; registering fails where
  there is an account, whatever came in between.
* `provision_principal` looks for a binding and then makes the identity, which fails if
  there is one; whatever is bound has an identity, so both refuse alike.
* `link_external_identity` looks for an identity and makes one. If another thread makes
  it in between the call fails, and the state is as if the request had not come.
* A challenge is stored and then mailed; until the mail is out nobody has its token.

The lives of challenges and sessions are constants (900 and 3600 seconds and
`session_ttl` in the code), scaled down to a clock of a few ticks that keeps their
order. A mail port is taken to be configured; each mail may be refused.

### Audit trail

State: `clock`; `audit_sequence`, one counter for all tenants; `log`, the events in the
order of their appends; `decisions`, the ring of evidence; `req`, how far each request is
and what it holds. `remembered` and `overlapped` are history.

| Code | Actions |
|---|---|
| a request comes in and takes its time | `Arrive` |
| `next_audit_event_id` | `next_audit_event_id` |
| `record_event`, and its refusal | `record_event`, `AuditUnavailable` |
| `last_audit_event_id` | `last_audit_event_id` |
| `remember_decision` | `remember_decision` |

`events` and `authorization_decision` are the reads. An event id is a hash of the tenant
and a number, so the pair stands for it; `Rank` gives the order of the hashes, which is
not that of the numbers. An event's contents are left out.

### Adoption

State: `fs`, a content or `Absent` for each of the eight files the commands know;
`manifest` and `backups`, the journal; `local`, what a running command holds. A content is
the user's text (a number) and AuthBoundry's mark on it. `origin` (the files when the
journal was begun), `local[t].start` and `outcome` are history.

| Code | Actions |
|---|---|
| `build_plan`, the review, `plan_inputs_unchanged` | `Plan`, `Confirm`, `Refuse` |
| `create_rollback_journal` | `KeepJournal`, or `WriteBackups`, `CreateManifest`, `FillManifest` |
| `apply_plan` and its undo | `WriteChange`, `Applied`, `DirectoryFails`, `WriteFails`, `Undo`, `UndoFails` |
| `rollback_integration` | `ReadManifest`, `Restore`, `RestoreFails`, `Restored`, `ConsumeBackup`, `ConsumeManifest`, `RemoveRouteAccess` |
| `cutover`, `offboard-auth` | `Cutover`, `ProbesPass`, `ProbeFails`, `Offboard`, `OffboardWrite` |
| `attach`, `detach` | `PlanAttachment`, `ApplyAttachment`, `Detach` |
| the user, Studio, the operating system | `Edit`, `SaveRoutes`, `Kill` |

`atomic_write` makes each change of a file one step; the undo of `apply_plan` writes in place,
ignores its errors and may leave a file cut (`UndoFails`). A directory that cannot be made ends
init with no undo at all (`DirectoryFails`). `local[t].left` is history: the files
whose undo failed. Which frameworks are recognised
is the two sets of entrypoint texts `Bridgeable` and `Unsafe`. Between two commands the
user may edit freely; during one, at the steps of `EditsAt`.

### Studio and the proxied application

State: the files `adoption`, `access`, `accounts`; in the process `proxy`, `protections`,
`users`, `proposals`; `reachable`; `local`. `outside`, `created`, `lost` and `seen` are history:
`lost` is the users whose rows a cut write of the accounts file took out, and
`seen[c]` is every pair of demands (by the rules, by the live authority) that held since
the request of client `c` began.

| Code | Actions |
|---|---|
| the Studio page (`StudioApplication::sync`) | `Sync`, `SetProxy` |
| attachment: preview, apply, detach | `Preview`, `Apply`, `ApplyCheck`, `ApplyWrite`, `Attach`, `Detach`, `Unbind` |
| saving a route's access | `Protect`, `SaveRead`, `SaveWrite`, `Resync` |
| creating a local user | `CreateUser`, `PersistRead`, `PersistStart`, `PersistWrite`, `PersistFails` |
| a request to the application | `Request`, `ResolveRoute`, `Enforce`, `Forward` |
| another process, the upstream, a restart | `AttachElsewhere`, `Reachability`, `Restart` |

`accounts` is the rows of the accounts file, which is emptied and filled in place: from
`PersistStart` on it holds its first rows, any number of them, until the write is over
(`PersistWrite`), fails (`PersistFails`) or the process ends (`Restart`). A row is there or
not; one cut in its claims would come back as a user with fewer. The file also holds the proxy's
secret, which the same cut can take; that is left out.

`Routing` has the rules: `application_policy` puts the public entries first, then the public
prefixes (`/assets/`, `/src/` and so on, `PublicPrefix`), then the prefixes that demand a
capability (Studio passes none), then the saved accesses, then the prefix that demands a
session, and the first match wins. Saving an access
from the page is a request to the control plane and one to save it; here one operation
does both (`Protect`, then `SaveRead`). Sessions are a role per request.

### Boundary

State: `deployed` (chosen at the start: what is declared, how it is written, the
application's routes, the requests and commands to try), `contract`, `authority`,
`proposals`, `changes`, `local` (what each report in the making has read) and `answer`.

| Code | Actions |
|---|---|
| start: `parse_auth_config`, the connector registry | `Start` |
| `AuthServer::handle` | `Ask` |
| `propose`, over `parse_authority_change` | `ProposeChange` |
| approve, reject, apply | `Approve`, `Reject`, `Apply` |
| the reports on routes, proposals and drift | `ReadAuthority`, `ReadHistory`, `ReadRevision`, `ListInferred` |
| `attach_inferred_proposals`, `ensure_proposal` | `EnsureFind`, `EnsureStore` |
| `approve --all`, `apply --all` | `ApproveNext`, `ApplyBulk` |

`Declaration` works on tokens: a word, a string, a mark or a comment, a comment being
known by the one thing in it that could be mistaken for syntax. Numbers and names are
small sets. A fingerprint is what is hashed. `Surface` has `derive_surface` as a table of
routes with their aliases, and the server's dispatch over it. `Discovery` has a path as a
sequence of segments, each with its shape; the routes are given, not scanned for.
`ControlRequest` has a body as a sequence of fields with a kind (quoted, number, ...) and
whether a space follows the colon, since the parser's search depends on both; `Within`
says which words contain which, and `Mentions` which texts of which fields hold a command's word,
since the search goes through the whole body. `MethodText` is the texts that `to_uppercase` makes
a method of; any other is an error. A text holds no quotes or backslashes of its own: the clients
escape them, and `extract_quoted_field` ends at the first quote.
`Declaration` leaves out `StorageConfig::validate` (an empty provider name, or one with
credentials in it); no property depends on it.

## 3. Runs

Passing runs:

| Run | Instance | States | What it shows |
|---|---|---|---|
| `control` | 2 threads, 2 edits (one of which is never valid), 2 proposals, batch of both | 271 k | `TypeOK`, `HistoryIsChain`, `PreviewHonoured`, `NoApplyWithoutApproval`, `AppliedAtMostOnce`, `FinalStatusHolds`; `CurrentCallCommits` under fairness; `ImplementsLog`, the refinement of `AuthorityLog` |
| `control_revert` | 1 thread, every kind of edit, 3 proposals, a batch that repeats an id, a host that applies without looking at statuses | 1.6 M | `RevertRestores`, `AppliedByOneCall` |
| `delegation` | 2 threads (symmetric), 3 principals, 2 delegation ids, 2 capabilities | 468 k | `LapsedIsDenied`, `NeverWidens`, `ChainNarrows` |
| `runs` | 1 thread, 2 delegations, 2 runs, scopes with attributes, a foreign scope, clock to 2 | 866 k | `RunConfines` |
| `live_policy` | 1 thread, 3 live policies, an agent created and revoked, a delayed delegation, clock to 2 | 1.0 M | `LivePolicyGoverns` |
| `identity` | 2 threads (symmetric), 2 users, 2 sessions, 2 challenges; mail and audit may fail | 794 k | `UnverifiedIsShutOut`, `NoOrphanIdentity` |
| `ceremonies` | 2 threads (symmetric), 1 user, 3 passwords, 2 challenges, 2 policies, clock from 1 to 3 | 2.2 M | `ChallengeWorksOnce`, `ChallengeKeepsToPurpose`, `PasswordNotReused` |
| `adoption` | 1 terminal, 4 commands, 2 edits, 1 fault, at any step but one, and its undos failing | 2.8 M | `AppliesReviewedPlan`, `FailedInitUndone`, `RollbackRestores` |
| `studio` | 1 Studio thread, 1 client, 2 upstreams, 2 users, a path under a public prefix, 3 operations, 1 restart | 2.2 M | `SavedAccessGoverns`, `ProxyFollowsFile`, `ForwardsOnlyEntitled`, `CreatedUsersStay` |
| `audit` | 4 requests, 3 of them decisions, 2 tenants, a ring of 2, 1 refused write, clock to 1 | 1.6 M | `AnsweredIsRecorded`, `RingIsRecent`, `LoneDecisionExplained`, `PagesCoverTrail` |
| `boundary` | 26 deployments, 2 or 3 proposals; one reader with edits, or two readers with one route | 1.1 M | `WritingDoesNotMatter`, `SameFingerprintSameSurface`, `OnlyDeclaredExperiences`, `SessionRoutesNeedOne`, `RequestUnderstood`, `RecommendedIsActionable`, `RecommendationsRenewed`, `ReportedProtectedIsGuarded`, `NoDriftMeansGuarded` |

Bounds and why they are enough to be interesting. A race here is between one request
and one other, so two threads show it. Two proposals give a batch with a first and a
later member, and a stale proposal next to the one that overtook it. Three give an edit,
its revert, and either the revert of that or an edit in between. Two delegations give a
chain with an inner link; two runs, a parent and a child. A clock that reaches 1 puts a
request's steps on both sides of an expiry; reaching 2 also gives a delegation that
starts late and ends. In `runs` and `live_policy` one request thread is enough, because
revocation, cancellation, the clock, agents and policies step independently of it.
In `identity` two users give a sign-up and a link to another's principal, and two
sessions the two outcomes of a race; time matters only in `ceremonies`, whose clock
crosses the end of both kinds of challenge. Two challenges are one of each kind or two
of one kind; three passwords are what a history of one needs to come round.
In `adoption` four commands are an init, a failed or killed one, and what comes after it
up to a rollback; two edits are one under review and one between commands. A fault may
come at every step of init and rollback but the one where the code does go wrong, the
filling of the manifest (below); the undo that follows a failed write may fail for any file
without counting as a second fault. In `studio` three operations are an attachment, an
access and a restart between them, or a creation cut short, a restart and another creation; the
routes offered have one method to a path and lie outside the public prefixes, for the
reasons below, and one that is asked for lies under a prefix.
In `audit` three decisions over a ring of two make it drop one, two tenants
share the counter, and a clock of two instants puts several events of one instant on both
sides of a page. In `boundary` a deployment's part is chosen for its question: every way
of writing one declaration, every experience and provider, every client's bodies, and
routes that are open, recommended for protection and protected live. Its routes are spelled the
way normalization spells them, for the reason below. The bodies have a method in lower case and
one that does not exist, and texts that hold a command's word that is looked for later; a text
with one that is looked for earlier is left out, since it is misread (`MisreadAssumption` in
`MCBoundary` has TLC evaluate one).

All bounds are constants: `MaxProposals`, `MaxTime`, `MaxSessions`, `MaxChallenges`,
`MaxEdits`, `MaxFaults`, `MaxCommands`, `MaxOps`, `MaxRestarts`, `MaxClock`, a deployment's
`max_proposals`, and the finite sets of ids and requests. The symmetry of `delegation`,
`identity`, `ceremonies` and `audit` is sound: what is permuted is interchangeable and the
runs check safety only. Deadlock is not checked in `adoption` and `audit`, whose commands
and requests run out, nor in `boundary`, where a server that refuses its declaration stops.

Fairness. `AuthorityControl!Spec` assumes weak fairness of `Continue(t)`: a request that
has started is a running OS thread and keeps being scheduled; without it `CurrentCallCommits`,
which says that a call with current proposals gets in, would be violated by a thread that stops.
Nothing is assumed about new requests. The other specifications assume none and have no liveness property: a
command may be killed, an upstream may never answer, and a report may be abandoned.

Every property of a passing run has a mutant in `PROJECT.json`: a plausible mistake in
one mapped definition (the `Bug_` operators in the modules) under which TLC finds
the property violated.

### Where the code and what it says disagree

The run `unprotect` checks one statement of the repository, and TLC finds an execution of
the code that contradicts it; the finding of the same name quotes the statement. A request
to unprotect a route is refused: the parser looks for `protect_route` first, and
`unprotect_route` contains it. So the CLI's `propose unprotect-route` always fails, and
Studio's choice "default" for a protected route never takes effect; in `AuthorityControl` an
`UnprotectRoute` comes only from an embedding host.

Further disagreements that modelling brought up. The modules have this behaviour, or
leave it out where the text says so; no run of its own checks it.

Control plane:

* An apply that read the status before a rejection goes through after it ("proposal `{}`
  is rejected", `boundary/src/runtime.rs:911`), and a `mark_rejected` or `mark_approved`
  that follows a stale check overwrites `Applied` ("proposal `{}` is already applied",
  `runtime.rs:932`). `FinalStatusHolds` states what is left: only requests already in
  progress can do this.
* A bulk apply that lists an id twice applies it twice ("proposal `{}` is already
  applied", `runtime.rs:908`). `AppliedByOneCall` states what is left.
* Two concurrent inference requests store two proposals for one change, where
  `server/tests/http_surface.rs:1245` expects one of repeated requests.
* An approval token is a hash of the change and fits any proposal of that change, where
  `boundary/src/control.rs:152` says "created for the given proposal".
* Reverting a change restores the whole earlier state and so undoes later changes too
  ("Revert a previously applied change.", `control.rs:92`).

Delegations and enforcement:

* Only agents are compared with their parent delegation; a service can delegate more than
  it was given ("A delegation can never widen authority", `runtime/src/mesh.rs:538`,
  `README.md:192`). The same goes for a human's id that `create_agent` later takes over:
  the delegations it gave as a human are then those of an agent. `NeverWidens` states what
  holds, and the theorem about it names the delegators it holds of.
* A sub-delegation may end later than its parent, or never, and revoking a parent leaves
  it in force (`README.md:192-193`).
* A request that names a run but no resource is decided without looking at the run
  (`boundary/src/runtime.rs:275-284`). `RunConfines` speaks of requests for a resource.
* A live policy answers without an audit record, where `boundary/src/runtime.rs:1264`
  says "There is no second authorization path, and an unrecordable decision denies"
  (`docs/architecture.md:121` likewise).
* A request authenticated before an agent is revoked is allowed after it, and
  `create_agent` stores an active agent over a revoked one ("Revoking an agent removes its
  authority immediately", `runtime/src/mesh.rs:945`).
* A live capability policy has no effect on routes that name a resource:
  `authorize_resource` and `authorize_run_resource` never read it, where
  `boundary/src/control.rs:32` says "this defines what is currently permitted".

Identity:

* Of two concurrent sign-ups of one user, the one without an address keeps a live session
  of the account the other made, although the address must be verified first
  (`boundary/src/runtime.rs:428`).

Audit trail:

* A decision cites the last event number in a second step (`mesh.rs:1541`), so two
  concurrent decisions cite one event, or each other's, and `explain DECISION_ID`
  (`docs/package-and-cli-guide.md:398`) explains another decision.
  `LoneDecisionExplained` states what is left.
* Pages are sorted by time and hashed id, which is not the order of the appends that
  `storage/tests/storage_conformance.rs:75` speaks of.

Adoption:

* A directory that cannot be made ends init without any undo (`init.rs:1364-1367`), where a
  failed write undoes the changes before it: the files written before stay, and only
  `authboundry rollback` takes them back. The undo ignores its own errors
  (`init.rs:1716-1727`) and writes in place, so a file whose undo fails stays as init wrote it,
  or is cut. `FailedInitUndone` speaks of failed writes, and of the files whose undo did not fail;
  `RollbackRestores` covers what is left by either.
* A second `init` keeps the journal of the first (`init.rs:1391`). If only the second
  bridged the entrypoint, rollback cannot recover it, although offboarding prints
  "Original source remains recoverable with `authboundry rollback --yes`"
  (`init.rs:1691`). `RollbackRestores` speaks of the files of the journal.
* The manifest is written in place. A process killed while it is created leaves an empty
  one, and later inits journal nothing: a rollback then ends well and restores nothing. The
  run leaves this fault out, and the theorem has it as a hypothesis (`FillNotKilled`). A
  process killed while a rollback deletes the backups, which come before the manifest,
  leaves a rollback that can never finish; `RollbackRestores` speaks of those that do.

Studio:

* Saved accesses of two methods of one path become two rules that ignore the method: after
  a restart the first decides both ("Active and saved", `studio.rs:804`;
  `serve.rs:344-346`). The passing run offers one method to a path.
* The rules of the public entries and of the public prefixes (`/assets/`, `/src/` and so on, for
  every method) come before the saved accesses (`serve.rs:358-376`, `studio.rs:148-155`). The
  access saved for a route that one of them matches, say `POST /src/m`, is enforced by the live
  protection until the process ends, and by nothing after it: the route is public, where Studio
  still shows it as saved. `ShadowedAssumption` in `MCStudio` has TLC evaluate such a table; the
  run saves no access there.
* A WebSocket upgrade never looks at live route protections (`server.rs:628-638`). A
  request reads the rules and the live protection in two steps (`server.rs:447-469`);
  `ForwardsOnlyEntitled` speaks of requests during which neither changed.
* Two Studio requests at once lose one of two users or accesses (`studio.rs:452`, `561`),
  and a page load during a detach can leave the old proxy bound. The run has one Studio
  thread.
* The accounts file is emptied and filled in place (`studio.rs:483-490`): a creation whose write
  fails or is killed takes users of earlier creations, and those of init, out of the file and at
  the next start out of Studio, where `docs/package-and-cli-guide.md:156-158` says that a user
  created in Studio "is persisted to the local development file". `CreatedUsersStay` states what
  is left: nothing else loses a user, and a later creation that ends well puts back every user
  that the file still has.
* A user whose account cannot be written to the file exists until the restart; a save
  interrupted between its two requests leaves a protection that is live only.

Declaration and surface:

* A `}` or `use auth` inside a comment counts when the block is looked for
  (`parser.rs:181-209`), where `skip_trivia` says comments "carry no meaning".
* Of a setting and its alias (`password` and `password_policy`, and others), the last wins
  silently; repeating one name is an error.
* "Semantically identical declarations converge here" (`dsl/src/model.rs:41`), but the
  order of a policy's claim values and an explicit default screen change the fingerprint.
  Names with separators in them can make two canonical forms alike.
* The surface marks the control plane's routes as needing a session;
  `handle_control_route` answers them first and looks for none. Account linking, MFA,
  passkeys and recovery always answer 501.

Changes and reports:

* The words are searched for in the whole body, so a value that contains the word of an earlier
  test is misread: a policy whose id holds `protect_route` asks for a protection and is refused for
  its missing method. A method that `to_uppercase` does not make a known one is refused. And
  `"enabled":true` without a space is read as false. The CLI's `set-policy` sends no roles,
  so the policy has no rules. A password policy is proposed from the default, not from
  the live one.
* An inferred protection is stored under the normalized path and looked up by the exact
  one (`runtime.rs:1153`): on a route with a parameter or capitals it governs nothing,
  although the report calls the route protected. The run's routes have neither.
* After a change that leaves every route's protection as it was, `ensure_proposal` keeps
  returning the outdated proposal, which is then "stale" for good.
  `RecommendationsRenewed` states what is left.
* A report reads the authority twice (`control_routes.rs:187`, `314`).
  `approve --all` and `apply --all` fail once one inferred proposal is rejected, applied or
  stale. `drift --check` and `reconcile` compare with an empty authority
  (`cli/src/lib.rs:482`), so every route is drift.

Behaviour that no document speaks of, but a reader may want to know:

* A sign-in refused for an expired password, a sign-up whose mail is refused, an audit
  write that fails after the session was opened, and an account created by Studio all
  leave a session that nobody holds and nobody ends.
* A new account's password counts as changed at time 0, so under an expiration policy
  the account cannot sign in until the password has been changed or reset.
* A reset ends neither the other challenges of the account nor its sessions.
* Attaching an upstream makes an embedded integration a standalone one.
* Studio decides who may use it from what was granted when it started.
* `admin_only` counts as enabled in the surface, and screens are listed for experiences
  that are disabled. The alias of a disabled experience (`/login`) goes to the
  application. The operation of `external_identity` is exposed by `sign_in`.
* A limit on a page of the trail keeps the oldest events.

## 4. Proofs

Every property of a passing run is a theorem but two (below): it holds for every set of
threads, ids, routes, users, requests, policies and deployments, and every bound. One theorem
is a refinement, two are action properties. `PROJECT.json` lists them; `XHolds` is the theorem
about property `X`, and those of `BoundaryProofs` have names of their own.

Most theorems `Spec => []P` follow one argument. `P` is not inductive, because
it speaks of what is stored and not of what the threads hold on their stacks. The proof
module's invariant adds that: for each program counter, what the thread's copies still
have to do with the stores. Then there is one lemma (or one step) per action, a last lemma
for `[Next]_vars`, and the temporal step. TLC checked each invariant on the run's instance
before it was proved.

| Module | Invariant | What it adds to the property, and why it is needed |
|---|---|---|
| `AuthorityControlProofs` | `CallInv` | the shape of the locals at each step (`TypeInv`); the `writer` is the one thread in the locked section (`LockInv`); copies agree with stored proposals but for the status (`CopiesMatch`); while a thread plans, its `next` is as many revisions ahead as it has records (`PlanRevision`); a record's revision gives the revision its proposal was made for (`RecordsMatch`) |
| `AuthorityHistoryProofs` | `HistInv` | a revision has one record, counting those a thread still has to store, and a planning thread's records continue the stored chain up to its `next`; otherwise `Commit` could not extend the chain |
| | `PreviewInv` | clones are states that were in force, proposals show the result of their change on such a state, and records say what the proposal showed; the revision compare in `CanApply` then identifies the two states |
| | `StatusInv` | a copy was admitted with a status that the stored one can only have moved on from; records are of copies admitted for apply |
| | `OnceInv` | the copies of a call, and the ids it has yet to fetch, are of different proposals |
| `AgentAuthorityProofs` | `BaseInv` | types, stores keyed by id, only agents ever change, and what a request noted at its start (revoked, cancelled, time) stays true |
| | `LapsedInv` | the delegation in a request's context is one of the store with the same end, and not revoked before the request |
| | `ChainInv` | stored delegations, and those about to be stored, are linked to every delegation of their chain and lie within it, and no chain contains its own end |
| | `WidenInv` | the delegator of each, stored or about to be, holds every capability given |
| | `RunInv` | runs, and those about to be stored, lie within their delegations and their parent; a request past the run check was admitted by the run |
| | `LivesInv` | a request has noted every live policy since it came in |
| `IdentityProofs` | `CeremonyInv` | the holder of the challenge store is the one thread in the operation, and the challenge it operates for is open |
| | `BindInv` | identities are only bound to stored principals, also by a link that is half way |
| | `ShutOutInv` | which session a thread still has to hand out or end, how its copy of the account can be out of date (an account only becomes verified), and that a pending verification comes from a sign-up with an address |
| | `PasswordInv` | the history is the end of all past passwords and no shorter than the least that any policy keeps |
| `AuditTrailProofs` | `TrailInv`, `RingInv`, `LoneInv` | a request past the write has its event; the ring is aligned with the end of the history; a lone request's number is newer than all before it and older than all after it, and nobody else cites it |
| | `AuditTypes` | types alone; `PagesCoverTrail` is then a fact about `events`: the places that it gives to what it found are a bijection onto the page before the cut |
| `BoundaryProofs` | `ReportInv` | there is a record for each revision (`Numbered`), so that the state at a past revision can be named; what a report read was in force then (`SnapshotTrue`); each item is a recommendation of that state with a stored proposal for it, stale just if the revisions differ (`ReportTrue`); an inferred proposal is of a state no newer than its revision (`Inferred`) |
| | `AnswerInv` | nothing is answered before the start; the rest of what a request is answered follows from the table of routes |
| `StudioProofs` | `EntitledInv` | the demand a client was judged by is among those seen since it came in |
| | `UsersInv`, `FileInv`, `RulesInv`, `LiveInv` | files and process agree except for what the one Studio thread is about to write, by its step |
| `AdoptionProofs` | `PlanInv`, `UndoInv` | a plan has one change for each file and is about the files as they are; the files are those at the start but for the ones done and the ones whose undo failed |
| | `JournalInv`, `RestoreInv` | a journal leads back to `origin`, also while it is being written and while backups are consumed; a rollback has put back what it has gone through |

Lemmas about operators that these rest on: `is_subset_of` is transitive, and what a narrower
scope matches a wider one does (`NarrowsOn`, `MatchesWider`); what the two evaluators rest a
decision on (`CapabilityDecision`, `ResourceDecision`); `set_password` leaves a history that is
long enough and a password that is not in it (`SetKeepsHistory`); the first matching rule of
`application_policy` demands what the saved access means (`RulesMeanAccess`); and `build_plan`
has one change for a file, made from the file as it is (`BuildPlan`).

The theorems about the surface and the bodies are about what operators compute, for every
declaration, route and command. `RowsOfTable` gives what a row of the route table may be, and
`RouteFound` what the dispatch finds in it; `CanonicalSurface` says that the surface is made from the
canonical form alone; `KindRead`, `TextsRead` and `PolicyFromWish` say what
`parse_authority_change` finds in a body that a client wrote. A function that is recursive
over the positions of a sequence exists and has its values by `Iterates`, and what holds at each
position by `Induct`, both by the least counterexample (`LeastNumber`), since the library's
theorems on induction cannot be instantiated.

The refinement `Implements` shows that the initial state maps to that of `AuthorityLog` and
that under `HistInv` every step is a commit of the log, or a stutter.

### Hypotheses

Assumptions on constants are the named `ASSUME`s of the modules: types of the constants, and
that `None`, `Error`, `NoThread` and `Absent` are not values of the sets they are added to.
`BoundaryAssumption` adds that a deployment has what the server looks at (`WellFormed`), and
`DiscoveryAssumption` that a discovery revision, a hash, is not `None`. TLC evaluates them in
every run. Hypotheses of single theorems say what the property needs
of the surroundings. Each is met by the instance of the run that checks the property, and
without each but `RankTyped` the property is false of the code (section 3):

| Hypothesis | Of | What it leaves out |
|---|---|---|
| `~Embedded` | `NoApplyWithoutApprovalHolds`, `FinalStatusHoldsAlways` | a host that calls `apply_change` itself, which looks at no status |
| `NoRepeats` | `AppliedAtMostOnceHolds` | a batch that names a proposal twice; `AppliedByOneCallHolds` needs no hypothesis |
| `OneAddressEach` | `UnverifiedIsShutOutHolds` | racing sign-ups for one account of which one gives an address |
| `NoServiceDelegates` | `NeverWidensHolds` | services that delegate, and humans whose id `create_agent` takes over |
| `OneStudio` | `CreatedUsersStayHolds`, `ProxyFollowsFileHolds`, `SavedAccessGovernsHolds` | two Studio requests at once, which lose updates of the files |
| `OfferedApart` | `SavedAccessGovernsHolds` | two methods of one path, methods the rules do not know, public entries, and routes under a public prefix |
| `Alone` | `AppliesReviewedPlanHolds`, `FailedInitUndoneHolds`, `RollbackRestoresHolds` | two commands in one directory at once, and edits while a command writes |
| `FillNotKilled` | `RollbackRestoresHolds` | a kill between the creation of the manifest and its contents |
| `PlainRoutes` | `ReportedIsGuarded`, `RecommendationsHold`, `RecommendationsAreRenewed`, `NoDriftIsGuarded` | routes with a parameter or capitals, protected under another path than the one looked up, and a route listed twice |
| `ClearCommands` | `RequestsAreUnderstood` | `unprotect_route`, roles in `set_policy`, commands without an option they need or with two wishes for the expiration, policies that are not valid, and options that hold a command's word that is looked for earlier |
| `RankTyped` | `PagesCoverTrailHolds` | nothing: the hashed ids have an order |

### Only model-checked

* `CurrentCallCommits`: liveness under fairness is out of the prover's reach.
* `WritingDoesNotMatter`: which writings mean one declaration is given by the deployments of
  the instance (`Written` in `MCBoundary`), so the property says nothing of other ones. It
  checks the tokenizer and the parser on every way of writing that `MCBoundary` lists.

## 5. Not modelled

* The HTTP framing, upstream transport, copying of WebSocket frames, HTML, JSON rendering
  and printing: input and output without state that a property could be about.
* Hashing and random tokens: external. Two distinct inputs are taken to have distinct
  hashes.
* The part of `discovery` that scans an application's files for routes and frameworks:
  pattern matching over text, with the repository's unit tests as its only reference. Its
  pairing with a previous discovery is not modelled either: every caller passes none.
* The FeltDB adapter is a placeholder that stores nothing. Storage topology descriptors,
  the injection of the context, the JavaScript client and packages and the example
  application have no state of the system's own.
* The mail port's transport; that a mail can be refused is modelled.
* The command line's arguments, its cache of proposals and `latest`, and the surface's own
  fingerprint and `inspect`.
* `Condition::TimeBound`, which reads the system clock inside the evaluator.
* Lock poisoning: a panic inside a critical section is outside the models.

## 6. What is left

* A grammar of declarations, from which both the tokens and the meaning of one are derived:
  `WritingDoesNotMatter` could then be stated, and proved, for every declaration.
* What remains true of adoption with two terminals, and of Studio with two requests at
  once: weaker properties than those proved, for the surroundings the hypotheses leave out.
