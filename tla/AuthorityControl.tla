--------------------------- MODULE AuthorityControl ---------------------------
(***************************************************************************)
(* The authority control plane: proposals are made, approved, rejected and *)
(* applied, one by one or in a batch, by the request threads of the server *)
(* (server.rs, serve: one thread per connection).  The live authority is   *)
(* behind one read-write lock; the proposals and the change records are    *)
(* each behind a mutex of their own that is held for a single store call.  *)
(* One action is what a thread does between two points where another       *)
(* thread can get in: a store call, or a stretch under the write lock.     *)
(*                                                                         *)
(* A thread that answers without touching any state (every early return    *)
(* and every read-only route) is the action Answer.                        *)
(***************************************************************************)
EXTENDS LiveAuthority, Sequences, FiniteSets

CONSTANTS
    Thread,             \* request threads
    NoThread,           \* nobody holds the write lock
    Requested,          \* the edits clients ask for
    DiscoveryRevision,  \* revisions of the discovered routes, for inferred proposals
    Batches,            \* the id lists clients send to the bulk routes
    Embedded,           \* whether the host application calls apply_change itself
    MaxProposals        \* bound: proposals ever stored

ASSUME AuthorityControlAssumption ==
    /\ NoThread \notin Thread
    /\ Requested \subseteq EditChange
    /\ DiscoveryRevision \subseteq Nat
    /\ Batches \subseteq Seq(Nat \ {0})
    /\ Embedded \in BOOLEAN
    /\ MaxProposals \in Nat
    /\ Error \notin Authority

VARIABLES
    authority,  \* the LiveAuthorityState behind the RwLock
    writer,     \* the thread that holds the write lock, or NoThread
    proposals,  \* MemoryProposalStore.proposals: "proposal-i" is entry i
    changes,    \* MemoryProposalStore.changes, keyed by change_id
    local       \* what each request thread holds on its stack

vars == <<authority, writer, proposals, changes, local>>

(***************************************************************************)
(* Types                                                                   *)
(***************************************************************************)

Status == {"Pending", "Approved", "Applied", "Rejected"}

StoredProposal ==
    [change : Change, before : Content, after : Content, revision : Nat,
     discovery_revision : Nat,
     status : Status, rejection_reason : BOOLEAN, change_id : ChangeId \cup {None}]

\* approval: the proposal whose approval token was presented, 0 if none was.
ChangeRecord ==
    [change_id : ChangeId, proposal_id : Nat \ {0}, change : Change,
     previous_state : Authority, resulting_state : Authority, approval : Nat]

\* The fields of a retrieved StoredProposal that its reader goes on to use.
Copy == [id : Nat \ {0}, change : Change, revision : Nat, status : Status]

PC == {"idle", "clone", "preview", "approve_verify", "approve_mark", "reject_mark",
       "retrieve", "verify", "lock", "plan", "mark", "store"}

Local ==
    [pc : PC, change : Change \cup {None}, discovery_revision : Nat,
     snapshot : Authority, ids : Seq(Nat \ {0}), stored : Seq(Copy), approval : Nat,
     records : Seq(ChangeRecord)]

Idle ==
    [pc |-> "idle", change |-> None, discovery_revision |-> 0,
     snapshot |-> NewAuthority, ids |-> <<>>, stored |-> <<>>, approval |-> 0,
     records |-> <<>>]

TypeOK ==
    /\ authority \in Authority
    /\ writer \in Thread \cup {NoThread}
    /\ proposals \in Seq(StoredProposal)
    /\ changes \subseteq ChangeRecord
    /\ local \in [Thread -> Local]

(***************************************************************************)
(* Shared pieces of the handlers                                           *)
(***************************************************************************)

ProposalId == DOMAIN proposals

Retrieve(i) ==
    [id |-> i, change |-> proposals[i].change, revision |-> proposals[i].revision,
     status |-> proposals[i].status]

\* preview_authority_change: a revert looks its record up in the store.
Preview(current, change) ==
    IF change.type # "Revert" THEN apply_change(current, change)
    ELSE IF \E r \in changes : r.change_id = change.change_id
         THEN apply_revert_change(current,
                  CHOOSE r \in changes : r.change_id = change.change_id)
         ELSE Error

\* verify_stored_proposal_is_current, under the read lock.  The contract, and
\* so its fingerprint, never changes while the process runs.
IsCurrent(copy) ==
    /\ copy.revision = authority.revision
    /\ Preview(authority, copy.change) # Error

\* Approval::verify: the token is a hash of the change alone.
TokenMatches(t, copy) ==
    \/ local[t].approval = 0
    \/ proposals[local[t].approval].change = copy.change

\* Nobody holds the write guard: a read or a write lock can be taken.
Bug_NoLock == TRUE
LockFree == writer = NoThread

\* The statuses approve_stored_proposal goes on with: Approved is Ok at once,
\* Applied and Rejected are Err.
Bug_ReapproveRejected(status) == status \in {"Pending", "Rejected"}
Approvable(status) == status = "Pending"

\* The statuses reject_stored_proposal goes on with.
Rejectable(status) == status \notin {"Applied", "Rejected"}

\* The statuses the apply routes go on with.
Bug_ApplyPending(status) == status \notin {"Applied", "Rejected"}
Appliable(status) == status = "Approved"

Goto(t, pc) == local' = [local EXCEPT ![t].pc = pc]
Return(t) == local' = [local EXCEPT ![t] = Idle]

(***************************************************************************)
(* Proposing                                                               *)
(***************************************************************************)

\* The bound on proposals counts the ones that are still being made.
RoomForProposal ==
    Len(proposals) + Cardinality({u \in Thread : local[u].pc \in {"clone", "preview"}})
        < MaxProposals

\* Change ids a revert may name: stored ones, and ones being stored.
KnownChangeId ==
    {r.change_id : r \in changes}
    \cup UNION {{local[u].records[k].change_id : k \in DOMAIN local[u].records} : u \in Thread}

\* Clone the authority under the read lock, then let go of it.
CloneAuthority(t, change, disc) ==
    /\ LockFree
    /\ local' = [local EXCEPT ![t] = [Idle EXCEPT !.pc = "preview", !.change = change,
                    !.discovery_revision = disc, !.snapshot = authority]]
    /\ UNCHANGED <<authority, writer, proposals, changes>>

\* propose: an edit, or (POST revert) the revert of a change id.
Propose(t) ==
    /\ local[t].pc = "idle"
    /\ RoomForProposal
    /\ \/ \E change \in Requested : CloneAuthority(t, change, 0)
       \/ \E id \in KnownChangeId :
            CloneAuthority(t, [type |-> "Revert", change_id |-> id], 0)

\* ensure_proposal, first half: nothing is stored for this change and revision.
EnsureFind(t) ==
    /\ local[t].pc = "idle"
    /\ RoomForProposal
    /\ \E change \in {c \in Requested : c.type = "ProtectRoute"}, disc \in DiscoveryRevision :
        /\ ~ \E i \in ProposalId : /\ proposals[i].change = change
                                   /\ proposals[i].discovery_revision = disc
        /\ local' = [local EXCEPT ![t] = [Idle EXCEPT !.pc = "clone",
                        !.change = change, !.discovery_revision = disc]]
    /\ UNCHANGED <<authority, writer, proposals, changes>>

\* ensure_proposal, second half: propose_change_with_metadata.
EnsurePropose(t) ==
    /\ local[t].pc = "clone"
    /\ CloneAuthority(t, local[t].change, local[t].discovery_revision)

(***************************************************************************)
(* Preview the change on the clone, allocate an id and store the proposal. *)
(* The three store calls are one step: what a revert looks up is never     *)
(* removed, and nobody else knows the id before the proposal is stored.    *)
(***************************************************************************)
StoreProposal(t) ==
    LET me == local[t]
        after == Preview(me.snapshot, me.change)
    IN  /\ me.pc = "preview"
        /\ IF after = Error
           THEN UNCHANGED proposals
           ELSE proposals' = Append(proposals,
                  [change |-> me.change, before |-> me.snapshot.content,
                   after |-> after.content, revision |-> me.snapshot.revision,
                   discovery_revision |-> me.discovery_revision, status |-> "Pending",
                   rejection_reason |-> FALSE, change_id |-> None])
        /\ Return(t)
        /\ UNCHANGED <<authority, writer, changes>>

(***************************************************************************)
(* Approving and rejecting                                                 *)
(***************************************************************************)

\* approve_stored_proposal: look at the status, verify, then mark.
Approve(t) ==
    /\ local[t].pc = "idle"
    /\ \E i \in ProposalId :
        /\ Approvable(proposals[i].status)
        /\ local' = [local EXCEPT ![t] = [Idle EXCEPT !.pc = "approve_verify",
                        !.stored = <<Retrieve(i)>>]]
    /\ UNCHANGED <<authority, writer, proposals, changes>>

ApproveVerify(t) ==
    /\ local[t].pc = "approve_verify"
    /\ LockFree
    /\ IF IsCurrent(Head(local[t].stored)) THEN Goto(t, "approve_mark") ELSE Return(t)
    /\ UNCHANGED <<authority, writer, proposals, changes>>

\* mark_approved writes whatever the status has become in the meantime.
MarkApproved(t) ==
    /\ local[t].pc = "approve_mark"
    /\ proposals' = [proposals EXCEPT ![Head(local[t].stored).id].status = "Approved"]
    /\ Return(t)
    /\ UNCHANGED <<authority, writer, changes>>

\* reject_stored_proposal: look at the status, then mark.
Reject(t) ==
    /\ local[t].pc = "idle"
    /\ \E i \in ProposalId :
        /\ Rejectable(proposals[i].status)
        /\ local' = [local EXCEPT ![t] = [Idle EXCEPT !.pc = "reject_mark",
                        !.stored = <<Retrieve(i)>>]]
    /\ UNCHANGED <<authority, writer, proposals, changes>>

\* mark_rejected, again without a look at the status.
MarkRejected(t) ==
    /\ local[t].pc = "reject_mark"
    /\ proposals' = [proposals EXCEPT ![Head(local[t].stored).id] =
                        [@ EXCEPT !.status = "Rejected", !.rejection_reason = TRUE]]
    /\ Return(t)
    /\ UNCHANGED <<authority, writer, changes>>

(***************************************************************************)
(* Applying                                                                *)
(***************************************************************************)

\* apply_stored_proposal and apply_approved_stored_proposal: the copy must be
\* Approved.  approval is the proposal whose response carried the token sent.
Apply(t) ==
    /\ local[t].pc = "idle"
    /\ \E i \in ProposalId, approval \in {0} \cup ProposalId :
        /\ Appliable(proposals[i].status)
        /\ local' = [local EXCEPT ![t] = [Idle EXCEPT !.pc = "verify",
                        !.stored = <<Retrieve(i)>>, !.approval = approval]]
    /\ UNCHANGED <<authority, writer, proposals, changes>>

\* verify_stored_proposal_is_current, then apply_change's own token check.
ApplyVerify(t) ==
    /\ local[t].pc = "verify"
    /\ LockFree
    /\ LET copy == Head(local[t].stored)
       IN  IF IsCurrent(copy) /\ TokenMatches(t, copy) THEN Goto(t, "lock") ELSE Return(t)
    /\ UNCHANGED <<authority, writer, proposals, changes>>

\* apply_change called by an embedding application with the ChangeProposal
\* that propose returned: the token is checked, the status is not.
ApplyDirect(t) ==
    /\ Embedded
    /\ local[t].pc = "idle"
    /\ \E i \in ProposalId, approval \in ProposalId :
        /\ proposals[approval].change = proposals[i].change
        /\ local' = [local EXCEPT ![t] = [Idle EXCEPT !.pc = "lock",
                        !.stored = <<Retrieve(i)>>, !.approval = approval]]
    /\ UNCHANGED <<authority, writer, proposals, changes>>

\* apply_approved_stored_proposals: a batch, whose copies are retrieved one by
\* one and whose statuses are looked at when all are there.
ApplyBatch(t) ==
    /\ local[t].pc = "idle"
    /\ \E ids \in Batches :
        /\ ids # <<>>
        /\ local' = [local EXCEPT ![t] = [Idle EXCEPT !.pc = "retrieve", !.ids = ids]]
    /\ UNCHANGED <<authority, writer, proposals, changes>>

BatchRetrieve(t) ==
    LET me == local[t]
        id == Head(me.ids)
        stored == Append(me.stored, Retrieve(id))
    IN  /\ me.pc = "retrieve"
        /\ IF id \notin ProposalId THEN Return(t)
           ELSE IF Len(me.ids) > 1
                THEN local' = [local EXCEPT ![t] =
                        [me EXCEPT !.ids = Tail(me.ids), !.stored = stored]]
                ELSE IF \A k \in DOMAIN stored : Appliable(stored[k].status)
                     THEN local' = [local EXCEPT ![t] =
                            [me EXCEPT !.pc = "lock", !.ids = <<>>, !.stored = stored]]
                     ELSE Return(t)
        /\ UNCHANGED <<authority, writer, proposals, changes>>

\* Take the write lock; snapshot is the local variable `next`.
AcquireWrite(t) ==
    /\ local[t].pc = "lock"
    /\ LockFree
    /\ writer' = t
    /\ local' = [local EXCEPT ![t] = [@ EXCEPT !.pc = "plan", !.snapshot = authority]]
    /\ UNCHANGED <<authority, proposals, changes>>

\* The record of applying the k-th proposal of a call, on top of `before`.
RecordOf(me, k, before, next) ==
    LET copy == me.stored[k]
    IN  [change_id       |-> [revision |-> next.revision, index |-> k - 1],
         proposal_id     |-> copy.id,
         change          |-> copy.change,
         previous_state  |-> before,
         resulting_state |-> next,
         approval        |-> me.approval]

\* The compare-and-swap: the proposal was made for the revision in force.
Bug_NoRevisionCompare(copy, next) == next # Error
Bug_CompareWithPlan(copy, next) == next # Error /\ copy.revision + 1 = next.revision
CanApply(copy, next) == copy.revision = authority.revision /\ next # Error

\* An early return under the write lock drops the guard.
ReturnUnlocked(t) == Return(t) /\ writer' = NoThread

\* One turn of the loop under the write lock: the revision compare, the
\* preview and the record.  An error drops the guard with nothing changed.
PlanNext(t) ==
    LET me == local[t]
        k == Len(me.records) + 1
        copy == me.stored[k]
        next == Preview(me.snapshot, copy.change)
    IN  /\ me.pc = "plan"
        /\ k <= Len(me.stored)
        /\ IF CanApply(copy, next)
           THEN /\ local' = [local EXCEPT ![t] = [me EXCEPT !.snapshot = next,
                        !.records = Append(me.records, RecordOf(me, k, me.snapshot, next))]]
                /\ UNCHANGED writer
           ELSE ReturnUnlocked(t)
        /\ UNCHANGED <<authority, proposals, changes>>

\* *authority = next
Commit(t) ==
    /\ local[t].pc = "plan"
    /\ Len(local[t].records) = Len(local[t].stored)
    /\ authority' = local[t].snapshot
    /\ Goto(t, "mark")
    /\ UNCHANGED <<writer, proposals, changes>>

\* mark_applied, for the next record
MarkApplied(t) ==
    LET record == Head(local[t].records)
    IN  /\ local[t].pc = "mark"
        /\ proposals' = [proposals EXCEPT ![record.proposal_id] =
                [@ EXCEPT !.status = "Applied", !.change_id = record.change_id]]
        /\ Goto(t, "store")
        /\ UNCHANGED <<authority, writer, changes>>

\* store_change_record; after the last one the write lock is released.
StoreRecord(t) ==
    LET me == local[t]
        record == Head(me.records)
    IN  /\ me.pc = "store"
        /\ changes' = {r \in changes : r.change_id # record.change_id} \cup {record}
        /\ IF Len(me.records) = 1
           THEN ReturnUnlocked(t)
           ELSE /\ local' = [local EXCEPT ![t] =
                        [me EXCEPT !.pc = "mark", !.records = Tail(me.records)]]
                /\ UNCHANGED writer
        /\ UNCHANGED <<authority, proposals>>

\* A request answered without a change of state.
Answer(t) == local[t].pc = "idle" /\ UNCHANGED vars

(***************************************************************************)
(* The specification                                                       *)
(***************************************************************************)

Init ==
    /\ authority = NewAuthority
    /\ writer = NoThread
    /\ proposals = <<>>
    /\ changes = {}
    /\ local = [t \in Thread |-> Idle]

\* What a thread does on its own once its request has started.
Continue(t) ==
    \/ EnsurePropose(t) \/ StoreProposal(t)
    \/ ApproveVerify(t) \/ MarkApproved(t) \/ MarkRejected(t)
    \/ ApplyVerify(t) \/ BatchRetrieve(t) \/ AcquireWrite(t)
    \/ PlanNext(t) \/ Commit(t) \/ MarkApplied(t) \/ StoreRecord(t)

Start(t) ==
    \/ Propose(t) \/ EnsureFind(t) \/ Approve(t) \/ Reject(t)
    \/ Apply(t) \/ ApplyDirect(t) \/ ApplyBatch(t) \/ Answer(t)

Next == \E t \in Thread : Start(t) \/ Continue(t)

\* A started request is a running thread, which the OS keeps scheduling.
Spec == Init /\ [][Next]_vars /\ \A t \in Thread : WF_vars(Continue(t))

(***************************************************************************)
(* Properties                                                              *)
(***************************************************************************)

\* The records of what a thread has committed and not yet written down.
Unwritten(t) ==
    IF local[t].pc \in {"mark", "store"}
    THEN {local[t].records[k] : k \in DOMAIN local[t].records} ELSE {}

\* Every change ever made to the live authority.
Log == changes \cup UNION {Unwritten(t) : t \in Thread}

\* Every revision has a record and only one; records of neighbouring revisions
\* are linked, result to previous state, from the empty authority to the live
\* one: no change to the live authority escapes the history, and a batch is
\* split into the same chain (runtime.rs, apply_change and the batch loop).
HistoryIsChain ==
    /\ \A n \in 1..authority.revision : \E r \in Log : r.resulting_state.revision = n
    /\ \A r \in Log :
        /\ r.resulting_state.revision \in 1..authority.revision
        /\ r.resulting_state.revision = r.previous_state.revision + 1
        /\ r.previous_state.revision = 0 => r.previous_state = NewAuthority
        /\ r.resulting_state.revision = authority.revision => r.resulting_state = authority
    /\ \A r, s \in Log :
        /\ r.resulting_state.revision = s.resulting_state.revision => r = s
        /\ r.resulting_state.revision = s.previous_state.revision
              => r.resulting_state = s.previous_state

\* What an operator saw in the preview is what applying the proposal did: the
\* first change of a call starts from the previewed state and ends in the
\* previewed result, whatever was applied between the preview and the apply.
PreviewHonoured ==
    \A r \in Log :
        r.change_id.index = 0 =>
            /\ r.previous_state.content = proposals[r.proposal_id].before
            /\ r.resulting_state.content = proposals[r.proposal_id].after

\* Two records of one proposal can only come from one call: the revision
\* compare under the write lock stops every later apply of it, even after a
\* late mark_approved has turned the Applied proposal back to Approved.
AppliedByOneCall ==
    \A r, s \in Log :
        r.proposal_id = s.proposal_id =>
            r.resulting_state.revision - r.change_id.index
                = s.resulting_state.revision - s.change_id.index

\* A proposal that nobody approved is not applied through the control routes
\* (docs/package-and-cli-guide.md: "Mutating authority proposals require an
\* explicit approval/apply step").
NoApplyWithoutApproval ==
    \A r \in Log : proposals[r.proposal_id].status # "Pending"

\* The statuses that end a proposal, and a thread that took its copy of proposal
\* i before i had one of them.
Final == {"Applied", "Rejected"}
HoldsOpenCopy(t, i) ==
    \E k \in DOMAIN local[t].stored :
        local[t].stored[k].id = i /\ local[t].stored[k].status \notin Final

\* A Rejected or an Applied proposal keeps its status against every request that
\* comes in afterwards: only a request that had read an earlier status can
\* overwrite it (runtime.rs, the status checks of approve, reject and apply).
FinalStatusHolds ==
    [][\A i \in ProposalId :
        proposals[i].status \in Final /\ (\A t \in Thread : ~ HoldsOpenCopy(t, i))
            => proposals'[i].status = proposals[i].status]_vars

\* A revert goes back to exactly the content that was in force just before the
\* change it names, however long ago that was, and never forward.
RevertRestores ==
    \A r \in {q \in Log : q.change.type = "Revert"} :
        \E q \in changes :
            /\ q.change_id = r.change.change_id
            /\ q.resulting_state.revision <= r.previous_state.revision
            /\ r.resulting_state.content = q.previous_state.content

\* The authority after each change of a call, planned on top of one another.
AllPlanned(stored) ==
    LET after[k \in 0..Len(stored)] ==
            IF k = 0 THEN authority
            ELSE IF after[k - 1] = Error THEN Error
            ELSE Preview(after[k - 1], stored[k].change)
    IN  after[Len(stored)]

\* A call that has the write lock, whose proposals are all of the revision in
\* force and whose changes can be made one after the other, gets in: a batch is
\* compared with the live revision and not with the one its first changes would
\* make, and nobody else can move the revision between the compares and the
\* assignment (runtime.rs, the loop under the write lock).
CurrentCallCommits ==
    \A t \in Thread :
        (/\ local[t].pc = "plan" /\ local[t].records = <<>>
         /\ \A k \in DOMAIN local[t].stored : local[t].stored[k].revision = authority.revision
         /\ AllPlanned(local[t].stored) # Error)
            ~> (local[t].pc = "mark")

\* A proposal is applied at most once ("proposal `{}` is already applied").
AppliedAtMostOnce ==
    \A r, s \in Log : r.proposal_id = s.proposal_id => r = s

\* The control plane implements the versioned log: a commit happens at the
\* assignment under the write lock, and its records count from then on.
Abstract == INSTANCE AuthorityLog WITH
    Initial <- NewAuthority,
    live    <- authority,
    log     <- Log,
    base    <- [i \in ProposalId |-> proposals[i].revision]

ImplementsLog == Abstract!Spec
=============================================================================
