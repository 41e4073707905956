------------------------ MODULE AuthorityControlProofs ------------------------
(***************************************************************************)
(* Theorems about the authority control plane, for every set of threads,   *)
(* every batch and any number of proposals and revisions.                  *)
(***************************************************************************)
EXTENDS AuthorityControl, SequenceTheorems, TLAPS

(***************************************************************************)
(* Sequences                                                               *)
(***************************************************************************)

\* An element of a sequence is of its type, and its index is a positive number.
LEMMA SeqElement ==
    ASSUME NEW S, NEW s \in Seq(S), NEW i \in DOMAIN s
    PROVE  s[i] \in S /\ i \in Nat \ {0} /\ i <= Len(s)
OBVIOUS

\* Updating a sequence at an index keeps its type and its domain.
LEMMA SeqUpdate ==
    ASSUME NEW S, NEW s \in Seq(S), NEW i, NEW v, i \in DOMAIN s => v \in S
    PROVE  /\ [s EXCEPT ![i] = v] \in Seq(S)
           /\ DOMAIN [s EXCEPT ![i] = v] = DOMAIN s
<1>1. DOMAIN s = 1..Len(s) /\ s \in [1..Len(s) -> S]
  BY LenProperties
<1>2. CASE i \in DOMAIN s
  BY <1>1, <1>2, ExceptSeq
<1>3. CASE i \notin DOMAIN s
  <2>1. [s EXCEPT ![i] = v] = s
    BY <1>1, <1>3
  <2> QED BY <2>1
<1> QED BY <1>2, <1>3

\* What is left of a list of proposals to apply when the first is taken off.
LEMMA SeqHead ==
    ASSUME NEW S, NEW s \in Seq(S), s # <<>>
    PROVE  /\ Head(s) = s[1] /\ Head(s) \in S /\ 1 \in DOMAIN s
           /\ Tail(s) \in Seq(S) /\ Len(s) \in Nat /\ Len(s) >= 1
           /\ Len(s) # 1 => Tail(s) # <<>>
           /\ Len(s) > 1 => Tail(s) # <<>>
<1>1. Len(s) \in Nat \ {0} /\ DOMAIN s = 1..Len(s)
  BY EmptySeq, LenProperties
<1>2. /\ Head(s) \in S /\ Tail(s) \in Seq(S)
      /\ Len(Tail(s)) = Len(s) - 1
  BY HeadTailProperties
<1>3. /\ Len(s) # 1 => Tail(s) # <<>>
      /\ Len(s) > 1 => Tail(s) # <<>>
  <2>1. Len(<<>>) = 0
    OBVIOUS
  <2> QED BY <1>1, <1>2, <2>1
<1>4. Head(s) = s[1]
  OBVIOUS
<1> QED BY <1>1, <1>2, <1>3, <1>4

(***************************************************************************)
(* The pure operators                                                      *)
(***************************************************************************)

\* Edit keeps the shape of the content.
LEMMA EditType ==
    ASSUME NEW content \in Content, NEW change \in EditChange,
           change.type = "SetPasswordPolicy" => change.policy \in ValidPasswordPolicy
    PROVE  Edit(content, change) \in Content
<1>1. CASE change \in [type : {"ProtectRoute"}, route : Route, capability : Capability]
  BY <1>1 DEF Edit, Content
<1>2. CASE change \in [type : {"UnprotectRoute"}, route : Route]
  BY <1>2 DEF Edit, Content
<1>3. CASE change \in [type : {"SetCapabilityPolicy"}, capability : Capability, policy : Policy]
  BY <1>3 DEF Edit, Content
<1>4. CASE change \in [type : {"SetProviderEnabled"}, provider : Provider, enabled : BOOLEAN]
  BY <1>4 DEF Edit, Content
<1>5. CASE change \in [type : {"SetPasswordPolicy"}, policy : PasswordPolicy]
  BY <1>5 DEF Edit, Content
<1> QED BY <1>1, <1>2, <1>3, <1>4, <1>5 DEF EditChange

\* A preview that succeeds is an authority state one revision further on.
LEMMA PreviewType ==
    ASSUME changes \subseteq ChangeRecord,
           NEW current \in Authority, NEW change \in Change,
           Preview(current, change) # Error
    PROVE  /\ Preview(current, change) \in Authority
           /\ Preview(current, change).revision = current.revision + 1
<1>1. CASE change.type # "Revert"
  <2>1. change \in EditChange
    BY <1>1 DEF Change, RevertChange
  <2>2. Preview(current, change) = apply_change(current, change)
    BY <1>1 DEF Preview
  <2>3. /\ change.type = "SetPasswordPolicy" => change.policy \in ValidPasswordPolicy
        /\ apply_change(current, change)
             = [content |-> Edit(current.content, change), revision |-> current.revision + 1]
    BY <2>2 DEF apply_change, NextRevision, Validates
  <2>4. Edit(current.content, change) \in Content
    BY <2>1, <2>3, EditType DEF Authority
  <2> QED BY <2>2, <2>3, <2>4 DEF Authority
<1>2. CASE change.type = "Revert"
  <2>1. PICK s \in changes : s.change_id = change.change_id
    BY <1>2 DEF Preview
  <2> DEFINE q == CHOOSE r \in changes : r.change_id = change.change_id
  <2>2. q \in ChangeRecord
    BY <2>1
  <2>3. Preview(current, change) = apply_revert_change(current, q)
    BY <1>2, <2>1 DEF Preview
  <2>4. Preview(current, change)
          = [content |-> q.previous_state.content, revision |-> current.revision + 1]
    BY <2>3 DEF apply_revert_change, NextRevision
  <2> QED BY <2>2, <2>4 DEF Authority, ChangeRecord
<1> QED BY <1>1, <1>2

\* The live authority starts well typed (LiveAuthorityState::new).
LEMMA NewAuthorityType == NewAuthority \in Authority
BY DEF NewAuthority, Authority, Content

\* A thread between requests holds a well typed stack.
LEMMA IdleType == Idle \in Local
BY NewAuthorityType DEF Idle, Local, PC

(***************************************************************************)
(* Type correctness                                                        *)
(***************************************************************************)

\* What a thread's variables hold at each point of its request, beyond types:
\* a proposer has its change, a reader its copy, a committer its records.
Shape(t) ==
    /\ local[t].pc \in {"clone", "preview"} => local[t].change \in Change
    /\ local[t].pc = "retrieve" => local[t].ids # <<>>
    /\ local[t].pc \in {"approve_verify", "approve_mark", "reject_mark", "verify", "lock", "plan"}
         => local[t].stored # <<>>
    /\ local[t].pc \notin {"plan", "mark", "store"} => local[t].records = <<>>
    /\ local[t].pc = "plan" => Len(local[t].records) <= Len(local[t].stored)
    /\ local[t].pc \in {"mark", "store"} => local[t].records # <<>>

TypeInv == TypeOK /\ \A t \in Thread : Shape(t)

\* A copy of a stored proposal has the type of a copy.
LEMMA RetrieveType ==
    ASSUME TypeOK, NEW i \in ProposalId
    PROVE  Retrieve(i) \in Copy /\ Retrieve(i).id = i
<1>1. proposals[i] \in StoredProposal /\ i \in Nat \ {0}
  BY SeqElement DEF TypeOK, ProposalId
<1> QED BY <1>1 DEF Retrieve, Copy, StoredProposal

\* A step that replaces the locals of one thread keeps the others' shape.
LEMMA LocalStep ==
    ASSUME TypeInv, NEW t \in Thread, NEW l \in Local, local' = [local EXCEPT ![t] = l],
           Shape(t)'
    PROVE  local' \in [Thread -> Local] /\ \A u \in Thread : Shape(u)'
BY DEF TypeInv, TypeOK, Shape

\* A return leaves an idle thread, which has no shape to keep.
LEMMA ReturnStep ==
    ASSUME TypeInv, NEW t \in Thread, Return(t)
    PROVE  local' \in [Thread -> Local] /\ \A u \in Thread : Shape(u)'
<1>1. Shape(t)'
  BY DEF Return, Shape, Idle, TypeInv, TypeOK
<1> QED BY <1>1, IdleType, LocalStep DEF Return

\* Going to another point only needs the shape of that point.
LEMMA GotoStep ==
    ASSUME TypeInv, NEW t \in Thread, NEW pc \in PC, Goto(t, pc), Shape(t)'
    PROVE  local' \in [Thread -> Local] /\ \A u \in Thread : Shape(u)'
<1>1. local' = [local EXCEPT ![t] = [local[t] EXCEPT !.pc = pc]]
  BY DEF Goto
<1>2. [local[t] EXCEPT !.pc = pc] \in Local
  BY DEF TypeInv, TypeOK, Local
<1> QED BY <1>1, <1>2, LocalStep

\* The process starts well typed.
LEMMA TypeInit == Init => TypeInv
BY IdleType, NewAuthorityType DEF Init, TypeInv, TypeOK, Shape, Idle

\* Every step of a thread keeps the types and shapes.
LEMMA TypeNext == TypeInv /\ [Next]_vars => TypeInv'
<1> SUFFICES ASSUME TypeInv, [Next]_vars PROVE TypeInv'
  OBVIOUS
<1> USE AuthorityControlAssumption, NewAuthorityType
<1>1. ASSUME NEW t \in Thread, NEW change \in Change, NEW disc \in Nat,
             CloneAuthority(t, change, disc)
      PROVE  TypeInv'
  <2> DEFINE l == [Idle EXCEPT !.pc = "preview", !.change = change,
                     !.discovery_revision = disc, !.snapshot = authority]
  <2>1. l \in Local
    BY IdleType DEF Local, PC, Idle, TypeInv, TypeOK
  <2>2. local' = [local EXCEPT ![t] = l]
    BY <1>1 DEF CloneAuthority
  <2>3. Shape(t)'
    BY <2>1, <2>2 DEF Shape, Idle, TypeInv, TypeOK
  <2> QED BY <1>1, <2>1, <2>2, <2>3, LocalStep DEF CloneAuthority, TypeInv, TypeOK
<1>2. ASSUME NEW t \in Thread, Propose(t) PROVE TypeInv'
  <2>1. CASE \E change \in Requested : CloneAuthority(t, change, 0)
    BY <1>1, <2>1 DEF Change
  <2>2. CASE \E id \in KnownChangeId : CloneAuthority(t, [type |-> "Revert", change_id |-> id], 0)
    <3>1. KnownChangeId \subseteq ChangeId
      <4>1. \A r \in changes : r.change_id \in ChangeId
        BY DEF TypeInv, TypeOK, ChangeRecord
      <4>2. ASSUME NEW u \in Thread, NEW k \in DOMAIN local[u].records
            PROVE  local[u].records[k].change_id \in ChangeId
        <5>1. local[u].records \in Seq(ChangeRecord)
          BY DEF TypeInv, TypeOK, Local
        <5>2. local[u].records[k] \in ChangeRecord
          BY <5>1, SeqElement
        <5> QED BY <5>2 DEF ChangeRecord
      <4> QED BY <4>1, <4>2 DEF KnownChangeId
    <3>2. \A id \in KnownChangeId : [type |-> "Revert", change_id |-> id] \in Change
      BY <3>1 DEF Change, RevertChange
    <3> QED BY <1>1, <2>2, <3>2
  <2> QED BY <1>2, <2>1, <2>2 DEF Propose
<1>3. ASSUME NEW t \in Thread, EnsureFind(t) PROVE TypeInv'
  <2>1. PICK change \in Requested, disc \in DiscoveryRevision :
          local' = [local EXCEPT ![t] = [Idle EXCEPT !.pc = "clone", !.change = change,
                       !.discovery_revision = disc]]
    BY <1>3 DEF EnsureFind
  <2> DEFINE l == [Idle EXCEPT !.pc = "clone", !.change = change, !.discovery_revision = disc]
  <2>2. change \in Change
    BY DEF Change
  <2>3. l \in Local
    BY <2>2, IdleType DEF Local, PC, Idle
  <2>4. Shape(t)'
    BY <2>1, <2>2 DEF Shape, Idle, TypeInv, TypeOK
  <2> QED BY <1>3, <2>1, <2>3, <2>4, LocalStep DEF EnsureFind, TypeInv, TypeOK
<1>4. ASSUME NEW t \in Thread, EnsurePropose(t) PROVE TypeInv'
  <2>1. local[t].change \in Change /\ local[t].discovery_revision \in Nat
    BY <1>4 DEF EnsurePropose, TypeInv, TypeOK, Shape, Local
  <2> QED BY <1>1, <1>4, <2>1 DEF EnsurePropose
<1>5. ASSUME NEW t \in Thread, StoreProposal(t) PROVE TypeInv'
  <2> DEFINE me == local[t]
             after == Preview(me.snapshot, me.change)
  <2>1. me \in Local /\ me.change \in Change /\ me.snapshot \in Authority
    BY <1>5 DEF StoreProposal, TypeInv, TypeOK, Shape, Local
  <2>2. proposals' \in Seq(StoredProposal)
    <3>1. CASE after = Error
      BY <1>5, <3>1 DEF StoreProposal, TypeInv, TypeOK
    <3>2. CASE after # Error
      <4>1. after \in Authority
        BY <2>1, <3>2, PreviewType DEF TypeInv, TypeOK
      <4> DEFINE p == [change |-> me.change, before |-> me.snapshot.content,
                       after |-> after.content, revision |-> me.snapshot.revision,
                       discovery_revision |-> me.discovery_revision, status |-> "Pending",
                       rejection_reason |-> FALSE, change_id |-> None]
      <4>2. p \in StoredProposal
        BY <2>1, <4>1 DEF StoredProposal, Authority, Local, Status
      <4>3. proposals' = Append(proposals, p)
        BY <1>5, <3>2 DEF StoreProposal
      <4> QED BY <4>2, <4>3 DEF TypeInv, TypeOK
    <3> QED BY <3>1, <3>2
  <2> QED BY <1>5, <2>2, ReturnStep DEF StoreProposal, TypeInv, TypeOK
<1>6. ASSUME NEW t \in Thread, NEW l \in Local,
             l.pc \in {"approve_verify", "reject_mark", "verify", "lock"},
             l.stored # <<>>, l.records = <<>>, local' = [local EXCEPT ![t] = l],
             UNCHANGED <<authority, writer, proposals, changes>>
      PROVE  TypeInv'
  <2>1. local'[t] = l
    BY <1>6 DEF TypeInv, TypeOK
  <2>2. Shape(t)'
    BY <1>6, <2>1 DEF Shape
  <2> QED BY <1>6, <2>2, LocalStep DEF TypeInv, TypeOK
<1>7. ASSUME NEW t \in Thread, Approve(t) \/ Reject(t) PROVE TypeInv'
  <2>1. PICK pc \in {"approve_verify", "reject_mark"}, i \in ProposalId :
          local' = [local EXCEPT ![t] = [Idle EXCEPT !.pc = pc, !.stored = <<Retrieve(i)>>]]
    BY <1>7 DEF Approve, Reject
  <2> DEFINE l == [Idle EXCEPT !.pc = pc, !.stored = <<Retrieve(i)>>]
  <2>2. <<Retrieve(i)>> \in Seq(Copy) /\ <<Retrieve(i)>> # <<>>
    BY RetrieveType DEF TypeInv
  <2>3. l \in Local /\ l.pc = pc /\ l.stored # <<>> /\ l.records = <<>>
    BY <2>2, IdleType DEF Local, PC, Idle
  <2>4. UNCHANGED <<authority, writer, proposals, changes>>
    BY <1>7 DEF Approve, Reject
  <2> HIDE DEF l
  <2> QED BY <1>6, <2>1, <2>3, <2>4 DEF l
<1>8. ASSUME NEW t \in Thread, Apply(t) \/ ApplyDirect(t) PROVE TypeInv'
  <2>1. PICK pc \in {"verify", "lock"}, i \in ProposalId, approval \in {0} \cup ProposalId :
          local' = [local EXCEPT ![t] = [Idle EXCEPT !.pc = pc, !.stored = <<Retrieve(i)>>,
                       !.approval = approval]]
    BY <1>8 DEF Apply, ApplyDirect
  <2> DEFINE l == [Idle EXCEPT !.pc = pc, !.stored = <<Retrieve(i)>>, !.approval = approval]
  <2>2. <<Retrieve(i)>> \in Seq(Copy) /\ <<Retrieve(i)>> # <<>> /\ approval \in Nat
    BY RetrieveType DEF TypeInv, TypeOK, ProposalId
  <2>3. l \in Local /\ l.pc = pc /\ l.stored # <<>> /\ l.records = <<>>
    BY <2>2, IdleType DEF Local, PC, Idle
  <2>4. UNCHANGED <<authority, writer, proposals, changes>>
    BY <1>8 DEF Apply, ApplyDirect
  <2> HIDE DEF l
  <2> QED BY <1>6, <2>1, <2>3, <2>4 DEF l
<1>9. ASSUME NEW t \in Thread, ApproveVerify(t) \/ ApplyVerify(t) PROVE TypeInv'
  <2>1. UNCHANGED <<authority, writer, proposals, changes>>
    BY <1>9 DEF ApproveVerify, ApplyVerify
  <2>2. CASE Return(t)
    BY <2>1, <2>2, ReturnStep DEF TypeInv, TypeOK
  <2>3. ASSUME NEW pc \in {"approve_mark", "lock"}, Goto(t, pc) PROVE TypeInv'
    <3>1. local[t].stored # <<>> /\ local[t].pc \in {"approve_verify", "verify"}
      BY <1>9 DEF ApproveVerify, ApplyVerify, TypeInv, Shape
    <3>2. local'[t] = [local[t] EXCEPT !.pc = pc]
      BY <2>3 DEF Goto, TypeInv, TypeOK
    <3>3. /\ local'[t].stored = local[t].stored /\ local'[t].pc = pc
          /\ local'[t].records = local[t].records
      BY <3>2 DEF TypeInv, TypeOK, Local
    <3>4. Shape(t)'
      BY <3>1, <3>3 DEF Shape, TypeInv
    <3> QED BY <2>1, <2>3, <3>4, GotoStep DEF PC, TypeInv, TypeOK
  <2> QED BY <1>9, <2>2, <2>3 DEF ApproveVerify, ApplyVerify
<1>10. ASSUME NEW t \in Thread, MarkApproved(t) \/ MarkRejected(t) PROVE TypeInv'
  <2>1. proposals' \in Seq(StoredProposal)
    <3>1. CASE MarkApproved(t)
      <4> DEFINE i == Head(local[t].stored).id
                 v == [proposals[i] EXCEPT !.status = "Approved"]
      <4>1. i \in DOMAIN proposals => v \in StoredProposal
        <5> HIDE DEF i
        <5>1. i \in DOMAIN proposals => proposals[i] \in StoredProposal
          BY SeqElement DEF TypeInv, TypeOK
        <5> QED BY <5>1 DEF StoredProposal, Status
      <4>2. proposals' = [proposals EXCEPT ![i] = v]
        BY <3>1 DEF MarkApproved
      <4> HIDE DEF i, v
      <4> QED BY <4>1, <4>2, SeqUpdate DEF TypeInv, TypeOK
    <3>2. CASE MarkRejected(t)
      <4> DEFINE i == Head(local[t].stored).id
                 v == [proposals[i] EXCEPT !.status = "Rejected", !.rejection_reason = TRUE]
      <4>1. i \in DOMAIN proposals => v \in StoredProposal
        <5> HIDE DEF i
        <5>1. i \in DOMAIN proposals => proposals[i] \in StoredProposal
          BY SeqElement DEF TypeInv, TypeOK
        <5> QED BY <5>1 DEF StoredProposal, Status
      <4>2. proposals' = [proposals EXCEPT ![i] = v]
        BY <3>2 DEF MarkRejected
      <4> HIDE DEF i, v
      <4> QED BY <4>1, <4>2, SeqUpdate DEF TypeInv, TypeOK
    <3> QED BY <1>10, <3>1, <3>2
  <2>2. Return(t) /\ UNCHANGED <<authority, writer, changes>>
    BY <1>10 DEF MarkApproved, MarkRejected
  <2> QED BY <2>1, <2>2, ReturnStep DEF TypeInv, TypeOK
<1>11. ASSUME NEW t \in Thread, ApplyBatch(t) PROVE TypeInv'
  <2>1. PICK ids \in Batches : /\ ids # <<>>
                               /\ local' = [local EXCEPT ![t] =
                                      [Idle EXCEPT !.pc = "retrieve", !.ids = ids]]
    BY <1>11 DEF ApplyBatch
  <2> DEFINE l == [Idle EXCEPT !.pc = "retrieve", !.ids = ids]
  <2>2. l \in Local /\ l.pc = "retrieve" /\ l.ids = ids /\ l.records = <<>>
    BY IdleType DEF Local, PC, Idle
  <2>3. local'[t] = l
    BY <2>1 DEF TypeInv, TypeOK
  <2>4. Shape(t)'
    BY <2>1, <2>2, <2>3 DEF Shape
  <2> QED BY <1>11, <2>1, <2>2, <2>4, LocalStep DEF ApplyBatch, TypeInv, TypeOK
<1>12. ASSUME NEW t \in Thread, BatchRetrieve(t) PROVE TypeInv'
  <2> DEFINE me == local[t]
             id == Head(me.ids)
             stored == Append(me.stored, Retrieve(id))
  <2>1. me \in Local /\ me.ids # <<>> /\ me.pc = "retrieve" /\ me.records = <<>>
    BY <1>12 DEF BatchRetrieve, TypeInv, TypeOK, Shape
  <2>2. UNCHANGED <<authority, writer, proposals, changes>>
    BY <1>12 DEF BatchRetrieve
  <2>3. CASE Return(t)
    BY <2>2, <2>3, ReturnStep DEF TypeInv, TypeOK
  <2>4. CASE id \in ProposalId /\ ~ Return(t)
    <3>1. stored \in Seq(Copy) /\ stored # <<>>
      <4>1. me.stored \in Seq(Copy) /\ Retrieve(id) \in Copy
        BY <2>1, <2>4, RetrieveType DEF Local, TypeInv
      <4> QED BY <4>1, AppendProperties
    <3>2. CASE Len(me.ids) > 1
      <4> DEFINE l == [me EXCEPT !.ids = Tail(me.ids), !.stored = stored]
      <4>1. l \in Local /\ l.pc = "retrieve" /\ l.ids # <<>> /\ l.records = <<>>
        <5>1. Tail(me.ids) \in Seq(Nat \ {0}) /\ Tail(me.ids) # <<>>
          <6>1. me.ids \in Seq(Nat \ {0})
            BY <2>1 DEF Local
          <6> HIDE DEF me
          <6> QED BY <2>1, <3>2, <6>1, SeqHead
        <5> HIDE DEF stored
        <5> QED BY <2>1, <3>1, <5>1 DEF Local
      <4>2. local' = [local EXCEPT ![t] = l]
        BY <1>12, <2>4, <3>2, Zenon DEF BatchRetrieve
      <4>3. local'[t] = l
        BY <4>2 DEF TypeInv, TypeOK
      <4>4. Shape(t)'
        BY <4>1, <4>3 DEF Shape
      <4> QED BY <2>2, <4>1, <4>2, <4>4, LocalStep DEF TypeInv, TypeOK
    <3>3. CASE ~ (Len(me.ids) > 1)
      <4> DEFINE l == [me EXCEPT !.pc = "lock", !.ids = <<>>, !.stored = stored]
      <4>1. l \in Local /\ l.pc = "lock" /\ l.stored # <<>> /\ l.records = <<>>
        <5> HIDE DEF stored
        <5>1. <<>> \in Seq(Nat \ {0})
          BY EmptySeq
        <5> QED BY <2>1, <3>1, <5>1 DEF Local, PC
      <4>2. local' = [local EXCEPT ![t] = l]
        BY <1>12, <2>4, <3>3 DEF BatchRetrieve
      <4>3. local'[t] = l
        BY <4>2 DEF TypeInv, TypeOK
      <4>4. Shape(t)'
        BY <4>1, <4>3 DEF Shape
      <4> QED BY <2>2, <4>1, <4>2, <4>4, LocalStep DEF TypeInv, TypeOK
    <3> QED BY <3>2, <3>3
  <2> QED BY <1>12, <2>3, <2>4 DEF BatchRetrieve
<1>13. ASSUME NEW t \in Thread, AcquireWrite(t) PROVE TypeInv'
  <2> DEFINE l == [local[t] EXCEPT !.pc = "plan", !.snapshot = authority]
  <2>1. l \in Local /\ l.pc = "plan" /\ l.stored # <<>> /\ l.records = local[t].records
    BY <1>13 DEF AcquireWrite, TypeInv, TypeOK, Shape, Local, PC
  <2>2. local' = [local EXCEPT ![t] = l] /\ local'[t] = l
    BY <1>13 DEF AcquireWrite, TypeInv, TypeOK
  <2>3. Len(l.records) <= Len(l.stored)
    <3>1. l.records = <<>> /\ l.stored \in Seq(Copy)
      BY <1>13, <2>1 DEF AcquireWrite, TypeInv, Shape, Local
    <3>2. Len(l.stored) \in Nat /\ Len(<<>>) = 0
      BY <3>1, LenProperties
    <3> QED BY <3>1, <3>2
  <2>4. Shape(t)'
    BY <2>1, <2>2, <2>3 DEF Shape
  <2> QED BY <1>13, <2>1, <2>2, <2>4, LocalStep DEF AcquireWrite, TypeInv, TypeOK
<1>14. ASSUME NEW t \in Thread, PlanNext(t) PROVE TypeInv'
  <2> DEFINE me == local[t]
             k == Len(me.records) + 1
             copy == me.stored[k]
             next == Preview(me.snapshot, copy.change)
             record == RecordOf(me, k, me.snapshot, next)
             l == [me EXCEPT !.snapshot = next, !.records = Append(me.records, record)]
  <2>1. me \in Local /\ me.pc = "plan" /\ k \in 1..Len(me.stored)
    BY <1>14 DEF PlanNext, TypeInv, TypeOK, Local
  <2>2. copy \in Copy /\ me.snapshot \in Authority
    BY <2>1 DEF Local
  <2>3. CASE ~ CanApply(copy, next)
    BY <1>14, <2>3, ReturnStep DEF PlanNext, ReturnUnlocked, TypeInv, TypeOK
  <2>4. CASE CanApply(copy, next)
    <3>1. next \in Authority
      BY <2>2, <2>4, PreviewType DEF CanApply, Copy, TypeInv, TypeOK
    <3>2. record \in ChangeRecord
      <4> HIDE DEF next
      <4>1. k \in Nat \ {0} /\ k - 1 \in Nat /\ me.approval \in Nat
        BY <2>1 DEF Local
      <4>2. copy.id \in Nat \ {0} /\ copy.change \in Change /\ next.revision \in Nat
        BY <2>2, <3>1 DEF Copy, Authority
      <4> HIDE DEF k, copy
      <4> QED BY <2>2, <3>1, <4>1, <4>2 DEF RecordOf, ChangeRecord, ChangeId, copy
    <3>3. l \in Local /\ l.pc = "plan" /\ l.stored = me.stored /\ l.records = Append(me.records, record)
      <4>1. Append(me.records, record) \in Seq(ChangeRecord)
        BY <2>1, <3>2, AppendProperties DEF Local
      <4> HIDE DEF next, record
      <4> QED BY <2>1, <3>1, <4>1 DEF Local
    <3>4. local' = [local EXCEPT ![t] = l] /\ local'[t] = l
      <4>1. local' = [local EXCEPT ![t] = l]
        BY <1>14, <2>4, Zenon DEF PlanNext
      <4> HIDE DEF l
      <4> QED BY <4>1 DEF TypeInv, TypeOK
    <3>5. me.stored # <<>> /\ Len(l.records) <= Len(l.stored)
      <4>1. Len(l.records) = k
        <5>1. me.records \in Seq(ChangeRecord)
          BY <2>1 DEF Local
        <5> HIDE DEF record, l, me
        <5> QED BY <3>2, <3>3, <5>1, AppendProperties
      <4>2. l.stored = me.stored /\ me.stored \in Seq(Copy)
        BY <2>1, <3>3 DEF Local
      <4>3. k \in 1..Len(me.stored)
        BY <2>1
      <4> HIDE DEF me, k, copy, next, record, l
      <4>4. Len(me.stored) \in Nat /\ (me.stored = <<>> => Len(me.stored) = 0)
        BY <4>2, LenProperties
      <4> QED BY <4>1, <4>2, <4>3, <4>4
    <3>6. Shape(t)'
      BY <3>3, <3>4, <3>5 DEF Shape
    <3> QED BY <1>14, <2>4, <3>3, <3>4, <3>6, LocalStep DEF PlanNext, TypeInv, TypeOK
  <2> QED BY <2>3, <2>4
<1>15. ASSUME NEW t \in Thread, Commit(t) PROVE TypeInv'
  <2>1. local[t].records # <<>> /\ local[t].snapshot \in Authority
    BY <1>15 DEF Commit, TypeInv, TypeOK, Shape, Local
  <2>2. local'[t] = [local[t] EXCEPT !.pc = "mark"]
    BY <1>15 DEF Commit, Goto, TypeInv, TypeOK
  <2>3. Shape(t)'
    BY <2>1, <2>2 DEF Shape, TypeInv, TypeOK, Local
  <2> QED BY <1>15, <2>1, <2>3, GotoStep DEF Commit, PC, TypeInv, TypeOK
<1>16. ASSUME NEW t \in Thread, MarkApplied(t) PROVE TypeInv'
  <2>1. local[t].records # <<>> /\ local[t].records \in Seq(ChangeRecord)
    BY <1>16 DEF MarkApplied, TypeInv, TypeOK, Shape, Local
  <2>2. Head(local[t].records) \in ChangeRecord
    BY <2>1, SeqHead
  <2>3. proposals' \in Seq(StoredProposal)
    <3> DEFINE record == Head(local[t].records)
               i == record.proposal_id
               v == [proposals[i] EXCEPT !.status = "Applied", !.change_id = record.change_id]
    <3>1. record.change_id \in ChangeId
      BY <2>2 DEF ChangeRecord
    <3>2. i \in DOMAIN proposals => v \in StoredProposal
      <4> HIDE DEF record, i
      <4>1. i \in DOMAIN proposals => proposals[i] \in StoredProposal
        BY SeqElement DEF TypeInv, TypeOK
      <4> QED BY <3>1, <4>1 DEF StoredProposal, Status
    <3>3. proposals' = [proposals EXCEPT ![i] = v]
      BY <1>16 DEF MarkApplied
    <3> HIDE DEF i, v
    <3> QED BY <3>2, <3>3, SeqUpdate DEF TypeInv, TypeOK
  <2>4. local'[t] = [local[t] EXCEPT !.pc = "store"]
    BY <1>16 DEF MarkApplied, Goto, TypeInv, TypeOK
  <2>5. Shape(t)'
    BY <2>1, <2>4 DEF Shape, TypeInv, TypeOK, Local
  <2> QED BY <1>16, <2>3, <2>5, GotoStep DEF MarkApplied, PC, TypeInv, TypeOK
<1>17. ASSUME NEW t \in Thread, StoreRecord(t) PROVE TypeInv'
  <2> DEFINE me == local[t]
             l == [me EXCEPT !.pc = "mark", !.records = Tail(me.records)]
  <2>1. me \in Local /\ me.records # <<>> /\ me.records \in Seq(ChangeRecord)
    BY <1>17 DEF StoreRecord, TypeInv, TypeOK, Shape, Local
  <2>2. changes' \subseteq ChangeRecord
    BY <1>17, <2>1 DEF StoreRecord, TypeInv, TypeOK
  <2>3. CASE Len(me.records) = 1
    BY <1>17, <2>2, <2>3, ReturnStep DEF StoreRecord, ReturnUnlocked, TypeInv, TypeOK
  <2>4. CASE Len(me.records) # 1
    <3>1. l \in Local /\ l.pc = "mark" /\ l.records # <<>>
      <4>1. Tail(me.records) \in Seq(ChangeRecord) /\ Tail(me.records) # <<>>
        BY <2>1, <2>4, SeqHead
      <4> QED BY <2>1, <4>1 DEF Local, PC
    <3>2. local' = [local EXCEPT ![t] = l] /\ local'[t] = l
      <4>1. local' = [local EXCEPT ![t] = l]
        BY <1>17, <2>4, Zenon DEF StoreRecord
      <4> HIDE DEF l
      <4> QED BY <4>1 DEF TypeInv, TypeOK
    <3>3. Shape(t)'
      BY <3>1, <3>2 DEF Shape
    <3> QED BY <1>17, <2>2, <2>4, <3>1, <3>2, <3>3, LocalStep DEF StoreRecord, TypeInv, TypeOK
  <2> QED BY <2>3, <2>4
<1>18. CASE UNCHANGED vars
  BY <1>18 DEF vars, TypeInv, TypeOK, Shape
<1> QED
  BY <1>2, <1>3, <1>4, <1>5, <1>7, <1>8, <1>9, <1>10, <1>11, <1>12, <1>13, <1>14,
     <1>15, <1>16, <1>17, <1>18 DEF Next, Start, Continue, Answer

\* Type correctness of the control plane: whatever the threads interleave, the
\* authority stays a well-formed state and every stored record a full record.
THEOREM TypeCorrect == Spec => []TypeOK
<1>1. TypeInv => TypeOK
  BY DEF TypeInv
<1> QED BY <1>1, TypeInit, TypeNext, PTL DEF Spec

(***************************************************************************)
(* The write lock                                                          *)
(***************************************************************************)

Locked == {"plan", "mark", "store"}

\* The write lock is held by the one thread that is between taking and
\* releasing it.
LockInv == \A t \in Thread : local[t].pc \in Locked <=> writer = t

\* A step by which a thread neither takes the write lock nor goes on with it:
\* the authority and the records stay as they are.
Quiet(t) ==
    /\ UNCHANGED <<authority, changes>>
    /\ \A u \in Thread \ {t} : local'[u] = local[u]
    /\ local[t].pc \notin {"mark", "store"} /\ local'[t].pc \notin Locked
    /\ IF local[t].pc = "plan" THEN writer' = NoThread ELSE UNCHANGED writer

\* One turn of the apply loop that succeeds.
Planned(t) ==
    LET me == local[t]
        k == Len(me.records) + 1
        copy == me.stored[k]
        next == Preview(me.snapshot, copy.change)
    IN  /\ me.pc = "plan" /\ k <= Len(me.stored)
        /\ CanApply(copy, next)
        /\ local' = [local EXCEPT ![t] = [me EXCEPT !.snapshot = next,
                !.records = Append(me.records, RecordOf(me, k, me.snapshot, next))]]
        /\ UNCHANGED <<authority, writer, proposals, changes>>

\* A step that replaces the locals of one thread.
LEMMA LocalUpdate ==
    ASSUME TypeOK, NEW t \in Thread, NEW l, local' = [local EXCEPT ![t] = l]
    PROVE  local'[t] = l /\ \A u \in Thread \ {t} : local'[u] = local[u]
BY DEF TypeOK

\* Every step is quiet or one of the five steps made under the write lock.
LEMMA StepCases ==
    ASSUME TypeInv, Next
    PROVE  \/ UNCHANGED vars
           \/ \E t \in Thread : \/ Quiet(t) \/ AcquireWrite(t) \/ Planned(t)
                                \/ Commit(t) \/ MarkApplied(t) \/ StoreRecord(t)
<1> USE DEF TypeInv, TypeOK
<1>1. PICK t \in Thread : Start(t) \/ Continue(t)
  BY DEF Next
<1>2. ASSUME NEW change, NEW disc, CloneAuthority(t, change, disc),
             local[t].pc \in {"idle", "clone"}
      PROVE  Quiet(t)
  BY <1>2 DEF CloneAuthority, Quiet, Locked, Idle
<1>3. CASE Propose(t) \/ EnsurePropose(t)
  BY <1>2, <1>3 DEF Propose, EnsurePropose
<1>4. CASE EnsureFind(t)
  BY <1>4 DEF EnsureFind, Quiet, Locked, Idle
<1>5. CASE StoreProposal(t)
  BY <1>5 DEF StoreProposal, Return, Quiet, Locked, Idle
<1>6. CASE Approve(t) \/ Reject(t)
  <2>1. PICK pc \in {"approve_verify", "reject_mark"}, i \in ProposalId :
          local' = [local EXCEPT ![t] = [Idle EXCEPT !.pc = pc, !.stored = <<Retrieve(i)>>]]
    BY <1>6 DEF Approve, Reject
  <2>2. [Idle EXCEPT !.pc = pc, !.stored = <<Retrieve(i)>>].pc = pc
    BY DEF Idle
  <2>3. local'[t].pc \notin Locked /\ \A u \in Thread \ {t} : local'[u] = local[u]
    BY <2>1, <2>2, LocalUpdate DEF Locked
  <2> QED BY <1>6, <2>3 DEF Approve, Reject, Quiet
<1>7. CASE ApproveVerify(t) \/ ApplyVerify(t)
  <2>1. \/ Return(t)
        \/ \E pc \in {"approve_mark", "lock"} : Goto(t, pc)
    BY <1>7 DEF ApproveVerify, ApplyVerify
  <2>2. local'[t].pc \notin Locked /\ \A u \in Thread \ {t} : local'[u] = local[u]
    BY <2>1 DEF Return, Goto, Idle, Locked, Local
  <2> QED BY <1>7, <2>2 DEF ApproveVerify, ApplyVerify, Quiet
<1>8. CASE MarkApproved(t) \/ MarkRejected(t)
  BY <1>8 DEF MarkApproved, MarkRejected, Return, Quiet, Locked, Idle
<1>9. CASE Apply(t) \/ ApplyDirect(t)
  <2>1. PICK pc \in {"verify", "lock"}, i \in ProposalId, approval \in {0} \cup ProposalId :
          local' = [local EXCEPT ![t] = [Idle EXCEPT !.pc = pc, !.stored = <<Retrieve(i)>>,
                       !.approval = approval]]
    BY <1>9 DEF Apply, ApplyDirect
  <2>2. [Idle EXCEPT !.pc = pc, !.stored = <<Retrieve(i)>>, !.approval = approval].pc = pc
    BY DEF Idle
  <2>3. local'[t].pc \notin Locked /\ \A u \in Thread \ {t} : local'[u] = local[u]
    BY <2>1, <2>2, LocalUpdate DEF Locked
  <2> QED BY <1>9, <2>3 DEF Apply, ApplyDirect, Quiet
<1>10. CASE ApplyBatch(t)
  BY <1>10 DEF ApplyBatch, Quiet, Locked, Idle
<1>11. CASE BatchRetrieve(t)
  <2> DEFINE stored == Append(local[t].stored, Retrieve(Head(local[t].ids)))
             l1 == [local[t] EXCEPT !.ids = Tail(local[t].ids), !.stored = stored]
             l2 == [local[t] EXCEPT !.pc = "lock", !.ids = <<>>, !.stored = stored]
  <2>1. \E l \in {Idle, l1, l2} : local' = [local EXCEPT ![t] = l]
    BY <1>11, Zenon DEF BatchRetrieve, Return
  <2>2. local[t].pc = "retrieve" /\ UNCHANGED <<authority, writer, proposals, changes>>
    BY <1>11 DEF BatchRetrieve
  <2>3. \A l \in {Idle, l1, l2} : l.pc \notin Locked
    <3> HIDE DEF stored
    <3>1. Idle.pc = "idle"
      BY DEF Idle
    <3>2. l1.pc = local[t].pc
      BY DEF Local
    <3>3. l2.pc = "lock"
      BY DEF Local
    <3> HIDE DEF l1, l2
    <3> QED BY <2>2, <3>1, <3>2, <3>3 DEF Locked
  <2> HIDE DEF l1, l2
  <2>4. local'[t].pc \notin Locked /\ \A u \in Thread \ {t} : local'[u] = local[u]
    BY <2>1, <2>3, LocalUpdate
  <2> QED BY <2>2, <2>4 DEF Quiet
<1>12. CASE PlanNext(t)
  <2> DEFINE me == local[t]
             k == Len(me.records) + 1
             copy == me.stored[k]
             next == Preview(me.snapshot, copy.change)
  <2>1. CASE CanApply(copy, next)
    BY <1>12, <2>1 DEF PlanNext, Planned
  <2>2. CASE ~ CanApply(copy, next)
    BY <1>12, <2>2 DEF PlanNext, ReturnUnlocked, Return, Quiet, Locked, Idle
  <2> QED BY <2>1, <2>2
<1> QED
  BY <1>1, <1>3, <1>4, <1>5, <1>6, <1>7, <1>8, <1>9, <1>10, <1>11, <1>12
  DEF Start, Continue, Answer

\* Mutual exclusion of the write lock.
LEMMA LockNext ==
    ASSUME TypeInv, LockInv, [Next]_vars
    PROVE  LockInv'
<1> USE AuthorityControlAssumption DEF TypeInv, TypeOK, LockInv, Locked
<1>1. CASE UNCHANGED vars
  BY <1>1 DEF vars
<1>2. ASSUME NEW t \in Thread, Quiet(t) PROVE LockInv'
  BY <1>2 DEF Quiet
<1>3. ASSUME NEW t \in Thread, AcquireWrite(t) PROVE LockInv'
  BY <1>3 DEF AcquireWrite, LockFree, Local
<1>4. ASSUME NEW t \in Thread, Planned(t) PROVE LockInv'
  BY <1>4 DEF Planned, Local
<1>5. ASSUME NEW t \in Thread, Commit(t) PROVE LockInv'
  BY <1>5 DEF Commit, Goto, Local
<1>6. ASSUME NEW t \in Thread, MarkApplied(t) PROVE LockInv'
  BY <1>6 DEF MarkApplied, Goto, Local
<1>7. ASSUME NEW t \in Thread, StoreRecord(t) PROVE LockInv'
  <2> DEFINE l == [local[t] EXCEPT !.pc = "mark", !.records = Tail(local[t].records)]
  <2>1. CASE Len(local[t].records) = 1
    BY <1>7, <2>1 DEF StoreRecord, ReturnUnlocked, Return, Idle
  <2>2. CASE Len(local[t].records) # 1
    <3>1. local' = [local EXCEPT ![t] = l] /\ UNCHANGED writer /\ local[t].pc = "store"
      BY <1>7, <2>2, Zenon DEF StoreRecord
    <3>2. l.pc = "mark"
      BY DEF Local
    <3> HIDE DEF l
    <3> QED BY <3>1, <3>2, LocalUpdate
  <2> QED BY <2>1, <2>2
<1> QED BY <1>1, <1>2, <1>3, <1>4, <1>5, <1>6, <1>7, StepCases

(***************************************************************************)
(* A proposal is applied by one call                                       *)
(***************************************************************************)

\* What never changes about a stored proposal.
SameProposal(p, q) == p.revision = q.revision /\ p.change = q.change

\* What a step may do to a stored proposal: its status moves on, to Pending never.
Kept(new, old) ==
    /\ SameProposal(new, old) /\ new.before = old.before /\ new.after = old.after
    /\ new.status = "Pending" => old.status = "Pending"

\* Proposals are never removed, and only their status is ever rewritten.
LEMMA ProposalsKept ==
    ASSUME TypeInv, [Next]_vars, NEW i \in DOMAIN proposals
    PROVE  i \in DOMAIN proposals' /\ Kept(proposals'[i], proposals[i])
<1> USE DEF TypeInv, TypeOK, SameProposal, Kept
<1>1. CASE UNCHANGED proposals
  BY <1>1
<1>2. ASSUME NEW p \in StoredProposal, proposals' = Append(proposals, p)
      PROVE  i \in DOMAIN proposals' /\ Kept(proposals'[i], proposals[i])
  BY <1>2
<1>3. ASSUME NEW j, NEW p, proposals' = [proposals EXCEPT ![j] = p],
             j = i => Kept(p, proposals[i])
      PROVE  i \in DOMAIN proposals' /\ Kept(proposals'[i], proposals[i])
  BY <1>3
<1>4. proposals[i] \in StoredProposal
  BY SeqElement
<1>5. ASSUME NEW t \in Thread, StoreProposal(t)
      PROVE  UNCHANGED proposals \/ \E p \in StoredProposal : proposals' = Append(proposals, p)
  <2> DEFINE me == local[t]
             after == Preview(me.snapshot, me.change)
             p == [change |-> me.change, before |-> me.snapshot.content,
                   after |-> after.content, revision |-> me.snapshot.revision,
                   discovery_revision |-> me.discovery_revision, status |-> "Pending",
                   rejection_reason |-> FALSE, change_id |-> None]
  <2>1. CASE after # Error
    <3>1. me.change \in Change /\ me.snapshot \in Authority /\ me.discovery_revision \in Nat
      BY <1>5 DEF StoreProposal, Shape, Local
    <3>2. after \in Authority
      BY <2>1, <3>1, PreviewType
    <3>3. p \in StoredProposal
      BY <3>1, <3>2 DEF StoredProposal, Authority, Status
    <3>4. proposals' = Append(proposals, p)
      BY <1>5, <2>1 DEF StoreProposal
    <3> HIDE DEF p
    <3> QED BY <3>3, <3>4
  <2>2. CASE after = Error
    BY <1>5, <2>2 DEF StoreProposal
  <2> QED BY <2>1, <2>2
<1>6. ASSUME NEW t \in Thread, MarkApproved(t)
      PROVE  i \in DOMAIN proposals' /\ Kept(proposals'[i], proposals[i])
  <2> DEFINE j == Head(local[t].stored).id
             p == [proposals[j] EXCEPT !.status = "Approved"]
  <2>1. proposals' = [proposals EXCEPT ![j] = p]
    BY <1>6 DEF MarkApproved
  <2>2. j = i => Kept(p, proposals[i])
    <3> HIDE DEF j
    <3> QED BY <1>4 DEF StoredProposal
  <2> HIDE DEF j, p
  <2> QED BY <1>3, <2>1, <2>2
<1>7. ASSUME NEW t \in Thread, MarkRejected(t)
      PROVE  i \in DOMAIN proposals' /\ Kept(proposals'[i], proposals[i])
  <2> DEFINE j == Head(local[t].stored).id
             p == [proposals[j] EXCEPT !.status = "Rejected", !.rejection_reason = TRUE]
  <2>1. proposals' = [proposals EXCEPT ![j] = p]
    BY <1>7 DEF MarkRejected
  <2>2. j = i => Kept(p, proposals[i])
    <3> HIDE DEF j
    <3> QED BY <1>4 DEF StoredProposal
  <2> HIDE DEF j, p
  <2> QED BY <1>3, <2>1, <2>2
<1>8. ASSUME NEW t \in Thread, MarkApplied(t)
      PROVE  i \in DOMAIN proposals' /\ Kept(proposals'[i], proposals[i])
  <2> DEFINE record == Head(local[t].records)
             j == record.proposal_id
             p == [proposals[j] EXCEPT !.status = "Applied", !.change_id = record.change_id]
  <2>1. proposals' = [proposals EXCEPT ![j] = p]
    BY <1>8 DEF MarkApplied
  <2>2. j = i => Kept(p, proposals[i])
    <3> HIDE DEF j, record
    <3> QED BY <1>4 DEF StoredProposal
  <2> HIDE DEF j, p
  <2> QED BY <1>3, <2>1, <2>2
<1>9. \/ UNCHANGED proposals
      \/ \E t \in Thread : \/ StoreProposal(t) \/ MarkApproved(t)
                           \/ MarkRejected(t) \/ MarkApplied(t)
  BY DEF vars, Next, Start, Continue, Answer, Propose, CloneAuthority, EnsureFind, EnsurePropose,
         Approve, Reject, ApproveVerify, Apply, ApplyDirect, ApplyVerify, ApplyBatch,
         BatchRetrieve, AcquireWrite, PlanNext, Commit, StoreRecord
<1> QED BY <1>1, <1>2, <1>5, <1>6, <1>7, <1>8, <1>9

\* The copies a thread works on agree with the store in everything but status.
CopiesMatch ==
    \A t \in Thread : \A k \in DOMAIN local[t].stored :
        LET copy == local[t].stored[k]
        IN  copy.id \in DOMAIN proposals /\ SameProposal(copy, proposals[copy.id])

\* The revision the next record of the loop will start from.
PlanRevision ==
    \A t \in Thread : local[t].pc = "plan" =>
        local[t].snapshot.revision = authority.revision + Len(local[t].records)

\* A record's proposal was made for the revision in force when the call took
\* the write lock, which is the record's own revision less its place in the call.
MadeFor(r) ==
    /\ r.proposal_id \in DOMAIN proposals
    /\ proposals[r.proposal_id].revision = r.resulting_state.revision - 1 - r.change_id.index

RecordsMatch ==
    /\ \A r \in changes : MadeFor(r)
    /\ \A t \in Thread : \A k \in DOMAIN local[t].records : MadeFor(local[t].records[k])

CallInv == TypeInv /\ LockInv /\ CopiesMatch /\ PlanRevision /\ RecordsMatch

\* A thread's copies are the ones it had, or fresh ones.
OldOrFresh(t, l) ==
    \A k \in DOMAIN l.stored :
        \/ \E j \in DOMAIN local[t].stored : l.stored[k] = local[t].stored[j]
        \/ \E i \in ProposalId : l.stored[k] = Retrieve(i)

\* A step of the handlers keeps a thread's copies of proposals or reads fresh ones.
LEMMA CopiesStep ==
    ASSUME TypeInv, [Next]_vars, NEW t \in Thread
    PROVE  OldOrFresh(t, local'[t])
<1> USE DEF TypeInv, TypeOK
<1> DEFINE Goal(u) == OldOrFresh(u, local'[u])
<1>1. ASSUME NEW u \in Thread, local'[u].stored = local[u].stored PROVE Goal(u)
  BY <1>1 DEF OldOrFresh
<1>2. ASSUME NEW u \in Thread, local'[u].stored = <<>> PROVE Goal(u)
  <2>1. DOMAIN <<>> = {}
    OBVIOUS
  <2> QED BY <1>2, <2>1 DEF OldOrFresh
<1>3. ASSUME NEW u \in Thread, NEW i \in ProposalId, local'[u].stored = <<Retrieve(i)>>
      PROVE  Goal(u)
  BY <1>3 DEF OldOrFresh
<1>4. ASSUME NEW u \in Thread, NEW l, local' = [local EXCEPT ![u] = l],
             l.stored = local[u].stored \/ l.stored = <<>>
      PROVE  \A w \in Thread : Goal(w)
  <2>1. local'[u] = l /\ \A w \in Thread \ {u} : local'[w] = local[w]
    BY <1>4, LocalUpdate
  <2>2. Goal(u)
    BY <1>1, <1>2, <1>4, <2>1
  <2>3. \A w \in Thread \ {u} : Goal(w)
    BY <1>1, <2>1
  <2> QED BY <2>2, <2>3
<1>5. ASSUME NEW u \in Thread, Return(u) PROVE \A w \in Thread : Goal(w)
  <2>1. Idle.stored = <<>>
    BY DEF Idle
  <2> QED BY <1>4, <1>5, <2>1 DEF Return
<1>6. ASSUME NEW u \in Thread, NEW pc, Goto(u, pc) PROVE \A w \in Thread : Goal(w)
  <2>1. [local[u] EXCEPT !.pc = pc].stored = local[u].stored
    BY DEF Local
  <2> QED BY <1>4, <1>6, <2>1 DEF Goto
<1>7. ASSUME NEW u \in Thread, NEW change, NEW disc, CloneAuthority(u, change, disc)
      PROVE  \A w \in Thread : Goal(w)
  <2>1. [Idle EXCEPT !.pc = "preview", !.change = change, !.discovery_revision = disc,
                     !.snapshot = authority].stored = <<>>
    BY DEF Idle
  <2> QED BY <1>4, <1>7, <2>1 DEF CloneAuthority
<1>8. ASSUME NEW u \in Thread, EnsureFind(u) PROVE \A w \in Thread : Goal(w)
  <2>1. PICK change, disc :
          local' = [local EXCEPT ![u] = [Idle EXCEPT !.pc = "clone", !.change = change,
                       !.discovery_revision = disc]]
    BY <1>8 DEF EnsureFind
  <2>2. [Idle EXCEPT !.pc = "clone", !.change = change, !.discovery_revision = disc].stored = <<>>
    BY DEF Idle
  <2> QED BY <1>4, <2>1, <2>2
<1>9. ASSUME NEW u \in Thread, NEW l, NEW i \in ProposalId, local' = [local EXCEPT ![u] = l],
             l.stored = <<Retrieve(i)>>
      PROVE  \A w \in Thread : Goal(w)
  <2>1. local'[u] = l /\ \A w \in Thread \ {u} : local'[w] = local[w]
    BY <1>9, LocalUpdate
  <2>2. Goal(u)
    BY <1>3, <1>9, <2>1
  <2>3. \A w \in Thread \ {u} : Goal(w)
    BY <1>1, <2>1
  <2> QED BY <2>2, <2>3
<1>10. ASSUME NEW u \in Thread, Approve(u) \/ Reject(u) PROVE \A w \in Thread : Goal(w)
  <2>1. PICK pc \in {"approve_verify", "reject_mark"}, i \in ProposalId :
          local' = [local EXCEPT ![u] = [Idle EXCEPT !.pc = pc, !.stored = <<Retrieve(i)>>]]
    BY <1>10 DEF Approve, Reject
  <2>2. [Idle EXCEPT !.pc = pc, !.stored = <<Retrieve(i)>>].stored = <<Retrieve(i)>>
    BY DEF Idle
  <2> QED BY <1>9, <2>1, <2>2
<1>11. ASSUME NEW u \in Thread, Apply(u) \/ ApplyDirect(u) PROVE \A w \in Thread : Goal(w)
  <2>1. PICK pc \in {"verify", "lock"}, i \in ProposalId, approval \in {0} \cup ProposalId :
          local' = [local EXCEPT ![u] = [Idle EXCEPT !.pc = pc, !.stored = <<Retrieve(i)>>,
                       !.approval = approval]]
    BY <1>11 DEF Apply, ApplyDirect
  <2>2. [Idle EXCEPT !.pc = pc, !.stored = <<Retrieve(i)>>, !.approval = approval].stored
          = <<Retrieve(i)>>
    BY DEF Idle
  <2> QED BY <1>9, <2>1, <2>2
<1>12. ASSUME NEW u \in Thread, ApplyBatch(u) PROVE \A w \in Thread : Goal(w)
  <2>1. PICK ids : local' = [local EXCEPT ![u] = [Idle EXCEPT !.pc = "retrieve", !.ids = ids]]
    BY <1>12 DEF ApplyBatch
  <2>2. [Idle EXCEPT !.pc = "retrieve", !.ids = ids].stored = <<>>
    BY DEF Idle
  <2> QED BY <1>4, <2>1, <2>2
<1>13. ASSUME NEW u \in Thread, BatchRetrieve(u) PROVE \A w \in Thread : Goal(w)
  <2> DEFINE id == Head(local[u].ids)
             stored == Append(local[u].stored, Retrieve(id))
             l1 == [local[u] EXCEPT !.ids = Tail(local[u].ids), !.stored = stored]
             l2 == [local[u] EXCEPT !.pc = "lock", !.ids = <<>>, !.stored = stored]
  <2>1. CASE Return(u)
    BY <1>5, <2>1
  <2>2. CASE ~ Return(u)
    <3>1. id \in ProposalId /\ \E l \in {l1, l2} : local' = [local EXCEPT ![u] = l]
      BY <1>13, <2>2, Zenon DEF BatchRetrieve
    <3>2. l1.stored = stored /\ l2.stored = stored
      <4> HIDE DEF stored
      <4> QED BY DEF Local
    <3> HIDE DEF l1, l2
    <3>3. local'[u].stored = stored /\ \A w \in Thread \ {u} : local'[w] = local[w]
      BY <3>1, <3>2, LocalUpdate
    <3>4. local[u].stored \in Seq(Copy) /\ Retrieve(id) \in Copy
      BY <3>1, RetrieveType DEF Local
    <3>5. Goal(u)
      <4> HIDE DEF id
      <4>1. \A k \in DOMAIN stored :
              \/ k \in DOMAIN local[u].stored /\ stored[k] = local[u].stored[k]
              \/ stored[k] = Retrieve(id)
        BY <3>4
      <4> QED BY <3>1, <3>3, <4>1 DEF OldOrFresh
    <3>6. \A w \in Thread \ {u} : Goal(w)
      BY <1>1, <3>3
    <3> QED BY <3>5, <3>6
  <2> QED BY <2>1, <2>2
<1>14. ASSUME NEW u \in Thread, AcquireWrite(u) PROVE \A w \in Thread : Goal(w)
  <2>1. [local[u] EXCEPT !.pc = "plan", !.snapshot = authority].stored = local[u].stored
    BY DEF Local
  <2> QED BY <1>4, <1>14, <2>1 DEF AcquireWrite
<1>15. ASSUME NEW u \in Thread, PlanNext(u) PROVE \A w \in Thread : Goal(w)
  <2>1. CASE Return(u)
    BY <1>5, <2>1
  <2>2. CASE ~ Return(u)
    <3>1. PICK next, records :
            local' = [local EXCEPT ![u] = [local[u] EXCEPT !.snapshot = next, !.records = records]]
      BY <1>15, <2>2, Zenon DEF PlanNext, ReturnUnlocked
    <3>2. [local[u] EXCEPT !.snapshot = next, !.records = records].stored = local[u].stored
      BY DEF Local
    <3> QED BY <1>4, <3>1, <3>2
  <2> QED BY <2>1, <2>2
<1>16. ASSUME NEW u \in Thread, StoreRecord(u) PROVE \A w \in Thread : Goal(w)
  <2>1. CASE Return(u)
    BY <1>5, <2>1
  <2>2. CASE ~ Return(u)
    <3>1. local' = [local EXCEPT ![u] =
                      [local[u] EXCEPT !.pc = "mark", !.records = Tail(local[u].records)]]
      BY <1>16, <2>2, Zenon DEF StoreRecord, ReturnUnlocked
    <3>2. [local[u] EXCEPT !.pc = "mark", !.records = Tail(local[u].records)].stored
            = local[u].stored
      BY DEF Local
    <3> QED BY <1>4, <3>1, <3>2
  <2> QED BY <2>1, <2>2
<1>17. ASSUME UNCHANGED vars PROVE \A w \in Thread : Goal(w)
  BY <1>1, <1>17 DEF vars
<1>18. ASSUME NEW u \in Thread, Start(u) \/ Continue(u) PROVE \A w \in Thread : Goal(w)
  <2>1. CASE Start(u)
    BY <2>1, <1>7, <1>8, <1>10, <1>11, <1>12, <1>17 DEF Start, Propose, Answer
  <2>2. CASE EnsurePropose(u) \/ StoreProposal(u) \/ MarkApproved(u) \/ MarkRejected(u)
    BY <2>2, <1>5, <1>7 DEF EnsurePropose, StoreProposal, MarkApproved, MarkRejected
  <2>3. CASE ApproveVerify(u) \/ ApplyVerify(u)
    BY <2>3, <1>5, <1>6 DEF ApproveVerify, ApplyVerify
  <2>4. CASE Commit(u) \/ MarkApplied(u)
    BY <2>4, <1>6 DEF Commit, MarkApplied
  <2> QED BY <1>18, <2>1, <2>2, <2>3, <2>4, <1>13, <1>14, <1>15, <1>16 DEF Continue
<1> QED BY <1>17, <1>18 DEF Next

\* Every step keeps the copies in agreement with the store.
LEMMA CopiesNext ==
    ASSUME TypeInv, CopiesMatch, [Next]_vars
    PROVE  CopiesMatch'
<1> SUFFICES ASSUME NEW t \in Thread, NEW k \in DOMAIN local'[t].stored
             PROVE  LET copy == local'[t].stored[k]
                    IN  /\ copy.id \in DOMAIN proposals'
                        /\ SameProposal(copy, proposals'[copy.id])
  BY DEF CopiesMatch
<1> DEFINE copy == local'[t].stored[k]
<1>1. copy.id \in DOMAIN proposals /\ SameProposal(copy, proposals[copy.id])
  <2>1. CASE \E j \in DOMAIN local[t].stored : copy = local[t].stored[j]
    BY <2>1 DEF CopiesMatch
  <2>2. CASE \E i \in ProposalId : copy = Retrieve(i)
    BY <2>2 DEF ProposalId, Retrieve, SameProposal
  <2> QED BY <2>1, <2>2, CopiesStep DEF OldOrFresh
<1> HIDE DEF copy
<1>2. copy.id \in DOMAIN proposals' /\ SameProposal(proposals'[copy.id], proposals[copy.id])
  BY <1>1, ProposalsKept DEF Kept
<1> QED BY <1>1, <1>2 DEF SameProposal, copy

\* The loop keeps count: one revision per record.
LEMMA PlanNextRevision ==
    ASSUME TypeInv, LockInv, PlanRevision, [Next]_vars
    PROVE  PlanRevision'
<1> USE DEF TypeInv, TypeOK
<1>1. CASE UNCHANGED vars
  BY <1>1 DEF vars, PlanRevision
<1>2. ASSUME NEW t \in Thread, Quiet(t) PROVE PlanRevision'
  BY <1>2 DEF Quiet, PlanRevision, Locked
<1>3. ASSUME NEW t \in Thread, AcquireWrite(t) PROVE PlanRevision'
  <2> DEFINE l == [local[t] EXCEPT !.pc = "plan", !.snapshot = authority]
  <2>1. /\ local'[t] = l /\ authority' = authority
        /\ \A u \in Thread \ {t} : local'[u] = local[u]
    BY <1>3, LocalUpdate DEF AcquireWrite
  <2>2. l.snapshot = authority /\ l.records = <<>>
    BY <1>3 DEF AcquireWrite, Shape, Local
  <2>3. authority.revision + Len(<<>>) = authority.revision
    BY DEF Authority
  <2> HIDE DEF l
  <2> QED BY <2>1, <2>2, <2>3 DEF PlanRevision
<1>4. ASSUME NEW t \in Thread, Planned(t) PROVE PlanRevision'
  <2> DEFINE me == local[t]
             k == Len(me.records) + 1
             copy == me.stored[k]
             next == Preview(me.snapshot, copy.change)
             record == RecordOf(me, k, me.snapshot, next)
             l == [me EXCEPT !.snapshot = next, !.records = Append(me.records, record)]
  <2>1. /\ me.pc = "plan" /\ me \in Local /\ k \in 1..Len(me.stored)
        /\ copy \in Copy /\ me.snapshot \in Authority
    BY <1>4 DEF Planned, Local
  <2>2. local' = [local EXCEPT ![t] = l] /\ UNCHANGED authority /\ CanApply(copy, next)
    BY <1>4, Zenon DEF Planned
  <2>3. next.revision = me.snapshot.revision + 1
    BY <2>1, <2>2, PreviewType DEF CanApply, Copy
  <2>4. me.snapshot.revision = authority.revision + Len(me.records)
    BY <2>1 DEF PlanRevision
  <2>5. Len(Append(me.records, record)) = Len(me.records) + 1 /\ Len(me.records) \in Nat
    BY <2>1 DEF Local
  <2>6. l.snapshot = next /\ l.records = Append(me.records, record)
    <3> HIDE DEF next, record
    <3> QED BY <2>1 DEF Local
  <2>7. authority.revision \in Nat
    BY DEF Authority
  <2>8. l.snapshot.revision = authority.revision + Len(l.records)
    <3> HIDE DEF next, record, l, me
    <3> QED BY <2>3, <2>4, <2>5, <2>6, <2>7
  <2> HIDE DEF l
  <2>9. local'[t] = l /\ \A u \in Thread \ {t} : local'[u] = local[u]
    BY <2>2, LocalUpdate
  <2> QED BY <2>2, <2>8, <2>9 DEF PlanRevision
<1>5. ASSUME NEW t \in Thread, Commit(t) \/ MarkApplied(t) \/ StoreRecord(t)
      PROVE  PlanRevision'
  <2>1. writer = t /\ local[t].pc \in Locked
    BY <1>5 DEF Commit, MarkApplied, StoreRecord, LockInv, Locked
  <2>2. \A u \in Thread \ {t} : local[u].pc # "plan"
    BY <2>1 DEF LockInv, Locked
  <2>3. \E l : local' = [local EXCEPT ![t] = l] /\ l.pc # "plan"
    <3>1. CASE Commit(t) \/ MarkApplied(t)
      BY <3>1 DEF Commit, MarkApplied, Goto, Local
    <3>2. CASE StoreRecord(t) /\ Return(t)
      <4>1. Idle.pc # "plan"
        BY DEF Idle
      <4> QED BY <3>2, <4>1 DEF Return
    <3>3. CASE StoreRecord(t) /\ ~ Return(t)
      <4>1. local' = [local EXCEPT ![t] =
                      [local[t] EXCEPT !.pc = "mark", !.records = Tail(local[t].records)]]
        BY <3>3, Zenon DEF StoreRecord, ReturnUnlocked
      <4>2. [local[t] EXCEPT !.pc = "mark", !.records = Tail(local[t].records)].pc = "mark"
        BY DEF Local
      <4> QED BY <4>1, <4>2
    <3> QED BY <1>5, <3>1, <3>2, <3>3
  <2>4. \A u \in Thread : local'[u].pc # "plan"
    BY <2>2, <2>3, LocalUpdate
  <2> QED BY <2>4 DEF PlanRevision
<1> QED BY <1>1, <1>2, <1>3, <1>4, <1>5, StepCases

\* Records stay matched with the proposals they apply; a new one matches
\* because of the revision compare under the write lock.
LEMMA RecordsNext ==
    ASSUME CallInv, [Next]_vars
    PROVE  RecordsMatch'
<1> USE DEF CallInv, TypeInv, TypeOK
<1>1. ASSUME NEW r, MadeFor(r)
      PROVE  /\ r.proposal_id \in DOMAIN proposals'
             /\ proposals'[r.proposal_id].revision = r.resulting_state.revision - 1 - r.change_id.index
  BY <1>1, ProposalsKept DEF MadeFor, SameProposal, Kept
<1>2. ASSUME \A r \in changes' : MadeFor(r),
             \A t \in Thread : \A k \in DOMAIN local'[t].records : MadeFor(local'[t].records[k])
      PROVE  RecordsMatch'
  BY <1>1, <1>2 DEF RecordsMatch, MadeFor
<1>3. ASSUME NEW t \in Thread, changes' = changes, local'[t].records = <<>>,
             \A u \in Thread \ {t} : local'[u] = local[u]
      PROVE  RecordsMatch'
  <2>1. DOMAIN <<>> = {}
    OBVIOUS
  <2> QED BY <1>2, <1>3, <2>1 DEF RecordsMatch
<1>4. CASE UNCHANGED vars
  BY <1>2, <1>4 DEF vars, RecordsMatch
<1>5. ASSUME NEW t \in Thread, Quiet(t) PROVE RecordsMatch'
  <2>1. local'[t].records = <<>>
    BY <1>5, TypeNext DEF Quiet, Locked, Shape
  <2> QED BY <1>3, <1>5, <2>1 DEF Quiet
<1>6. ASSUME NEW t \in Thread, NEW l, local' = [local EXCEPT ![t] = l],
             l.records = local[t].records, changes' = changes
      PROVE  RecordsMatch'
  BY <1>2, <1>6, LocalUpdate DEF RecordsMatch
<1>7. ASSUME NEW t \in Thread, AcquireWrite(t) PROVE RecordsMatch'
  <2>1. [local[t] EXCEPT !.pc = "plan", !.snapshot = authority].records = local[t].records
    BY DEF Local
  <2> QED BY <1>6, <1>7, <2>1 DEF AcquireWrite
<1>8. ASSUME NEW t \in Thread, Commit(t) \/ MarkApplied(t) PROVE RecordsMatch'
  <2>1. PICK pc \in {"mark", "store"} : Goto(t, pc)
    BY <1>8 DEF Commit, MarkApplied
  <2>2. [local[t] EXCEPT !.pc = pc].records = local[t].records
    BY DEF Local
  <2>3. changes' = changes
    BY <1>8 DEF Commit, MarkApplied
  <2> QED BY <1>6, <2>1, <2>2, <2>3 DEF Goto
<1>9. ASSUME NEW t \in Thread, Planned(t) PROVE RecordsMatch'
  <2> DEFINE me == local[t]
             k == Len(me.records) + 1
             copy == me.stored[k]
             next == Preview(me.snapshot, copy.change)
             record == RecordOf(me, k, me.snapshot, next)
             l == [me EXCEPT !.snapshot = next, !.records = Append(me.records, record)]
  <2>1. /\ me.pc = "plan" /\ me \in Local /\ k \in 1..Len(me.stored)
        /\ copy \in Copy /\ me.snapshot \in Authority /\ k \in DOMAIN me.stored
    BY <1>9 DEF Planned, Local
  <2>2. /\ local' = [local EXCEPT ![t] = l] /\ UNCHANGED changes /\ CanApply(copy, next)
    BY <1>9, Zenon DEF Planned
  <2>3. next.revision = me.snapshot.revision + 1
    BY <2>1, <2>2, PreviewType DEF CanApply, Copy
  <2>4. me.snapshot.revision = authority.revision + Len(me.records)
    BY <2>1 DEF PlanRevision
  <2>5. copy.id \in DOMAIN proposals /\ proposals[copy.id].revision = authority.revision
    BY <2>1, <2>2 DEF CopiesMatch, SameProposal, CanApply
  <2>6. /\ record.proposal_id = copy.id /\ record.resulting_state.revision = next.revision
        /\ record.change_id.index = k - 1
    <3> HIDE DEF next, copy
    <3> QED BY DEF RecordOf, copy
  <2>7. Len(me.records) \in Nat /\ authority.revision \in Nat
    BY <2>1 DEF Local, Authority
  <2>8. MadeFor(record)
    <3> HIDE DEF next, copy, record, me
    <3> QED BY <2>3, <2>4, <2>5, <2>6, <2>7 DEF MadeFor
  <2>9. l.records = Append(me.records, record) /\ me.records \in Seq(ChangeRecord)
    <3> HIDE DEF next, record
    <3> QED BY <2>1 DEF Local
  <2>10. \A j \in DOMAIN Append(me.records, record) :
           \/ Append(me.records, record)[j] = record
           \/ j \in DOMAIN me.records /\ Append(me.records, record)[j] = me.records[j]
    <3> HIDE DEF record, me
    <3> QED BY <2>9
  <2>11. \A j \in DOMAIN l.records : MadeFor(l.records[j])
    <3> HIDE DEF record, l
    <3> QED BY <2>8, <2>9, <2>10 DEF RecordsMatch
  <2> HIDE DEF l
  <2>12. local'[t] = l /\ \A u \in Thread \ {t} : local'[u] = local[u]
    BY <2>2, LocalUpdate
  <2> QED BY <1>2, <2>2, <2>11, <2>12 DEF RecordsMatch
<1>10. ASSUME NEW t \in Thread, StoreRecord(t) PROVE RecordsMatch'
  <2> DEFINE me == local[t]
             record == Head(me.records)
             l == [me EXCEPT !.pc = "mark", !.records = Tail(me.records)]
  <2>1. me \in Local /\ me.records \in Seq(ChangeRecord) /\ me.records # <<>>
    BY <1>10 DEF StoreRecord, Shape, Local
  <2>2. MadeFor(record)
    BY <2>1, SeqHead DEF RecordsMatch
  <2>3. \A r \in changes' : MadeFor(r)
    <3>1. changes' \subseteq changes \cup {record}
      BY <1>10 DEF StoreRecord
    <3> HIDE DEF record
    <3> QED BY <2>2, <3>1 DEF RecordsMatch
  <2>4. \A j \in DOMAIN Tail(me.records) : MadeFor(Tail(me.records)[j])
    <3>1. \A j \in DOMAIN Tail(me.records) :
            j + 1 \in DOMAIN me.records /\ Tail(me.records)[j] = me.records[j + 1]
      <4> HIDE DEF me
      <4> QED BY <2>1, HeadTailProperties, LenProperties
    <3> QED BY <3>1 DEF RecordsMatch
  <2>5. CASE Return(t)
    <3>1. Idle.records = <<>> /\ DOMAIN <<>> = {}
      BY DEF Idle
    <3>2. local'[t] = Idle /\ \A u \in Thread \ {t} : local'[u] = local[u]
      BY <2>5, LocalUpdate DEF Return
    <3> QED BY <1>2, <2>3, <3>1, <3>2 DEF RecordsMatch
  <2>6. CASE ~ Return(t)
    <3>1. local' = [local EXCEPT ![t] = l]
      BY <1>10, <2>6, Zenon DEF StoreRecord, ReturnUnlocked
    <3>2. l.records = Tail(me.records)
      BY DEF Local
    <3> HIDE DEF l
    <3>3. local'[t] = l /\ \A u \in Thread \ {t} : local'[u] = local[u]
      BY <3>1, LocalUpdate
    <3> QED BY <1>2, <2>3, <2>4, <3>2, <3>3 DEF RecordsMatch
  <2> QED BY <2>5, <2>6
<1> QED BY <1>4, <1>5, <1>7, <1>8, <1>9, <1>10, StepCases

\* The inductive invariant holds at the start,
LEMMA CallInit == Init => CallInv
<1> SUFFICES ASSUME Init PROVE CallInv
  OBVIOUS
<1>1. TypeInv
  BY TypeInit
<1>2. DOMAIN <<>> = {} /\ Idle.stored = <<>> /\ Idle.records = <<>> /\ Idle.pc = "idle"
  BY DEF Idle
<1> QED
  BY <1>1, <1>2, AuthorityControlAssumption
  DEF Init, CallInv, LockInv, Locked, CopiesMatch, PlanRevision, RecordsMatch

\* and every step keeps it.
LEMMA CallNext == CallInv /\ [Next]_vars => CallInv'
BY TypeNext, LockNext, CopiesNext, PlanNextRevision, RecordsNext DEF CallInv

\* A proposal is applied by one call at most: two records of one proposal were
\* written by the same apply, whatever a late approve, a late reject or another
\* apply does to the proposal's status in between.
THEOREM AppliedByOneCallHolds == Spec => []AppliedByOneCall
<1>1. CallInv => AppliedByOneCall
  <2> SUFFICES ASSUME CallInv, NEW r \in Log, NEW s \in Log, r.proposal_id = s.proposal_id
               PROVE  r.resulting_state.revision - r.change_id.index
                        = s.resulting_state.revision - s.change_id.index
    BY DEF AppliedByOneCall
  <2>1. ASSUME NEW q \in Log PROVE MadeFor(q) /\ q \in ChangeRecord
    <3>1. CASE q \in changes
      BY <3>1 DEF CallInv, TypeInv, TypeOK, RecordsMatch
    <3>2. CASE \E t \in Thread : q \in Unwritten(t)
      <4>1. PICK t \in Thread : q \in Unwritten(t)
        BY <3>2
      <4>2. PICK k \in DOMAIN local[t].records : q = local[t].records[k]
        BY <4>1 DEF Unwritten
      <4>3. local[t].records \in Seq(ChangeRecord)
        BY DEF CallInv, TypeInv, TypeOK, Local
      <4> QED BY <4>2, <4>3, SeqElement DEF CallInv, RecordsMatch
    <3> QED BY <2>1, <3>1, <3>2 DEF Log
  <2>2. /\ r.resulting_state.revision \in Nat /\ r.change_id.index \in Nat
        /\ s.resulting_state.revision \in Nat /\ s.change_id.index \in Nat
    BY <2>1 DEF ChangeRecord, ChangeId, Authority
  <2>3. MadeFor(r) /\ MadeFor(s)
    BY <2>1
  <2>4. r.resulting_state.revision - 1 - r.change_id.index
          = s.resulting_state.revision - 1 - s.change_id.index
    BY <2>3 DEF MadeFor
  <2> QED BY <2>2, <2>4
<1> QED BY <1>1, CallInit, CallNext, PTL DEF Spec
=============================================================================
