------------------------ MODULE AuthorityHistoryProofs ------------------------
(***************************************************************************)
(* The history of the authority control plane is complete, linear and      *)
(* honest, for every set of threads, every batch and any number of         *)
(* proposals and revisions: theorems about the records that the apply      *)
(* calls write, the refinement of the versioned log, and theorems about    *)
(* the statuses of proposals.                                              *)
(***************************************************************************)
EXTENDS AuthorityControlProofs

(***************************************************************************)
(* The inductive invariant                                                 *)
(***************************************************************************)

\* A record is one revision long and its id names that revision.
OneRevision(r) ==
    /\ r.change_id.revision = r.resulting_state.revision
    /\ r.resulting_state.revision = r.previous_state.revision + 1

\* Every record there is: stored, or on the stack of an apply call.
Recorded(r) ==
    \/ r \in changes
    \/ \E t \in Thread : \E k \in DOMAIN local[t].records : r = local[t].records[k]

RecordsOneRevision == \A r : Recorded(r) => OneRevision(r)

\* The state from which the k-th record of a planning call starts.
Before(rs, k) == IF k = 1 THEN authority ELSE rs[k - 1].resulting_state

\* The records planned so far lead, one by one, from the authority to `next`.
Chained(rs, next) ==
    /\ next = Before(rs, Len(rs) + 1)
    /\ \A k \in DOMAIN rs :
        /\ rs[k].previous_state = Before(rs, k)
        /\ rs[k].resulting_state.revision = authority.revision + k
        /\ rs[k].change_id.index = k - 1

PlanChain ==
    \A t \in Thread :
        local[t].pc = "plan" => Chained(local[t].records, local[t].snapshot)

\* Revision 0 is the authority of a fresh process.
StartsNew == authority.revision = 0 => authority = NewAuthority

HistInv == CallInv /\ RecordsOneRevision /\ PlanChain /\ StartsNew /\ HistoryIsChain

\* A clone of the authority is of a revision that was in force; while that one
\* still is, the clone is the authority.
IsOrWas(content, revision, now) ==
    /\ revision <= now.revision
    /\ revision = now.revision => content = now.content

ClonesAreStates ==
    \A t \in Thread : local[t].pc = "preview" =>
        IsOrWas(local[t].snapshot.content, local[t].snapshot.revision, authority)

\* The preview, with the stored records a revert looks into as an argument.
PreviewFrom(stored, current, change) ==
    IF change.type # "Revert" THEN apply_change(current, change)
    ELSE IF \E r \in stored : r.change_id = change.change_id
         THEN apply_revert_change(current,
                  CHOOSE r \in stored : r.change_id = change.change_id)
         ELSE Error

\* A stored proposal shows what its change makes of the state it was made for.
Shows(p, stored, now) ==
    LET state == [content |-> p.before, revision |-> p.revision]
    IN  /\ IsOrWas(p.before, p.revision, now)
        /\ PreviewFrom(stored, state, p.change) # Error
        /\ PreviewFrom(stored, state, p.change).content = p.after

ProposalsShowPreview == \A i \in ProposalId : Shows(proposals[i], changes, authority)

\* PreviewHonoured of one record, and RevertRestores of one record.
AsPreviewed(r) ==
    r.change_id.index = 0 =>
        /\ r.previous_state.content = proposals[r.proposal_id].before
        /\ r.resulting_state.content = proposals[r.proposal_id].after

Restores(r) ==
    r.change.type = "Revert" =>
        \E q \in changes :
            /\ q.change_id = r.change.change_id
            /\ q.resulting_state.revision <= r.previous_state.revision
            /\ r.resulting_state.content = q.previous_state.content

RecordsHonest == \A r : Recorded(r) => AsPreviewed(r) /\ Restores(r)

PreviewInv == HistInv /\ ClonesAreStates /\ ProposalsShowPreview /\ RecordsHonest

(***************************************************************************)
(* What a step does to the records                                         *)
(***************************************************************************)

\* The record, and the state, that a turn of the apply loop adds.
Planning(t) == local[t].stored[Len(local[t].records) + 1]
NextState(t) == Preview(local[t].snapshot, Planning(t).change)
NewRecord(t) == RecordOf(local[t], Len(local[t].records) + 1, local[t].snapshot, NextState(t))

\* A successful turn of the loop: `next` moves one revision on and the record of
\* that move is put at the end.
LEMMA PlannedFacts ==
    ASSUME TypeInv, NEW t \in Thread, Planned(t)
    PROVE  /\ local[t].pc = "plan" /\ local'[t].pc = "plan"
           /\ local[t].snapshot \in Authority /\ NextState(t) \in Authority
           /\ NextState(t).revision = local[t].snapshot.revision + 1
           /\ Len(local[t].records) \in Nat /\ local[t].records \in Seq(ChangeRecord)
           /\ Len(local[t].records) + 1 \in DOMAIN local[t].stored
           /\ Planning(t) \in Copy /\ Planning(t).revision = authority.revision
           /\ NextState(t) # Error
           /\ local'[t].snapshot = NextState(t) /\ local'[t].stored = local[t].stored
           /\ local'[t].records = Append(local[t].records, NewRecord(t))
           /\ NewRecord(t) \in ChangeRecord
           /\ \A u \in Thread \ {t} : local'[u] = local[u]
           /\ UNCHANGED <<authority, writer, proposals, changes>>
<1> USE DEF TypeInv, TypeOK
<1> DEFINE me == local[t]
           k == Len(me.records) + 1
           l == [me EXCEPT !.snapshot = NextState(t), !.records = Append(me.records, NewRecord(t))]
<1>1. /\ me \in Local /\ me.pc = "plan" /\ me.records \in Seq(ChangeRecord)
      /\ me.snapshot \in Authority /\ me.stored \in Seq(Copy) /\ k <= Len(me.stored)
      /\ UNCHANGED <<authority, writer, proposals, changes>>
  BY DEF Planned, Local
<1>2. local' = [local EXCEPT ![t] = l] /\ CanApply(Planning(t), NextState(t))
  BY Zenon DEF Planned, NewRecord, NextState, Planning
<1>3. Len(me.records) \in Nat /\ k \in DOMAIN me.stored
  <2>1. Len(me.records) \in Nat /\ Len(me.stored) \in Nat /\ DOMAIN me.stored = 1..Len(me.stored)
    BY <1>1, LenProperties
  <2> QED BY <1>1, <2>1
<1>4. Planning(t) \in Copy
  BY <1>1, <1>3, SeqElement DEF Planning
<1>5. /\ Planning(t).revision = authority.revision /\ NextState(t) # Error
      /\ Planning(t).change \in Change /\ Planning(t).id \in Nat \ {0}
  BY <1>2, <1>4 DEF CanApply, Copy
<1>6. NextState(t) \in Authority /\ NextState(t).revision = me.snapshot.revision + 1
  BY <1>1, <1>5, PreviewType DEF NextState
<1>7. NewRecord(t) \in ChangeRecord
  <2>1. k \in Nat \ {0} /\ k - 1 \in Nat /\ me.approval \in Nat
    BY <1>1, <1>3 DEF Local
  <2>2. NextState(t).revision \in Nat
    BY <1>6 DEF Authority
  <2> QED BY <1>1, <1>5, <1>6, <2>1, <2>2 DEF NewRecord, RecordOf, ChangeRecord, ChangeId, Planning
<1>8. /\ l.snapshot = NextState(t) /\ l.stored = me.stored /\ l.pc = "plan"
      /\ l.records = Append(me.records, NewRecord(t))
  BY <1>1 DEF Local
<1> HIDE DEF l
<1>9. local'[t] = l /\ \A u \in Thread \ {t} : local'[u] = local[u]
  BY <1>2, LocalUpdate
<1> QED BY <1>1, <1>3, <1>4, <1>5, <1>6, <1>7, <1>8, <1>9

\* The fields of the record that is added.
LEMMA NewRecordFields ==
    ASSUME TypeInv, NEW t \in Thread, Planned(t)
    PROVE  /\ NewRecord(t).previous_state = local[t].snapshot
           /\ NewRecord(t).resulting_state = NextState(t)
           /\ NewRecord(t).change_id.revision = NextState(t).revision
           /\ NewRecord(t).change_id.index = Len(local[t].records)
           /\ NewRecord(t).proposal_id = Planning(t).id
           /\ NewRecord(t).change = Planning(t).change
<1>1. Len(local[t].records) \in Nat
  BY PlannedFacts
<1> QED BY <1>1 DEF NewRecord, RecordOf, Planning

\* Appending to a sequence of records: the old ones stay where they were.
LEMMA AppendAt ==
    ASSUME NEW S, NEW s \in Seq(S), NEW x \in S
    PROVE  /\ Append(s, x) \in Seq(S) /\ Len(Append(s, x)) = Len(s) + 1 /\ Len(s) \in Nat
           /\ DOMAIN s = 1..Len(s) /\ DOMAIN Append(s, x) = 1..(Len(s) + 1)
           /\ Append(s, x)[Len(s) + 1] = x
           /\ \A j \in 1..Len(s) : Append(s, x)[j] = s[j]
OBVIOUS

\* What a return or the next turn leaves of the records being stored.
LEMMA TailAt ==
    ASSUME NEW S, NEW s \in Seq(S), s # <<>>
    PROVE  \A j \in DOMAIN Tail(s) : j + 1 \in DOMAIN s /\ Tail(s)[j] = s[j + 1]
BY HeadTailProperties, LenProperties

\* A store of a record goes on to mark the next one, or returns.
LEMMA StoreFacts ==
    ASSUME TypeInv, NEW t \in Thread, StoreRecord(t)
    PROVE  LET rs == local[t].records
           IN  /\ local[t].pc = "store" /\ rs \in Seq(ChangeRecord) /\ rs # <<>>
               /\ changes' = {r \in changes : r.change_id # rs[1].change_id} \cup {rs[1]}
               /\ UNCHANGED <<authority, proposals>>
               /\ \A u \in Thread \ {t} : local'[u] = local[u]
               /\ \/ Len(rs) = 1 /\ local'[t] = Idle
                  \/ /\ Len(rs) # 1 /\ local'[t].pc = "mark" /\ local'[t].records = Tail(rs)
                     /\ local'[t].stored = local[t].stored
<1> USE DEF TypeInv, TypeOK
<1> DEFINE me == local[t]
           rs == me.records
           l == [me EXCEPT !.pc = "mark", !.records = Tail(rs)]
<1>1. /\ me \in Local /\ me.pc = "store" /\ rs \in Seq(ChangeRecord) /\ rs # <<>>
      /\ UNCHANGED <<authority, proposals>>
  BY DEF StoreRecord, Shape, Local
<1>2. Head(rs) = rs[1]
  BY <1>1, SeqHead
<1>3. changes' = {r \in changes : r.change_id # rs[1].change_id} \cup {rs[1]}
  BY <1>2 DEF StoreRecord
<1>4. CASE Len(rs) = 1
  <2>1. local' = [local EXCEPT ![t] = Idle]
    BY <1>4 DEF StoreRecord, ReturnUnlocked, Return
  <2>2. local'[t] = Idle /\ \A u \in Thread \ {t} : local'[u] = local[u]
    BY <2>1, LocalUpdate
  <2> QED BY <1>1, <1>3, <1>4, <2>2
<1>5. CASE Len(rs) # 1
  <2>1. local' = [local EXCEPT ![t] = l]
    BY <1>5, Zenon DEF StoreRecord
  <2>2. l.pc = "mark" /\ l.records = Tail(rs) /\ l.stored = me.stored
    BY <1>1 DEF Local
  <2> HIDE DEF l
  <2>3. local'[t] = l /\ \A u \in Thread \ {t} : local'[u] = local[u]
    BY <2>1, LocalUpdate
  <2> QED BY <1>1, <1>3, <1>5, <2>2, <2>3
<1> QED BY <1>4, <1>5

\* Taking the lock, committing and marking move a thread on and keep its records.
LEMMA MoveFacts ==
    ASSUME TypeInv, NEW t \in Thread, AcquireWrite(t) \/ Commit(t) \/ MarkApplied(t)
    PROVE  /\ local'[t].records = local[t].records /\ local'[t].stored = local[t].stored
           /\ UNCHANGED changes
           /\ \A u \in Thread \ {t} : local'[u] = local[u]
           /\ AcquireWrite(t) => /\ local[t].pc = "lock" /\ local'[t].pc = "plan"
                                  /\ local'[t].snapshot = authority
                                  /\ UNCHANGED <<authority, proposals>>
           /\ Commit(t) => /\ local[t].pc = "plan" /\ local'[t].pc = "mark"
                            /\ authority' = local[t].snapshot /\ UNCHANGED proposals
           /\ MarkApplied(t) => /\ local[t].pc = "mark" /\ local'[t].pc = "store"
                                 /\ UNCHANGED authority
<1> USE DEF TypeInv, TypeOK
<1>1. CASE AcquireWrite(t)
  <2> DEFINE l == [local[t] EXCEPT !.pc = "plan", !.snapshot = authority]
  <2>1. /\ l.records = local[t].records /\ l.stored = local[t].stored
        /\ l.pc = "plan" /\ l.snapshot = authority
    BY DEF Local
  <2>2. local' = [local EXCEPT ![t] = l]
    BY <1>1 DEF AcquireWrite
  <2> HIDE DEF l
  <2>3. local'[t] = l /\ \A u \in Thread \ {t} : local'[u] = local[u]
    BY <2>2, LocalUpdate
  <2>4. ~ Commit(t) /\ ~ MarkApplied(t)
    BY <1>1 DEF AcquireWrite, Commit, MarkApplied
  <2> QED BY <1>1, <2>1, <2>3, <2>4 DEF AcquireWrite
<1>2. ASSUME NEW pc, Goto(t, pc)
      PROVE  /\ local'[t].records = local[t].records /\ local'[t].stored = local[t].stored
             /\ local'[t].pc = pc
             /\ \A u \in Thread \ {t} : local'[u] = local[u]
  <2> DEFINE l == [local[t] EXCEPT !.pc = pc]
  <2>1. l.records = local[t].records /\ l.stored = local[t].stored /\ l.pc = pc
    BY DEF Local
  <2>2. local' = [local EXCEPT ![t] = l]
    BY <1>2 DEF Goto
  <2> HIDE DEF l
  <2> QED BY <2>1, <2>2, LocalUpdate
<1>3. CASE Commit(t)
  <2>1. ~ AcquireWrite(t) /\ ~ MarkApplied(t)
    BY <1>3 DEF AcquireWrite, Commit, MarkApplied
  <2> QED BY <1>2, <1>3, <2>1 DEF Commit
<1>4. CASE MarkApplied(t)
  <2>1. ~ AcquireWrite(t) /\ ~ Commit(t)
    BY <1>4 DEF AcquireWrite, Commit, MarkApplied
  <2> QED BY <1>2, <1>4, <2>1 DEF MarkApplied
<1> QED BY <1>1, <1>3, <1>4

\* The records of a step are the ones there were and, if it is a turn of the
\* apply loop, the one of that turn.
LEMMA RecordsStep ==
    ASSUME TypeInv, [Next]_vars, NEW r, Recorded(r)'
    PROVE  Recorded(r) \/ \E t \in Thread : Planned(t) /\ r = NewRecord(t)
<1> USE DEF TypeInv, TypeOK
<1>1. CASE UNCHANGED vars
  BY <1>1 DEF vars, Recorded
<1>2. ASSUME NEW t \in Thread, Quiet(t) PROVE Recorded(r)
  <2>1. local'[t].records = <<>>
    BY <1>2, TypeNext DEF Quiet, Locked, Shape
  <2>2. DOMAIN <<>> = {}
    OBVIOUS
  <2> QED BY <1>2, <2>1, <2>2 DEF Quiet, Recorded
<1>3. ASSUME NEW t \in Thread, AcquireWrite(t) \/ Commit(t) \/ MarkApplied(t) PROVE Recorded(r)
  BY <1>3, MoveFacts DEF Recorded
<1>4. ASSUME NEW t \in Thread, Planned(t) PROVE Recorded(r) \/ r = NewRecord(t)
  <2> DEFINE rs == local[t].records
  <2>1. /\ local'[t].records = Append(rs, NewRecord(t)) /\ rs \in Seq(ChangeRecord)
        /\ NewRecord(t) \in ChangeRecord /\ changes' = changes
        /\ \A u \in Thread \ {t} : local'[u] = local[u]
    BY <1>4, PlannedFacts
  <2>2. /\ Len(rs) \in Nat /\ DOMAIN rs = 1..Len(rs)
        /\ DOMAIN Append(rs, NewRecord(t)) = 1..(Len(rs) + 1)
        /\ Append(rs, NewRecord(t))[Len(rs) + 1] = NewRecord(t)
        /\ \A j \in 1..Len(rs) : Append(rs, NewRecord(t))[j] = rs[j]
    BY <2>1, AppendAt
  <2>3. \A k \in DOMAIN local'[t].records :
          local'[t].records[k] = NewRecord(t) \/ \E j \in DOMAIN rs : local'[t].records[k] = rs[j]
    <3> HIDE DEF rs
    <3> QED BY <2>1, <2>2
  <2>4. CASE r \in changes'
    BY <2>1, <2>4 DEF Recorded
  <2>5. ASSUME NEW u \in Thread, NEW k \in DOMAIN local'[u].records, r = local'[u].records[k]
        PROVE  Recorded(r) \/ r = NewRecord(t)
    BY <2>1, <2>3, <2>5 DEF Recorded
  <2> QED BY <2>4, <2>5 DEF Recorded
<1>5. ASSUME NEW t \in Thread, StoreRecord(t) PROVE Recorded(r)
  <2> DEFINE rs == local[t].records
  <2>1. /\ rs \in Seq(ChangeRecord) /\ rs # <<>> /\ 1 \in DOMAIN rs
        /\ \A u \in Thread \ {t} : local'[u] = local[u]
        /\ changes' \subseteq changes \cup {rs[1]}
    BY <1>5, StoreFacts, SeqHead
  <2>2. \A k \in DOMAIN local'[t].records : \E j \in DOMAIN rs : local'[t].records[k] = rs[j]
    <3>1. CASE local'[t] = Idle
      BY <3>1 DEF Idle
    <3>2. CASE local'[t].records = Tail(rs)
      BY <2>1, <3>2, TailAt
    <3> QED BY <1>5, <3>1, <3>2, StoreFacts
  <2> QED BY <2>1, <2>2 DEF Recorded
<1> QED BY <1>1, <1>2, <1>3, <1>4, <1>5, StepCases

\* A record is a full record, whichever of the two places it is in.
LEMMA RecordedType ==
    ASSUME TypeInv, NEW r, Recorded(r)
    PROVE  /\ r \in ChangeRecord /\ r.resulting_state \in Authority /\ r.previous_state \in Authority
           /\ r.resulting_state.revision \in Nat /\ r.previous_state.revision \in Nat
           /\ r.change_id.index \in Nat
<1>1. r \in ChangeRecord
  <2>1. ASSUME NEW t \in Thread, NEW k \in DOMAIN local[t].records PROVE local[t].records[k] \in ChangeRecord
    <3>1. local[t].records \in Seq(ChangeRecord)
      BY DEF TypeInv, TypeOK, Local
    <3> QED BY <3>1, SeqElement
  <2> QED BY <2>1 DEF Recorded, TypeInv, TypeOK
<1> QED BY <1>1 DEF ChangeRecord, Authority, ChangeId

\* What has been committed is recorded.
LEMMA LogRecorded == \A r \in Log : Recorded(r)
BY DEF Log, Unwritten, Recorded

\* Every record stays one revision long.
LEMMA OneRevisionNext ==
    ASSUME TypeInv, RecordsOneRevision, [Next]_vars
    PROVE  RecordsOneRevision'
<1> SUFFICES ASSUME NEW r, Recorded(r)' PROVE OneRevision(r)
  BY DEF RecordsOneRevision, OneRevision
<1>1. CASE Recorded(r)
  BY <1>1 DEF RecordsOneRevision
<1>2. ASSUME NEW t \in Thread, Planned(t), r = NewRecord(t) PROVE OneRevision(r)
  BY <1>2, PlannedFacts, NewRecordFields DEF OneRevision
<1> QED BY <1>1, <1>2, RecordsStep

\* Adding the record of a turn keeps the records linked.
LEMMA ChainedAppend ==
    ASSUME NEW rs \in Seq(ChangeRecord), NEW state, Chained(rs, state),
           NEW new \in ChangeRecord, authority.revision \in Nat,
           new.previous_state = state, new.change_id.index = Len(rs),
           new.resulting_state.revision = authority.revision + (Len(rs) + 1)
    PROVE  Chained(Append(rs, new), new.resulting_state)
<1> DEFINE n == Len(rs)
           ss == Append(rs, new)
<1>1. /\ n \in Nat /\ Len(ss) = n + 1 /\ DOMAIN rs = 1..n /\ DOMAIN ss = 1..(n + 1)
      /\ ss[n + 1] = new /\ \A j \in 1..n : ss[j] = rs[j]
  BY AppendAt
<1> HIDE DEF n, ss
<1>2. \A k \in 1..(n + 1) : Before(ss, k) = Before(rs, k)
  BY <1>1 DEF Before
<1>3. Before(ss, Len(ss) + 1) = new.resulting_state
  BY <1>1 DEF Before
<1>4. ASSUME NEW k \in DOMAIN ss
      PROVE  /\ ss[k].previous_state = Before(ss, k)
             /\ ss[k].resulting_state.revision = authority.revision + k
             /\ ss[k].change_id.index = k - 1
  <2>1. CASE k \in 1..n
    <3>1. k \in DOMAIN rs /\ ss[k] = rs[k] /\ Before(ss, k) = Before(rs, k)
      BY <1>1, <1>2, <2>1
    <3> QED BY <3>1 DEF Chained
  <2>2. CASE k = n + 1
    <3>1. ss[k] = new /\ Before(ss, k) = Before(rs, n + 1) /\ k - 1 = n
      BY <1>1, <1>2, <2>2
    <3>2. Before(rs, n + 1) = state
      BY DEF Chained, n
    <3> QED BY <2>2, <3>1, <3>2 DEF n
  <2> QED BY <1>1, <2>1, <2>2
<1> QED BY <1>3, <1>4 DEF Chained, ss

\* The loop keeps its records linked.
LEMMA PlanChainNext ==
    ASSUME CallInv, PlanChain, [Next]_vars
    PROVE  PlanChain'
<1>0. TypeInv /\ LockInv /\ PlanRevision
  BY DEF CallInv
<1>1. CASE UNCHANGED vars
  BY <1>1 DEF vars, PlanChain, Chained, Before
<1>2. ASSUME NEW t \in Thread, authority' = authority,
             \A u \in Thread \ {t} : local'[u] = local[u],
             local'[t].pc = "plan" => Chained(local'[t].records, local'[t].snapshot)
      PROVE  PlanChain'
  <2> SUFFICES ASSUME NEW u \in Thread, local'[u].pc = "plan"
               PROVE  Chained(local'[u].records, local'[u].snapshot)
    BY <1>2 DEF PlanChain, Chained, Before
  <2>1. CASE u = t
    BY <1>2, <2>1
  <2>2. CASE u # t
    <3>1. local'[u] = local[u]
      BY <1>2, <2>2
    <3> QED BY <3>1 DEF PlanChain
  <2> QED BY <2>1, <2>2
<1>3. ASSUME NEW t \in Thread, Quiet(t) PROVE PlanChain'
  BY <1>2, <1>3 DEF Quiet, Locked
<1>4. ASSUME NEW t \in Thread, AcquireWrite(t) PROVE PlanChain'
  <2>1. /\ local'[t].records = <<>> /\ local'[t].snapshot = authority /\ authority' = authority
        /\ \A u \in Thread \ {t} : local'[u] = local[u]
    BY <1>0, <1>4, MoveFacts DEF AcquireWrite, TypeInv, Shape
  <2>2. DOMAIN <<>> = {} /\ Len(<<>>) + 1 = 1
    OBVIOUS
  <2>3. Chained(<<>>, authority)
    BY <2>2 DEF Chained, Before
  <2> QED BY <1>2, <2>1, <2>3
<1>5. ASSUME NEW t \in Thread, Planned(t) PROVE PlanChain'
  <2> DEFINE rs == local[t].records
             new == NewRecord(t)
  <2>1. /\ local'[t].records = Append(rs, new) /\ rs \in Seq(ChangeRecord) /\ new \in ChangeRecord
        /\ authority' = authority /\ local[t].pc = "plan" /\ local'[t].snapshot = NextState(t)
        /\ NextState(t).revision = local[t].snapshot.revision + 1 /\ Len(rs) \in Nat
        /\ \A u \in Thread \ {t} : local'[u] = local[u]
    BY <1>0, <1>5, PlannedFacts
  <2>2. Chained(rs, local[t].snapshot) /\ local[t].snapshot.revision = authority.revision + Len(rs)
    BY <1>0, <2>1 DEF PlanChain, PlanRevision
  <2>3. /\ new.previous_state = local[t].snapshot /\ new.resulting_state = NextState(t)
        /\ new.change_id.index = Len(rs)
    BY <1>0, <1>5, NewRecordFields
  <2>4. authority.revision \in Nat
    BY <1>0 DEF TypeInv, TypeOK, Authority
  <2> HIDE DEF rs, new
  <2>5. new.resulting_state.revision = authority.revision + (Len(rs) + 1)
    <3>1. NextState(t).revision = (authority.revision + Len(rs)) + 1
      BY <2>1, <2>2
    <3>2. Len(rs) \in Nat
      BY <2>1
    <3> QED BY <2>3, <2>4, <3>1, <3>2
  <2>6. Chained(Append(rs, new), new.resulting_state)
    BY <2>1, <2>2, <2>3, <2>4, <2>5, ChainedAppend
  <2> QED BY <1>2, <2>1, <2>3, <2>6
<1>6. ASSUME NEW t \in Thread, Commit(t) \/ MarkApplied(t) \/ StoreRecord(t)
      PROVE  PlanChain'
  <2>1. \A u \in Thread \ {t} : local[u].pc # "plan" /\ local'[u] = local[u]
    BY <1>0, <1>6, MoveFacts, StoreFacts DEF Commit, MarkApplied, StoreRecord, LockInv, Locked
  <2>2. local'[t].pc # "plan"
    BY <1>0, <1>6, MoveFacts, StoreFacts DEF Idle
  <2> QED BY <2>1, <2>2 DEF PlanChain
<1> QED BY <1>0, <1>1, <1>3, <1>4, <1>5, <1>6, StepCases

(***************************************************************************)
(* The history                                                             *)
(***************************************************************************)

\* The records on a thread's stack.
RecordsOf(t) == {local[t].records[k] : k \in DOMAIN local[t].records}

\* A step that leaves the unwritten records of every thread leaves the log.
LEMMA SameLog ==
    ASSUME changes' = changes, \A u \in Thread : Unwritten(u)' = Unwritten(u)
    PROVE  Log' = Log
BY DEF Log

\* Storing a record only moves it: a stored record with its change id is that
\* very record, for the id names its revision and a revision has one record.
LEMMA StoreKeepsLog ==
    ASSUME HistInv, NEW t \in Thread, StoreRecord(t)
    PROVE  Log' = Log /\ changes' = changes \cup {local[t].records[1]}
<1> DEFINE rs == local[t].records
<1>1. TypeInv
  BY DEF HistInv, CallInv
<1>2. /\ local[t].pc = "store" /\ rs \in Seq(ChangeRecord) /\ rs # <<>> /\ 1 \in DOMAIN rs
      /\ changes' = {r \in changes : r.change_id # rs[1].change_id} \cup {rs[1]}
      /\ \A u \in Thread \ {t} : local'[u] = local[u]
  BY <1>1, StoreFacts, SeqHead
<1>3. rs[1] \in Log
  BY <1>2 DEF Log, Unwritten
<1>4. ASSUME NEW r \in changes, r.change_id = rs[1].change_id PROVE r = rs[1]
  <2>1. r \in Log
    BY DEF Log
  <2>2. r.resulting_state.revision = rs[1].resulting_state.revision
    BY <1>3, <1>4, <2>1, LogRecorded DEF HistInv, RecordsOneRevision, OneRevision
  <2> QED BY <1>3, <2>1, <2>2 DEF HistInv, HistoryIsChain
<1>5. changes' = changes \cup {rs[1]}
  BY <1>2, <1>4
<1>6. \A u \in Thread \ {t} : Unwritten(u)' = Unwritten(u)
  BY <1>2 DEF Unwritten
<1>7. Unwritten(t) = Unwritten(t)' \cup {rs[1]}
  <2>1. Unwritten(t) = {rs[k] : k \in DOMAIN rs}
    BY <1>2 DEF Unwritten
  <2>2. CASE local'[t] = Idle /\ Len(rs) = 1
    <3>1. Unwritten(t)' = {}
      BY <2>2 DEF Unwritten, Idle
    <3>2. DOMAIN rs = {1}
      BY <1>2, <2>2
    <3> QED BY <2>1, <3>1, <3>2
  <2>3. CASE local'[t].pc = "mark" /\ local'[t].records = Tail(rs)
    <3>1. Unwritten(t)' = {Tail(rs)[k] : k \in DOMAIN Tail(rs)}
      BY <2>3 DEF Unwritten
    <3>2. \A k \in DOMAIN rs : k = 1 \/ (k - 1 \in DOMAIN Tail(rs) /\ Tail(rs)[k - 1] = rs[k])
      <4> HIDE DEF rs
      <4> QED BY <1>2, HeadTailProperties, LenProperties
    <3>3. \A k \in DOMAIN Tail(rs) : k + 1 \in DOMAIN rs /\ Tail(rs)[k] = rs[k + 1]
      BY <1>2, TailAt
    <3>4. ASSUME NEW k \in DOMAIN rs PROVE rs[k] \in Unwritten(t)' \cup {rs[1]}
      BY <3>1, <3>2
    <3>5. ASSUME NEW k \in DOMAIN Tail(rs) PROVE Tail(rs)[k] \in Unwritten(t)
      BY <2>1, <3>3
    <3>6. rs[1] \in Unwritten(t)
      BY <1>2, <2>1
    <3> QED BY <2>1, <3>1, <3>4, <3>5, <3>6
  <2> QED BY <1>1, <2>2, <2>3, StoreFacts
<1>8. Log' = Log
  <2> HIDE DEF rs
  <2>1. ASSUME NEW r \in Log' PROVE r \in Log
    BY <1>3, <1>5, <1>6, <1>7 DEF Log
  <2>2. ASSUME NEW r \in Log PROVE r \in Log'
    BY <1>5, <1>6, <1>7 DEF Log
  <2> QED BY <2>1, <2>2
<1> QED BY <1>5, <1>8

\* The log and the live authority only change together, at a commit, which adds
\* the records of the call; stored records are never lost.
LEMMA LogStep ==
    ASSUME HistInv, [Next]_vars
    PROVE  /\ changes \subseteq changes'
           /\ \/ Log' = Log /\ authority' = authority
              \/ \E t \in Thread : Commit(t) /\ Log' = Log \cup RecordsOf(t)
<1>0. TypeInv /\ LockInv
  BY DEF HistInv, CallInv
<1>1. CASE UNCHANGED vars
  BY <1>1 DEF vars, Log, Unwritten
<1>2. ASSUME NEW t \in Thread, Quiet(t)
      PROVE  Log' = Log /\ authority' = authority /\ changes' = changes
  BY <1>2, SameLog DEF Quiet, Locked, Unwritten
<1>3. ASSUME NEW t \in Thread, AcquireWrite(t) \/ MarkApplied(t)
      PROVE  Log' = Log /\ authority' = authority /\ changes' = changes
  BY <1>0, <1>3, MoveFacts, SameLog DEF Unwritten
<1>4. ASSUME NEW t \in Thread, Planned(t)
      PROVE  Log' = Log /\ authority' = authority /\ changes' = changes
  <2>1. /\ local[t].pc = "plan" /\ local'[t].pc = "plan" /\ UNCHANGED <<authority, changes>>
        /\ \A u \in Thread \ {t} : local'[u] = local[u]
    BY <1>0, <1>4, PlannedFacts
  <2>2. \A u \in Thread : Unwritten(u)' = Unwritten(u)
    BY <2>1 DEF Unwritten
  <2> QED BY <2>1, <2>2, SameLog
<1>5. ASSUME NEW t \in Thread, Commit(t)
      PROVE  Log' = Log \cup RecordsOf(t) /\ changes' = changes
  <2>1. /\ local[t].pc = "plan" /\ local'[t].pc = "mark" /\ changes' = changes
        /\ local'[t].records = local[t].records
        /\ \A u \in Thread \ {t} : local'[u] = local[u]
    BY <1>0, <1>5, MoveFacts
  <2>2. /\ \A u \in Thread \ {t} : Unwritten(u)' = Unwritten(u)
        /\ Unwritten(t) = {} /\ Unwritten(t)' = RecordsOf(t)
    BY <2>1 DEF Unwritten, RecordsOf
  <2> QED BY <2>1, <2>2 DEF Log
<1>6. ASSUME NEW t \in Thread, StoreRecord(t)
      PROVE  Log' = Log /\ authority' = authority /\ changes \subseteq changes'
  BY <1>0, <1>6, StoreKeepsLog, StoreFacts
<1> QED BY <1>0, <1>1, <1>2, <1>3, <1>4, <1>5, <1>6, StepCases

\* What a call commits: records for the revisions just above the live one, from
\* the live authority to the new one.
LEMMA CommitFacts ==
    ASSUME HistInv, NEW t \in Thread, Commit(t)
    PROVE  LET rs == local[t].records
               n == Len(rs)
           IN  /\ rs \in Seq(ChangeRecord) /\ n \in Nat \ {0} /\ DOMAIN rs = 1..n
               /\ authority.revision \in Nat /\ authority'.revision = authority.revision + n
               /\ authority' = rs[n].resulting_state
               /\ rs[1].previous_state = authority
               /\ \A k \in 1..n :
                    /\ rs[k].resulting_state.revision = authority.revision + k
                    /\ rs[k].previous_state.revision = authority.revision + k - 1
                    /\ rs[k].change_id.index = k - 1
                    /\ k # 1 => rs[k].previous_state = rs[k - 1].resulting_state
<1> DEFINE rs == local[t].records
           n == Len(rs)
<1>1. /\ TypeInv /\ local[t].pc = "plan" /\ authority' = local[t].snapshot
      /\ local'[t].pc = "mark" /\ local'[t].records = rs
  BY MoveFacts DEF HistInv, CallInv
<1>2. rs \in Seq(ChangeRecord) /\ rs # <<>> /\ authority.revision \in Nat
  <2>1. TypeInv'
    BY <1>1, TypeNext DEF Next, Continue
  <2>2. local'[t].records # <<>>
    BY <1>1, <2>1 DEF TypeInv, Shape
  <2> QED BY <1>1, <2>2 DEF TypeInv, TypeOK, Local, Authority
<1>3. n \in Nat \ {0} /\ DOMAIN rs = 1..n
  BY <1>2, EmptySeq, LenProperties
<1>4. Chained(rs, local[t].snapshot)
  BY <1>1 DEF HistInv, PlanChain
<1>5. authority' = rs[n].resulting_state /\ rs[1].previous_state = authority
  <2> HIDE DEF rs
  <2>1. local[t].snapshot = Before(rs, n + 1) /\ rs[1].previous_state = Before(rs, 1)
    BY <1>3, <1>4 DEF Chained
  <2>2. Before(rs, n + 1) = rs[n].resulting_state /\ Before(rs, 1) = authority
    BY <1>3 DEF Before
  <2> QED BY <1>1, <2>1, <2>2
<1>6. ASSUME NEW k \in 1..n
      PROVE  /\ rs[k].resulting_state.revision = authority.revision + k
             /\ rs[k].previous_state.revision = authority.revision + k - 1
             /\ rs[k].change_id.index = k - 1
             /\ k # 1 => rs[k].previous_state = rs[k - 1].resulting_state
  <2>1. /\ rs[k].resulting_state.revision = authority.revision + k
        /\ rs[k].change_id.index = k - 1
        /\ rs[k].previous_state = Before(rs, k)
    BY <1>3, <1>4 DEF Chained
  <2>2. Recorded(rs[k])
    BY <1>3 DEF Recorded
  <2>3. /\ rs[k].resulting_state.revision = rs[k].previous_state.revision + 1
        /\ rs[k].previous_state.revision \in Nat
    BY <1>1, <2>2, RecordedType DEF HistInv, RecordsOneRevision, OneRevision
  <2> HIDE DEF rs
  <2>4. rs[k].previous_state.revision = authority.revision + k - 1
    <3>1. authority.revision \in Nat /\ k \in Nat
      BY <1>2, <1>3
    <3> QED BY <2>1, <2>3, <3>1
  <2>5. k # 1 => rs[k].previous_state = rs[k - 1].resulting_state
    BY <2>1 DEF Before
  <2> QED BY <2>1, <2>4, <2>5
<1>7. authority'.revision = authority.revision + n
  BY <1>3, <1>5, <1>6
<1> QED BY <1>2, <1>3, <1>5, <1>6, <1>7

\* Splitting a committed record: it was there, or it is the k-th of the call.
LEMMA CommitSplit ==
    ASSUME NEW t \in Thread, Log' = Log \cup RecordsOf(t),
           DOMAIN local[t].records = 1..Len(local[t].records), NEW r \in Log'
    PROVE  r \in Log \/ \E k \in 1..Len(local[t].records) : r = local[t].records[k]
BY DEF RecordsOf

\* Every step extends the chain or leaves it.
LEMMA HistoryNext ==
    ASSUME HistInv, [Next]_vars
    PROVE  HistoryIsChain' /\ StartsNew'
<1>0. TypeInv /\ HistoryIsChain /\ StartsNew
  BY DEF HistInv, CallInv
<1>1. CASE Log' = Log /\ authority' = authority
  BY <1>0, <1>1 DEF HistoryIsChain, StartsNew
<1>2. ASSUME NEW t \in Thread, Commit(t), Log' = Log \cup RecordsOf(t)
      PROVE  HistoryIsChain' /\ StartsNew'
  <2> DEFINE rs == local[t].records
             n == Len(rs)
             rev == authority.revision
  <2>1. /\ rs \in Seq(ChangeRecord) /\ n \in Nat \ {0} /\ DOMAIN rs = 1..n
        /\ rev \in Nat /\ authority'.revision = rev + n
        /\ authority' = rs[n].resulting_state
        /\ rs[1].previous_state = authority
    BY <1>2, CommitFacts
  <2>2. \A k \in 1..n :
          /\ rs[k].resulting_state.revision = rev + k
          /\ rs[k].previous_state.revision = rev + k - 1
          /\ k # 1 => rs[k].previous_state = rs[k - 1].resulting_state
    BY <1>2, CommitFacts
  <2>3. \A r \in Log : /\ r.resulting_state.revision \in 1..rev
                       /\ r.previous_state.revision = r.resulting_state.revision - 1
                       /\ r.resulting_state.revision = rev => r.resulting_state = authority
    <3>1. \A r \in Log : r.previous_state.revision \in Nat
      BY <1>0, LogRecorded, RecordedType
    <3> QED BY <1>0, <3>1 DEF HistoryIsChain
  <2>4. \A r \in Log' : r \in Log \/ \E k \in 1..n : r = rs[k]
    BY <1>2, <2>1, CommitSplit
  <2>5. \A k \in 1..n : rs[k] \in Log'
    BY <1>2, <2>1 DEF RecordsOf
  <2>6. Log \subseteq Log'
    BY <1>2
  <2> HIDE DEF rs, n, rev
  <2>7. \A m \in 1..authority'.revision : \E r \in Log' : r.resulting_state.revision = m
    <3> SUFFICES ASSUME NEW m \in 1..(rev + n)
                 PROVE  \E r \in Log' : r.resulting_state.revision = m
      BY <2>1
    <3>1. CASE m <= rev
      BY <1>0, <2>1, <2>6, <3>1 DEF HistoryIsChain, rev
    <3>2. CASE m > rev
      <4>1. m - rev \in 1..n /\ rev + (m - rev) = m
        BY <2>1, <3>2
      <4> QED BY <2>2, <2>5, <4>1
    <3> QED BY <2>1, <3>1, <3>2
  <2>8. ASSUME NEW r \in Log'
        PROVE  /\ r.resulting_state.revision \in 1..authority'.revision
               /\ r.resulting_state.revision = r.previous_state.revision + 1
               /\ r.previous_state.revision = 0 => r.previous_state = NewAuthority
               /\ r.resulting_state.revision = authority'.revision => r.resulting_state = authority'
    <3>1. CASE r \in Log
      <4>1. /\ r.resulting_state.revision = r.previous_state.revision + 1
            /\ r.previous_state.revision = 0 => r.previous_state = NewAuthority
        BY <1>0, <3>1 DEF HistoryIsChain
      <4> QED BY <2>1, <2>3, <3>1, <4>1
    <3>2. ASSUME NEW k \in 1..n, r = rs[k]
          PROVE  /\ r.resulting_state.revision \in 1..authority'.revision
                 /\ r.resulting_state.revision = r.previous_state.revision + 1
                 /\ r.previous_state.revision = 0 => r.previous_state = NewAuthority
                 /\ r.resulting_state.revision = authority'.revision => r.resulting_state = authority'
      <4>1. r.resulting_state.revision = rev + k /\ r.previous_state.revision = rev + k - 1
        BY <2>2, <3>2
      <4>2. r.previous_state.revision = 0 => k = 1 /\ rev = 0
        BY <2>1, <4>1
      <4>3. rev = 0 => authority = NewAuthority
        BY <1>0 DEF StartsNew, rev
      <4>4. r.resulting_state.revision = authority'.revision => k = n
        BY <2>1, <4>1
      <4> QED BY <2>1, <3>2, <4>1, <4>2, <4>3, <4>4
    <3> QED BY <2>4, <3>1, <3>2
  <2>9. ASSUME NEW r \in Log', NEW s \in Log'
        PROVE  /\ r.resulting_state.revision = s.resulting_state.revision => r = s
               /\ r.resulting_state.revision = s.previous_state.revision
                     => r.resulting_state = s.previous_state
    <3>1. CASE r \in Log /\ s \in Log
      BY <1>0, <3>1 DEF HistoryIsChain
    <3>2. ASSUME r \in Log, NEW k \in 1..n, s = rs[k]
          PROVE  /\ r.resulting_state.revision # s.resulting_state.revision
                 /\ r.resulting_state.revision = s.previous_state.revision
                       => r.resulting_state = s.previous_state
      <4>1. /\ s.resulting_state.revision = rev + k /\ s.previous_state.revision = rev + k - 1
            /\ r.resulting_state.revision \in 1..rev
        BY <2>2, <2>3, <3>2
      <4>2. r.resulting_state.revision = s.previous_state.revision
              => k = 1 /\ r.resulting_state.revision = rev
        BY <2>1, <4>1
      <4>3. k = 1 => s.previous_state = authority
        BY <2>1, <3>2
      <4> QED BY <2>1, <2>3, <3>2, <4>1, <4>2, <4>3
    <3>3. ASSUME s \in Log, NEW j \in 1..n, r = rs[j]
          PROVE  /\ r.resulting_state.revision # s.resulting_state.revision
                 /\ r.resulting_state.revision # s.previous_state.revision
      <4>1. /\ r.resulting_state.revision = rev + j
            /\ s.resulting_state.revision \in 1..rev
            /\ s.previous_state.revision = s.resulting_state.revision - 1
        BY <2>2, <2>3, <3>3
      <4> QED BY <2>1, <4>1
    <3>4. ASSUME NEW j \in 1..n, r = rs[j], NEW k \in 1..n, s = rs[k]
          PROVE  /\ r.resulting_state.revision = s.resulting_state.revision => r = s
                 /\ r.resulting_state.revision = s.previous_state.revision
                       => r.resulting_state = s.previous_state
      <4>1. /\ r.resulting_state.revision = rev + j /\ s.resulting_state.revision = rev + k
            /\ s.previous_state.revision = rev + k - 1
        BY <2>2, <3>4
      <4>2. r.resulting_state.revision = s.resulting_state.revision => j = k
        BY <2>1, <4>1
      <4>3. r.resulting_state.revision = s.previous_state.revision => j = k - 1 /\ k # 1
        BY <2>1, <4>1
      <4> QED BY <2>2, <3>4, <4>2, <4>3
    <3> QED BY <2>4, <3>1, <3>2, <3>3, <3>4
  <2>10. StartsNew'
    BY <2>1 DEF StartsNew
  <2> QED BY <2>7, <2>8, <2>9, <2>10 DEF HistoryIsChain
<1> QED BY <1>1, <1>2, LogStep

\* The inductive invariant of the history holds at the start,
LEMMA HistInit == Init => HistInv
<1> SUFFICES ASSUME Init PROVE HistInv
  OBVIOUS
<1>1. CallInv
  BY CallInit
<1>2. \A t \in Thread : local[t].pc = "idle" /\ local[t].records = <<>>
  BY DEF Init, Idle
<1>3. DOMAIN <<>> = {}
  OBVIOUS
<1>4. RecordsOneRevision /\ PlanChain
  BY <1>2, <1>3 DEF Init, RecordsOneRevision, Recorded, PlanChain
<1>5. Log = {}
  BY <1>2 DEF Init, Log, Unwritten
<1>6. authority = NewAuthority /\ authority.revision = 0
  BY DEF Init, NewAuthority
<1>7. HistoryIsChain /\ StartsNew
  BY <1>5, <1>6 DEF HistoryIsChain, StartsNew
<1> QED BY <1>1, <1>4, <1>7 DEF HistInv

\* and every step keeps it.
LEMMA HistNext == HistInv /\ [Next]_vars => HistInv'
<1> SUFFICES ASSUME HistInv, [Next]_vars PROVE HistInv'
  OBVIOUS
<1>1. CallInv /\ TypeInv /\ RecordsOneRevision /\ PlanChain
  BY DEF HistInv, CallInv
<1>2. CallInv'
  BY <1>1, CallNext
<1> QED BY <1>1, <1>2, OneRevisionNext, PlanChainNext, HistoryNext DEF HistInv

\* The history is complete and linear: every revision of the live authority has
\* exactly one record and the records link up, from the empty authority to the
\* live one, whatever calls and batches the threads run at the same time.
THEOREM HistoryIsChainHolds == Spec => []HistoryIsChain
<1>1. HistInv => HistoryIsChain
  BY DEF HistInv
<1> QED BY <1>1, HistInit, HistNext, PTL DEF Spec

(***************************************************************************)
(* Previews and reverts                                                    *)
(***************************************************************************)

\* The preview of the code looks into the stored records.
LEMMA PreviewIsFrom ==
    \A current, change : Preview(current, change) = PreviewFrom(changes, current, change)
BY DEF Preview, PreviewFrom

\* Once a preview succeeds, later records do not change what it returns: an
\* edit looks at none, and a revert finds the one record with its change id.
LEMMA PreviewStable ==
    ASSUME NEW S, NEW T, S \subseteq T,
           \A r, s \in T : r.change_id = s.change_id => r = s,
           NEW current, NEW change, PreviewFrom(S, current, change) # Error
    PROVE  PreviewFrom(T, current, change) = PreviewFrom(S, current, change)
<1>1. CASE change.type # "Revert"
  BY <1>1 DEF PreviewFrom
<1>2. CASE change.type = "Revert"
  <2>1. PICK q \in S : q.change_id = change.change_id
    BY <1>2 DEF PreviewFrom
  <2>2. /\ (CHOOSE r \in S : r.change_id = change.change_id) = q
        /\ (CHOOSE r \in T : r.change_id = change.change_id) = q
    BY <2>1
  <2> QED BY <1>2, <2>1, <2>2 DEF PreviewFrom
<1> QED BY <1>1, <1>2

\* Stored records have different change ids.
IdsUnique == \A r, s \in changes : r.change_id = s.change_id => r = s

\* They do, because an id names a revision and a revision has one record,
LEMMA ChangeIdsUnique == HistInv => IdsUnique
<1> SUFFICES ASSUME HistInv, NEW r \in changes, NEW s \in changes, r.change_id = s.change_id
             PROVE  r = s
  BY DEF IdsUnique
<1>1. r \in Log /\ s \in Log /\ Recorded(r) /\ Recorded(s)
  BY DEF Log, Recorded
<1>2. r.resulting_state.revision = s.resulting_state.revision
  BY <1>1 DEF HistInv, RecordsOneRevision, OneRevision
<1> QED BY <1>1, <1>2 DEF HistInv, HistoryIsChain

\* in the next state too.
LEMMA ChangeIdsUniqueNext == HistInv' => IdsUnique'
BY ChangeIdsUnique, PTL

\* The live authority stays, or its revision goes up.
LEMMA AuthorityStep ==
    ASSUME HistInv, [Next]_vars
    PROVE  /\ authority.revision \in Nat /\ authority'.revision \in Nat
           /\ \/ authority' = authority
              \/ authority'.revision > authority.revision
<1>1. authority.revision \in Nat
  BY DEF HistInv, CallInv, TypeInv, TypeOK, Authority
<1>2. ASSUME NEW t \in Thread, Commit(t)
      PROVE  authority'.revision > authority.revision /\ authority'.revision \in Nat
  <2>1. Len(local[t].records) \in Nat \ {0} /\ authority'.revision = authority.revision + Len(local[t].records)
    BY <1>2, CommitFacts
  <2> QED BY <1>1, <2>1
<1> QED BY <1>1, <1>2, LogStep

\* So what was a state of the authority still is one.
LEMMA IsOrWasStep ==
    ASSUME HistInv, [Next]_vars, NEW content, NEW revision \in Nat,
           IsOrWas(content, revision, authority)
    PROVE  IsOrWas(content, revision, authority')
BY AuthorityStep DEF IsOrWas

\* The proposals of a step are the ones there were, kept, and at most one new
\* one, which was previewed on a clone.
LEMMA ProposalsStep ==
    ASSUME TypeInv, [Next]_vars, NEW i \in DOMAIN proposals'
    PROVE  \/ i \in DOMAIN proposals /\ Kept(proposals'[i], proposals[i])
           \/ \E t \in Thread :
                LET me == local[t]
                    p == proposals'[i]
                IN  /\ me.pc = "preview" /\ UNCHANGED <<authority, changes>>
                    /\ me.snapshot \in Authority /\ me.change \in Change
                    /\ Preview(me.snapshot, me.change) # Error
                    /\ p.change = me.change /\ p.before = me.snapshot.content
                    /\ p.revision = me.snapshot.revision
                    /\ p.after = Preview(me.snapshot, me.change).content
                    /\ proposals' = Append(proposals, p) /\ i = Len(proposals) + 1
<1> USE DEF TypeInv, TypeOK
<1>1. CASE i \in DOMAIN proposals
  BY <1>1, ProposalsKept
<1>2. CASE i \notin DOMAIN proposals
  <2>1. DOMAIN proposals' # DOMAIN proposals
    BY <1>2
  <2>2. ASSUME NEW j, NEW v, proposals' = [proposals EXCEPT ![j] = v] PROVE FALSE
    BY <2>1, <2>2
  <2>3. \A t \in Thread : ~ MarkApproved(t) /\ ~ MarkRejected(t) /\ ~ MarkApplied(t)
    BY <2>2, Zenon DEF MarkApproved, MarkRejected, MarkApplied
  <2>4. \/ UNCHANGED proposals
        \/ \E t \in Thread : \/ StoreProposal(t) \/ MarkApproved(t)
                             \/ MarkRejected(t) \/ MarkApplied(t)
    BY DEF vars, Next, Start, Continue, Answer, Propose, CloneAuthority, EnsureFind, EnsurePropose,
           Approve, Reject, ApproveVerify, Apply, ApplyDirect, ApplyVerify, ApplyBatch,
           BatchRetrieve, AcquireWrite, PlanNext, Commit, StoreRecord
  <2>5. PICK t \in Thread : StoreProposal(t)
    BY <2>1, <2>3, <2>4
  <2> DEFINE me == local[t]
             after == Preview(me.snapshot, me.change)
             p == [change |-> me.change, before |-> me.snapshot.content,
                   after |-> after.content, revision |-> me.snapshot.revision,
                   discovery_revision |-> me.discovery_revision, status |-> "Pending",
                   rejection_reason |-> FALSE, change_id |-> None]
  <2>6. /\ me.pc = "preview" /\ me.snapshot \in Authority /\ me.change \in Change
        /\ UNCHANGED <<authority, changes>>
    BY <2>5 DEF StoreProposal, Shape, Local
  <2>7. after # Error /\ proposals' = Append(proposals, p)
    BY <2>1, <2>5 DEF StoreProposal
  <2>8. /\ p.change = me.change /\ p.before = me.snapshot.content
        /\ p.revision = me.snapshot.revision /\ p.after = after.content
    OBVIOUS
  <2> HIDE DEF p
  <2>9. proposals'[i] = p /\ i = Len(proposals) + 1
    BY <1>2, <2>7
  <2> QED BY <2>6, <2>7, <2>8, <2>9
<1> QED BY <1>1, <1>2

\* Clones stay states that are or were in force.
LEMMA ClonesNext ==
    ASSUME HistInv, ClonesAreStates, [Next]_vars
    PROVE  ClonesAreStates'
<1>0. TypeInv /\ TypeInv'
  BY TypeNext DEF HistInv, CallInv
<1> SUFFICES ASSUME NEW t \in Thread, local'[t].pc = "preview"
             PROVE  IsOrWas(local'[t].snapshot.content, local'[t].snapshot.revision, authority')
  BY DEF ClonesAreStates
<1>1. CASE local'[t] = local[t]
  <2>1. local[t].snapshot.revision \in Nat /\ local[t].pc = "preview"
    BY <1>0, <1>1 DEF TypeInv, TypeOK, Local, Authority
  <2> QED BY <1>1, <2>1, IsOrWasStep DEF ClonesAreStates
<1>2. ASSUME NEW change, NEW disc, CloneAuthority(t, change, disc)
      PROVE  local'[t].snapshot = authority /\ authority' = authority
  BY <1>0, <1>2 DEF CloneAuthority, Idle, TypeInv, TypeOK
<1>3. local'[t] = local[t] \/ \E change, disc : CloneAuthority(t, change, disc)
  <2>1. CASE UNCHANGED vars
    BY <2>1 DEF vars
  <2>2. ASSUME NEW u \in Thread, NEW l, local' = [local EXCEPT ![u] = l], l.pc # "preview"
        PROVE  local'[t] = local[t]
    BY <1>0, <2>2, LocalUpdate DEF TypeInv
  <2>3. ASSUME NEW u \in Thread, NEW change, NEW disc, CloneAuthority(u, change, disc)
        PROVE  local'[t] = local[t] \/ CloneAuthority(t, change, disc)
    BY <1>0, <2>3, LocalUpdate DEF CloneAuthority, TypeInv
  <2>4. ASSUME NEW u \in Thread, Start(u) \/ Continue(u)
        PROVE  \/ UNCHANGED vars
               \/ \E change, disc : CloneAuthority(u, change, disc)
               \/ \E l : local' = [local EXCEPT ![u] = l] /\ l.pc # "preview"
    <3>1. ASSUME NEW pc, NEW stored, pc # "preview",
                 local' = [local EXCEPT ![u] = [Idle EXCEPT !.pc = pc, !.stored = stored]]
          PROVE  \E l : local' = [local EXCEPT ![u] = l] /\ l.pc # "preview"
      <4>1. [Idle EXCEPT !.pc = pc, !.stored = stored].pc = pc
        BY DEF Idle
      <4> QED BY <3>1, <4>1
    <3>2. ASSUME Return(u) PROVE \E l : local' = [local EXCEPT ![u] = l] /\ l.pc # "preview"
      <4>1. Idle.pc # "preview"
        BY DEF Idle
      <4> QED BY <3>2, <4>1 DEF Return
    <3>3. ASSUME NEW pc, pc # "preview", Goto(u, pc)
          PROVE  \E l : local' = [local EXCEPT ![u] = l] /\ l.pc # "preview"
      <4>1. [local[u] EXCEPT !.pc = pc].pc = pc
        BY <1>0 DEF TypeInv, TypeOK, Local
      <4> QED BY <3>3, <4>1 DEF Goto
    <3>4. CASE Propose(u) \/ EnsurePropose(u) \/ Answer(u)
      BY <3>4 DEF Propose, EnsurePropose, Answer
    <3>5. CASE EnsureFind(u)
      <4>1. PICK change, disc :
              local' = [local EXCEPT ![u] = [Idle EXCEPT !.pc = "clone", !.change = change,
                          !.discovery_revision = disc]]
        BY <3>5 DEF EnsureFind
      <4>2. [Idle EXCEPT !.pc = "clone", !.change = change, !.discovery_revision = disc].pc = "clone"
        BY DEF Idle
      <4> QED BY <4>1, <4>2
    <3>6. CASE StoreProposal(u) \/ MarkApproved(u) \/ MarkRejected(u)
      BY <3>2, <3>6 DEF StoreProposal, MarkApproved, MarkRejected
    <3>7. CASE Approve(u) \/ Reject(u)
      <4>1. PICK pc \in {"approve_verify", "reject_mark"}, i \in ProposalId :
              local' = [local EXCEPT ![u] = [Idle EXCEPT !.pc = pc, !.stored = <<Retrieve(i)>>]]
        BY <3>7 DEF Approve, Reject
      <4> QED BY <3>1, <4>1
    <3>8. CASE ApproveVerify(u) \/ ApplyVerify(u) \/ Commit(u) \/ MarkApplied(u)
      BY <3>2, <3>3, <3>8 DEF ApproveVerify, ApplyVerify, Commit, MarkApplied
    <3>9. CASE Apply(u) \/ ApplyDirect(u)
      <4>1. PICK pc \in {"verify", "lock"}, i \in ProposalId, approval \in {0} \cup ProposalId :
              local' = [local EXCEPT ![u] = [Idle EXCEPT !.pc = pc, !.stored = <<Retrieve(i)>>,
                          !.approval = approval]]
        BY <3>9 DEF Apply, ApplyDirect
      <4>2. [Idle EXCEPT !.pc = pc, !.stored = <<Retrieve(i)>>, !.approval = approval].pc = pc
        BY DEF Idle
      <4> QED BY <4>1, <4>2
    <3>10. CASE ApplyBatch(u)
      <4>1. PICK ids : local' = [local EXCEPT ![u] = [Idle EXCEPT !.pc = "retrieve", !.ids = ids]]
        BY <3>10 DEF ApplyBatch
      <4>2. [Idle EXCEPT !.pc = "retrieve", !.ids = ids].pc = "retrieve"
        BY DEF Idle
      <4> QED BY <4>1, <4>2
    <3>11. CASE BatchRetrieve(u)
      <4> DEFINE stored == Append(local[u].stored, Retrieve(Head(local[u].ids)))
                 l1 == [local[u] EXCEPT !.ids = Tail(local[u].ids), !.stored = stored]
                 l2 == [local[u] EXCEPT !.pc = "lock", !.ids = <<>>, !.stored = stored]
      <4>1. local[u].pc = "retrieve" /\ \E l \in {Idle, l1, l2} : local' = [local EXCEPT ![u] = l]
        BY <3>11, Zenon DEF BatchRetrieve, Return
      <4>2. Idle.pc = "idle" /\ l1.pc = local[u].pc /\ l2.pc = "lock"
        <5> HIDE DEF stored
        <5> QED BY <1>0 DEF TypeInv, TypeOK, Local, Idle
      <4> HIDE DEF l1, l2
      <4> QED BY <4>1, <4>2
    <3>12. CASE AcquireWrite(u)
      <4>1. [local[u] EXCEPT !.pc = "plan", !.snapshot = authority].pc = "plan"
        BY <1>0 DEF TypeInv, TypeOK, Local
      <4> QED BY <3>12, <4>1 DEF AcquireWrite
    <3>13. CASE PlanNext(u)
      <4>1. CASE Return(u)
        BY <3>2, <4>1
      <4>2. CASE ~ Return(u)
        <5>1. PICK next, records : local' = [local EXCEPT ![u] =
                  [local[u] EXCEPT !.snapshot = next, !.records = records]]
          BY <3>13, <4>2, Zenon DEF PlanNext, ReturnUnlocked
        <5>2. [local[u] EXCEPT !.snapshot = next, !.records = records].pc = local[u].pc
          BY <1>0 DEF TypeInv, TypeOK, Local
        <5>3. local[u].pc = "plan"
          BY <3>13 DEF PlanNext
        <5> QED BY <5>1, <5>2, <5>3
      <4> QED BY <4>1, <4>2
    <3>14. CASE StoreRecord(u)
      <4>1. CASE Return(u)
        BY <3>2, <4>1
      <4>2. CASE ~ Return(u)
        <5>1. local' = [local EXCEPT ![u] =
                  [local[u] EXCEPT !.pc = "mark", !.records = Tail(local[u].records)]]
          BY <3>14, <4>2, Zenon DEF StoreRecord, ReturnUnlocked
        <5>2. [local[u] EXCEPT !.pc = "mark", !.records = Tail(local[u].records)].pc = "mark"
          BY <1>0 DEF TypeInv, TypeOK, Local
        <5> QED BY <5>1, <5>2
      <4> QED BY <4>1, <4>2
    <3> QED BY <2>4, <3>4, <3>5, <3>6, <3>7, <3>8, <3>9, <3>10, <3>11, <3>12, <3>13, <3>14
            DEF Start, Continue
  <2> QED BY <2>1, <2>2, <2>3, <2>4 DEF Next
<1>4. ASSUME local'[t].snapshot = authority, authority' = authority
      PROVE  IsOrWas(local'[t].snapshot.content, local'[t].snapshot.revision, authority')
  BY <1>4, AuthorityStep DEF IsOrWas
<1> QED BY <1>1, <1>2, <1>3, <1>4

\* Stored proposals go on showing what their change makes of their state.
LEMMA ShowsNext ==
    ASSUME HistInv, ClonesAreStates, ProposalsShowPreview, [Next]_vars
    PROVE  ProposalsShowPreview'
<1>0. TypeInv /\ HistInv'
  BY HistNext DEF HistInv, CallInv
<1> SUFFICES ASSUME NEW i \in DOMAIN proposals'
             PROVE  Shows(proposals'[i], changes', authority')
  BY DEF ProposalsShowPreview, ProposalId
<1>1. ASSUME NEW p, p.revision \in Nat, Shows(p, changes, authority)
      PROVE  Shows(p, changes', authority')
  <2> DEFINE state == [content |-> p.before, revision |-> p.revision]
  <2>1. IsOrWas(p.before, p.revision, authority')
    BY <1>1, IsOrWasStep DEF Shows
  <2>2. PreviewFrom(changes', state, p.change) = PreviewFrom(changes, state, p.change)
    <3>1. changes \subseteq changes'
      BY LogStep
    <3>2. \A r, s \in changes' : r.change_id = s.change_id => r = s
      BY <1>0, ChangeIdsUniqueNext DEF IdsUnique
    <3>3. PreviewFrom(changes, state, p.change) # Error
      BY <1>1 DEF Shows
    <3> HIDE DEF state
    <3> QED BY <3>1, <3>2, <3>3, PreviewStable
  <2> QED BY <1>1, <2>1, <2>2 DEF Shows
<1>2. CASE i \in DOMAIN proposals /\ Kept(proposals'[i], proposals[i])
  <2>1. proposals[i] \in StoredProposal
    BY <1>0, <1>2, SeqElement DEF TypeInv, TypeOK
  <2>2. proposals[i].revision \in Nat
    BY <2>1 DEF StoredProposal
  <2>3. Shows(proposals[i], changes', authority')
    BY <1>1, <1>2, <2>2 DEF ProposalsShowPreview, ProposalId
  <2> QED BY <1>2, <2>3 DEF Shows, Kept, SameProposal
<1>3. ASSUME NEW t \in Thread, local[t].pc = "preview", UNCHANGED <<authority, changes>>,
             local[t].snapshot \in Authority,
             Preview(local[t].snapshot, local[t].change) # Error,
             proposals'[i].change = local[t].change,
             proposals'[i].before = local[t].snapshot.content,
             proposals'[i].revision = local[t].snapshot.revision,
             proposals'[i].after = Preview(local[t].snapshot, local[t].change).content
      PROVE  Shows(proposals'[i], changes', authority')
  <2>1. IsOrWas(local[t].snapshot.content, local[t].snapshot.revision, authority)
    BY <1>3 DEF ClonesAreStates
  <2>2. [content |-> local[t].snapshot.content, revision |-> local[t].snapshot.revision]
          = local[t].snapshot
    BY <1>3 DEF Authority
  <2> QED BY <1>3, <2>1, <2>2, PreviewIsFrom DEF Shows
<1> QED BY <1>0, <1>2, <1>3, ProposalsStep

\* A record stays as previewed, and a new one is: the revision compare means
\* that the first record of a call starts from the state its proposal shows.
LEMMA HonestNext ==
    ASSUME HistInv, ProposalsShowPreview, RecordsHonest, [Next]_vars
    PROVE  RecordsHonest'
<1>0. CallInv /\ TypeInv /\ PlanChain
  BY DEF HistInv, CallInv
<1> SUFFICES ASSUME NEW r, Recorded(r)'
             PROVE  AsPreviewed(r)' /\ Restores(r)'
  BY DEF RecordsHonest
<1>1. CASE Recorded(r)
  <2>1. AsPreviewed(r) /\ Restores(r)
    BY <1>1 DEF RecordsHonest
  <2>2. r.proposal_id \in DOMAIN proposals
    BY <1>0, <1>1 DEF Recorded, CallInv, RecordsMatch, MadeFor
  <2>3. Kept(proposals'[r.proposal_id], proposals[r.proposal_id])
    BY <1>0, <2>2, ProposalsKept
  <2>4. changes \subseteq changes'
    BY LogStep
  <2> QED BY <2>1, <2>3, <2>4 DEF AsPreviewed, Restores, Kept
<1>2. ASSUME NEW t \in Thread, Planned(t), r = NewRecord(t)
      PROVE  AsPreviewed(r)' /\ Restores(r)'
  <2> DEFINE state == local[t].snapshot
             copy == Planning(t)
  <2>1. /\ local[t].pc = "plan" /\ state \in Authority /\ Len(local[t].records) \in Nat
        /\ Len(local[t].records) + 1 \in DOMAIN local[t].stored
        /\ copy \in Copy /\ copy.revision = authority.revision /\ NextState(t) # Error
        /\ UNCHANGED <<authority, proposals, changes>>
    BY <1>0, <1>2, PlannedFacts
  <2>2. /\ r.previous_state = state /\ r.resulting_state = NextState(t)
        /\ r.change_id.index = Len(local[t].records)
        /\ r.proposal_id = copy.id /\ r.change = copy.change
    BY <1>0, <1>2, NewRecordFields
  <2>3. NextState(t) = PreviewFrom(changes, state, copy.change)
    BY PreviewIsFrom DEF NextState
  <2>4. AsPreviewed(r)
    <3> SUFFICES ASSUME Len(local[t].records) = 0
                 PROVE  /\ state.content = proposals[copy.id].before
                        /\ NextState(t).content = proposals[copy.id].after
      BY <2>2 DEF AsPreviewed
    <3>1. state = authority
      BY <1>0, <2>1 DEF PlanChain, Chained, Before
    <3> DEFINE p == proposals[copy.id]
    <3>2. copy.id \in DOMAIN proposals /\ p.change = copy.change /\ p.revision = authority.revision
      BY <1>0, <2>1 DEF CallInv, CopiesMatch, SameProposal, Planning
    <3>3. Shows(p, changes, authority)
      BY <3>2 DEF ProposalsShowPreview, ProposalId
    <3>4. p.before = authority.content
      BY <3>2, <3>3 DEF Shows, IsOrWas
    <3>5. [content |-> p.before, revision |-> p.revision] = authority
      <4>1. authority \in Authority
        BY <1>0 DEF TypeInv, TypeOK
      <4> QED BY <3>2, <3>4, <4>1 DEF Authority
    <3> QED BY <2>3, <3>1, <3>2, <3>3, <3>4, <3>5 DEF Shows
  <2>5. Restores(r)
    <3> SUFFICES ASSUME copy.change.type = "Revert"
                 PROVE  \E q \in changes :
                          /\ q.change_id = copy.change.change_id
                          /\ q.resulting_state.revision <= state.revision
                          /\ NextState(t).content = q.previous_state.content
      BY <2>2 DEF Restores
    <3> DEFINE q == CHOOSE x \in changes : x.change_id = copy.change.change_id
    <3>1. q \in changes /\ q.change_id = copy.change.change_id
      BY <2>1, <2>3 DEF PreviewFrom
    <3>2. NextState(t) = apply_revert_change(state, q)
      BY <2>1, <2>3 DEF PreviewFrom
    <3>3. q \in ChangeRecord /\ q.resulting_state.revision \in Nat /\ state.revision \in Nat
      BY <1>0, <2>1, <3>1 DEF TypeInv, TypeOK, ChangeRecord, Authority
    <3> HIDE DEF q
    <3>4. /\ ~ (state.revision < q.resulting_state.revision)
          /\ NextState(t).content = q.previous_state.content
      BY <2>1, <3>2 DEF apply_revert_change
    <3> QED BY <3>1, <3>3, <3>4
  <2> QED BY <2>1, <2>4, <2>5 DEF AsPreviewed, Restores
<1> QED BY <1>0, <1>1, <1>2, RecordsStep

\* The inductive invariant of previews and reverts holds at the start,
LEMMA PreviewInit == Init => PreviewInv
<1> SUFFICES ASSUME Init PROVE PreviewInv
  OBVIOUS
<1>1. \A t \in Thread : local[t].pc = "idle" /\ local[t].records = <<>>
  BY DEF Init, Idle
<1>2. DOMAIN <<>> = {}
  OBVIOUS
<1> QED BY <1>1, <1>2, HistInit
        DEF Init, PreviewInv, ClonesAreStates, ProposalsShowPreview, ProposalId, RecordsHonest, Recorded

\* and every step keeps it.
LEMMA PreviewNext == PreviewInv /\ [Next]_vars => PreviewInv'
BY HistNext, ClonesNext, ShowsNext, HonestNext DEF PreviewInv

\* What the operator saw is what was done: the first change of every apply call
\* started from the previewed state and ended in the previewed result, whatever
\* was applied between the preview and the apply.
THEOREM PreviewHonouredHolds == Spec => []PreviewHonoured
<1>1. PreviewInv => PreviewHonoured
  BY LogRecorded DEF PreviewInv, RecordsHonest, AsPreviewed, PreviewHonoured
<1> QED BY <1>1, PreviewInit, PreviewNext, PTL DEF Spec

\* A revert goes back to exactly the content from just before the change that it
\* names, however long ago that was, and the record it went by is still stored.
THEOREM RevertRestoresHolds == Spec => []RevertRestores
<1>1. PreviewInv => RevertRestores
  BY LogRecorded DEF PreviewInv, RecordsHonest, Restores, RevertRestores
<1> QED BY <1>1, PreviewInit, PreviewNext, PTL DEF Spec

(***************************************************************************)
(* The versioned log                                                       *)
(***************************************************************************)

Base == [i \in ProposalId |-> proposals[i].revision]

\* Proposals keep the revision they were made for, and a new one goes to the end.
LEMMA BaseStep ==
    ASSUME TypeInv, [Next]_vars
    PROVE  \/ Base' = Base
           \/ \E t \in Thread : /\ local[t].pc = "preview" /\ local[t].snapshot \in Authority
                                /\ UNCHANGED <<authority, changes>>
                                /\ Base' = Append(Base, local[t].snapshot.revision)
<1>0. proposals \in Seq(StoredProposal) /\ DOMAIN proposals \subseteq DOMAIN proposals'
  BY ProposalsKept DEF TypeInv, TypeOK
<1>1. \A i \in DOMAIN proposals : proposals'[i].revision = proposals[i].revision
  BY ProposalsKept DEF Kept, SameProposal
<1>2. CASE DOMAIN proposals' = DOMAIN proposals
  BY <1>1, <1>2 DEF Base, ProposalId
<1>3. CASE DOMAIN proposals' # DOMAIN proposals
  <2>1. PICK i \in DOMAIN proposals' : i \notin DOMAIN proposals
    BY <1>0, <1>3
  <2>2. PICK t \in Thread :
          /\ local[t].pc = "preview" /\ UNCHANGED <<authority, changes>>
          /\ local[t].snapshot \in Authority
          /\ proposals'[i].revision = local[t].snapshot.revision
          /\ proposals' = Append(proposals, proposals'[i]) /\ i = Len(proposals) + 1
    BY <2>1, ProposalsStep
  <2>3. /\ Len(proposals) \in Nat /\ DOMAIN proposals = 1..Len(proposals)
        /\ DOMAIN proposals' = 1..(Len(proposals) + 1)
    BY <1>0, <2>2
  <2> DEFINE n == Len(proposals)
             rev == local[t].snapshot.revision
             rest == [j \in 1..n |-> proposals[j].revision]
  <2>4. Base = rest
    BY <2>3 DEF Base, ProposalId
  <2>5. Base' = [j \in 1..(n + 1) |-> proposals'[j].revision]
    BY <2>3 DEF Base, ProposalId
  <2> HIDE DEF rest, rev
  <2>6. Append(rest, rev) = [j \in 1..(n + 1) |-> IF j = n + 1 THEN rev ELSE rest[j]]
    <3> DEFINE S == {proposals[j].revision : j \in 1..n} \cup {rev}
    <3>1. rest \in Seq(S) /\ Len(rest) = n /\ rev \in S
      BY <2>3 DEF rest
    <3> HIDE DEF S
    <3>2. /\ Append(rest, rev) \in Seq(S) /\ DOMAIN Append(rest, rev) = 1..(n + 1)
          /\ Append(rest, rev)[n + 1] = rev
          /\ \A j \in 1..n : Append(rest, rev)[j] = rest[j]
      BY <3>1, AppendAt
    <3>3. \A j \in 1..(n + 1) : Append(rest, rev)[j] = IF j = n + 1 THEN rev ELSE rest[j]
      BY <2>3, <3>2
    <3>4. Append(rest, rev) \in [1..(n + 1) -> S]
      <4> DEFINE longer == Append(rest, rev)
      <4>1. longer \in Seq(S) /\ Len(longer) = n + 1
        BY <3>1, AppendAt
      <4> HIDE DEF longer
      <4>2. longer \in [1..Len(longer) -> S]
        BY <4>1, LenProperties
      <4> QED BY <4>1, <4>2 DEF longer
    <3> QED BY <3>3, <3>4
  <2>7. \A j \in 1..(n + 1) : proposals'[j].revision = IF j = n + 1 THEN rev ELSE rest[j]
    BY <1>1, <2>2, <2>3 DEF rest, rev
  <2>8. Base' = Append(Base, rev)
    BY <2>3, <2>4, <2>5, <2>6, <2>7
  <2> QED BY <2>2, <2>8 DEF rev
<1> QED BY <1>2, <1>3

\* A commit appends its records, one for each revision that it goes up by.
LEMMA CommitRefines ==
    ASSUME HistInv, [Next]_vars, NEW t \in Thread, Commit(t), Log' = Log \cup RecordsOf(t)
    PROVE  Abstract!Commit
<1>0. TypeInv /\ CallInv /\ HistoryIsChain
  BY DEF HistInv, CallInv
<1> DEFINE rs == local[t].records
           n == Len(rs)
           rev == authority.revision
           new == Log' \ Log
<1>1. /\ rs \in Seq(ChangeRecord) /\ n \in Nat \ {0} /\ DOMAIN rs = 1..n
      /\ rev \in Nat /\ authority'.revision = rev + n
      /\ authority' = rs[n].resulting_state
      /\ rs[1].previous_state = authority
  BY CommitFacts
<1>2. \A k \in 1..n :
        /\ rs[k].resulting_state.revision = rev + k
        /\ rs[k].previous_state.revision = rev + k - 1
        /\ rs[k].change_id.index = k - 1
        /\ k # 1 => rs[k].previous_state = rs[k - 1].resulting_state
  BY CommitFacts
<1>3. \A r \in Log : r.resulting_state.revision \in 1..rev
  BY <1>0 DEF HistoryIsChain
<1>4. \A k \in 1..n : rs[k] \in new
  <2> SUFFICES ASSUME NEW k \in 1..n PROVE rs[k] \in Log' /\ rs[k] \notin Log
    OBVIOUS
  <2>1. rs[k] \in Log'
    BY <1>1 DEF RecordsOf
  <2>2. rs[k].resulting_state.revision \notin 1..rev
    BY <1>1, <1>2
  <2> QED BY <1>3, <2>1, <2>2
<1>5. \A r \in new : \E k \in 1..n : r = rs[k]
  BY <1>1, CommitSplit
<1>6. \A k \in 1..n : rs[k].proposal_id \in ProposalId /\ proposals[rs[k].proposal_id].revision = rev
  <2> SUFFICES ASSUME NEW k \in 1..n
               PROVE  rs[k].proposal_id \in ProposalId /\ proposals[rs[k].proposal_id].revision = rev
    OBVIOUS
  <2>1. MadeFor(rs[k])
    BY <1>0, <1>1 DEF CallInv, RecordsMatch
  <2>2. rs[k].resulting_state.revision - 1 - rs[k].change_id.index = rev
    <3>1. rs[k].resulting_state.revision = rev + k /\ rs[k].change_id.index = k - 1
      BY <1>2
    <3>2. rev \in Nat /\ k \in Nat
      BY <1>1
    <3> HIDE DEF rs, rev
    <3> QED BY <3>1, <3>2
  <2> QED BY <2>1, <2>2 DEF MadeFor, ProposalId
<1>7. \A i \in ProposalId : Base[i] = proposals[i].revision
  BY DEF Base
<1>8. Base' = Base
  BY <1>0, MoveFacts DEF Base, ProposalId
<1> HIDE DEF rs, n, rev, new
<1>9. ASSUME NEW r \in new
      PROVE  /\ Base[r.proposal_id] = rev
             /\ r.resulting_state.revision \in (rev + 1)..authority'.revision
             /\ r.previous_state.revision = r.resulting_state.revision - 1
             /\ r.previous_state.revision = rev => r.previous_state = authority
             /\ r.resulting_state.revision = authority'.revision => r.resulting_state = authority'
             /\ \A s \in {q \in new : q.resulting_state.revision = r.previous_state.revision} :
                  s.resulting_state = r.previous_state
  <2>1. PICK k \in 1..n : r = rs[k]
    BY <1>5
  <2>2. r.resulting_state.revision = rev + k /\ r.previous_state.revision = rev + k - 1
    BY <1>2, <2>1
  <2>3. /\ r.resulting_state.revision \in (rev + 1)..authority'.revision
        /\ r.previous_state.revision = r.resulting_state.revision - 1
        /\ r.previous_state.revision = rev => k = 1
        /\ r.resulting_state.revision = authority'.revision => k = n
    BY <1>1, <2>2
  <2>4. ASSUME NEW s \in new, s.resulting_state.revision = r.previous_state.revision
        PROVE  s.resulting_state = r.previous_state
    <3>1. PICK j \in 1..n : s = rs[j]
      BY <1>5
    <3>2. s.resulting_state.revision = rev + j
      BY <1>2, <3>1
    <3>3. k # 1 /\ j = k - 1
      BY <1>1, <2>2, <2>4, <3>2
    <3> QED BY <1>2, <2>1, <3>1, <3>3
  <2> QED BY <1>1, <1>6, <1>7, <2>1, <2>3, <2>4
<1>10. ASSUME NEW m \in (rev + 1)..authority'.revision
       PROVE  \E r \in new : {q \in new : q.resulting_state.revision = m} = {r}
  <2>1. m - rev \in 1..n /\ rev + (m - rev) = m
    BY <1>1
  <2>2. rs[m - rev] \in new /\ rs[m - rev].resulting_state.revision = m
    BY <1>2, <1>4, <2>1
  <2>3. ASSUME NEW q \in new, q.resulting_state.revision = m PROVE q = rs[m - rev]
    <3>1. PICK k \in 1..n : q = rs[k]
      BY <1>5
    <3>2. rev + k = m
      BY <1>2, <2>3, <3>1
    <3> QED BY <1>1, <3>1, <3>2
  <2> QED BY <2>2, <2>3
<1>11. authority'.revision > rev /\ Log \subseteq Log'
  BY <1>1
<1> QED BY <1>8, <1>9, <1>10, <1>11 DEF Abstract!Commit, Base, new, rev

\* The control plane implements the versioned log: seen from outside, the
\* authority only ever changes by whole commits of proposals that were made for
\* the revision in force, and each commit is logged as a chain of records.
THEOREM Implements == Spec => ImplementsLog
<1>1. Init => Abstract!Init
  <2> SUFFICES ASSUME Init PROVE Abstract!Init
    OBVIOUS
  <2>1. \A t \in Thread : local[t].pc = "idle"
    BY DEF Init, Idle
  <2>2. Log = {}
    BY <2>1 DEF Init, Log, Unwritten
  <2>3. ProposalId = {}
    BY DEF Init, ProposalId
  <2>4. [i \in ProposalId |-> proposals[i].revision] = <<>>
    BY <2>3
  <2> QED BY <2>2, <2>4 DEF Init, Abstract!Init
<1>2. PreviewInv /\ [Next]_vars => [Abstract!Next]_(Abstract!vars)
  <2> SUFFICES ASSUME PreviewInv, [Next]_vars PROVE [Abstract!Next]_(Abstract!vars)
    OBVIOUS
  <2>1. HistInv /\ TypeInv
    BY DEF PreviewInv, HistInv, CallInv
  <2>2. ASSUME NEW t \in Thread, Commit(t), Log' = Log \cup RecordsOf(t) PROVE Abstract!Next
    BY <2>1, <2>2, CommitRefines DEF Abstract!Next
  <2>3. CASE Log' = Log /\ authority' = authority /\ Base' = Base
    BY <2>3 DEF Abstract!vars, Base
  <2>4. ASSUME NEW t \in Thread, local[t].pc = "preview", local[t].snapshot \in Authority,
               Log' = Log, authority' = authority,
               Base' = Append(Base, local[t].snapshot.revision)
        PROVE  Abstract!Next
    <3>1. local[t].snapshot.revision \in 0..authority.revision
      <4>1. local[t].snapshot.revision <= authority.revision
        BY <2>4 DEF PreviewInv, ClonesAreStates, IsOrWas
      <4>2. local[t].snapshot.revision \in Nat /\ authority.revision \in Nat
        BY <2>1, <2>4 DEF TypeInv, TypeOK, Authority
      <4> QED BY <4>1, <4>2
    <3> QED BY <2>4, <3>1 DEF Abstract!Next, Abstract!Propose, Base
  <2>5. ASSUME NEW t \in Thread, Commit(t), UNCHANGED authority PROVE FALSE
    <3>1. /\ Len(local[t].records) \in Nat \ {0} /\ authority.revision \in Nat
          /\ authority'.revision = authority.revision + Len(local[t].records)
      BY <2>1, <2>5, CommitFacts
    <3> QED BY <2>5, <3>1
  <2> QED BY <2>1, <2>2, <2>3, <2>4, <2>5, LogStep, BaseStep
<1> QED BY <1>1, <1>2, PreviewInit, PreviewNext, PTL DEF Spec, ImplementsLog, Abstract!Spec

(***************************************************************************)
(* What the statuses of proposals are worth: theorems about approval, about*)
(* the statuses that end a proposal and about applying it once.            *)
(***************************************************************************)

Approving == {"approve_verify", "approve_mark"}
Applying == {"verify", "lock", "plan", "mark", "store"}

\* The statuses a request goes on with are the ones its copies still have.
CopiesAdmitted ==
    \A t \in Thread : \A k \in DOMAIN local[t].stored :
        /\ local[t].pc \in Approving => local[t].stored[k].status = "Pending"
        /\ local[t].pc = "reject_mark" => local[t].stored[k].status \notin Final
        /\ local[t].pc \in Applying => local[t].stored[k].status = "Approved"

\* A copy that was not Pending is of a proposal that never will be again.
CopiesBehind ==
    \A t \in Thread : \A k \in DOMAIN local[t].stored :
        local[t].stored[k].status # "Pending"
            => proposals[local[t].stored[k].id].status # "Pending"

\* NoApplyWithoutApproval for every record there is.
RecordsApproved == \A r : Recorded(r) => proposals[r.proposal_id].status # "Pending"

\* The records of an apply call are of the proposals it has copies of: while it
\* plans, of its first copies in their order.
RecordsOfCopies ==
    \A t \in Thread : \A k \in DOMAIN local[t].records :
        /\ \E j \in DOMAIN local[t].stored :
              local[t].stored[j].id = local[t].records[k].proposal_id
        /\ local[t].pc = "plan" =>
              k \in DOMAIN local[t].stored /\ local[t].stored[k].id = local[t].records[k].proposal_id

StatusInv ==
    CallInv /\ CopiesAdmitted /\ CopiesBehind /\ RecordsApproved /\ RecordsOfCopies

\* No client sends a batch that names a proposal twice.
AllDifferent(s) == \A j, k \in DOMAIN s : s[j] = s[k] => j = k
NoRepeats == \A ids \in Batches : AllDifferent(ids)

\* Then no call has two copies of one proposal,
CopiesDistinct ==
    \A t \in Thread :
        /\ \A j, k \in DOMAIN local[t].stored :
              local[t].stored[j].id = local[t].stored[k].id => j = k
        /\ local[t].pc = "retrieve" =>
              /\ AllDifferent(local[t].ids)
              /\ \A j \in DOMAIN local[t].stored : \A k \in DOMAIN local[t].ids :
                    local[t].stored[j].id # local[t].ids[k]

OnceInv == HistInv /\ RecordsOfCopies /\ CopiesDistinct /\ AppliedAtMostOnce

(***************************************************************************)
(* What a step does to a thread's copies                                   *)
(***************************************************************************)

\* A request that starts with one copy, admitted by the proposal's status.
Admits(pc, status) ==
    \/ pc = "approve_verify" /\ Approvable(status)
    \/ pc = "reject_mark" /\ Rejectable(status)
    \/ pc = "verify" /\ Appliable(status)
    \/ pc = "lock" /\ Embedded

\* The locals of a thread after a step: it dropped its copies, took a first one,
\* took the next one of a batch, or went on with the ones it has.
Drops(l) == l.stored = <<>> /\ (l.pc = "retrieve" => l.ids \in Batches)
Takes(l) == \E i \in ProposalId : l.stored = <<Retrieve(i)>> /\ Admits(l.pc, proposals[i].status)
Collects(me, l) ==
    /\ me.pc = "retrieve" /\ Head(me.ids) \in ProposalId
    /\ l.stored = Append(me.stored, Retrieve(Head(me.ids)))
    /\ \/ l.pc = "retrieve" /\ l.ids = Tail(me.ids)
       \/ l.pc = "lock" /\ \A k \in DOMAIN l.stored : Appliable(l.stored[k].status)
GoesOn(me, l) ==
    /\ l.stored = me.stored
    /\ \/ l.pc = me.pc /\ l.ids = me.ids
       \/ me.pc \in Approving /\ l.pc \in Approving
       \/ me.pc \in Applying /\ l.pc \in Applying

Moves(me, l) == Drops(l) \/ Takes(l) \/ Collects(me, l) \/ GoesOn(me, l)

\* Every step moves the copies of a thread in one of these ways.
LEMMA CopyMove ==
    ASSUME TypeInv, [Next]_vars, NEW t \in Thread
    PROVE  Moves(local[t], local'[t])
<1> USE DEF TypeInv, TypeOK
<1>1. ASSUME local'[t] = local[t] PROVE Moves(local[t], local'[t])
  BY <1>1 DEF Moves, GoesOn
<1>2. CASE UNCHANGED vars
  BY <1>1, <1>2 DEF vars
<1>3. ASSUME NEW u \in Thread, NEW l, local' = [local EXCEPT ![u] = l], Moves(local[u], l)
      PROVE  Moves(local[t], local'[t])
  BY <1>1, <1>3, LocalUpdate
<1>4. ASSUME NEW u \in Thread, Start(u) \/ Continue(u)
      PROVE  \/ UNCHANGED vars
             \/ \E l : local' = [local EXCEPT ![u] = l] /\ Moves(local[u], l)
  <2> DEFINE Found == \E l : local' = [local EXCEPT ![u] = l] /\ Moves(local[u], l)
  <2>1. ASSUME NEW l, local' = [local EXCEPT ![u] = l], l.stored = <<>>, l.pc # "retrieve"
        PROVE  Found
    BY <2>1 DEF Moves, Drops
  <2>2. CASE Return(u)
    <3>1. Idle.stored = <<>> /\ Idle.pc # "retrieve"
      BY DEF Idle
    <3> QED BY <2>1, <2>2, <3>1 DEF Return
  <2>3. ASSUME NEW pc, Goto(u, pc), \/ local[u].pc \in Approving /\ pc \in Approving
                                    \/ local[u].pc \in Applying /\ pc \in Applying
        PROVE  Found
    <3> DEFINE l == [local[u] EXCEPT !.pc = pc]
    <3>1. l.pc = pc /\ l.stored = local[u].stored
      BY DEF Local
    <3>2. local' = [local EXCEPT ![u] = l]
      BY <2>3 DEF Goto
    <3> HIDE DEF l
    <3> QED BY <2>3, <3>1, <3>2 DEF Moves, GoesOn
  <2>4. ASSUME NEW change, NEW disc, CloneAuthority(u, change, disc) PROVE Found
    <3> DEFINE l == [Idle EXCEPT !.pc = "preview", !.change = change, !.discovery_revision = disc,
                                 !.snapshot = authority]
    <3>1. l.pc = "preview" /\ l.stored = <<>>
      BY DEF Idle
    <3>2. local' = [local EXCEPT ![u] = l]
      BY <2>4 DEF CloneAuthority
    <3> HIDE DEF l
    <3> QED BY <2>1, <3>1, <3>2
  <2>5. CASE Propose(u) \/ EnsurePropose(u) \/ Answer(u)
    BY <2>4, <2>5 DEF Propose, EnsurePropose, Answer
  <2>6. CASE EnsureFind(u)
    <3>1. PICK change, disc :
            local' = [local EXCEPT ![u] = [Idle EXCEPT !.pc = "clone", !.change = change,
                        !.discovery_revision = disc]]
      BY <2>6 DEF EnsureFind
    <3> DEFINE l == [Idle EXCEPT !.pc = "clone", !.change = change, !.discovery_revision = disc]
    <3>2. l.pc = "clone" /\ l.stored = <<>>
      BY DEF Idle
    <3> HIDE DEF l
    <3> QED BY <2>1, <3>1, <3>2 DEF l
  <2>7. CASE StoreProposal(u) \/ MarkApproved(u) \/ MarkRejected(u)
    BY <2>2, <2>7 DEF StoreProposal, MarkApproved, MarkRejected
  <2>8. CASE Approve(u) \/ Reject(u)
    <3>1. PICK pc \in {"approve_verify", "reject_mark"}, i \in ProposalId :
            /\ Admits(pc, proposals[i].status)
            /\ local' = [local EXCEPT ![u] = [Idle EXCEPT !.pc = pc, !.stored = <<Retrieve(i)>>]]
      BY <2>8 DEF Approve, Reject, Admits
    <3> DEFINE l == [Idle EXCEPT !.pc = pc, !.stored = <<Retrieve(i)>>]
    <3>2. l.pc = pc /\ l.stored = <<Retrieve(i)>>
      BY DEF Idle
    <3> HIDE DEF l
    <3> QED BY <3>1, <3>2 DEF Moves, Takes, l
  <2>9. CASE Apply(u) \/ ApplyDirect(u)
    <3>1. PICK pc \in {"verify", "lock"}, i \in ProposalId, approval \in {0} \cup ProposalId :
            /\ Admits(pc, proposals[i].status)
            /\ local' = [local EXCEPT ![u] = [Idle EXCEPT !.pc = pc, !.stored = <<Retrieve(i)>>,
                           !.approval = approval]]
      BY <2>9 DEF Apply, ApplyDirect, Admits
    <3> DEFINE l == [Idle EXCEPT !.pc = pc, !.stored = <<Retrieve(i)>>, !.approval = approval]
    <3>2. l.pc = pc /\ l.stored = <<Retrieve(i)>>
      BY DEF Idle
    <3> HIDE DEF l
    <3> QED BY <3>1, <3>2 DEF Moves, Takes, l
  <2>10. CASE ApproveVerify(u) \/ ApplyVerify(u) \/ Commit(u) \/ MarkApplied(u)
    BY <2>2, <2>3, <2>10 DEF ApproveVerify, ApplyVerify, Commit, MarkApplied, Approving, Applying
  <2>11. CASE ApplyBatch(u)
    <3>1. PICK ids \in Batches :
            local' = [local EXCEPT ![u] = [Idle EXCEPT !.pc = "retrieve", !.ids = ids]]
      BY <2>11 DEF ApplyBatch
    <3> DEFINE l == [Idle EXCEPT !.pc = "retrieve", !.ids = ids]
    <3>2. l.stored = <<>> /\ l.ids = ids
      BY DEF Idle
    <3> HIDE DEF l
    <3> QED BY <3>1, <3>2 DEF Moves, Drops, l
  <2>12. CASE BatchRetrieve(u)
    <3> DEFINE me == local[u]
               stored == Append(me.stored, Retrieve(Head(me.ids)))
               l1 == [me EXCEPT !.ids = Tail(me.ids), !.stored = stored]
               l2 == [me EXCEPT !.pc = "lock", !.ids = <<>>, !.stored = stored]
    <3>1. CASE Return(u)
      BY <2>2, <3>1
    <3>2. CASE ~ Return(u)
      <4>1. /\ me.pc = "retrieve" /\ Head(me.ids) \in ProposalId
            /\ \/ local' = [local EXCEPT ![u] = l1]
               \/ /\ local' = [local EXCEPT ![u] = l2]
                  /\ \A k \in DOMAIN stored : Appliable(stored[k].status)
        BY <2>12, <3>2, Zenon DEF BatchRetrieve
      <4>2. /\ l1.pc = me.pc /\ l1.ids = Tail(me.ids) /\ l1.stored = stored
            /\ l2.pc = "lock" /\ l2.stored = stored
        <5> HIDE DEF stored
        <5> QED BY DEF Local
      <4> HIDE DEF l1, l2
      <4>3. Moves(me, l1)
        BY <4>1, <4>2 DEF Moves, Collects
      <4>4. (\A k \in DOMAIN stored : Appliable(stored[k].status)) => Moves(me, l2)
        BY <4>1, <4>2 DEF Moves, Collects
      <4> QED BY <4>1, <4>3, <4>4
    <3> QED BY <3>1, <3>2
  <2>13. CASE AcquireWrite(u)
    <3> DEFINE l == [local[u] EXCEPT !.pc = "plan", !.snapshot = authority]
    <3>1. l.pc = "plan" /\ l.stored = local[u].stored
      BY DEF Local
    <3>2. local' = [local EXCEPT ![u] = l] /\ local[u].pc = "lock"
      BY <2>13 DEF AcquireWrite
    <3> HIDE DEF l
    <3> QED BY <3>1, <3>2 DEF Moves, GoesOn, Applying
  <2>14. CASE PlanNext(u)
    <3>1. CASE Return(u)
      BY <2>2, <3>1
    <3>2. CASE ~ Return(u)
      <4>1. PICK next, records : local' = [local EXCEPT ![u] =
                [local[u] EXCEPT !.snapshot = next, !.records = records]]
        BY <2>14, <3>2, Zenon DEF PlanNext, ReturnUnlocked
      <4> DEFINE l == [local[u] EXCEPT !.snapshot = next, !.records = records]
      <4>2. l.pc = local[u].pc /\ l.stored = local[u].stored /\ l.ids = local[u].ids
        BY DEF Local
      <4> HIDE DEF l
      <4> QED BY <4>1, <4>2 DEF Moves, GoesOn, l
    <3> QED BY <3>1, <3>2
  <2>15. CASE StoreRecord(u)
    <3>1. CASE Return(u)
      BY <2>2, <3>1
    <3>2. CASE ~ Return(u)
      <4> DEFINE l == [local[u] EXCEPT !.pc = "mark", !.records = Tail(local[u].records)]
      <4>1. local' = [local EXCEPT ![u] = l] /\ local[u].pc = "store"
        BY <2>15, <3>2, Zenon DEF StoreRecord, ReturnUnlocked
      <4>2. l.pc = "mark" /\ l.stored = local[u].stored
        BY DEF Local
      <4> HIDE DEF l
      <4> QED BY <4>1, <4>2 DEF Moves, GoesOn, Applying
    <3> QED BY <3>1, <3>2
  <2> QED BY <1>4, <2>5, <2>6, <2>7, <2>8, <2>9, <2>10, <2>11, <2>12, <2>13, <2>14, <2>15
          DEF Start, Continue
<1> QED BY <1>2, <1>3, <1>4 DEF Next

(***************************************************************************)
(* Approval                                                                *)
(***************************************************************************)

\* A request's copies stay admitted, when only the routes apply proposals.
LEMMA AdmittedNext ==
    ASSUME ~ Embedded, TypeInv, CopiesAdmitted, [Next]_vars
    PROVE  CopiesAdmitted'
<1> DEFINE Ok(pc, status) == /\ pc \in Approving => status = "Pending"
                             /\ pc = "reject_mark" => status \notin Final
                             /\ pc \in Applying => status = "Approved"
<1> SUFFICES ASSUME NEW t \in Thread, NEW k \in DOMAIN local'[t].stored
             PROVE  Ok(local'[t].pc, local'[t].stored[k].status)
  BY DEF CopiesAdmitted
<1> DEFINE me == local[t]
           l == local'[t]
<1>1. Moves(me, l)
  BY CopyMove
<1> HIDE DEF l
<1>2. CASE Drops(l)
  <2>1. DOMAIN <<>> = {}
    OBVIOUS
  <2> QED BY <1>2, <2>1 DEF Drops, l
<1>3. CASE Takes(l)
  <2>1. PICK i \in ProposalId : l.stored = <<Retrieve(i)>> /\ Admits(l.pc, proposals[i].status)
    BY <1>3 DEF Takes
  <2>2. l.stored[k] = Retrieve(i)
    BY <2>1 DEF l
  <2>3. l.stored[k].status = proposals[i].status
    BY <2>2 DEF Retrieve
  <2>4. Ok(l.pc, proposals[i].status)
    BY <2>1 DEF Admits, Approvable, Rejectable, Appliable, Approving, Applying, Final
  <2> QED BY <2>3, <2>4 DEF l
<1>4. CASE Collects(me, l)
  BY <1>4 DEF Collects, Appliable, Approving, Applying, l
<1>5. CASE GoesOn(me, l)
  <2>1. k \in DOMAIN me.stored /\ l.stored[k] = me.stored[k]
    BY <1>5 DEF GoesOn, l
  <2>2. Ok(me.pc, me.stored[k].status)
    BY <2>1 DEF CopiesAdmitted
  <2>3. Ok(l.pc, me.stored[k].status)
    BY <1>5, <2>2 DEF GoesOn, Approving, Applying
  <2> QED BY <2>1, <2>3 DEF l
<1> QED BY <1>1, <1>2, <1>3, <1>4, <1>5 DEF Moves

\* Copies stay behind the store.
LEMMA BehindNext ==
    ASSUME TypeInv, CopiesMatch, CopiesBehind, [Next]_vars
    PROVE  CopiesBehind'
<1> SUFFICES ASSUME NEW t \in Thread, NEW k \in DOMAIN local'[t].stored,
                    local'[t].stored[k].status # "Pending"
             PROVE  proposals'[local'[t].stored[k].id].status # "Pending"
  BY DEF CopiesBehind
<1> DEFINE copy == local'[t].stored[k]
<1>1. copy.id \in DOMAIN proposals /\ proposals[copy.id].status # "Pending"
  <2>1. CASE \E j \in DOMAIN local[t].stored : copy = local[t].stored[j]
    BY <2>1 DEF CopiesMatch, CopiesBehind
  <2>2. CASE \E i \in ProposalId : copy = Retrieve(i)
    BY <2>2 DEF Retrieve, ProposalId
  <2> QED BY <2>1, <2>2, CopiesStep DEF OldOrFresh
<1> HIDE DEF copy
<1> QED BY <1>1, ProposalsKept DEF Kept, copy

\* A recorded proposal stays recorded and never turns Pending; the one that a
\* turn of the loop records had been approved when its copy was taken.
LEMMA ApprovedNext ==
    ASSUME StatusInv, [Next]_vars
    PROVE  RecordsApproved'
<1>0. TypeInv /\ CallInv
  BY DEF StatusInv, CallInv
<1> SUFFICES ASSUME NEW r, Recorded(r)'
             PROVE  proposals'[r.proposal_id].status # "Pending"
  BY DEF RecordsApproved
<1>1. CASE Recorded(r)
  <2>1. r.proposal_id \in DOMAIN proposals /\ proposals[r.proposal_id].status # "Pending"
    BY <1>0, <1>1 DEF StatusInv, RecordsApproved, Recorded, CallInv, RecordsMatch, MadeFor
  <2> QED BY <1>0, <2>1, ProposalsKept DEF Kept
<1>2. ASSUME NEW t \in Thread, Planned(t), r = NewRecord(t)
      PROVE  proposals'[r.proposal_id].status # "Pending"
  <2>1. /\ local[t].pc = "plan" /\ Len(local[t].records) + 1 \in DOMAIN local[t].stored
        /\ proposals' = proposals /\ r.proposal_id = Planning(t).id
    BY <1>0, <1>2, PlannedFacts, NewRecordFields
  <2>2. Planning(t).status = "Approved"
    BY <2>1 DEF StatusInv, CopiesAdmitted, Applying, Planning
  <2> QED BY <2>1, <2>2 DEF StatusInv, CopiesBehind, Planning
<1> QED BY <1>0, <1>1, <1>2, RecordsStep

\* The records of a call go on being of its copies.
LEMMA OfCopiesNext ==
    ASSUME TypeInv, RecordsOfCopies, [Next]_vars
    PROVE  RecordsOfCopies'
<1> DEFINE OfCopies(l) ==
             \A k \in DOMAIN l.records :
                /\ \E j \in DOMAIN l.stored : l.stored[j].id = l.records[k].proposal_id
                /\ l.pc = "plan" =>
                      k \in DOMAIN l.stored /\ l.stored[k].id = l.records[k].proposal_id
<1>1. \A t \in Thread : OfCopies(local[t])
  BY DEF RecordsOfCopies
<1>2. CASE UNCHANGED vars
  BY <1>2 DEF vars, RecordsOfCopies
<1>3. ASSUME NEW t \in Thread, OfCopies(local'[t]), \A u \in Thread \ {t} : local'[u] = local[u]
      PROVE  RecordsOfCopies'
  <2>1. \A u \in Thread : OfCopies(local'[u])
    BY <1>1, <1>3
  <2> QED BY <2>1 DEF RecordsOfCopies
<1>4. ASSUME NEW l, l.records = <<>> PROVE OfCopies(l)
  <2>1. DOMAIN <<>> = {}
    OBVIOUS
  <2> QED BY <1>4, <2>1
<1>5. ASSUME NEW t \in Thread, Quiet(t) PROVE RecordsOfCopies'
  <2>1. local'[t].records = <<>>
    BY <1>5, TypeNext DEF Quiet, Locked, TypeInv, Shape
  <2> QED BY <1>3, <1>4, <1>5, <2>1 DEF Quiet
<1>6. ASSUME NEW t \in Thread, AcquireWrite(t) PROVE RecordsOfCopies'
  <2>1. local'[t].records = <<>>
    BY <1>6, MoveFacts DEF TypeInv, Shape
  <2> QED BY <1>3, <1>4, <1>6, <2>1, MoveFacts
<1>7. ASSUME NEW t \in Thread, Commit(t) \/ MarkApplied(t) PROVE RecordsOfCopies'
  <2>1. /\ local'[t].records = local[t].records /\ local'[t].stored = local[t].stored
        /\ local'[t].pc # "plan" /\ \A u \in Thread \ {t} : local'[u] = local[u]
    BY <1>7, MoveFacts
  <2>2. OfCopies(local'[t])
    BY <1>1, <2>1
  <2> QED BY <1>3, <2>1, <2>2
<1>8. ASSUME NEW t \in Thread, Planned(t) PROVE RecordsOfCopies'
  <2> DEFINE rs == local[t].records
             n == Len(rs)
             stored == local[t].stored
  <2>1. /\ rs \in Seq(ChangeRecord) /\ NewRecord(t) \in ChangeRecord /\ n + 1 \in DOMAIN stored
        /\ local'[t].records = Append(rs, NewRecord(t)) /\ local'[t].stored = stored
        /\ local[t].pc = "plan" /\ \A u \in Thread \ {t} : local'[u] = local[u]
    BY <1>8, PlannedFacts
  <2>2. NewRecord(t).proposal_id = stored[n + 1].id
    BY <1>8, NewRecordFields DEF Planning
  <2>3. /\ n \in Nat /\ DOMAIN rs = 1..n /\ DOMAIN Append(rs, NewRecord(t)) = 1..(n + 1)
        /\ Append(rs, NewRecord(t))[n + 1] = NewRecord(t)
        /\ \A j \in 1..n : Append(rs, NewRecord(t))[j] = rs[j]
    BY <2>1, AppendAt
  <2>4. \A k \in DOMAIN rs : k \in DOMAIN stored /\ stored[k].id = rs[k].proposal_id
    BY <1>1, <2>1
  <2> HIDE DEF rs, n, stored
  <2>5. \A k \in 1..(n + 1) :
          k \in DOMAIN stored /\ stored[k].id = Append(rs, NewRecord(t))[k].proposal_id
    <3> SUFFICES ASSUME NEW k \in 1..(n + 1)
                 PROVE  k \in DOMAIN stored /\ stored[k].id = Append(rs, NewRecord(t))[k].proposal_id
      OBVIOUS
    <3>1. CASE k = n + 1
      BY <2>1, <2>2, <2>3, <3>1
    <3>2. CASE k # n + 1
      <4>1. k \in 1..n
        BY <2>3, <3>2
      <4> QED BY <2>3, <2>4, <4>1
    <3> QED BY <3>1, <3>2
  <2>6. OfCopies(local'[t])
    BY <2>1, <2>3, <2>5
  <2> QED BY <1>3, <2>1, <2>6
<1>9. ASSUME NEW t \in Thread, StoreRecord(t) PROVE RecordsOfCopies'
  <2> DEFINE rs == local[t].records
  <2>1. rs \in Seq(ChangeRecord) /\ rs # <<>> /\ \A u \in Thread \ {t} : local'[u] = local[u]
    BY <1>9, StoreFacts
  <2>2. CASE local'[t] = Idle
    BY <1>3, <1>4, <2>1, <2>2 DEF Idle
  <2>3. CASE /\ local'[t].pc = "mark" /\ local'[t].records = Tail(rs)
             /\ local'[t].stored = local[t].stored
    <3>1. \A j \in DOMAIN Tail(rs) : j + 1 \in DOMAIN rs /\ Tail(rs)[j] = rs[j + 1]
      BY <2>1, TailAt
    <3>2. OfCopies(local'[t])
      BY <1>1, <2>3, <3>1
    <3> QED BY <1>3, <2>1, <3>2
  <2> QED BY <1>9, <2>2, <2>3, StoreFacts
<1> QED BY <1>2, <1>5, <1>6, <1>7, <1>8, <1>9, StepCases

\* The invariant of the statuses holds at the start,
LEMMA StatusInit == Init => StatusInv
<1> SUFFICES ASSUME Init PROVE StatusInv
  OBVIOUS
<1>1. \A t \in Thread : local[t].pc = "idle" /\ local[t].records = <<>> /\ local[t].stored = <<>>
  BY DEF Init, Idle
<1>2. DOMAIN <<>> = {}
  OBVIOUS
<1> QED BY <1>1, <1>2, CallInit
        DEF Init, StatusInv, CopiesAdmitted, CopiesBehind, RecordsApproved, Recorded, RecordsOfCopies

\* and every step keeps it.
LEMMA StatusNext == ~ Embedded /\ StatusInv /\ [Next]_vars => StatusInv'
<1> SUFFICES ASSUME ~ Embedded, StatusInv, [Next]_vars PROVE StatusInv'
  OBVIOUS
<1>1. /\ TypeInv /\ CallInv /\ CopiesMatch /\ CopiesAdmitted /\ CopiesBehind
      /\ RecordsApproved /\ RecordsOfCopies
  BY DEF StatusInv, CallInv
<1>2. CallInv'
  BY <1>1, CallNext
<1>3. CopiesAdmitted' /\ CopiesBehind' /\ RecordsApproved' /\ RecordsOfCopies'
  BY <1>1, AdmittedNext, BehindNext, ApprovedNext, OfCopiesNext
<1> QED BY <1>2, <1>3 DEF StatusInv

\* Nothing is applied through the control routes that nobody approved: there is
\* no record, written or unwritten, of a proposal that is still Pending.  The
\* hypothesis leaves out a host application that calls apply_change itself,
\* which looks at no status.
THEOREM NoApplyWithoutApprovalHolds == ~ Embedded => (Spec => []NoApplyWithoutApproval)
<1>1. StatusInv => NoApplyWithoutApproval
  BY LogRecorded DEF StatusInv, RecordsApproved, NoApplyWithoutApproval
<1> SUFFICES ASSUME ~ Embedded PROVE Spec => []NoApplyWithoutApproval
  OBVIOUS
<1>2. StatusInv /\ [Next]_vars => StatusInv'
  BY StatusNext
<1> QED BY <1>1, <1>2, StatusInit, PTL DEF Spec

(***************************************************************************)
(* The statuses that end a proposal                                        *)
(***************************************************************************)

\* A step rewrites the status of a proposal that has ended only for a request
\* that had read an earlier status.
FinalStep ==
    \A i \in ProposalId :
        proposals[i].status \in Final /\ (\A t \in Thread : ~ HoldsOpenCopy(t, i))
            => proposals'[i].status = proposals[i].status

\* The three steps that write a status all hold a copy of the proposal, and the
\* copy's status is the one they were admitted with.
LEMMA FinalStatusStep ==
    ASSUME StatusInv, [Next]_vars
    PROVE  FinalStep
<1>0. TypeInv
  BY DEF StatusInv, CallInv
<1> USE DEF TypeInv, TypeOK
<1> SUFFICES ASSUME NEW i \in ProposalId, \A t \in Thread : ~ HoldsOpenCopy(t, i)
             PROVE  proposals'[i].status = proposals[i].status
  BY DEF FinalStep
<1>1. ASSUME NEW j, NEW p, proposals' = [proposals EXCEPT ![j] = p], j # i
      PROVE  proposals'[i].status = proposals[i].status
  BY <1>1
<1>2. ASSUME NEW t \in Thread, MarkApproved(t) \/ MarkRejected(t) PROVE Head(local[t].stored).id # i
  <2>1. local[t].stored \in Seq(Copy) /\ local[t].stored # <<>>
        /\ local[t].pc \in {"approve_mark", "reject_mark"}
    BY <1>0, <1>2 DEF MarkApproved, MarkRejected, Shape, Local
  <2>2. Head(local[t].stored) = local[t].stored[1] /\ 1 \in DOMAIN local[t].stored
    BY <2>1, SeqHead
  <2>3. local[t].stored[1].status \notin Final
    BY <2>1, <2>2 DEF StatusInv, CopiesAdmitted, Approving, Final
  <2> QED BY <2>2, <2>3 DEF HoldsOpenCopy
<1>3. ASSUME NEW t \in Thread, MarkApplied(t) PROVE Head(local[t].records).proposal_id # i
  <2>1. local[t].records \in Seq(ChangeRecord) /\ local[t].records # <<>> /\ local[t].pc = "mark"
    BY <1>0, <1>3 DEF MarkApplied, Shape, Local
  <2>2. Head(local[t].records) = local[t].records[1] /\ 1 \in DOMAIN local[t].records
    BY <2>1, SeqHead
  <2>3. PICK j \in DOMAIN local[t].stored :
          local[t].stored[j].id = local[t].records[1].proposal_id
    BY <2>2 DEF StatusInv, RecordsOfCopies
  <2>4. local[t].stored[j].status \notin Final
    BY <2>1 DEF StatusInv, CopiesAdmitted, Applying, Final
  <2> QED BY <2>2, <2>3, <2>4 DEF HoldsOpenCopy
<1>4. CASE UNCHANGED proposals
  BY <1>4
<1>5. ASSUME NEW t \in Thread, StoreProposal(t)
      PROVE  proposals'[i].status = proposals[i].status
  <2>1. UNCHANGED proposals \/ \E p : proposals' = Append(proposals, p)
    BY <1>5, Zenon DEF StoreProposal
  <2>2. ASSUME NEW p, proposals' = Append(proposals, p) PROVE proposals'[i] = proposals[i]
    BY <1>0, <2>2 DEF ProposalId
  <2> QED BY <2>1, <2>2
<1>6. ASSUME NEW t \in Thread, MarkApproved(t) \/ MarkRejected(t) \/ MarkApplied(t)
      PROVE  proposals'[i].status = proposals[i].status
  <2>1. \/ \E p : proposals' = [proposals EXCEPT ![Head(local[t].stored).id] = p]
           /\ (MarkApproved(t) \/ MarkRejected(t))
        \/ \E p : proposals' = [proposals EXCEPT ![Head(local[t].records).proposal_id] = p]
           /\ MarkApplied(t)
    BY <1>6, Zenon DEF MarkApproved, MarkRejected, MarkApplied
  <2> QED BY <1>1, <1>2, <1>3, <2>1
<1>7. \/ UNCHANGED proposals
      \/ \E t \in Thread : \/ StoreProposal(t) \/ MarkApproved(t)
                           \/ MarkRejected(t) \/ MarkApplied(t)
  BY DEF vars, Next, Start, Continue, Answer, Propose, CloneAuthority, EnsureFind, EnsurePropose,
         Approve, Reject, ApproveVerify, Apply, ApplyDirect, ApplyVerify, ApplyBatch,
         BatchRetrieve, AcquireWrite, PlanNext, Commit, StoreRecord
<1> QED BY <1>4, <1>5, <1>6, <1>7

\* A Rejected or an Applied proposal keeps its status against every request that
\* comes in afterwards: only a request that was already under way with an
\* earlier status can overwrite it.
THEOREM FinalStatusHoldsAlways == ~ Embedded => (Spec => FinalStatusHolds)
<1> SUFFICES ASSUME ~ Embedded PROVE Spec => FinalStatusHolds
  OBVIOUS
<1>1. StatusInv /\ [Next]_vars => StatusInv'
  BY StatusNext
<1>2. StatusInv /\ [Next]_vars => [FinalStep]_vars
  BY FinalStatusStep
<1>3. [FinalStep]_vars =>
        [\A i \in ProposalId :
            proposals[i].status \in Final /\ (\A t \in Thread : ~ HoldsOpenCopy(t, i))
                => proposals'[i].status = proposals[i].status]_vars
  BY DEF FinalStep
<1> QED BY <1>1, <1>2, <1>3, StatusInit, PTL DEF Spec, FinalStatusHolds

(***************************************************************************)
(* Applied at most once                                                    *)
(***************************************************************************)

\* The copies of a call stay copies of different proposals.
LEMMA DistinctNext ==
    ASSUME NoRepeats, TypeInv, CopiesDistinct, [Next]_vars
    PROVE  CopiesDistinct'
<1> DEFINE Apart(l) ==
             /\ \A j, k \in DOMAIN l.stored : l.stored[j].id = l.stored[k].id => j = k
             /\ l.pc = "retrieve" =>
                   /\ AllDifferent(l.ids)
                   /\ \A j \in DOMAIN l.stored : \A k \in DOMAIN l.ids : l.stored[j].id # l.ids[k]
<1> SUFFICES ASSUME NEW t \in Thread PROVE Apart(local'[t])
  BY DEF CopiesDistinct, AllDifferent
<1> DEFINE me == local[t]
           l == local'[t]
<1>1. Moves(me, l)
  BY CopyMove
<1>2. Apart(me) /\ me \in Local
  BY DEF CopiesDistinct, TypeInv, TypeOK
<1>3. CASE Drops(l)
  <2>1. DOMAIN <<>> = {}
    OBVIOUS
  <2> QED BY <1>3, <2>1 DEF Drops, NoRepeats
<1>4. CASE Takes(l)
  <2>1. PICK i \in ProposalId : l.stored = <<Retrieve(i)>> /\ l.pc # "retrieve"
    BY <1>4 DEF Takes, Admits
  <2>2. \A j, k \in DOMAIN l.stored : j = k
    BY <2>1
  <2> QED BY <2>1, <2>2
<1>5. CASE Collects(me, l)
  <2> DEFINE s == me.stored
             h == Head(me.ids)
             c == Retrieve(h)
             n == Len(s)
  <2>1. /\ me.pc = "retrieve" /\ h \in ProposalId /\ l.stored = Append(s, c)
        /\ l.pc = "retrieve" => l.ids = Tail(me.ids)
    BY <1>5 DEF Collects
  <2>2. s \in Seq(Copy) /\ c \in Copy /\ c.id = h /\ me.ids \in Seq(Nat \ {0}) /\ me.ids # <<>>
    BY <1>2, <2>1, RetrieveType DEF TypeInv, Shape, Local
  <2>3. h = me.ids[1] /\ 1 \in DOMAIN me.ids
    BY <2>2, SeqHead
  <2>4. \A j \in DOMAIN Tail(me.ids) : /\ j + 1 \in DOMAIN me.ids /\ Tail(me.ids)[j] = me.ids[j + 1]
                                       /\ j \in Nat \ {0}
    <3>1. Tail(me.ids) \in Seq(Nat \ {0})
      BY <2>2, SeqHead
    <3>2. \A j \in DOMAIN Tail(me.ids) : j \in Nat \ {0}
      BY <3>1, SeqElement
    <3> QED BY <2>2, <3>2, TailAt
  <2>5. /\ n \in Nat /\ DOMAIN s = 1..n /\ DOMAIN Append(s, c) = 1..(n + 1)
        /\ Append(s, c)[n + 1] = c /\ \A j \in 1..n : Append(s, c)[j] = s[j]
    BY <2>2, AppendAt
  <2>6. /\ \A j, k \in DOMAIN s : s[j].id = s[k].id => j = k
        /\ \A j \in DOMAIN s : \A k \in DOMAIN me.ids : s[j].id # me.ids[k]
        /\ AllDifferent(me.ids)
    BY <1>2, <2>1
  <2> HIDE DEF s, h, c, n
  <2>7. \A j \in 1..(n + 1) : j = n + 1 \/ j \in DOMAIN s
    BY <2>5
  <2>8. \A j, k \in DOMAIN Append(s, c) : Append(s, c)[j].id = Append(s, c)[k].id => j = k
    <3> SUFFICES ASSUME NEW j \in 1..(n + 1), NEW k \in 1..(n + 1),
                        Append(s, c)[j].id = Append(s, c)[k].id
                 PROVE  j = k
      BY <2>5
    <3> QED BY <2>2, <2>3, <2>5, <2>6, <2>7
  <2>9. ASSUME l.pc = "retrieve"
        PROVE  /\ AllDifferent(l.ids)
               /\ \A j \in DOMAIN l.stored : \A k \in DOMAIN l.ids : l.stored[j].id # l.ids[k]
    <3>1. l.ids = Tail(me.ids)
      BY <2>1, <2>9
    <3>2. AllDifferent(Tail(me.ids))
      <4> SUFFICES ASSUME NEW j \in DOMAIN Tail(me.ids), NEW k \in DOMAIN Tail(me.ids),
                          Tail(me.ids)[j] = Tail(me.ids)[k]
                   PROVE  j = k
        BY DEF AllDifferent
      <4>1. j + 1 = k + 1
        BY <2>4, <2>6 DEF AllDifferent
      <4> QED BY <2>4, <4>1
    <3>3. ASSUME NEW j \in 1..(n + 1), NEW k \in DOMAIN Tail(me.ids)
          PROVE  Append(s, c)[j].id # Tail(me.ids)[k]
      <4>1. CASE j \in DOMAIN s
        BY <2>4, <2>5, <2>6, <4>1
      <4>2. CASE j = n + 1
        <5>1. Append(s, c)[j].id = me.ids[1]
          BY <2>2, <2>3, <2>5, <4>2
        <5>2. k + 1 # 1
          BY <2>4
        <5> QED BY <2>3, <2>4, <2>6, <5>1, <5>2 DEF AllDifferent
      <4> QED BY <2>7, <4>1, <4>2
    <3> QED BY <2>1, <2>5, <3>1, <3>2, <3>3
  <2> QED BY <2>1, <2>8, <2>9
<1>6. CASE GoesOn(me, l)
  <2>1. l.stored = me.stored /\ (l.pc = "retrieve" => me.pc = "retrieve" /\ l.ids = me.ids)
    BY <1>6 DEF GoesOn, Approving, Applying
  <2> QED BY <1>2, <2>1
<1> QED BY <1>1, <1>3, <1>4, <1>5, <1>6 DEF Moves

\* A commit records no proposal twice and none that has a record: a recorded one
\* was made for a revision that has gone by.
LEMMA OnceNext ==
    ASSUME OnceInv, [Next]_vars
    PROVE  AppliedAtMostOnce'
<1>0. /\ HistInv /\ CallInv /\ TypeInv /\ HistoryIsChain /\ RecordsOfCopies /\ CopiesDistinct
      /\ AppliedAtMostOnce
  BY DEF OnceInv, HistInv, CallInv
<1>1. CASE Log' = Log
  BY <1>0, <1>1 DEF AppliedAtMostOnce
<1>2. ASSUME NEW t \in Thread, Commit(t), Log' = Log \cup RecordsOf(t)
      PROVE  AppliedAtMostOnce'
  <2> DEFINE rs == local[t].records
             n == Len(rs)
             rev == authority.revision
  <2>1. /\ n \in Nat \ {0} /\ DOMAIN rs = 1..n /\ rev \in Nat /\ local[t].pc = "plan"
        /\ \A k \in 1..n : /\ rs[k].resulting_state.revision = rev + k
                           /\ rs[k].change_id.index = k - 1
    BY <1>0, <1>2, CommitFacts DEF Commit
  <2>2. \A r \in Log' : r \in Log \/ \E k \in 1..n : r = rs[k]
    BY <1>2, <2>1, CommitSplit
  <2>3. ASSUME NEW r \in Log PROVE proposals[r.proposal_id].revision < rev
    <3>1. /\ Recorded(r) /\ r.resulting_state.revision \in 1..rev
      BY <1>0, LogRecorded DEF HistoryIsChain
    <3>2. r.change_id.index \in Nat
      BY <1>0, <3>1, RecordedType
    <3>3. MadeFor(r)
      BY <1>0, <3>1 DEF Recorded, CallInv, RecordsMatch
    <3> QED BY <2>1, <3>1, <3>2, <3>3 DEF MadeFor
  <2>4. ASSUME NEW k \in 1..n PROVE proposals[rs[k].proposal_id].revision = rev
    <3>1. MadeFor(rs[k])
      BY <1>0, <2>1 DEF CallInv, RecordsMatch
    <3>2. rs[k].resulting_state.revision = rev + k /\ rs[k].change_id.index = k - 1
      BY <2>1
    <3>3. rev \in Nat /\ k \in Nat
      BY <2>1
    <3> HIDE DEF rs, rev
    <3>4. rs[k].resulting_state.revision - 1 - rs[k].change_id.index = rev
      BY <3>2, <3>3
    <3> QED BY <3>1, <3>4 DEF MadeFor
  <2>5. ASSUME NEW j \in 1..n, NEW k \in 1..n, rs[j].proposal_id = rs[k].proposal_id
        PROVE  j = k
    <3>1. \A m \in DOMAIN rs : /\ m \in DOMAIN local[t].stored
                               /\ local[t].stored[m].id = rs[m].proposal_id
      BY <1>0, <2>1 DEF RecordsOfCopies
    <3>2. \A i, m \in DOMAIN local[t].stored :
            local[t].stored[i].id = local[t].stored[m].id => i = m
      BY <1>0 DEF CopiesDistinct
    <3>3. j \in DOMAIN rs /\ k \in DOMAIN rs
      BY <2>1
    <3> QED BY <2>5, <3>1, <3>2, <3>3
  <2> HIDE DEF rs, n, rev
  <2> SUFFICES ASSUME NEW r \in Log', NEW s \in Log', r.proposal_id = s.proposal_id PROVE r = s
    BY DEF AppliedAtMostOnce
  <2>6. CASE r \in Log /\ s \in Log
    BY <1>0, <2>6 DEF AppliedAtMostOnce
  <2>7. ASSUME NEW q \in Log, NEW k \in 1..n PROVE q.proposal_id # rs[k].proposal_id
    <3>1. proposals[q.proposal_id].revision < rev /\ proposals[rs[k].proposal_id].revision = rev
      BY <2>3, <2>4
    <3> QED BY <2>1, <3>1
  <2> QED BY <2>2, <2>5, <2>6, <2>7
<1> QED BY <1>0, <1>1, <1>2, LogStep

\* The invariant holds at the start,
LEMMA OnceInit == Init => OnceInv
<1> SUFFICES ASSUME Init PROVE OnceInv
  OBVIOUS
<1>1. \A t \in Thread : local[t].pc = "idle" /\ local[t].records = <<>> /\ local[t].stored = <<>>
  BY DEF Init, Idle
<1>2. DOMAIN <<>> = {}
  OBVIOUS
<1>3. Log = {}
  BY <1>1 DEF Init, Log, Unwritten
<1> QED BY <1>1, <1>2, <1>3, HistInit DEF OnceInv, RecordsOfCopies, CopiesDistinct, AppliedAtMostOnce

\* A proposal is applied at most once by clients that name no proposal twice in
\* one batch: no approve, reject or apply that comes too late, and no batch that
\* overlaps another, makes a second record of it.
THEOREM AppliedAtMostOnceHolds == NoRepeats => (Spec => []AppliedAtMostOnce)
<1> SUFFICES ASSUME NoRepeats PROVE Spec => []AppliedAtMostOnce
  OBVIOUS
<1>1. OnceInv /\ [Next]_vars => OnceInv'
  <2> SUFFICES ASSUME OnceInv, [Next]_vars PROVE OnceInv'
    OBVIOUS
  <2>1. HistInv /\ TypeInv /\ RecordsOfCopies /\ CopiesDistinct
    BY DEF OnceInv, HistInv, CallInv
  <2>2. HistInv' /\ RecordsOfCopies' /\ CopiesDistinct' /\ AppliedAtMostOnce'
    BY <2>1, HistNext, OfCopiesNext, DistinctNext, OnceNext
  <2> QED BY <2>2 DEF OnceInv
<1>2. OnceInv => AppliedAtMostOnce
  BY DEF OnceInv
<1> QED BY <1>1, <1>2, OnceInit, PTL DEF Spec
=============================================================================
