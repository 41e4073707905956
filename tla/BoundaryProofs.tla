---------------------------- MODULE BoundaryProofs ----------------------------
(***************************************************************************)
(* Theorems about the boundary as its clients see it.                      *)
(***************************************************************************)
EXTENDS Boundary, SequenceTheorems, FiniteSetTheorems, WellFoundedInduction, TLAPS

(***************************************************************************)
(* Induction over numbers: the least counterexample.                       *)
(***************************************************************************)

\* A set of numbers has a least one, which Least gives.
LEMMA LeastNumber ==
    ASSUME NEW T, T \subseteq Nat, T # {}
    PROVE  Least(T) \in T /\ \A j \in T : Least(T) <= j
<1>1. \E x \in T : \A y \in T : ~ (<<y, x>> \in OpToRel(<, Nat))
  BY NatLessThanWellFounded, WFMin
<1>2. PICK x \in T : \A y \in T : ~ (<<y, x>> \in OpToRel(<, Nat))
  BY <1>1
<1>3. \A y \in T : ~ (y < x)
  BY <1>2 DEF OpToRel
<1>4. \A y \in T : x <= y
  BY <1>3
<1> QED BY <1>4 DEF Least

\* What holds of 0, and of each number if of the one before, holds of all.
LEMMA Induct ==
    ASSUME NEW n \in Nat, NEW T, 0 \in T, \A k \in 1..n : k - 1 \in T => k \in T
    PROVE  \A k \in 0..n : k \in T
<1> DEFINE out == {k \in 0..n : k \notin T}
<1>1. SUFFICES ASSUME out # {} PROVE FALSE
  BY <1>1
<1>2. out \subseteq Nat
  OBVIOUS
<1> DEFINE m == Least(out)
<1>3. m \in out /\ \A j \in out : m <= j
  BY <1>1, <1>2, LeastNumber
<1> HIDE DEF m
<1>4. m \in 1..n /\ m - 1 \in 0..n /\ m - 1 \notin out
  BY <1>3
<1> QED BY <1>3, <1>4

\* f gives what comes of base in k steps; each step takes S to itself.
Steps(step, n, S) == step \in [1..n -> [S -> S]]
IsIteration(f, n, S, base, step) ==
    f \in [0..n -> S] /\ f[0] = base /\ \A k \in 1..n : f[k] = step[k][f[k - 1]]

\* Steps may be repeated: there is the function of what they give.
LEMMA Iterates ==
    ASSUME NEW n, n \in Nat, NEW S, NEW base, base \in S, NEW step, Steps(step, n, S)
    PROVE  \E f : IsIteration(f, n, S, base, step)
<1> USE DEF Steps, IsIteration
<1> DEFINE Up(k, f) == f[0] = base /\ \A j \in 1..k : f[j] = step[j][f[j - 1]]
           T == {k \in 0..n : \E f \in [0..k -> S] : Up(k, f)}
<1>1. 0 \in T
  <2>1. [k \in 0..0 |-> base] \in [0..0 -> S] /\ Up(0, [k \in 0..0 |-> base])
    OBVIOUS
  <2> HIDE DEF Up
  <2>2. \E f \in [0..0 -> S] : Up(0, f)
    BY <2>1
  <2> QED BY <2>2
<1>2. ASSUME NEW k \in 1..n, k - 1 \in T PROVE k \in T
  <2>1. PICK f \in [0..k - 1 -> S] : Up(k - 1, f)
    BY <1>2
  <2> DEFINE g == [j \in 0..k |-> IF j = k THEN step[k][f[k - 1]] ELSE f[j]]
  <2>2. k - 1 \in 0..k - 1 /\ f[k - 1] \in S /\ step[k][f[k - 1]] \in S
    OBVIOUS
  <2>3. g \in [0..k -> S]
    BY <2>2
  <2>4. g[0] = base
    BY <2>1
  <2>5. ASSUME NEW j \in 1..k PROVE g[j] = step[j][g[j - 1]]
    <3>1. CASE j = k
      BY <3>1
    <3>2. CASE j # k
      <4>1. j \in 1..k - 1 /\ j - 1 \in 0..k - 1
        BY <3>2
      <4> QED BY <4>1, <2>1
    <3> QED BY <3>1, <3>2
  <2>6. Up(k, g)
    BY <2>4, <2>5
  <2> HIDE DEF Up, g
  <2>7. \E h \in [0..k -> S] : Up(k, h)
    BY <2>3, <2>6
  <2> QED BY <2>7
<1> HIDE DEF T
<1>3. \A k \in 0..n : k \in T
  BY <1>1, <1>2, Induct
<1>4. n \in T
  BY <1>3
<1> QED BY <1>4 DEF T

(***************************************************************************)
(* The recursive functions of the model.                                   *)
(***************************************************************************)

InferredIds == {i \in DOMAIN proposals : proposals[i].source = "inferred"}

\* What list prints are the inferred proposals.
LEMMA NewestAreInferred ==
    ASSUME Len(proposals) \in Nat, DOMAIN proposals = 1..Len(proposals)
    PROVE  NewestInferred \in Seq(InferredIds)
<1> DEFINE n == Len(proposals)
           S == Seq(InferredIds)
           own(k) == IF proposals[k].source = "inferred" THEN <<k>> ELSE <<>>
           step == [k \in 1..n |-> [s \in S |-> own(k) \o s]]
<1>1. n \in Nat
  OBVIOUS
<1>2. ASSUME NEW k \in 1..n PROVE own(k) \in S
  <2>1. CASE proposals[k].source = "inferred"
    <3>1. k \in InferredIds
      BY <2>1 DEF InferredIds
    <3> QED BY <2>1, <3>1
  <2>2. CASE proposals[k].source # "inferred"
    BY <2>2
  <2> QED BY <2>1, <2>2
<1>3. <<>> \in S
  OBVIOUS
<1> HIDE DEF S, own
<1>4. ASSUME NEW k \in 1..n, NEW s \in S PROVE own(k) \o s \in S
  BY <1>2, ConcatProperties DEF S
<1>5. step \in [1..n -> [S -> S]]
  BY <1>4
<1> HIDE DEF step, n
<1> DEFINE base == <<>>
<1>6. PICK f : IsIteration(f, n, S, base, step)
  <2>1. base \in S /\ Steps(step, n, S)
    BY <1>3, <1>5 DEF Steps
  <2> QED BY <1>1, <2>1, Iterates
<1>7. ASSUME NEW k \in 1..n PROVE f[k] = own(k) \o f[k - 1]
  <2>1. f[k - 1] \in S
    BY <1>1, <1>6 DEF IsIteration
  <2> QED BY <1>6, <2>1 DEF step, IsIteration
<1> DEFINE Def(g) == g = [k \in 0..n |-> IF k = 0 THEN <<>> ELSE own(k) \o g[k - 1]]
<1>8. Def(f)
  <2>1. ASSUME NEW k \in 0..n PROVE f[k] = IF k = 0 THEN <<>> ELSE own(k) \o f[k - 1]
    BY <1>1, <1>6, <1>7 DEF IsIteration
  <2> QED BY <2>1, <1>6 DEF IsIteration
<1>9. Def(CHOOSE g : Def(g))
  <2> HIDE DEF Def
  <2> QED BY <1>8
<1> DEFINE h == CHOOSE g : Def(g)
<1>10. NewestInferred = h[n]
  BY DEF NewestInferred, own, n
<1> HIDE DEF h
<1>11. h = [k \in 0..n |-> IF k = 0 THEN <<>> ELSE own(k) \o h[k - 1]]
  BY <1>9 DEF h
<1> DEFINE T == {k \in 0..n : h[k] \in S}
<1>12. 0 \in T
  BY <1>1, <1>3, <1>11
<1>13. ASSUME NEW k \in 1..n, k - 1 \in T PROVE k \in T
  <2>1. k \in 0..n /\ k # 0
    BY <1>1
  <2>2. h[k - 1] \in S
    BY <1>13
  <2>3. h[k] = own(k) \o h[k - 1]
    BY <2>1, <1>11
  <2>4. h[k] \in S
    BY <2>2, <2>3, <1>4
  <2> QED BY <2>1, <2>4
<1>14. n \in T
  <2> HIDE DEF T
  <2>1. \A k \in 0..n : k \in T
    BY <1>1, <1>12, <1>13, Induct
  <2> QED BY <2>1, <1>1
<1> QED BY <1>10, <1>14 DEF S

(***************************************************************************)
(* Types.                                                                  *)
(***************************************************************************)

Protect == [type : {"ProtectRoute"}, route : Route, capability : Capability]
ReportChange == EditChange \cup [type : {"Revert"}, change_id : Nat]
Status == {"Pending", "Approved", "Applied", "Rejected"}
Discoveries == {None} \cup {DiscoveryAt(d, p) : d \in Deployments, p \in [Route -> Capability \cup {None}]}
Proposal ==
    [change : ReportChange, revision : Nat, source : {"explicit", "inferred"},
     discovery_revision : Discoveries, status : Status]
ChangeRecord == [previous_state : Authority, resulting_state : Authority]
Recommendation == [key : Route, capability : Capability]
Item == [key : Route, capability : Capability, id : Nat,
         status : {"stale", "recommended", "approved", "already_protected", "rejected"}]
Report ==
    [pc : {"idle", "history", "revision", "find", "store", "ready", "listed", "approving"},
     kind : {None, "proposal", "reconciliation"}, snapshot : Authority,
     history : SUBSET [key : Route, status : Status], revision : Nat,
     todo : Seq(Recommendation), items : SUBSET Item, ids : Seq(Nat)]

TypeOK ==
    /\ deployed \in Deployments
    /\ authority \in Authority
    /\ proposals \in Seq(Proposal)
    /\ changes \in Seq(ChangeRecord)
    /\ local \in [Reader -> Report]

(***************************************************************************)
(* The state of the authority at each revision is in the records.          *)
(***************************************************************************)

\* Every change is one revision, and the records hold them all.
Numbered ==
    /\ Len(changes) = authority.revision
    /\ \A k \in 1..Len(changes) : /\ changes[k].previous_state.revision = k - 1
                                  /\ changes[k].resulting_state.revision = k

StateAt(revision) == IF revision < Len(changes) THEN changes[revision + 1].previous_state ELSE authority

\* What a report has read is what was in force, at a revision of before.
SnapshotTrue(r) ==
    /\ local[r].snapshot.revision <= authority.revision
    /\ local[r].snapshot = StateAt(local[r].snapshot.revision)

\* An inferred proposal protects a route, and the discovery it is of was made
\* of a state that was in force when it was stored, or before.
Inferred(p) ==
    /\ p.revision <= authority.revision
    /\ p.source = "inferred" => p.change \in Protect
    /\ p.discovery_revision # None =>
         \E revision \in 0..p.revision :
            p.discovery_revision = Proposed(StateAt(revision)).discovery_revision

Reading == {"find", "store", "ready", "listed", "approving"}

\* An item is a recommendation, listed with a proposal for it.
ItemTrue(r, item) ==
    /\ [key |-> item.key, capability |-> item.capability] \in Proposed(local[r].snapshot).recommendations
    /\ item.id \in DOMAIN proposals
    /\ proposals[item.id].change = Protection(item)
    /\ proposals[item.id].discovery_revision = DiscoveryOf(r)
    /\ item.status = "stale" <=> proposals[item.id].revision # local[r].revision

ReportTrue(r) ==
    /\ local[r].pc \in Reading => /\ local[r].snapshot.revision <= local[r].revision
                                  /\ local[r].revision <= authority.revision
    /\ local[r].pc \in {"find", "store"} => local[r].todo # <<>>
    /\ \A k \in 1..Len(local[r].todo) : local[r].todo[k] \in Proposed(local[r].snapshot).recommendations
    /\ \A item \in local[r].items : local[r].pc \in Reading /\ ItemTrue(r, item)
    /\ local[r].pc \in {"listed", "approving"} => local[r].ids # <<>>
    /\ \A k \in 1..Len(local[r].ids) : local[r].ids[k] \in InferredIds

ReportInv ==
    /\ Numbered
    /\ StateAt(0) = NewAuthority
    /\ \A i \in DOMAIN proposals : Inferred(proposals[i])
    /\ \A r \in Reader : SnapshotTrue(r) /\ ReportTrue(r)

\* A sequence has its elements, at the places from 1 on.
LEMMA SeqElement ==
    ASSUME NEW S, NEW s \in Seq(S)
    PROVE  /\ Len(s) \in Nat /\ DOMAIN s = 1..Len(s)
           /\ \A i \in 1..Len(s) : s[i] \in S
BY LenProperties, ElementOfSeq

\* An edit with a valid change gives contents (apply_change).
LEMMA EditType ==
    ASSUME NEW content \in Content, NEW change \in EditChange,
           change.type = "SetPasswordPolicy" => change.policy \in ValidPasswordPolicy
    PROVE  Edit(content, change) \in Content
<1>1. CASE change \in [type : {"ProtectRoute"}, route : Route, capability : Capability]
  BY <1>1 DEF Edit, Content
<1>2. CASE change \in [type : {"UnprotectRoute"}, route : Route]
  BY <1>2 DEF Edit, Content
<1>3. CASE change \in [type : {"SetCapabilityPolicy"}, capability : Capability, policy : Policy]
  BY <1>3 DEF Edit, Content
<1>4. CASE change \in [type : {"SetProviderEnabled"}, provider : Provider, enabled : BOOLEAN]
  BY <1>4 DEF Edit, Content
<1>5. CASE change \in [type : {"SetPasswordPolicy"}, policy : PasswordPolicy]
  BY <1>5 DEF Edit, Content
<1> QED BY <1>1, <1>2, <1>3, <1>4, <1>5 DEF EditChange

\* A preview that succeeds is an authority one revision further on.
LEMMA PreviewType ==
    ASSUME changes \in Seq(ChangeRecord), NEW current \in Authority, NEW change \in ReportChange,
           Previewed(current, change) # Error
    PROVE  /\ Previewed(current, change) \in Authority
           /\ Previewed(current, change).revision = current.revision + 1
<1>1. CASE change.type # "Revert"
  <2>1. change \in EditChange
    BY <1>1 DEF ReportChange
  <2>2. Previewed(current, change) = apply_change(current, change)
    BY <1>1 DEF Previewed
  <2>3. /\ change.type = "SetPasswordPolicy" => change.policy \in ValidPasswordPolicy
        /\ apply_change(current, change)
             = [content |-> Edit(current.content, change), revision |-> current.revision + 1]
    BY <2>2 DEF apply_change, NextRevision, Validates
  <2>4. Edit(current.content, change) \in Content
    BY <2>1, <2>3, EditType DEF Authority
  <2> QED BY <2>2, <2>3, <2>4 DEF Authority
<1>2. CASE change.type = "Revert"
  <2> DEFINE q == changes[change.change_id]
  <2>1. change.change_id \in DOMAIN changes /\ Previewed(current, change) = apply_revert_change(current, q)
    BY <1>2 DEF Previewed
  <2>2. q \in ChangeRecord
    BY <2>1, SeqElement
  <2>3. Previewed(current, change) = [content |-> q.previous_state.content, revision |-> current.revision + 1]
    BY <2>1 DEF apply_revert_change, NextRevision
  <2> QED BY <2>2, <2>3 DEF Authority, ChangeRecord
<1> QED BY <1>1, <1>2

\* To protect a route always succeeds, and protects it.
LEMMA ProtectPreview ==
    ASSUME NEW current \in Authority, NEW change \in Protect
    PROVE  /\ Previewed(current, change) \in Authority
           /\ Previewed(current, change) # Error
           /\ Previewed(current, change).revision = current.revision + 1
           /\ Previewed(current, change).content.route_protection[change.route] = change.capability
<1>1. change \in EditChange /\ change.type = "ProtectRoute" /\ change.route \in Route
  BY DEF Protect, EditChange
<1>2. Previewed(current, change)
        = [content |-> Edit(current.content, change), revision |-> current.revision + 1]
  BY <1>1 DEF Previewed, apply_change, NextRevision
<1>3. current.content \in Content /\ current.revision \in Nat
  BY DEF Authority
<1>4. Edit(current.content, change) \in Content
  BY <1>1, <1>3, EditType
<1>5. Edit(current.content, change).route_protection[change.route] = change.capability
  BY <1>1, <1>3 DEF Edit, Content
<1>6. Previewed(current, change) \in Authority
  BY <1>2, <1>3, <1>4 DEF Authority
<1> QED BY <1>2, <1>3, <1>5, <1>6, BoundaryAssumption

\* Records that go on from the live authority, one revision each.
GoOn(records) ==
    /\ records \in Seq(ChangeRecord)
    /\ Len(records) >= 1
    /\ records[1].previous_state = authority
    /\ \A k \in 1..Len(records) :
         /\ records[k].previous_state.revision = authority.revision + k - 1
         /\ records[k].resulting_state.revision = authority.revision + k

\* A single proposal that is current makes one such record.
LEMMA OneRecord ==
    ASSUME TypeOK, NEW i \in DOMAIN proposals, Previewed(authority, proposals[i].change) # Error
    PROVE  GoOn(Records(<<i>>))
<1> DEFINE change == proposals[i].change
           next == Previewed(authority, change)
           g == [k \in 0..1 |-> IF k = 0 THEN authority ELSE next]
           Def(f) == f = [k \in 0..Len(<<i>>) |-> IF k = 0 THEN authority
                                                 ELSE Previewed(f[k - 1], proposals[<<i>>[k]].change)]
           h == CHOOSE f : Def(f)
<1>1. change \in ReportChange
  <2>1. proposals[i] \in Proposal
    BY SeqElement DEF TypeOK
  <2> QED BY <2>1 DEF Proposal
<1>2. authority \in Authority /\ changes \in Seq(ChangeRecord)
  BY DEF TypeOK
<1>3. next \in Authority /\ next.revision = authority.revision + 1
  <2> HIDE DEF change
  <2>1. Previewed(authority, change) # Error
    BY DEF change
  <2> QED BY <1>1, <1>2, <2>1, PreviewType
<1>4. Len(<<i>>) = 1 /\ <<i>>[1] = i
  OBVIOUS
<1>5. Def(g)
  <2>1. \A k \in 0..1 : g[k] = IF k = 0 THEN authority ELSE Previewed(g[k - 1], proposals[<<i>>[k]].change)
    BY <1>4
  <2> QED BY <2>1, <1>4
<1>6. Def(h)
  <2> HIDE DEF Def, g
  <2> QED BY <1>5
<1>7. h[0] = authority /\ h[1] = next
  <2> HIDE DEF h
  <2>1. h = [k \in 0..1 |-> IF k = 0 THEN authority ELSE Previewed(h[k - 1], proposals[<<i>>[k]].change)]
    BY <1>6, <1>4
  <2>2. h[0] = authority
    BY <2>1
  <2>3. h[1] = Previewed(h[0], proposals[<<i>>[1]].change)
    BY <2>1
  <2> QED BY <2>2, <2>3
<1>8. Records(<<i>>) = [k \in 1..Len(<<i>>) |-> [previous_state |-> h[k - 1], resulting_state |-> h[k]]]
  BY DEF Records
<1> HIDE DEF h, next
<1>9. Records(<<i>>) = <<[previous_state |-> authority, resulting_state |-> next]>>
  BY <1>4, <1>7, <1>8
<1>10. [previous_state |-> authority, resulting_state |-> next] \in ChangeRecord
  BY <1>2, <1>3 DEF ChangeRecord
<1>11. authority.revision \in Nat
  BY <1>2 DEF Authority
<1> DEFINE record == [previous_state |-> authority, resulting_state |-> next]
           made == Records(<<i>>)
<1>12. record.previous_state = authority /\ record.resulting_state = next
  OBVIOUS
<1> HIDE DEF record
<1>13. made = <<record>> /\ record \in ChangeRecord
  BY <1>9, <1>10 DEF record
<1> HIDE DEF made
<1>14. made \in Seq(ChangeRecord) /\ Len(made) = 1 /\ made[1] = record
  BY <1>13
<1>15. GoOn(made)
  BY <1>3, <1>11, <1>12, <1>14 DEF GoOn
<1> QED BY <1>15 DEF made

\* So does a batch of inferred proposals, whatever they protect.
LEMMA BatchRecords ==
    ASSUME TypeOK, \A i \in DOMAIN proposals : Inferred(proposals[i]),
           NEW ids \in Seq(InferredIds), ids # <<>>
    PROVE  GoOn(Records(ids))
<1> DEFINE n == Len(ids)
           change(k) == proposals[ids[k]].change
           step == [k \in 1..n |-> [s \in Authority |-> Previewed(s, change(k))]]
           Def(f) == f = [k \in 0..Len(ids) |-> IF k = 0 THEN authority
                                               ELSE Previewed(f[k - 1], proposals[ids[k]].change)]
           h == CHOOSE f : Def(f)
<1>1. n \in Nat /\ n >= 1 /\ DOMAIN ids = 1..n
  BY SeqElement, EmptySeq
<1>2. ASSUME NEW k \in 1..n PROVE change(k) \in Protect
  <2>1. ids[k] \in InferredIds
    BY SeqElement
  <2> QED BY <2>1 DEF InferredIds, Inferred
<1>3. authority \in Authority
  BY DEF TypeOK
<1> HIDE DEF n
<1>4. ASSUME NEW k \in 1..n, NEW s \in Authority
      PROVE  Previewed(s, change(k)) \in Authority /\ Previewed(s, change(k)).revision = s.revision + 1
  <2> HIDE DEF change
  <2> QED BY <1>2, ProtectPreview
<1>5. Steps(step, n, Authority)
  BY <1>4 DEF Steps
<1> HIDE DEF step
<1>6. PICK f : IsIteration(f, n, Authority, authority, step)
  BY <1>1, <1>3, <1>5, Iterates
<1>7. Def(f)
  <2>1. ASSUME NEW k \in 0..n
        PROVE  f[k] = IF k = 0 THEN authority ELSE Previewed(f[k - 1], proposals[ids[k]].change)
    <3>1. CASE k = 0
      BY <3>1, <1>6 DEF IsIteration
    <3>2. CASE k # 0
      <4>1. k \in 1..n /\ k - 1 \in 0..n
        BY <3>2, <1>1
      <4>2. f[k - 1] \in Authority /\ f[k] = step[k][f[k - 1]]
        BY <4>1, <1>6 DEF IsIteration
      <4> QED BY <3>2, <4>1, <4>2 DEF step
    <3> QED BY <3>1, <3>2
  <2>2. f = [k \in 0..n |-> f[k]]
    BY <1>6 DEF IsIteration
  <2> QED BY <2>1, <2>2 DEF n
<1>8. Def(h)
  <2> HIDE DEF Def
  <2> QED BY <1>7
<1>9. Records(ids) = [k \in 1..n |-> [previous_state |-> h[k - 1], resulting_state |-> h[k]]]
  BY DEF Records, n
<1>10. h = [k \in 0..n |-> IF k = 0 THEN authority ELSE Previewed(h[k - 1], change(k))]
  BY <1>8 DEF n
<1> HIDE DEF h, change
<1> DEFINE T == {k \in 0..n : h[k] \in Authority /\ h[k].revision = authority.revision + k}
<1>11. authority.revision \in Nat
  BY <1>3 DEF Authority
<1>12. 0 \in T
  <2>1. h[0] = authority
    BY <1>1, <1>10
  <2> QED BY <2>1, <1>1, <1>3, <1>11
<1>13. ASSUME NEW k \in 1..n, k - 1 \in T PROVE k \in T
  <2>1. k \in 0..n /\ k # 0 /\ h[k] = Previewed(h[k - 1], change(k))
    BY <1>1, <1>10
  <2>2. h[k - 1] \in Authority /\ h[k - 1].revision = authority.revision + k - 1
    BY <1>13, <1>11
  <2>3. h[k] \in Authority /\ h[k].revision = h[k - 1].revision + 1
    BY <2>1, <2>2, <1>4
  <2> QED BY <2>1, <2>2, <2>3, <1>11
<1>14. \A k \in 0..n : h[k] \in Authority /\ h[k].revision = authority.revision + k
  <2>1. \A k \in 0..n : k \in T
    <3> HIDE DEF T
    <3> QED BY <1>1, <1>12, <1>13, Induct
  <2> QED BY <2>1
<1>15. h[0] = authority
  BY <1>1, <1>10
<1> DEFINE made == Records(ids)
<1>16. ASSUME NEW k \in 1..n
       PROVE  /\ made[k].previous_state = h[k - 1] /\ made[k].resulting_state = h[k]
              /\ k - 1 \in 0..n /\ k \in 0..n
  BY <1>9, <1>1
<1>17. made \in Seq(ChangeRecord) /\ Len(made) = n
  <2>1. ASSUME NEW k \in 1..n PROVE [previous_state |-> h[k - 1], resulting_state |-> h[k]] \in ChangeRecord
    BY <1>14, <1>16 DEF ChangeRecord
  <2>2. made \in [1..n -> ChangeRecord]
    BY <2>1, <1>9
  <2> HIDE DEF made
  <2> QED BY <2>2, <1>1
<1> HIDE DEF made
<1>18. ASSUME NEW k \in 1..n
       PROVE  /\ made[k].previous_state.revision = authority.revision + k - 1
              /\ made[k].resulting_state.revision = authority.revision + k
  BY <1>14, <1>16, <1>11
<1>19. made[1].previous_state = authority
  <2>1. 1 \in 1..n
    BY <1>1
  <2>2. made[1].previous_state = h[1 - 1]
    BY <1>16, <2>1
  <2> QED BY <2>2, <1>15
<1>20. GoOn(made)
  BY <1>1, <1>17, <1>18, <1>19 DEF GoOn
<1> QED BY <1>20 DEF made

(***************************************************************************)
(* What steps keep.                                                        *)
(***************************************************************************)

\* The stored proposals stay, but for their statuses, and so does the past.
Kept ==
    /\ deployed' = deployed
    /\ authority'.revision \in Nat /\ authority.revision <= authority'.revision
    /\ \A revision \in 0..authority.revision : StateAt(revision)' = StateAt(revision)
    /\ \A i \in DOMAIN proposals :
         /\ i \in DOMAIN proposals'
         /\ proposals'[i].change = proposals[i].change
         /\ proposals'[i].revision = proposals[i].revision
         /\ proposals'[i].source = proposals[i].source
         /\ proposals'[i].discovery_revision = proposals[i].discovery_revision

\* Steps that leave the authority and its records alone keep the past.
LEMMA PastKept ==
    ASSUME TypeOK, UNCHANGED <<authority, changes>>
    PROVE  /\ authority'.revision \in Nat /\ authority.revision <= authority'.revision
           /\ \A revision \in 0..authority.revision : StateAt(revision)' = StateAt(revision)
           /\ Numbered => Numbered'
<1>1. authority.revision \in Nat
  BY DEF TypeOK, Authority
<1> QED BY <1>1 DEF StateAt, Numbered

\* A step that changes nothing of the store.
LEMMA SameStep ==
    ASSUME TypeOK, UNCHANGED <<deployed, authority, proposals, changes>>
    PROVE  Kept
BY PastKept DEF Kept

\* A proposal is stored behind the others.
LEMMA AppendStep ==
    ASSUME TypeOK, NEW p \in Proposal, proposals' = Append(proposals, p),
           UNCHANGED <<deployed, authority, changes>>
    PROVE  /\ proposals' \in Seq(Proposal) /\ Kept
           /\ Len(proposals') = Len(proposals) + 1
           /\ proposals'[Len(proposals) + 1] = p
           /\ \A i \in DOMAIN proposals : proposals'[i] = proposals[i]
<1>1. /\ proposals' \in Seq(Proposal)
      /\ Len(proposals') = Len(proposals) + 1
      /\ proposals'[Len(proposals) + 1] = p
      /\ \A i \in 1..Len(proposals) : proposals'[i] = proposals[i]
  BY AppendProperties DEF TypeOK
<1>2. Len(proposals) \in Nat /\ DOMAIN proposals = 1..Len(proposals) /\ DOMAIN proposals' = 1..Len(proposals')
  BY <1>1, SeqElement DEF TypeOK
<1> QED BY <1>1, <1>2, PastKept DEF Kept

\* A proposal gets a status.
LEMMA StatusStep ==
    ASSUME TypeOK, NEW i \in DOMAIN proposals, NEW s \in Status,
           proposals' = [proposals EXCEPT ![i].status = s], UNCHANGED <<deployed, authority, changes>>
    PROVE  proposals' \in Seq(Proposal) /\ Kept /\ DOMAIN proposals' = DOMAIN proposals
<1>1. /\ Len(proposals) \in Nat /\ DOMAIN proposals = 1..Len(proposals)
      /\ \A j \in 1..Len(proposals) : proposals[j] \in Proposal
  BY SeqElement DEF TypeOK
<1>2. [proposals[i] EXCEPT !.status = s] \in Proposal
  BY <1>1 DEF Proposal
<1>3. proposals' \in [1..Len(proposals) -> Proposal]
  BY <1>1, <1>2
<1>4. proposals' \in Seq(Proposal)
  BY <1>1, <1>3
<1>5. ASSUME NEW j \in DOMAIN proposals
      PROVE  /\ proposals'[j].change = proposals[j].change
             /\ proposals'[j].revision = proposals[j].revision
             /\ proposals'[j].source = proposals[j].source
             /\ proposals'[j].discovery_revision = proposals[j].discovery_revision
  <2>1. proposals[j] \in Proposal
    BY <1>1
  <2>2. proposals'[j] = IF j = i THEN [proposals[j] EXCEPT !.status = s] ELSE proposals[j]
    OBVIOUS
  <2> QED BY <2>1, <2>2 DEF Proposal
<1> QED BY <1>3, <1>4, <1>5, PastKept DEF Kept

\* Proposals are applied: their records go on from the live authority.
LEMMA ApplyStep ==
    ASSUME TypeOK, Numbered, NEW ids, GoOn(Records(ids)), ApplyThem(ids), deployed' = deployed
    PROVE  /\ authority' \in Authority /\ changes' \in Seq(ChangeRecord)
           /\ proposals' \in Seq(Proposal) /\ DOMAIN proposals' = DOMAIN proposals
           /\ Kept /\ Numbered'
<1> DEFINE made == Records(ids)
           n == Len(changes)
<1>1. /\ authority' = made[Len(made)].resulting_state
      /\ changes' = changes \o made
      /\ proposals' = [i \in DOMAIN proposals |->
                          IF i \in ToSet(ids) THEN [proposals[i] EXCEPT !.status = "Applied"] ELSE proposals[i]]
  BY DEF ApplyThem, Last
<1> DEFINE Applied(i) == IF i \in ToSet(ids) THEN [proposals[i] EXCEPT !.status = "Applied"] ELSE proposals[i]
<1>2. /\ Len(proposals) \in Nat /\ DOMAIN proposals = 1..Len(proposals)
      /\ \A j \in 1..Len(proposals) : proposals[j] \in Proposal
  BY SeqElement DEF TypeOK
<1>3. ASSUME NEW i \in DOMAIN proposals
      PROVE  /\ Applied(i) \in Proposal
             /\ Applied(i).change = proposals[i].change
             /\ Applied(i).revision = proposals[i].revision
             /\ Applied(i).source = proposals[i].source
             /\ Applied(i).discovery_revision = proposals[i].discovery_revision
  <2>1. proposals[i] \in Proposal
    BY <1>2
  <2> QED BY <2>1 DEF Proposal, Status
<1>4. /\ made \in Seq(ChangeRecord) /\ Len(made) >= 1
      /\ made[1].previous_state = authority
      /\ \A k \in 1..Len(made) : /\ made[k].previous_state.revision = authority.revision + k - 1
                                 /\ made[k].resulting_state.revision = authority.revision + k
  BY DEF GoOn
<1> HIDE DEF made, Applied
<1>5. proposals' = [i \in DOMAIN proposals |-> Applied(i)]
  BY <1>1 DEF Applied
<1>6. proposals' \in [1..Len(proposals) -> Proposal]
  BY <1>2, <1>3, <1>5
<1>7. proposals' \in Seq(Proposal) /\ DOMAIN proposals' = DOMAIN proposals
  BY <1>2, <1>6
<1>8. /\ Len(made) \in Nat /\ \A k \in 1..Len(made) : made[k] \in ChangeRecord
  BY <1>4, SeqElement
<1>9. changes \in Seq(ChangeRecord) /\ n \in Nat /\ authority.revision \in Nat /\ n = authority.revision
  BY SeqElement DEF TypeOK, Authority, Numbered
<1>10. /\ changes' \in Seq(ChangeRecord) /\ Len(changes') = n + Len(made)
       /\ \A k \in 1..n + Len(made) : changes'[k] = IF k <= n THEN changes[k] ELSE made[k - n]
  BY <1>1, <1>4, <1>9, ConcatProperties
<1>11. authority' \in Authority /\ authority'.revision = authority.revision + Len(made)
  BY <1>1, <1>4, <1>8 DEF ChangeRecord
<1>12. Numbered'
  <2>1. Len(changes') = authority'.revision
    BY <1>9, <1>10, <1>11
  <2>2. ASSUME NEW k \in 1..Len(changes')
        PROVE  changes'[k].previous_state.revision = k - 1 /\ changes'[k].resulting_state.revision = k
    <3>1. CASE k <= n
      <4>1. changes'[k] = changes[k] /\ k \in 1..n
        BY <1>8, <1>9, <1>10, <3>1
      <4> QED BY <4>1 DEF Numbered
    <3>2. CASE ~(k <= n)
      <4>1. changes'[k] = made[k - n] /\ k - n \in 1..Len(made)
        BY <1>8, <1>9, <1>10, <3>2
      <4> DEFINE m == k - n
      <4> HIDE DEF m
      <4>2. changes'[k] = made[m] /\ m \in 1..Len(made)
        BY <4>1 DEF m
      <4>3. made[m].previous_state.revision = n + m - 1 /\ made[m].resulting_state.revision = n + m
        BY <4>2, <1>4, <1>9
      <4>4. n + m = k
        BY <1>9 DEF m
      <4> QED BY <4>2, <4>3, <4>4
    <3> QED BY <3>1, <3>2
  <2> QED BY <2>1, <2>2 DEF Numbered
<1>13. ASSUME NEW revision \in 0..authority.revision PROVE StateAt(revision)' = StateAt(revision)
  <2>1. StateAt(revision)' = changes'[revision + 1].previous_state
    BY <1>4, <1>8, <1>9, <1>10 DEF StateAt
  <2>2. CASE revision < n
    BY <2>1, <2>2, <1>8, <1>9, <1>10 DEF StateAt
  <2>3. CASE revision = n
    <3>1. changes'[revision + 1] = made[1]
      <4>1. n + 1 \in 1..n + Len(made) /\ ~(n + 1 <= n) /\ (n + 1) - n = 1
        <5> DEFINE m == Len(made)
        <5>1. m \in Nat /\ m >= 1 /\ n \in Nat
          BY <1>4, <1>8, <1>9
        <5> HIDE DEF m, n
        <5>2. n + 1 \in 1..n + m /\ ~(n + 1 <= n) /\ (n + 1) - n = 1
          BY <5>1
        <5> QED BY <5>2 DEF m, n
      <4>2. changes'[n + 1] = made[(n + 1) - n]
        BY <1>10, <4>1
      <4> QED BY <4>1, <4>2, <2>3
    <3> QED BY <2>1, <2>3, <3>1, <1>4, <1>9 DEF StateAt
  <2> QED BY <2>2, <2>3, <1>9
<1>14. Kept
  BY <1>3, <1>5, <1>8, <1>9, <1>11, <1>13 DEF Kept
<1> QED BY <1>7, <1>10, <1>11, <1>12, <1>14

\* What was inferred stays so.
LEMMA InferredKept ==
    ASSUME TypeOK, ReportInv, Kept, NEW i \in DOMAIN proposals
    PROVE  Inferred(proposals[i])'
<1>1. proposals[i] \in Proposal /\ authority.revision \in Nat
  BY SeqElement DEF TypeOK, Authority
<1>2. proposals[i].revision \in Nat
  BY <1>1 DEF Proposal
<1> DEFINE p == proposals[i]
           q == proposals'[i]
<1>3. /\ q.revision = p.revision /\ q.source = p.source /\ q.change = p.change
      /\ q.discovery_revision = p.discovery_revision
  BY DEF Kept
<1>4. Inferred(p)
  BY DEF ReportInv
<1>5. q.revision <= authority'.revision
  <2>1. p.revision <= authority.revision
    BY <1>4 DEF Inferred
  <2>2. authority.revision <= authority'.revision /\ authority'.revision \in Nat
    BY DEF Kept
  <2> QED BY <1>1, <1>2, <1>3, <2>1, <2>2
<1>6. q.source = "inferred" => q.change \in Protect
  BY <1>3, <1>4 DEF Inferred
<1>7. ASSUME q.discovery_revision # None
      PROVE  \E revision \in 0..q.revision :
                q.discovery_revision = Proposed(StateAt(revision))'.discovery_revision
  <2>1. PICK revision \in 0..p.revision : p.discovery_revision = Proposed(StateAt(revision)).discovery_revision
    BY <1>3, <1>4, <1>7 DEF Inferred
  <2>2. revision \in 0..authority.revision
    BY <1>1, <1>2, <1>4 DEF Inferred
  <2>3. Proposed(StateAt(revision))' = Proposed(StateAt(revision))
    BY <2>2 DEF Proposed, Kept
  <2> QED BY <2>1, <2>3, <1>3
<1> QED BY <1>5, <1>6, <1>7 DEF Inferred

\* A report that is left alone stays true: its items are still listed with
\* the proposals that they were, and what it has read is still the past.
LEMMA ReportKept ==
    ASSUME TypeOK, ReportInv, Kept, NEW r \in Reader, local'[r] = local[r]
    PROVE  SnapshotTrue(r)' /\ ReportTrue(r)'
<1>1. local[r] \in Report /\ authority.revision \in Nat
  BY DEF TypeOK, Authority
<1>2. SnapshotTrue(r) /\ ReportTrue(r)
  BY DEF ReportInv
<1>3. local[r].snapshot.revision \in Nat /\ local[r].revision \in Nat
  BY <1>1 DEF Report, Authority
<1>4. authority'.revision \in Nat /\ authority.revision <= authority'.revision /\ deployed' = deployed
  BY DEF Kept
<1>5. SnapshotTrue(r)'
  <2>1. StateAt(local[r].snapshot.revision)' = StateAt(local[r].snapshot.revision)
    <3> DEFINE s == local[r].snapshot.revision
    <3>1. s \in 0..authority.revision
      BY <1>1, <1>2, <1>3 DEF SnapshotTrue
    <3>2. \A revision \in 0..authority.revision :
            (IF revision < Len(changes') THEN changes'[revision + 1].previous_state ELSE authority')
              = StateAt(revision)
      BY DEF Kept, StateAt
    <3>3. (IF s < Len(changes') THEN changes'[s + 1].previous_state ELSE authority') = StateAt(s)
      <4> HIDE DEF s
      <4> QED BY <3>1, <3>2
    <3> QED BY <3>3 DEF StateAt
  <2> QED BY <1>1, <1>2, <1>3, <1>4, <2>1 DEF SnapshotTrue
<1>6. Proposed(local[r].snapshot)' = Proposed(local[r].snapshot) /\ DiscoveryOf(r)' = DiscoveryOf(r)
  BY <1>4 DEF Proposed, DiscoveryOf
<1>7. InferredIds \subseteq InferredIds'
  BY DEF InferredIds, Kept
<1>8. ASSUME NEW item \in local[r].items PROVE ItemTrue(r, item)'
  <2>1. ItemTrue(r, item)
    BY <1>2 DEF ReportTrue
  <2>2. /\ item.id \in DOMAIN proposals' /\ proposals'[item.id].change = proposals[item.id].change
        /\ proposals'[item.id].revision = proposals[item.id].revision
        /\ proposals'[item.id].discovery_revision = proposals[item.id].discovery_revision
    BY <2>1 DEF ItemTrue, Kept
  <2> QED BY <1>6, <2>1, <2>2 DEF ItemTrue, Protection
<1>9. ReportTrue(r)'
  BY <1>1, <1>2, <1>3, <1>4, <1>6, <1>7, <1>8 DEF ReportTrue
<1> QED BY <1>5, <1>9

\* The first state stays the new authority.
LEMMA NewStays ==
    ASSUME TypeOK, ReportInv, Kept
    PROVE  StateAt(0)' = NewAuthority
<1>1. authority.revision \in Nat
  BY DEF TypeOK, Authority
<1>2. 0 \in 0..authority.revision
  BY <1>1
<1>3. StateAt(0)' = StateAt(0)
  BY <1>2 DEF Kept
<1> QED BY <1>3 DEF ReportInv

\* What is left to show of a step: the types, the proposals it stores and the
\* reports it goes on with.
LEMMA Whole ==
    ASSUME TypeOK, ReportInv, Kept, Numbered',
           authority' \in Authority, proposals' \in Seq(Proposal), changes' \in Seq(ChangeRecord),
           local' \in [Reader -> Report],
           \A i \in DOMAIN proposals' : i \in DOMAIN proposals \/ Inferred(proposals[i])',
           \A r \in Reader : local'[r] = local[r] \/ (SnapshotTrue(r)' /\ ReportTrue(r)')
    PROVE  TypeOK' /\ ReportInv'
<1>1. \A i \in DOMAIN proposals' : Inferred(proposals[i])'
  BY InferredKept
<1>2. \A r \in Reader : SnapshotTrue(r)' /\ ReportTrue(r)'
  BY ReportKept
<1>3. deployed' \in Deployments
  BY DEF Kept, TypeOK
<1>4. StateAt(0)' = NewAuthority
  BY NewStays
<1> QED BY <1>1, <1>2, <1>3, <1>4 DEF TypeOK, ReportInv

\* The same of a step that only goes on with one report.
LEMMA ReadWhole ==
    ASSUME TypeOK, ReportInv, UNCHANGED <<deployed, authority, proposals, changes>>,
           NEW r \in Reader, NEW l \in Report, local' = [local EXCEPT ![r] = l],
           SnapshotTrue(r)', ReportTrue(r)'
    PROVE  TypeOK' /\ ReportInv'
<1>1. Kept /\ Numbered'
  BY SameStep, PastKept DEF ReportInv
<1>2. authority' \in Authority /\ proposals' \in Seq(Proposal) /\ changes' \in Seq(ChangeRecord)
  BY DEF TypeOK
<1>3. local' \in [Reader -> Report] /\ \A q \in Reader : q # r => local'[q] = local[q]
  BY DEF TypeOK
<1> QED BY <1>1, <1>2, <1>3, Whole

\* An idle client has nothing to keep.
LEMMA IdleReport ==
    ASSUME authority' \in Authority, changes' \in Seq(ChangeRecord), Numbered',
           StateAt(0)' = NewAuthority, NEW r \in Reader, local'[r] = Idle
    PROVE  Idle \in Report /\ SnapshotTrue(r)' /\ ReportTrue(r)'
<1>1. NewAuthority \in Authority /\ NewAuthority.revision = 0
  BY DEF NewAuthority, Authority, Content
<1>2. Idle \in Report
  BY <1>1 DEF Idle, Report
<1>3. authority'.revision \in Nat
  BY DEF Authority
<1>4. SnapshotTrue(r)'
  BY <1>1, <1>3 DEF SnapshotTrue, Idle
<1>5. ReportTrue(r)'
  BY DEF ReportTrue, Idle, Reading
<1> QED BY <1>2, <1>4, <1>5

(***************************************************************************)
(* How bodies are read.                                                    *)
(***************************************************************************)

\* The words that parse_authority_change looks for.
Words == {"protect_route", "unprotect_route", "set_policy", "set_capability_policy", "set_provider_enabled",
          "enable_provider", "disable_provider", "password_policy", "set_password_policy", "revert"}

\* The first test that is met decides the kind.
LEMMA KindFirst ==
    ASSUME NEW body, NEW i \in 1..6, \E word \in Tests[i].words : HoldsWord(body, word),
           \A j \in 1..6 : j < i => \A word \in Tests[j].words : ~HoldsWord(body, word)
    PROVE  KindOf(body) = Tests[i].kind
<1> DEFINE found == {k \in DOMAIN Tests : \E word \in Tests[k].words : HoldsWord(body, word)}
<1>1. DOMAIN Tests = 1..6
  BY DEF Tests
<1>2. i \in found /\ found \subseteq 1..6 /\ \A k \in found : i <= k
  BY <1>1
<1>3. KindOf(body) = IF found = {} THEN None ELSE Tests[Least(found)].kind
  BY DEF KindOf
<1> HIDE DEF found
<1> DEFINE m == Least(found)
<1>4. found \subseteq Nat /\ found # {}
  BY <1>2
<1>5. m \in found /\ \A k \in found : m <= k
  BY <1>4, LeastNumber
<1> HIDE DEF m
<1>6. m \in Nat /\ i \in Nat /\ m <= i /\ i <= m
  BY <1>2, <1>4, <1>5
<1>7. m = i
  BY <1>6
<1> QED BY <1>2, <1>3, <1>7 DEF m

\* The tests, as a table.
LEMMA TestTable ==
    /\ Tests[1] = [words |-> {"protect_route"}, kind |-> "ProtectRoute"]
    /\ Tests[2] = [words |-> {"unprotect_route"}, kind |-> "UnprotectRoute"]
    /\ Tests[3] = [words |-> {"set_policy", "set_capability_policy"}, kind |-> "SetCapabilityPolicy"]
    /\ Tests[4] = [words |-> {"set_provider_enabled", "enable_provider", "disable_provider"},
                   kind |-> "SetProviderEnabled"]
    /\ Tests[5] = [words |-> {"password_policy", "set_password_policy"}, kind |-> "SetPasswordPolicy"]
    /\ Tests[6] = [words |-> {"revert"}, kind |-> "Revert"]
BY DEF Tests, Test

Kinds == [protect_route |-> 1, set_policy |-> 3, set_capability_policy |-> 3, enable_provider |-> 4,
          disable_provider |-> 4, set_password_policy |-> 5, revert |-> 6]

\* The words of the tests.
LEMMA WordsOfTests == DOMAIN Tests = 1..6 /\ CommandWords = Words
<1>1. DOMAIN Tests = 1..6
  BY DEF Tests
<1>2. CommandWords = UNION {Tests[i].words : i \in 1..6}
  BY <1>1 DEF CommandWords
<1>3. 1..6 = {1, 2, 3, 4, 5, 6}
  OBVIOUS
<1>4. CommandWords = Tests[1].words \cup Tests[2].words \cup Tests[3].words \cup Tests[4].words
                         \cup Tests[5].words \cup Tests[6].words
  BY <1>2, <1>3
<1> QED BY <1>1, <1>4, TestTable DEF Words

\* The words that mislead a verb of the test k.
LEMMA MisleadingBefore ==
    ASSUME NEW w, NEW k \in 1..6, \A i \in 1..6 : w \in Tests[i].words <=> i = k
    PROVE  Misleading(w) = {word \in Words : \E j \in 1..6 : j < k /\ word \in Tests[j].words}
                               \cup (IF w = "disable_provider" THEN {"enable_provider"} ELSE {})
BY WordsOfTests DEF Misleading

\* They are, verb by verb:
LEMMA MisleadingTable ==
    /\ Misleading("protect_route") = {}
    /\ \A w \in {"set_policy", "set_capability_policy"} : Misleading(w) = {"protect_route", "unprotect_route"}
    /\ Misleading("enable_provider")
         = {"protect_route", "unprotect_route", "set_policy", "set_capability_policy"}
    /\ Misleading("disable_provider")
         = {"protect_route", "unprotect_route", "set_policy", "set_capability_policy", "enable_provider"}
    /\ Misleading("set_password_policy") = Words \ {"password_policy", "set_password_policy", "revert"}
    /\ Misleading("revert") = Words \ {"revert"}
<1> DEFINE Before(k) == {word \in Words : \E j \in 1..6 : j < k /\ word \in Tests[j].words}
<1>1. 1..6 = {1, 2, 3, 4, 5, 6}
  OBVIOUS
<1>2. Before(1) = {}
  BY <1>1
<1>3. Before(3) = {"protect_route", "unprotect_route"}
  BY <1>1, TestTable DEF Words
<1>4. Before(4) = {"protect_route", "unprotect_route", "set_policy", "set_capability_policy"}
  BY <1>1, TestTable DEF Words
<1>5. Before(5) = Words \ {"password_policy", "set_password_policy", "revert"}
  BY <1>1, TestTable DEF Words
<1>6. Before(6) = Words \ {"revert"}
  BY <1>1, TestTable DEF Words
<1>7. \A i \in 1..6 : "protect_route" \in Tests[i].words <=> i = 1
  BY <1>1, TestTable
<1>8. \A w \in {"set_policy", "set_capability_policy"} : \A i \in 1..6 : w \in Tests[i].words <=> i = 3
  BY <1>1, TestTable
<1>9. \A w \in {"enable_provider", "disable_provider"} : \A i \in 1..6 : w \in Tests[i].words <=> i = 4
  BY <1>1, TestTable
<1>10. \A i \in 1..6 : "set_password_policy" \in Tests[i].words <=> i = 5
  BY <1>1, TestTable
<1>11. \A i \in 1..6 : "revert" \in Tests[i].words <=> i = 6
  BY <1>1, TestTable
<1>12. \A w : \A k \in 1..6 : (\A i \in 1..6 : w \in Tests[i].words <=> i = k) =>
          Misleading(w) = Before(k) \cup (IF w = "disable_provider" THEN {"enable_provider"} ELSE {})
  BY MisleadingBefore
<1> HIDE DEF Before
<1> QED BY <1>2, <1>3, <1>4, <1>5, <1>6, <1>7, <1>8, <1>9, <1>10, <1>11, <1>12

\* A misleading word is not in the verb's own word, and what holds one is one.
LEMMA MisleadingWords ==
    ASSUME NEW w \in DOMAIN Kinds, NEW word \in Misleading(w)
    PROVE  /\ word \in Words /\ word # "type" /\ ~Holds(w, word)
           /\ \A longer \in Words : Holds(longer, word) => longer \in Misleading(w)
<1>1. word \in Words /\ word # "type"
  BY MisleadingTable DEF Kinds, Words
<1>2. ~Holds(w, word)
  BY MisleadingTable DEF Kinds, Words, Holds, Within
<1>3. ASSUME NEW longer \in Words, Holds(longer, word) PROVE longer \in Misleading(w)
  <2>1. CASE longer = word
    BY <2>1
  <2>2. CASE longer = "unprotect_route" /\ word = "protect_route"
    BY <2>2, MisleadingTable DEF Kinds, Words
  <2>3. CASE longer = "set_password_policy" /\ word = "password_policy"
    BY <2>3, MisleadingTable DEF Kinds, Words
  <2> QED BY <1>3, <2>1, <2>2, <2>3 DEF Holds, Within
<1> QED BY <1>1, <1>2, <1>3

\* A body names the kind of its change by the word w: it has it, and none that
\* is looked for before.
Names(body, w) == HoldsWord(body, w) /\ \A word \in Misleading(w) : ~HoldsWord(body, word)

\* A text that holds no misleading word.
QuietField(f, w) ==
    f.kind = "text" /\ f.name \in DOMAIN Mentions =>
        \A m \in Mentions[f.name] : m.text = f.value => m.word \notin Misleading(w)

\* A body is made of its word and of fields that do not mislead.
LEMMA NamesOne ==
    ASSUME NEW body, NEW w \in DOMAIN Kinds, NEW t, t.kind = "word", t.value = w, t.name = "type", NEW F,
           \A i \in DOMAIN body : body[i] = t \/ body[i] \in F, \E i \in DOMAIN body : body[i] = t,
           \A f \in F : f.kind # "word" /\ f.name \notin Words /\ QuietField(f, w)
    PROVE  Names(body, w)
<1>1. HoldsWord(body, w)
  BY DEF HoldsWord, Holds
<1>2. ASSUME NEW word \in Misleading(w), HoldsWord(body, word) PROVE FALSE
  <2>1. word \in Words /\ word # "type" /\ ~Holds(w, word)
    BY MisleadingWords
  <2>2. PICK i \in DOMAIN body :
          \/ body[i].kind = "word" /\ Holds(body[i].value, word)
          \/ body[i].name = word
          \/ /\ body[i].kind = "text" /\ body[i].name \in DOMAIN Mentions
             /\ \E m \in Mentions[body[i].name] : m.text = body[i].value /\ Holds(m.word, word)
    BY <1>2 DEF HoldsWord
  <2>3. CASE body[i] = t
    BY <2>1, <2>2, <2>3
  <2>4. CASE body[i] \in F
    <3>1. /\ body[i].kind = "text" /\ body[i].name \in DOMAIN Mentions
          /\ \E m \in Mentions[body[i].name] : m.text = body[i].value /\ Holds(m.word, word)
      BY <2>1, <2>2, <2>4
    <3>2. PICK m \in Mentions[body[i].name] : m.text = body[i].value /\ Holds(m.word, word)
      BY <3>1
    <3>3. m.word \in Words
      BY <3>1, WordsOfTests, RequestAssumption
    <3>4. m.word \in Misleading(w)
      BY <3>2, <3>3, MisleadingWords
    <3>5. m.word \notin Misleading(w)
      BY <2>4, <3>1, <3>2 DEF QuietField
    <3> QED BY <3>4, <3>5
  <2> QED BY <2>3, <2>4
<1> QED BY <1>1, <1>2 DEF Names

\* The first test that is met is that of its word.
LEMMA KindRead ==
    ASSUME NEW w \in DOMAIN Kinds, NEW body, Names(body, w)
    PROVE  KindOf(body) = Tests[Kinds[w]].kind
<1>1. Kinds[w] \in 1..6 /\ w \in Tests[Kinds[w]].words
  BY TestTable DEF Kinds
<1>2. HoldsWord(body, w)
  BY DEF Names
<1>3. ASSUME NEW j \in 1..6, j < Kinds[w], NEW word \in Tests[j].words PROVE ~HoldsWord(body, word)
  <2>1. word \in CommandWords
    BY WordsOfTests DEF CommandWords
  <2>2. word \in Misleading(w)
    BY <1>1, <1>3, <2>1, WordsOfTests DEF Misleading
  <2> QED BY <2>2 DEF Names
<1> QED BY <1>1, <1>2, <1>3, KindFirst

Only(body, i, name) ==
    /\ DOMAIN body \subseteq Nat
    /\ i \in DOMAIN body /\ body[i].name = name
    /\ \A j \in DOMAIN body : body[j].name = name => body[j] = body[i]

\* A field that is the only one of its name is the one that is read.
LEMMA ExtractOnly ==
    ASSUME NEW body, NEW i, NEW name, NEW kinds, Only(body, i, name)
    PROVE  Extract(body, name, kinds) = IF body[i].kind \in kinds THEN body[i].value ELSE None
<1> DEFINE at == {j \in DOMAIN body : body[j].name = name}
<1>1. i \in at /\ at \subseteq Nat
  BY DEF Only
<1>2. \A j \in at : body[j] = body[i]
  BY DEF Only
<1>3. Extract(body, name, kinds)
        = IF at = {} THEN None ELSE IF body[Least(at)].kind \in kinds THEN body[Least(at)].value ELSE None
  BY DEF Extract
<1> HIDE DEF at
<1>4. Least(at) \in at
  BY <1>1, LeastNumber
<1> QED BY <1>1, <1>2, <1>3, <1>4

\* No field of a name, nothing to read.
LEMMA ExtractNone ==
    ASSUME NEW body, NEW name, NEW kinds, \A j \in DOMAIN body : body[j].name # name
    PROVE  Extract(body, name, kinds) = None
BY DEF Extract

\* The body of a revert is read as the revert it was written for.
LEMMA RevertRead ==
    ASSUME NEW id, id # None
    PROVE  parse_authority_change(BodyOf(Command("cli", "revert", [change_id |-> id])))
             = [type |-> "Revert", change_id |-> id]
<1> DEFINE body == <<BodyField("type", "word", "revert", TRUE), BodyField("change_id", "text", id, TRUE)>>
<1>1. BodyOf(Command("cli", "revert", [change_id |-> id])) = body
  BY DEF BodyOf, Command, RevertBody
<1>2. /\ DOMAIN body = 1..2
      /\ body[1] = [name |-> "type", kind |-> "word", value |-> "revert", spaced |-> TRUE]
      /\ body[2] = [name |-> "change_id", kind |-> "text", value |-> id, spaced |-> TRUE]
  BY DEF BodyField
<1> HIDE DEF body
<1>3. Names(body, "revert")
  <2>1. body[2].kind # "word" /\ body[2].name \notin Words /\ QuietField(body[2], "revert")
    BY <1>2, RequestAssumption DEF Words, QuietField
  <2>2. "revert" \in DOMAIN Kinds
    BY DEF Kinds
  <2>3. body[1].kind = "word" /\ body[1].value = "revert" /\ body[1].name = "type"
    BY <1>2
  <2> DEFINE t == body[1]
             F == {body[2]}
  <2>4. 1..2 = {1, 2}
    OBVIOUS
  <2>5. /\ \A i \in DOMAIN body : body[i] = t \/ body[i] \in F
        /\ \E i \in DOMAIN body : body[i] = t
    BY <1>2, <2>4
  <2>6. \A f \in F : f.kind # "word" /\ f.name \notin Words /\ QuietField(f, "revert")
    BY <2>1
  <2>7. t.kind = "word" /\ t.value = "revert" /\ t.name = "type"
    BY <2>3
  <2> HIDE DEF t, F
  <2> QED BY <2>2, <2>5, <2>6, <2>7, NamesOne
<1>4. KindOf(body) = "Revert"
  <2>1. "revert" \in DOMAIN Kinds /\ Kinds["revert"] = 6
    BY DEF Kinds
  <2> QED BY <1>3, <2>1, KindRead, TestTable
<1>5. extract_quoted_field(body, "change_id") = id
  <2>1. Only(body, 2, "change_id")
    <3>1. body[1].name # "change_id" /\ body[2].name = "change_id"
      BY <1>2
    <3> QED BY <1>2, <3>1 DEF Only
  <2>2. Extract(body, "change_id", {"word", "text"})
          = IF body[2].kind \in {"word", "text"} THEN body[2].value ELSE None
    BY <2>1, ExtractOnly
  <2> QED BY <1>2, <2>2 DEF extract_quoted_field
<1>6. Required(body, {"change_id"}, [type |-> "Revert", change_id |-> id]) = [type |-> "Revert", change_id |-> id]
  BY <1>5 DEF Required
<1> QED BY <1>1, <1>4, <1>5, <1>6 DEF parse_authority_change

(***************************************************************************)
(* The steps, one by one.                                                  *)
(***************************************************************************)

\* A client's command is stored as an explicit proposal (propose).
LEMMA ProposeStep ==
    ASSUME TypeOK, ReportInv, ProposeChange
    PROVE  TypeOK' /\ ReportInv'
<1>1. PICK command \in deployed.commands \cup Reverts : Propose(command)
  BY DEF ProposeChange
<1> DEFINE change == parse_authority_change(BodyOf(command))
           new == Stored(change, "explicit", None)
<1>2. /\ UNCHANGED <<deployed, authority, changes, local>>
      /\ BodyOf(command) # Error
      /\ \/ proposals' = proposals
         \/ change # Error /\ Previewed(authority, change) # Error /\ proposals' = Append(proposals, new)
  BY <1>1 DEF Propose
<1>3. local' \in [Reader -> Report] /\ \A r \in Reader : local'[r] = local[r]
  BY <1>2 DEF TypeOK
<1>4. authority' \in Authority /\ changes' \in Seq(ChangeRecord) /\ Numbered'
  BY <1>2, PastKept DEF TypeOK, ReportInv
<1>5. CASE proposals' = proposals
  <2>1. Kept /\ proposals' \in Seq(Proposal)
    BY <1>2, <1>5, SameStep DEF TypeOK
  <2> QED BY <1>3, <1>4, <1>5, <2>1, Whole
<1>6. CASE change # Error /\ proposals' = Append(proposals, new)
  <2>1. change \in ReportChange
    <3>1. CASE command \in deployed.commands
      <4>1. WellFormed(deployed)
        BY BoundaryAssumption DEF TypeOK
      <4> QED BY <1>2, <1>6, <3>1, <4>1 DEF WellFormed, ReportChange
    <3>2. CASE command \in Reverts
      <4>1. PICK id \in DOMAIN changes : command = Command("cli", "revert", [change_id |-> id])
        BY <3>2 DEF Reverts
      <4>2. id \in Nat
        BY <4>1, SeqElement DEF TypeOK
      <4>3. change = [type |-> "Revert", change_id |-> id]
        <5>1. id # None
          BY <4>2, BoundaryAssumption
        <5> QED BY <4>1, <5>1, RevertRead
      <4> QED BY <4>2, <4>3 DEF ReportChange
    <3> QED BY <3>1, <3>2
  <2>2. new \in Proposal
    <3>1. authority.revision \in Nat
      BY DEF TypeOK, Authority
    <3> HIDE DEF change
    <3> QED BY <2>1, <3>1 DEF Stored, Proposal, Status, Discoveries
  <2> HIDE DEF new
  <2>3. /\ proposals' \in Seq(Proposal) /\ Kept
        /\ Len(proposals') = Len(proposals) + 1
        /\ proposals'[Len(proposals) + 1] = new
    BY <1>2, <1>6, <2>2, AppendStep
  <2>4. ASSUME NEW i \in DOMAIN proposals', i \notin DOMAIN proposals PROVE Inferred(proposals[i])'
    <3>1. i = Len(proposals) + 1
      BY <2>3, <2>4, SeqElement DEF TypeOK
    <3>2. proposals'[i] = new
      BY <2>3, <3>1
    <3>3. authority.revision \in Nat /\ authority' = authority
      BY <1>2 DEF TypeOK, Authority
    <3>4. new.revision = authority.revision /\ new.source = "explicit" /\ new.discovery_revision = None
      BY DEF new, Stored
    <3> QED BY <3>2, <3>3, <3>4 DEF Inferred
  <2> QED BY <1>3, <1>4, <2>3, <2>4, Whole
<1> QED BY <1>2, <1>5, <1>6

\* A client approves or rejects a proposal.
LEMMA ReviewStep ==
    ASSUME TypeOK, ReportInv, Approve \/ Reject
    PROVE  TypeOK' /\ ReportInv'
<1>1. PICK i \in DOMAIN proposals, s \in Status : proposals' = [proposals EXCEPT ![i].status = s]
  BY DEF Approve, Reject, SetStatus, Status
<1>2. UNCHANGED <<deployed, authority, changes, local>>
  BY DEF Approve, Reject
<1>3. proposals' \in Seq(Proposal) /\ Kept /\ DOMAIN proposals' = DOMAIN proposals
  BY <1>1, <1>2, StatusStep
<1>4. authority' \in Authority /\ changes' \in Seq(ChangeRecord) /\ Numbered'
  BY <1>2, PastKept DEF TypeOK, ReportInv
<1>5. local' \in [Reader -> Report] /\ \A r \in Reader : local'[r] = local[r]
  BY <1>2 DEF TypeOK
<1> QED BY <1>3, <1>4, <1>5, Whole

\* A client applies an approved proposal.
LEMMA ApplyOneStep ==
    ASSUME TypeOK, ReportInv, Apply
    PROVE  TypeOK' /\ ReportInv'
<1>1. PICK i \in DOMAIN proposals : IsCurrent(proposals[i]) /\ ApplyThem(<<i>>)
  BY DEF Apply
<1>2. UNCHANGED <<deployed, local>> /\ Numbered
  BY DEF Apply, ReportInv
<1>3. GoOn(Records(<<i>>))
  BY <1>1, OneRecord DEF IsCurrent
<1>4. /\ authority' \in Authority /\ changes' \in Seq(ChangeRecord)
      /\ proposals' \in Seq(Proposal) /\ DOMAIN proposals' = DOMAIN proposals
      /\ Kept /\ Numbered'
  BY <1>1, <1>2, <1>3, ApplyStep
<1>5. local' \in [Reader -> Report] /\ \A r \in Reader : local'[r] = local[r]
  BY <1>2 DEF TypeOK
<1> QED BY <1>4, <1>5, Whole

\* apply --all: a batch is applied, or nothing is.
LEMMA ApplyBulkStep ==
    ASSUME TypeOK, ReportInv, NEW r \in Reader, ApplyBulk(r)
    PROVE  TypeOK' /\ ReportInv'
<1> DEFINE ids == local[r].ids
<1>1. /\ local[r].pc = "listed" /\ deployed' = deployed /\ Numbered
      /\ local' = [local EXCEPT ![r] = Idle]
      /\ ApplyThem(ids) \/ UNCHANGED <<authority, proposals, changes>>
  BY DEF ApplyBulk, Read, ReportInv
<1>2. local[r] \in Report /\ ReportTrue(r) /\ \A i \in DOMAIN proposals : Inferred(proposals[i])
  BY DEF TypeOK, ReportInv
<1>3. ids \in Seq(InferredIds) /\ ids # <<>>
  <2>1. ids \in Seq(Nat)
    BY <1>2 DEF Report
  <2>2. \A k \in 1..Len(ids) : ids[k] \in InferredIds
    BY <1>2 DEF ReportTrue
  <2>3. ids # <<>>
    BY <1>1, <1>2 DEF ReportTrue
  <2>4. Len(ids) \in Nat /\ DOMAIN ids = 1..Len(ids) /\ ids = [k \in 1..Len(ids) |-> ids[k]]
    BY <2>1, SeqElement
  <2> HIDE DEF ids
  <2> QED BY <2>2, <2>3, <2>4
<1>4. /\ authority' \in Authority /\ changes' \in Seq(ChangeRecord)
      /\ proposals' \in Seq(Proposal) /\ DOMAIN proposals' = DOMAIN proposals
      /\ Kept /\ Numbered'
  <2>1. CASE ApplyThem(ids)
    <3> HIDE DEF ids
    <3>1. GoOn(Records(ids))
      BY <1>2, <1>3, BatchRecords
    <3> QED BY <1>1, <2>1, <3>1, ApplyStep
  <2>2. CASE UNCHANGED <<authority, proposals, changes>>
    BY <1>1, <2>2, SameStep, PastKept DEF TypeOK
  <2> QED BY <1>1, <2>1, <2>2
<1>5. StateAt(0)' = NewAuthority
  BY <1>4, NewStays
<1>6. local'[r] = Idle /\ \A q \in Reader : q # r => local'[q] = local[q]
  BY <1>1 DEF TypeOK
<1>7. Idle \in Report /\ SnapshotTrue(r)' /\ ReportTrue(r)'
  BY <1>4, <1>5, <1>6, IdleReport
<1>8. local' \in [Reader -> Report]
  BY <1>1, <1>7 DEF TypeOK
<1> QED BY <1>4, <1>6, <1>7, <1>8, Whole

\* A report that goes on with what it has: its items and its snapshot stay
\* true, the rest is what it goes on with.
LEMMA Resumed ==
    ASSUME TypeOK, ReportInv, Kept, NEW r \in Reader, NEW l, local'[r] = l,
           local[r].pc \in Reading, l.pc \in Reading,
           l.snapshot = local[r].snapshot, l.revision = local[r].revision,
           \A item \in l.items : item \in local[r].items \/ ItemTrue(r, item)',
           \A k \in 1..Len(l.todo) : l.todo[k] \in Proposed(l.snapshot).recommendations,
           l.pc \in {"find", "store"} => l.todo # <<>>,
           l.pc \in {"listed", "approving"} => l.ids # <<>>,
           \A k \in 1..Len(l.ids) : l.ids[k] \in InferredIds'
    PROVE  SnapshotTrue(r)' /\ ReportTrue(r)'
<1>1. local[r] \in Report /\ authority.revision \in Nat
  BY DEF TypeOK, Authority
<1>2. SnapshotTrue(r) /\ ReportTrue(r)
  BY DEF ReportInv
<1>3. l.snapshot.revision \in Nat /\ l.revision \in Nat
  BY <1>1 DEF Report, Authority
<1>4. authority'.revision \in Nat /\ authority.revision <= authority'.revision /\ deployed' = deployed
  BY DEF Kept
<1>5. SnapshotTrue(r)'
  <2> DEFINE s == l.snapshot.revision
  <2>1. s \in 0..authority.revision
    BY <1>1, <1>2, <1>3 DEF SnapshotTrue
  <2>2. \A revision \in 0..authority.revision :
          (IF revision < Len(changes') THEN changes'[revision + 1].previous_state ELSE authority')
            = StateAt(revision)
    BY DEF Kept, StateAt
  <2>3. (IF s < Len(changes') THEN changes'[s + 1].previous_state ELSE authority') = StateAt(s)
    <3> HIDE DEF s
    <3> QED BY <2>1, <2>2
  <2>4. StateAt(local[r].snapshot.revision)' = StateAt(local[r].snapshot.revision)
    BY <2>3 DEF StateAt
  <2> QED BY <1>1, <1>2, <1>3, <1>4, <2>4 DEF SnapshotTrue
<1>6. Proposed(local[r].snapshot)' = Proposed(local[r].snapshot) /\ DiscoveryOf(r)' = DiscoveryOf(r)
  BY <1>4 DEF Proposed, DiscoveryOf
<1>7. ASSUME NEW item \in l.items PROVE ItemTrue(r, item)'
  <2>1. SUFFICES ASSUME item \in local[r].items PROVE ItemTrue(r, item)'
    OBVIOUS
  <2>2. ItemTrue(r, item)
    BY <1>2, <2>1 DEF ReportTrue
  <2>3. /\ item.id \in DOMAIN proposals' /\ proposals'[item.id].change = proposals[item.id].change
        /\ proposals'[item.id].revision = proposals[item.id].revision
        /\ proposals'[item.id].discovery_revision = proposals[item.id].discovery_revision
    BY <2>2 DEF ItemTrue, Kept
  <2> QED BY <1>6, <2>2, <2>3 DEF ItemTrue, Protection
<1>8. local[r].snapshot.revision <= local[r].revision /\ local[r].revision <= authority.revision
  BY <1>2 DEF ReportTrue
<1>9. ReportTrue(r)'
  BY <1>1, <1>3, <1>4, <1>6, <1>7, <1>8 DEF ReportTrue
<1> QED BY <1>5, <1>9

\* approve --all: the next proposal of the list.
LEMMA ApproveNextStep ==
    ASSUME TypeOK, ReportInv, NEW r \in Reader, ApproveNext(r)
    PROVE  TypeOK' /\ ReportInv'
<1> DEFINE ids == local[r].ids
           i == Head(ids)
           on == [local[r] EXCEPT !.pc = "approving", !.ids = Tail(@)]
<1>1. /\ local[r].pc \in {"listed", "approving"}
      /\ UNCHANGED <<deployed, authority, changes>>
      /\ proposals' = proposals \/ proposals' = [proposals EXCEPT ![i].status = "Approved"]
      /\ \/ local' = [local EXCEPT ![r] = Idle]
         \/ Len(ids) > 1 /\ local' = [local EXCEPT ![r] = on]
  BY DEF ApproveNext, Read
<1>2. local[r] \in Report /\ ReportTrue(r) /\ SnapshotTrue(r)
  BY DEF TypeOK, ReportInv
<1>3. ids \in Seq(Nat) /\ ids # <<>> /\ \A k \in 1..Len(ids) : ids[k] \in InferredIds
  BY <1>1, <1>2 DEF Report, ReportTrue
<1>4. i \in DOMAIN proposals
  <2> HIDE DEF ids
  <2>1. i = ids[1] /\ 1 \in 1..Len(ids)
    BY <1>3, SeqElement, EmptySeq
  <2> QED BY <1>3, <2>1 DEF InferredIds
<1>5. authority' \in Authority /\ changes' \in Seq(ChangeRecord) /\ Numbered'
  BY <1>1, PastKept DEF TypeOK, ReportInv
<1>6. proposals' \in Seq(Proposal) /\ Kept /\ DOMAIN proposals' = DOMAIN proposals
  <2>1. CASE proposals' = proposals
    BY <1>1, <2>1, SameStep DEF TypeOK
  <2>2. CASE proposals' = [proposals EXCEPT ![i].status = "Approved"]
    <3> HIDE DEF i
    <3>1. "Approved" \in Status
      BY DEF Status
    <3> QED BY <1>1, <1>4, <2>2, <3>1, StatusStep
  <2> QED BY <1>1, <2>1, <2>2
<1>7. \A q \in Reader : q # r => local'[q] = local[q]
  BY <1>1 DEF TypeOK
<1>8. CASE local' = [local EXCEPT ![r] = Idle]
  <2>1. local'[r] = Idle
    BY <1>8 DEF TypeOK
  <2>2. Idle \in Report /\ SnapshotTrue(r)' /\ ReportTrue(r)'
    BY <1>5, <1>6, <2>1, NewStays, IdleReport
  <2>3. local' \in [Reader -> Report]
    BY <1>8, <2>2 DEF TypeOK
  <2> QED BY <1>5, <1>6, <1>7, <2>2, <2>3, Whole
<1>9. CASE Len(ids) > 1 /\ local' = [local EXCEPT ![r] = on]
  <2>1. /\ Tail(ids) \in Seq(Nat) /\ Len(Tail(ids)) = Len(ids) - 1
        /\ \A k \in 1..Len(Tail(ids)) : Tail(ids)[k] = ids[k + 1]
    <3> HIDE DEF ids
    <3> QED BY <1>3, HeadTailProperties
  <2>2. /\ on \in Report
        /\ on.pc = "approving" /\ on.ids = Tail(ids)
        /\ on.snapshot = local[r].snapshot /\ on.revision = local[r].revision
        /\ on.todo = local[r].todo /\ on.items = local[r].items
    BY <1>2, <2>1 DEF Report
  <2> HIDE DEF on
  <2>3. local' \in [Reader -> Report] /\ local'[r] = on
    BY <1>9, <2>2 DEF TypeOK
  <2>4. InferredIds \subseteq InferredIds'
    BY <1>6 DEF Kept, InferredIds
  <2>5. ASSUME NEW k \in 1..Len(on.ids) PROVE on.ids[k] \in InferredIds'
    <3>1. k + 1 \in 1..Len(ids) /\ on.ids[k] = ids[k + 1]
      <4>1. Len(ids) \in Nat
        BY <1>3, SeqElement
      <4> HIDE DEF ids
      <4> QED BY <2>1, <2>2, <4>1
    <3> QED BY <3>1, <1>3, <2>4
  <2>6. on.ids # <<>>
    <3>1. Len(on.ids) = Len(ids) - 1 /\ Len(ids) \in Nat /\ Len(ids) > 1 /\ Len(<<>>) = 0
      BY <1>3, <1>9, <2>1, <2>2, SeqElement
    <3> QED BY <3>1
  <2>7. SnapshotTrue(r)' /\ ReportTrue(r)'
    <3>1. local[r].pc \in Reading /\ on.pc \in Reading /\ on.pc \notin {"find", "store"}
      BY <1>1, <2>2 DEF Reading
    <3>2. \A item \in on.items : item \in local[r].items
      BY <2>2
    <3>3. \A k \in 1..Len(on.todo) : on.todo[k] \in Proposed(on.snapshot).recommendations
      BY <1>2, <2>2 DEF ReportTrue
    <3> QED BY <1>6, <2>2, <2>3, <2>5, <2>6, <3>1, <3>2, <3>3, Resumed
  <2> QED BY <1>5, <1>6, <1>7, <2>3, <2>7, Whole
<1> QED BY <1>1, <1>8, <1>9

\* The sequence that is made of a finite set has its elements.
LEMMA SetToSeqType ==
    ASSUME NEW S, IsFiniteSet(S)
    PROVE  SetToSeq(S) \in Seq(S)
<1> DEFINE n == Cardinality(S)
<1>1. n \in Nat /\ ExistsBijection(1..n, S)
  BY FS_CardinalityType, FS_NatBijection, FS_CountingElements
<1>2. PICK f : f \in Bijection(1..n, S)
  BY <1>1 DEF ExistsBijection
<1>3. f \in [1..n -> S] /\ IsInjective(f)
  BY <1>2 DEF Bijection, Injection, IsInjective
<1>4. SetToSeq(S) \in [1..n -> S]
  BY <1>3 DEF SetToSeq
<1> HIDE DEF n
<1> QED BY <1>1, <1>4

\* The values of a function on a finite set are finitely many.
LEMMA FiniteImage ==
    ASSUME NEW S, IsFiniteSet(S), NEW f, DOMAIN f = S, f = [x \in S |-> f[x]]
    PROVE  IsFiniteSet({f[x] : x \in S})
<1> DEFINE T == {f[x] : x \in S}
<1>1. f \in [S -> T] /\ \A y \in T : \E x \in S : f[x] = y
  OBVIOUS
<1>2. f \in Surjection(S, T)
  BY <1>1 DEF Surjection
<1> HIDE DEF T
<1>3. IsFiniteSet(T)
  BY <1>2, FS_Surjection
<1> QED BY <1>3 DEF T

\* What a report describes of a route.
LEMMA Described ==
    ASSUME NEW c, NEW mappings
    PROVE  LET d == describe_route(c, mappings)
               key == Key(c.method, normalize_path(c.path))
               mapped == IF key \in DOMAIN mappings THEN mappings[key] ELSE None
           IN /\ d.key = key
              /\ d.capability = (IF c.capability # None THEN c.capability ELSE mapped)
              /\ d.inference = (IF d.capability # None THEN None ELSE infer_capability(c.method, c.path))
              /\ d.protection = classify_protection(c.path, d.capability)
BY DEF describe_route

\* Recommendations are made of the routes, to protect each with a capability.
LEMMA RecommendationType ==
    ASSUME TypeOK, NEW snapshot
    PROVE  /\ Proposed(snapshot).recommendations \subseteq Recommendation
           /\ IsFiniteSet(Proposed(snapshot).recommendations)
<1> DEFINE m == Mappings(snapshot.content)
           described == {describe_route(c, m) : c \in deployed.routes}
           open == {d \in described : Recommended(d)}
           made == {[key |-> d.key, capability |-> d.inference.capability] : d \in open}
<1>1. Proposed(snapshot).recommendations = made
  BY DEF Proposed, propose_authority
<1>2. WellFormed(deployed)
  BY BoundaryAssumption DEF TypeOK
<1>3. IsFiniteSet(deployed.routes)
  BY <1>2 DEF WellFormed
<1>4. IsFiniteSet(described)
  <2> HIDE DEF m
  <2> DEFINE f == [c \in deployed.routes |-> describe_route(c, m)]
  <2>1. IsFiniteSet({f[c] : c \in deployed.routes})
    <3>1. DOMAIN f = deployed.routes /\ f = [c \in deployed.routes |-> f[c]]
      OBVIOUS
    <3> HIDE DEF f
    <3> QED BY <1>3, <3>1, FiniteImage
  <2>2. described = {f[c] : c \in deployed.routes}
    OBVIOUS
  <2> QED BY <2>1, <2>2
<1>5. IsFiniteSet(open)
  <2> HIDE DEF described
  <2> QED BY <1>4, FS_Subset
<1>6. IsFiniteSet(made)
  <2> HIDE DEF open
  <2> DEFINE f == [d \in open |-> [key |-> d.key, capability |-> d.inference.capability]]
  <2>1. IsFiniteSet({f[d] : d \in open})
    <3>1. DOMAIN f = open /\ f = [d \in open |-> f[d]]
      OBVIOUS
    <3> HIDE DEF f
    <3> QED BY <1>5, <3>1, FiniteImage
  <2>2. made = {f[d] : d \in open}
    OBVIOUS
  <2> QED BY <2>1, <2>2
<1>7. ASSUME NEW c \in deployed.routes, Recommended(describe_route(c, m))
      PROVE  describe_route(c, m).key \in Route /\ describe_route(c, m).inference.capability \in Capability
  <2> DEFINE d == describe_route(c, m)
  <2>1. /\ d.key = Key(c.method, normalize_path(c.path))
        /\ d.inference = (IF d.capability # None THEN None ELSE infer_capability(c.method, c.path))
    BY Described
  <2>2. d.capability = None /\ d.inference # None
    BY <1>7 DEF Recommended
  <2>3. /\ Key(c.method, normalize_path(c.path)) \in Route
        /\ infer_capability(c.method, c.path) = None \/ infer_capability(c.method, c.path).capability \in Capability
    BY <1>2 DEF WellFormed
  <2> HIDE DEF d
  <2>4. d.inference = infer_capability(c.method, c.path)
    BY <2>1, <2>2
  <2>5. d.key \in Route /\ d.inference.capability \in Capability
    BY <2>1, <2>2, <2>3, <2>4
  <2> QED BY <2>5 DEF d
<1>8. made \subseteq Recommendation
  <2> HIDE DEF m
  <2> QED BY <1>7 DEF Recommendation
<1> QED BY <1>1, <1>6, <1>8

\* A report begins with the authority as it is.
LEMMA ReadAuthorityStep ==
    ASSUME TypeOK, ReportInv, NEW r \in Reader, NEW kind \in {"proposal", "reconciliation"},
           ReadAuthority(r, kind)
    PROVE  TypeOK' /\ ReportInv'
<1> DEFINE l == [Idle EXCEPT !.kind = kind, !.snapshot = authority,
                             !.pc = IF kind = "reconciliation" THEN "history" ELSE "revision"]
<1>1. local' = [local EXCEPT ![r] = l] /\ UNCHANGED <<deployed, authority, proposals, changes>>
  BY DEF ReadAuthority, Read
<1>2. NewAuthority \in Authority
  BY DEF NewAuthority, Authority, Content
<1>3. /\ Idle \in Report /\ Idle.todo = <<>> /\ Idle.items = {} /\ Idle.ids = <<>>
      /\ authority \in Authority
  BY <1>2 DEF Idle, Report, TypeOK
<1>4. /\ l \in Report
      /\ l.pc \in {"history", "revision"} /\ l.snapshot = authority
      /\ l.todo = <<>> /\ l.items = {} /\ l.ids = <<>>
  BY <1>3 DEF Report
<1> HIDE DEF l
<1>5. local'[r] = l
  BY <1>1 DEF TypeOK
<1>6. authority.revision \in Nat /\ Len(changes) = authority.revision
  BY DEF TypeOK, Authority, ReportInv, Numbered
<1>7. SnapshotTrue(r)'
  BY <1>1, <1>4, <1>5, <1>6 DEF SnapshotTrue, StateAt
<1>8. ReportTrue(r)'
  BY <1>4, <1>5 DEF ReportTrue, Reading
<1> QED BY <1>1, <1>4, <1>7, <1>8, ReadWhole

\* A report before its revision is read goes on to a step that has no items.
LEMMA Begun ==
    ASSUME TypeOK, ReportInv, UNCHANGED <<deployed, authority, proposals, changes>>,
           NEW r \in Reader, NEW l, local'[r] = l, local[r].pc \in {"history", "revision"},
           l.snapshot = local[r].snapshot, l.items = local[r].items, l.ids = local[r].ids,
           l.pc \in {"revision", "find", "ready"}, l.pc \in {"find", "ready"} => l.revision = authority.revision,
           \A k \in 1..Len(l.todo) : l.todo[k] \in Proposed(l.snapshot).recommendations,
           l.pc = "find" => l.todo # <<>>
    PROVE  SnapshotTrue(r)' /\ ReportTrue(r)'
<1>1. SnapshotTrue(r) /\ ReportTrue(r)
  BY DEF ReportInv
<1>2. SnapshotTrue(r)'
  BY <1>1 DEF SnapshotTrue, StateAt
<1>3. l.items = {}
  BY <1>1 DEF ReportTrue, Reading
<1>4. authority.revision \in Nat
  BY DEF TypeOK, Authority
<1>5. Proposed(l.snapshot)' = Proposed(l.snapshot) /\ InferredIds' = InferredIds
  BY DEF Proposed, InferredIds
<1>6. ReportTrue(r)'
  <2>1. l.pc \in Reading => l.snapshot.revision <= l.revision /\ l.revision <= authority'.revision
    BY <1>1, <1>4 DEF SnapshotTrue, Reading
  <2>2. \A k \in 1..Len(l.ids) : l.ids[k] \in InferredIds'
    BY <1>1, <1>5 DEF ReportTrue
  <2> QED BY <1>3, <1>5, <2>1, <2>2 DEF ReportTrue
<1> QED BY <1>2, <1>6

\* A change that protects a route is one of Protect.
LEMMA ProtectType ==
    ASSUME NEW change \in ReportChange, change.type = "ProtectRoute"
    PROVE  change \in Protect
BY DEF ReportChange, EditChange, Protect

\* The history of the stored proposals is read.
LEMMA ReadHistoryStep ==
    ASSUME TypeOK, ReportInv, NEW r \in Reader, ReadHistory(r)
    PROVE  TypeOK' /\ ReportInv'
<1> DEFINE l == [local[r] EXCEPT !.pc = "revision", !.history = History]
<1>1. /\ local[r].pc = "history" /\ local' = [local EXCEPT ![r] = l]
      /\ UNCHANGED <<deployed, authority, proposals, changes>>
  BY DEF ReadHistory, Read, Step
<1>2. local[r] \in Report /\ ReportTrue(r)
  BY DEF TypeOK, ReportInv
<1>3. History \subseteq [key : Route, status : Status]
  <2>1. \A p \in ToSet(proposals) : p \in Proposal
    BY SeqElement DEF TypeOK, ToSet
  <2>2. ASSUME NEW p \in ToSet(proposals), p.change.type = "ProtectRoute"
        PROVE  p.change.route \in Route /\ p.status \in Status
    <3>1. p.change \in ReportChange /\ p.status \in Status
      BY <2>1 DEF Proposal
    <3>2. p.change \in Protect
      BY <2>2, <3>1, ProtectType
    <3> QED BY <3>1, <3>2 DEF Protect
  <2> QED BY <2>2 DEF History
<1>4. /\ l \in Report
      /\ l.pc = "revision" /\ l.snapshot = local[r].snapshot
      /\ l.todo = local[r].todo /\ l.items = local[r].items /\ l.ids = local[r].ids
  BY <1>2, <1>3 DEF Report
<1> HIDE DEF l
<1>5. local'[r] = l
  BY <1>1 DEF TypeOK
<1>6. \A k \in 1..Len(l.todo) : l.todo[k] \in Proposed(l.snapshot).recommendations
  BY <1>2, <1>4 DEF ReportTrue
<1>7. SnapshotTrue(r)' /\ ReportTrue(r)'
  BY <1>1, <1>4, <1>5, <1>6, Begun
<1> QED BY <1>1, <1>4, <1>7, ReadWhole

\* The revision is read, and the recommendations are put in a row.
LEMMA ReadRevisionStep ==
    ASSUME TypeOK, ReportInv, NEW r \in Reader, ReadRevision(r)
    PROVE  TypeOK' /\ ReportInv'
<1> DEFINE todo == SetToSeq(Proposed(local[r].snapshot).recommendations)
           l == [local[r] EXCEPT !.pc = IF todo = <<>> THEN "ready" ELSE "find",
                                 !.revision = authority.revision, !.todo = todo]
<1>1. /\ local[r].pc = "revision" /\ local' = [local EXCEPT ![r] = l]
      /\ UNCHANGED <<deployed, authority, proposals, changes>>
  BY DEF ReadRevision, Read, Step
<1>2. local[r] \in Report /\ authority.revision \in Nat
  BY DEF TypeOK, Authority
<1>3. /\ todo \in Seq(Proposed(local[r].snapshot).recommendations)
      /\ Proposed(local[r].snapshot).recommendations \subseteq Recommendation
  BY RecommendationType, SetToSeqType
<1>4. todo \in Seq(Recommendation)
  <2> HIDE DEF todo
  <2> QED BY <1>3, SeqMonotonic
<1> HIDE DEF todo
<1>5. /\ l \in Report
      /\ l.pc = (IF todo = <<>> THEN "ready" ELSE "find")
      /\ l.revision = authority.revision /\ l.snapshot = local[r].snapshot
      /\ l.todo = todo /\ l.items = local[r].items /\ l.ids = local[r].ids
  BY <1>2, <1>4 DEF Report
<1> HIDE DEF l
<1>6. local'[r] = l
  BY <1>1 DEF TypeOK
<1>7. \A k \in 1..Len(l.todo) : l.todo[k] \in Proposed(l.snapshot).recommendations
  BY <1>3, <1>5, SeqElement
<1>8. l.pc \in {"revision", "find", "ready"} /\ (l.pc = "find" => l.todo # <<>>)
  BY <1>5
<1>9. SnapshotTrue(r)' /\ ReportTrue(r)'
  BY <1>1, <1>5, <1>6, <1>7, <1>8, Begun
<1> QED BY <1>1, <1>5, <1>9, ReadWhole

\* The status that a listed proposal is shown with.
LEMMA ReviewStatusType ==
    ASSUME NEW stored \in Proposal, NEW revision
    PROVE  /\ ReviewStatus(stored, revision) \in {"stale", "recommended", "approved", "already_protected", "rejected"}
           /\ ReviewStatus(stored, revision) = "stale" <=> stored.revision # revision
<1>1. stored.status \in Status
  BY DEF Proposal
<1>2. CASE stored.revision # revision
  BY <1>2 DEF ReviewStatus
<1>3. CASE stored.revision = revision
  <2>1. CASE stored.status = "Pending"
    BY <1>3, <2>1 DEF ReviewStatus
  <2>2. CASE stored.status = "Approved"
    BY <1>3, <2>2 DEF ReviewStatus
  <2>3. CASE stored.status = "Applied"
    BY <1>3, <2>3 DEF ReviewStatus
  <2>4. CASE stored.status = "Rejected"
    BY <1>3, <2>4 DEF ReviewStatus
  <2> QED BY <1>1, <2>1, <2>2, <2>3, <2>4 DEF Status
<1> QED BY <1>2, <1>3

\* The head of todo is listed with a proposal for it, and the report goes on.
LEMMA ListingStep ==
    ASSUME TypeOK, ReportInv, Kept, NEW r \in Reader, local[r].pc \in {"find", "store"},
           NEW id \in Nat, NEW stored \in Proposal, Listing(r, id, stored),
           id \in DOMAIN proposals', proposals'[id] = stored,
           stored.change = Protection(Head(local[r].todo)), stored.discovery_revision = DiscoveryOf(r)
    PROVE  /\ local' \in [Reader -> Report]
           /\ \A q \in Reader : q # r => local'[q] = local[q]
           /\ SnapshotTrue(r)' /\ ReportTrue(r)'
<1> DEFINE todo == local[r].todo
           head == Head(todo)
           item == [key |-> head.key, capability |-> head.capability, id |-> id,
                    status |-> ReviewStatus(stored, local[r].revision)]
           l == [local[r] EXCEPT !.pc = IF Len(todo) = 1 THEN "ready" ELSE "find",
                                 !.todo = Tail(todo), !.items = @ \cup {item}]
<1>1. local' = [local EXCEPT ![r] = l]
  BY DEF Listing, Read
<1>2. local[r] \in Report /\ ReportTrue(r)
  BY DEF TypeOK, ReportInv
<1>3. /\ todo \in Seq(Recommendation) /\ todo # <<>> /\ Len(todo) \in Nat /\ Len(todo) >= 1
      /\ \A k \in 1..Len(todo) : todo[k] \in Proposed(local[r].snapshot).recommendations
  <2>1. todo \in Seq(Recommendation) /\ todo # <<>>
        /\ \A k \in 1..Len(todo) : todo[k] \in Proposed(local[r].snapshot).recommendations
    BY <1>2 DEF Report, ReportTrue
  <2> HIDE DEF todo
  <2> QED BY <2>1, SeqElement, EmptySeq
<1>4. /\ head = todo[1] /\ 1 \in 1..Len(todo) /\ head \in Recommendation
      /\ Tail(todo) \in Seq(Recommendation) /\ Len(Tail(todo)) = Len(todo) - 1
      /\ \A k \in 1..Len(Tail(todo)) : Tail(todo)[k] = todo[k + 1]
  <2> HIDE DEF todo
  <2> QED BY <1>3, HeadTailProperties, SeqElement
<1>5. /\ item \in Item /\ item.key = head.key /\ item.capability = head.capability /\ item.id = id
      /\ item.status = "stale" <=> stored.revision # local[r].revision
  BY <1>4, ReviewStatusType DEF Item, Recommendation
<1> HIDE DEF item, todo
<1>6. /\ l \in Report
      /\ l.pc = (IF Len(todo) = 1 THEN "ready" ELSE "find")
      /\ l.revision = local[r].revision /\ l.snapshot = local[r].snapshot
      /\ l.todo = Tail(todo) /\ l.items = local[r].items \cup {item} /\ l.ids = local[r].ids
  BY <1>2, <1>4, <1>5 DEF Report
<1> HIDE DEF l
<1>7. local' \in [Reader -> Report] /\ local'[r] = l /\ \A q \in Reader : q # r => local'[q] = local[q]
  BY <1>1, <1>6 DEF TypeOK
<1>8. deployed' = deployed
  BY DEF Kept
<1>9. Proposed(local[r].snapshot)' = Proposed(local[r].snapshot) /\ DiscoveryOf(r)' = DiscoveryOf(r)
  BY <1>6, <1>7, <1>8 DEF Proposed, DiscoveryOf
<1>10. ASSUME NEW it, it = item PROVE ItemTrue(r, it)'
  <2>1. head = [key |-> item.key, capability |-> item.capability]
    BY <1>4, <1>5 DEF Recommendation
  <2>2. head \in Proposed(local[r].snapshot).recommendations
    BY <1>3, <1>4
  <2>3. Protection(item) = Protection(head)
    BY <1>5 DEF Protection
  <2>4. stored.change = Protection(head)
    BY DEF todo
  <2> HIDE DEF head
  <2>5. /\ [key |-> it.key, capability |-> it.capability] \in Proposed(local[r].snapshot)'.recommendations
        /\ it.id \in DOMAIN proposals' /\ proposals'[it.id] = stored
        /\ stored.change = Protection(it) /\ stored.discovery_revision = DiscoveryOf(r)'
        /\ it.status = "stale" <=> stored.revision # local'[r].revision
    BY <1>5, <1>6, <1>7, <1>9, <1>10, <2>1, <2>2, <2>3, <2>4
  <2> QED BY <2>5 DEF ItemTrue, Protection
<1>11. \A i \in l.items : i \in local[r].items \/ ItemTrue(r, i)'
  BY <1>6, <1>10
<1>12. ASSUME NEW k \in 1..Len(l.todo) PROVE l.todo[k] \in Proposed(l.snapshot).recommendations
  <2>1. k + 1 \in 1..Len(todo) /\ l.todo[k] = todo[k + 1]
    BY <1>3, <1>4, <1>6
  <2> QED BY <1>3, <1>6, <2>1
<1>13. l.pc \in {"find", "store"} => l.todo # <<>>
  <2>1. l.pc \in {"find", "store"} => Len(l.todo) >= 1
    BY <1>3, <1>4, <1>6
  <2>2. Len(<<>>) = 0
    OBVIOUS
  <2> QED BY <2>1, <2>2
<1>14. local[r].pc \in Reading /\ l.pc \in Reading /\ l.pc \notin {"listed", "approving"}
  BY <1>6 DEF Reading
<1>15. \A k \in 1..Len(l.ids) : l.ids[k] \in InferredIds'
  <2>1. InferredIds \subseteq InferredIds'
    BY DEF Kept, InferredIds
  <2> QED BY <1>2, <1>6, <2>1 DEF ReportTrue
<1>16. SnapshotTrue(r)' /\ ReportTrue(r)'
  BY <1>6, <1>7, <1>11, <1>12, <1>13, <1>14, <1>15, Resumed
<1> QED BY <1>7, <1>16

\* The first proposal that was stored for the recommendation is found.
LEMMA EnsureFindStep ==
    ASSUME TypeOK, ReportInv, NEW r \in Reader, EnsureFind(r)
    PROVE  TypeOK' /\ ReportInv'
<1> DEFINE found == {i \in DOMAIN proposals : /\ proposals[i].change = Protection(Head(local[r].todo))
                                              /\ proposals[i].discovery_revision = DiscoveryOf(r)}
           id == Least(found)
           l == [local[r] EXCEPT !.pc = "store"]
<1>1. /\ local[r].pc = "find" /\ UNCHANGED <<deployed, authority, proposals, changes>>
      /\ IF found # {} THEN Listing(r, id, proposals[id]) ELSE local' = [local EXCEPT ![r] = l]
  BY DEF EnsureFind, Step, Read
<1>2. Kept /\ Numbered'
  BY <1>1, SameStep, PastKept DEF ReportInv
<1>3. authority' \in Authority /\ proposals' \in Seq(Proposal) /\ changes' \in Seq(ChangeRecord)
  BY <1>1 DEF TypeOK
<1>4. CASE found # {}
  <2>1. Len(proposals) \in Nat /\ DOMAIN proposals = 1..Len(proposals)
    BY SeqElement DEF TypeOK
  <2>2. found \subseteq Nat
    BY <2>1
  <2>3. id \in found
    <3> HIDE DEF found
    <3> QED BY <1>4, <2>2, LeastNumber
  <2>4. /\ id \in Nat /\ id \in DOMAIN proposals
        /\ proposals[id].change = Protection(Head(local[r].todo))
        /\ proposals[id].discovery_revision = DiscoveryOf(r)
    <3> HIDE DEF id
    <3> QED BY <2>2, <2>3
  <2>5. Listing(r, id, proposals[id]) /\ proposals' = proposals
    BY <1>1, <1>4
  <2> HIDE DEF id
  <2>6. proposals[id] \in Proposal
    BY <2>1, <2>4, SeqElement DEF TypeOK
  <2>7. /\ local' \in [Reader -> Report] /\ SnapshotTrue(r)' /\ ReportTrue(r)'
        /\ \A q \in Reader : q # r => local'[q] = local[q]
    BY <1>1, <1>2, <2>4, <2>5, <2>6, ListingStep
  <2> QED BY <1>2, <1>3, <2>5, <2>7, Whole
<1>5. CASE found = {}
  <2>1. local[r] \in Report /\ ReportTrue(r)
    BY DEF TypeOK, ReportInv
  <2>2. /\ l \in Report
        /\ l.pc = "store" /\ l.revision = local[r].revision /\ l.snapshot = local[r].snapshot
        /\ l.todo = local[r].todo /\ l.items = local[r].items /\ l.ids = local[r].ids
    BY <2>1 DEF Report
  <2>3. local' = [local EXCEPT ![r] = l]
    BY <1>1, <1>5
  <2> HIDE DEF l
  <2>4. local'[r] = l
    BY <2>3 DEF TypeOK
  <2>5. local[r].pc \in Reading /\ l.pc \in Reading /\ l.pc \notin {"listed", "approving"}
    BY <1>1, <2>2 DEF Reading
  <2>6. /\ \A k \in 1..Len(l.todo) : l.todo[k] \in Proposed(l.snapshot).recommendations
        /\ l.todo # <<>>
    BY <1>1, <2>1, <2>2 DEF ReportTrue
  <2>7. \A k \in 1..Len(l.ids) : l.ids[k] \in InferredIds'
    <3>1. InferredIds' = InferredIds
      BY <1>1 DEF InferredIds
    <3> QED BY <2>1, <2>2, <3>1 DEF ReportTrue
  <2>8. \A i \in l.items : i \in local[r].items
    BY <2>2
  <2>9. SnapshotTrue(r)' /\ ReportTrue(r)'
    BY <1>2, <2>2, <2>4, <2>5, <2>6, <2>7, <2>8, Resumed
  <2> QED BY <1>1, <2>2, <2>3, <2>9, ReadWhole
<1> QED BY <1>4, <1>5

\* A discovery sees nothing of a state but the protections.
LEMMA DiscoveryTyped ==
    ASSUME TypeOK, NEW state \in Authority
    PROVE  /\ Proposed(state).discovery_revision = DiscoveryAt(deployed, state.content.route_protection)
           /\ Proposed(state).discovery_revision \in Discoveries
           /\ Proposed(state).discovery_revision # None
<1> DEFINE protection == state.content.route_protection
<1>1. protection \in [Route -> Capability \cup {None}]
  BY DEF Authority, Content
<1>2. deployed \in Deployments
  BY DEF TypeOK
<1>3. Mappings([route_protection |-> protection]) = Mappings(state.content)
  BY DEF Mappings
<1>4. Proposed(state).discovery_revision = DiscoveryAt(deployed, protection)
  BY <1>3 DEF Proposed, DiscoveryAt
<1> HIDE DEF protection
<1>5. DiscoveryAt(deployed, protection) \in Discoveries
  BY <1>1, <1>2 DEF Discoveries
<1>6. DiscoveryAt(deployed, protection) # None
  BY <1>1, <1>2, DiscoveryAssumption
<1> QED BY <1>4, <1>5, <1>6 DEF protection

\* A proposal is stored for the recommendation that had none.
LEMMA EnsureStoreStep ==
    ASSUME TypeOK, ReportInv, NEW r \in Reader, EnsureStore(r)
    PROVE  TypeOK' /\ ReportInv'
<1> DEFINE head == Head(local[r].todo)
           new == Stored(Protection(head), "inferred", DiscoveryOf(r))
           id == Len(proposals) + 1
<1>1. /\ local[r].pc = "store" /\ UNCHANGED <<deployed, authority, changes>>
      /\ proposals' = Append(proposals, new) /\ Listing(r, id, new)
  BY DEF EnsureStore, Step
<1>2. local[r] \in Report /\ ReportTrue(r) /\ SnapshotTrue(r) /\ authority.revision \in Nat
  BY DEF TypeOK, ReportInv, Authority
<1>3. head \in Recommendation
  <2> DEFINE todo == local[r].todo
  <2>1. todo \in Seq(Recommendation) /\ todo # <<>>
    BY <1>1, <1>2 DEF Report, ReportTrue
  <2>2. Head(todo) \in Recommendation
    <3> HIDE DEF todo
    <3> QED BY <2>1, HeadTailProperties
  <2> QED BY <2>2
<1>4. Protection(head) \in Protect /\ Protection(head) \in ReportChange
  BY <1>3 DEF Protection, Protect, Recommendation, ReportChange, EditChange
<1>5. local[r].snapshot \in Authority
  BY <1>2 DEF Report
<1>6. DiscoveryOf(r) \in Discoveries
  BY <1>5, DiscoveryTyped DEF DiscoveryOf
<1> HIDE DEF head
<1>7. /\ new \in Proposal
      /\ new.change = Protection(head) /\ new.discovery_revision = DiscoveryOf(r)
      /\ new.revision = authority.revision /\ new.source = "inferred"
  BY <1>2, <1>4, <1>6 DEF Stored, Proposal, Status
<1> HIDE DEF new
<1>8. /\ proposals' \in Seq(Proposal) /\ Kept
      /\ Len(proposals') = Len(proposals) + 1
      /\ proposals'[Len(proposals) + 1] = new
  BY <1>1, <1>7, AppendStep
<1>9. Len(proposals) \in Nat /\ DOMAIN proposals = 1..Len(proposals) /\ DOMAIN proposals' = 1..Len(proposals')
  BY <1>8, SeqElement DEF TypeOK
<1>10. id \in Nat /\ id \in DOMAIN proposals' /\ \A i \in DOMAIN proposals' : i \in DOMAIN proposals \/ i = id
  BY <1>8, <1>9
<1>11. ASSUME NEW i, i = id PROVE Inferred(proposals[i])'
  <2>1. PICK s \in Nat : s <= authority.revision /\ local[r].snapshot = StateAt(s)
    BY <1>2, <1>5 DEF SnapshotTrue, Authority
  <2>3. s \in 0..new.revision
    BY <1>2, <1>7, <2>1
  <2>4. new.discovery_revision = Proposed(StateAt(s))'.discovery_revision
    <3>1. DiscoveryOf(r) = Proposed(StateAt(s)).discovery_revision
      BY <2>1 DEF DiscoveryOf
    <3>2. Proposed(StateAt(s))' = Proposed(StateAt(s))
      BY <1>1 DEF Proposed, StateAt
    <3> QED BY <1>7, <3>1, <3>2
  <2>5. new.revision <= authority'.revision
    BY <1>1, <1>2, <1>7
  <2>6. new.change \in Protect
    BY <1>4, <1>7
  <2>7. new.discovery_revision = Proposed(StateAt(s))'.discovery_revision /\ proposals'[i] = new
    BY <1>8, <1>11, <2>4
  <2> QED BY <1>7, <2>3, <2>5, <2>6, <2>7 DEF Inferred
<1>12. authority' \in Authority /\ changes' \in Seq(ChangeRecord) /\ Numbered'
  BY <1>1, PastKept DEF TypeOK, ReportInv
<1>13. /\ local' \in [Reader -> Report] /\ SnapshotTrue(r)' /\ ReportTrue(r)'
       /\ \A q \in Reader : q # r => local'[q] = local[q]
  <2>1. local[r].pc \in {"find", "store"} /\ Listing(r, id, new) /\ proposals'[id] = new
        /\ new.change = Protection(Head(local[r].todo))
    BY <1>1, <1>7, <1>8 DEF head
  <2> HIDE DEF id
  <2> QED BY <1>7, <1>8, <1>10, <2>1, ListingStep
<1>14. \A i \in DOMAIN proposals' : i \in DOMAIN proposals \/ Inferred(proposals[i])'
  <2> HIDE DEF id
  <2> QED BY <1>10, <1>11
<1> QED BY <1>8, <1>12, <1>13, <1>14, Whole

\* The inferred proposals are listed, the newest first.
LEMMA ListInferredStep ==
    ASSUME TypeOK, ReportInv, NEW r \in Reader, ListInferred(r)
    PROVE  TypeOK' /\ ReportInv'
<1> DEFINE ids == NewestInferred
           l == [local[r] EXCEPT !.pc = "listed", !.ids = ids]
<1>1. /\ local[r].pc = "ready" /\ ids # <<>> /\ local' = [local EXCEPT ![r] = l]
      /\ UNCHANGED <<deployed, authority, proposals, changes>>
  BY DEF ListInferred, Step, Read
<1>2. local[r] \in Report /\ ReportTrue(r)
  BY DEF TypeOK, ReportInv
<1>3. ids \in Seq(Nat) /\ \A k \in 1..Len(ids) : ids[k] \in InferredIds
  <2>1. ids \in Seq(InferredIds)
    BY NewestAreInferred DEF TypeOK
  <2>2. InferredIds \subseteq Nat
    BY SeqElement DEF TypeOK, InferredIds
  <2> HIDE DEF ids
  <2> QED BY <2>1, <2>2, SeqMonotonic, SeqElement
<1> HIDE DEF ids
<1>4. /\ l \in Report
      /\ l.pc = "listed" /\ l.revision = local[r].revision /\ l.snapshot = local[r].snapshot
      /\ l.todo = local[r].todo /\ l.items = local[r].items /\ l.ids = ids
  BY <1>2, <1>3 DEF Report
<1> HIDE DEF l
<1>5. local'[r] = l
  BY <1>1 DEF TypeOK
<1>6. local[r].pc \in Reading /\ l.pc \in Reading /\ l.pc \notin {"find", "store"} /\ l.ids # <<>>
  BY <1>1, <1>4 DEF Reading
<1>7. \A k \in 1..Len(l.todo) : l.todo[k] \in Proposed(l.snapshot).recommendations
  BY <1>2, <1>4 DEF ReportTrue
<1>8. \A k \in 1..Len(l.ids) : l.ids[k] \in InferredIds'
  <2>1. InferredIds' = InferredIds
    BY <1>1 DEF InferredIds
  <2> QED BY <1>3, <1>4, <2>1
<1>9. \A i \in l.items : i \in local[r].items
  BY <1>4
<1>10. Kept
  BY <1>1, SameStep
<1>11. SnapshotTrue(r)' /\ ReportTrue(r)'
  BY <1>4, <1>5, <1>6, <1>7, <1>8, <1>9, <1>10, Resumed
<1> QED BY <1>1, <1>4, <1>11, ReadWhole

\* What holds when the server is deployed.
LEMMA ReportInit ==
    ASSUME Init
    PROVE  TypeOK /\ ReportInv
<1>1. NewAuthority \in Authority /\ NewAuthority.revision = 0
  BY DEF NewAuthority, Authority, Content
<1>2. Idle \in Report
  BY <1>1 DEF Idle, Report
<1>3. /\ proposals = <<>> /\ changes = <<>> /\ authority = NewAuthority
      /\ local = [r \in Reader |-> Idle] /\ deployed \in Deployments
  BY DEF Init
<1>4. TypeOK
  BY <1>1, <1>2, <1>3 DEF TypeOK
<1>5. Numbered /\ StateAt(0) = NewAuthority
  BY <1>1, <1>3 DEF Numbered, StateAt
<1>6. ASSUME NEW r \in Reader PROVE SnapshotTrue(r) /\ ReportTrue(r)
  <2>1. local[r] = Idle
    BY <1>3
  <2>2. SnapshotTrue(r)
    BY <1>1, <1>3, <1>5, <2>1 DEF SnapshotTrue, Idle
  <2>3. ReportTrue(r)
    BY <2>1 DEF ReportTrue, Idle, Reading
  <2> QED BY <2>2, <2>3
<1>7. DOMAIN proposals = {}
  BY <1>3
<1> QED BY <1>4, <1>5, <1>6, <1>7 DEF ReportInv

\* A step that leaves the store and the reports alone.
LEMMA QuietStep ==
    ASSUME TypeOK, ReportInv, UNCHANGED <<deployed, authority, proposals, changes, local>>
    PROVE  TypeOK' /\ ReportInv'
<1>1. Kept /\ Numbered'
  BY SameStep, PastKept DEF ReportInv
<1>2. /\ authority' \in Authority /\ proposals' \in Seq(Proposal) /\ changes' \in Seq(ChangeRecord)
      /\ local' \in [Reader -> Report] /\ \A r \in Reader : local'[r] = local[r]
      /\ DOMAIN proposals' = DOMAIN proposals
  BY DEF TypeOK
<1> QED BY <1>1, <1>2, Whole

\* Every step keeps the reports true to what they have read.
LEMMA ReportNext ==
    ASSUME TypeOK, ReportInv, [Next]_vars
    PROVE  TypeOK' /\ ReportInv'
<1>1. CASE UNCHANGED vars
  BY <1>1, QuietStep DEF vars
<1>2. CASE Start \/ Ask
  BY <1>2, QuietStep DEF Start, Ask
<1>3. CASE ProposeChange
  BY <1>3, ProposeStep
<1>4. CASE Approve \/ Reject
  BY <1>4, ReviewStep
<1>5. CASE Apply
  BY <1>5, ApplyOneStep
<1>6. ASSUME NEW r \in deployed.readers, ReaderStep(r) PROVE TypeOK' /\ ReportInv'
  <2>1. r \in Reader
    <3>1. WellFormed(deployed)
      BY BoundaryAssumption DEF TypeOK
    <3> QED BY <1>6, <3>1 DEF WellFormed
  <2>2. CASE ReadAuthority(r, "proposal") \/ ReadAuthority(r, "reconciliation")
    BY <2>1, <2>2, ReadAuthorityStep
  <2>3. CASE ReadHistory(r) \/ ReadRevision(r)
    BY <2>1, <2>3, ReadHistoryStep, ReadRevisionStep
  <2>4. CASE EnsureFind(r) \/ EnsureStore(r)
    BY <2>1, <2>4, EnsureFindStep, EnsureStoreStep
  <2>5. CASE ListInferred(r) \/ ApproveNext(r) \/ ApplyBulk(r)
    BY <2>1, <2>5, ListInferredStep, ApproveNextStep, ApplyBulkStep
  <2> QED BY <1>6, <2>2, <2>3, <2>4, <2>5 DEF ReaderStep
<1> QED BY <1>1, <1>2, <1>3, <1>4, <1>5, <1>6 DEF Next

\* Whatever other clients do meanwhile, a report stays true to the states that
\* it read: they were in force at the revisions it has for them, and each of
\* its items is listed with a stored proposal for it.
THEOREM ReportsAreTrue == Spec => [](TypeOK /\ ReportInv)
<1>1. Init => TypeOK /\ ReportInv
  BY ReportInit
<1>2. TypeOK /\ ReportInv /\ [Next]_vars => TypeOK' /\ ReportInv'
  BY ReportNext
<1> QED BY <1>1, <1>2, PTL DEF Spec

(***************************************************************************)
(* What reports say, of applications whose paths are spelled the way they  *)
(* are normalized.                                                         *)
(***************************************************************************)

\* A key is its method and its path.
LEMMA Keys ==
    ASSUME NEW m, NEW p, NEW n, NEW q
    PROVE  /\ Key(m, p).method = m /\ Key(m, p).path = p
           /\ Key(m, p) = Key(n, q) <=> m = n /\ p = q
BY DEF Key

\* A served route is found by its path, and demands what it is given or else
\* what the live authority has for it.
LEMMA Demanded ==
    ASSUME TypeOK, PlainRoutes, NEW c \in deployed.routes
    PROVE  LET key == Key(c.method, c.path)
           IN /\ normalize_path(c.path) = c.path /\ key \in Route
              /\ authority.content.route_protection[key] # None =>
                    Demand(key) = Requirement("capability", authority.content.route_protection[key])
              /\ authority.content.route_protection[key] = None => Demand(key) = c.requirement
              /\ c.capability # None <=> c.requirement.kind = "capability"
<1> DEFINE key == Key(c.method, c.path)
<1>1. WellFormed(deployed) /\ deployed \in Deployments
  BY BoundaryAssumption DEF TypeOK
<1>2. /\ normalize_path(c.path) = c.path
      /\ \A e \in deployed.routes : Key(e.method, e.path) = Key(c.method, c.path) => e = c
  BY <1>1 DEF PlainRoutes
<1>3. key \in Route /\ (c.capability # None <=> c.requirement.kind = "capability")
  BY <1>1, <1>2 DEF WellFormed
<1>4. Registered(key) = {c}
  BY <1>2, Keys DEF Registered
<1>5. (CHOOSE r \in Registered(key) : TRUE) = c
  <2> HIDE DEF key
  <2> QED BY <1>4
<1>6. LiveProtection(key) = authority.content.route_protection[key]
  BY <1>3 DEF LiveProtection
<1> QED BY <1>2, <1>3, <1>5, <1>6 DEF Demand

\* A report that is still fresh has read the authority that is in force.
LEMMA FreshIsLive ==
    ASSUME TypeOK, ReportInv, NEW r \in Reader, Fresh(r)
    PROVE  local[r].snapshot = authority /\ local[r].revision = authority.revision
<1>1. SnapshotTrue(r) /\ ReportTrue(r) /\ local[r].pc = "ready"
      /\ local[r].snapshot.revision = authority.revision
  BY DEF ReportInv, Fresh, Ready
<1>2. Len(changes) = authority.revision /\ authority.revision \in Nat /\ local[r].revision \in Nat
  BY DEF ReportInv, Numbered, TypeOK, Authority, Report
<1>3. local[r].snapshot = authority
  BY <1>1, <1>2 DEF SnapshotTrue, StateAt
<1> QED BY <1>1, <1>2, <1>3 DEF ReportTrue, Reading

\* The routes that are mapped to a capability are those of the authority.
LEMMA Mapped ==
    ASSUME NEW content, NEW k \in Route
    PROVE  /\ k \in DOMAIN Mappings(content) <=> content.route_protection[k] # None
           /\ k \in DOMAIN Mappings(content) => Mappings(content)[k] = content.route_protection[k]
           /\ DOMAIN Mappings(content) \subseteq Route
BY DEF Mappings

\* Only a route with a capability is called protected.
LEMMA ProtectedHasOne ==
    ASSUME NEW path, classify_protection(path, None) = "protected"
    PROVE  FALSE
BY DEF classify_protection

\* What a report describes of a route that is spelled as it is normalized.
LEMMA DescribedPlain ==
    ASSUME TypeOK, PlainRoutes, NEW c \in deployed.routes, NEW content
    PROVE  LET d == describe_route(c, Mappings(content))
               key == Key(c.method, c.path)
           IN /\ d.key = key
              /\ d.capability = IF c.capability # None THEN c.capability ELSE content.route_protection[key]
              /\ d.inference = (IF d.capability # None THEN None ELSE infer_capability(c.method, c.path))
              /\ d.protection = classify_protection(c.path, d.capability)
<1> DEFINE d == describe_route(c, Mappings(content))
           key == Key(c.method, c.path)
           m == Mappings(content)
<1>1. normalize_path(c.path) = c.path /\ key \in Route
  BY Demanded
<1>2. /\ d.key = key
      /\ d.capability = (IF c.capability # None THEN c.capability
                         ELSE IF key \in DOMAIN m THEN m[key] ELSE None)
      /\ d.inference = (IF d.capability # None THEN None ELSE infer_capability(c.method, c.path))
      /\ d.protection = classify_protection(c.path, d.capability)
  BY <1>1, Described
<1>3. (IF key \in DOMAIN m THEN m[key] ELSE None) = content.route_protection[key]
  BY <1>1, Mapped
<1> QED BY <1>2, <1>3

\* A protected route of a fresh report is guarded in that state.
LEMMA ProtectedGuarded ==
    ASSUME TypeOK, ReportInv, PlainRoutes
    PROVE  ReportedProtectedIsGuarded
<1>1. SUFFICES ASSUME NEW r \in Reader, Fresh(r), NEW c \in deployed.routes,
                      describe_route(c, Mappings(local[r].snapshot.content)).protection = "protected"
               PROVE  Demand(Key(c.method, c.path)).kind = "capability"
  BY DEF ReportedProtectedIsGuarded
<1> DEFINE key == Key(c.method, c.path)
           d == describe_route(c, Mappings(authority.content))
<1>2. d.protection = "protected"
  BY <1>1, FreshIsLive
<1>3. d.capability # None
  <2>1. d.protection = classify_protection(c.path, d.capability)
    BY DescribedPlain
  <2> HIDE DEF d
  <2> QED BY <1>2, <2>1, ProtectedHasOne
<1>4. d.capability = IF c.capability # None THEN c.capability ELSE authority.content.route_protection[key]
  BY DescribedPlain
<1>5. CASE authority.content.route_protection[key] # None
  <2>1. Demand(key) = Requirement("capability", authority.content.route_protection[key])
    BY <1>5, Demanded
  <2> QED BY <2>1 DEF Requirement
<1>6. CASE authority.content.route_protection[key] = None
  <2>1. c.capability # None
    <3> HIDE DEF d
    <3> QED BY <1>3, <1>4, <1>6
  <2> QED BY <1>6, <2>1, Demanded
<1> QED BY <1>5, <1>6

\* A recommendation is of one route, which is open and can be protected.
LEMMA RecommendedOpen ==
    ASSUME TypeOK, PlainRoutes, NEW snapshot,
           NEW item, [key |-> item.key, capability |-> item.capability] \in Proposed(snapshot).recommendations
    PROVE  \A c \in RouteOf(item.key) :
              /\ c \in deployed.routes /\ Key(c.method, c.path) = item.key /\ c.capability = None
              /\ snapshot.content.route_protection[item.key] = None
<1> DEFINE m == Mappings(snapshot.content)
           described == {describe_route(c, m) : c \in deployed.routes}
<1>1. Proposed(snapshot).recommendations
        = {[key |-> d.key, capability |-> d.inference.capability] : d \in {d \in described : Recommended(d)}}
  BY DEF Proposed, propose_authority
<1>2. PICK e \in deployed.routes : /\ Recommended(describe_route(e, m))
                                   /\ item.key = describe_route(e, m).key
  BY <1>1, Zenon
<1>3. describe_route(e, m).capability = None
  BY <1>2 DEF Recommended
<1>4. /\ item.key = Key(e.method, e.path) /\ e.capability = None
      /\ snapshot.content.route_protection[item.key] = None
  BY <1>2, <1>3, DescribedPlain
<1>5. SUFFICES ASSUME NEW c \in RouteOf(item.key) PROVE c = e
  BY <1>4
<1>6. c \in deployed.routes /\ Key(c.method, normalize_path(c.path)) = item.key
  BY DEF RouteOf
<1>7. Key(c.method, c.path) = Key(e.method, e.path)
  BY <1>4, <1>6, Demanded
<1>8. deployed \in Deployments
  BY DEF TypeOK
<1> QED BY <1>6, <1>7, <1>8 DEF PlainRoutes

\* The recommendations of a fresh report can be followed in that state.
LEMMA Actionable ==
    ASSUME TypeOK, ReportInv, PlainRoutes
    PROVE  RecommendedIsActionable
<1>1. SUFFICES ASSUME NEW r \in Reader, Fresh(r),
                      NEW item \in local[r].items, item.status \in {"recommended", "approved"}
               PROVE  /\ IsCurrent(proposals[item.id])
                      /\ Previewed(authority, proposals[item.id].change).content.route_protection[item.key]
                           = item.capability
                      /\ \A c \in RouteOf(item.key) : Demand(Key(c.method, c.path)).kind # "capability"
  BY DEF RecommendedIsActionable
<1> DEFINE p == proposals[item.id]
<1>2. ItemTrue(r, item) /\ item \in Item /\ authority \in Authority
  BY DEF ReportInv, ReportTrue, TypeOK, Report
<1>3. local[r].snapshot = authority /\ local[r].revision = authority.revision
  BY <1>1, FreshIsLive
<1>4. p.change = Protection(item) /\ p.revision = authority.revision
  BY <1>1, <1>2, <1>3 DEF ItemTrue
<1>5. /\ Protection(item) \in Protect /\ Protection(item).route = item.key
      /\ Protection(item).capability = item.capability
  BY <1>2 DEF Protection, Protect, Item
<1>6. /\ Previewed(authority, p.change) # Error
      /\ Previewed(authority, p.change).content.route_protection[item.key] = item.capability
  <2> HIDE DEF p
  <2> QED BY <1>2, <1>4, <1>5, ProtectPreview
<1>7. IsCurrent(p)
  BY <1>4, <1>6 DEF IsCurrent
<1>8. ASSUME NEW c \in RouteOf(item.key) PROVE Demand(Key(c.method, c.path)).kind # "capability"
  <2>1. [key |-> item.key, capability |-> item.capability] \in Proposed(authority).recommendations
    BY <1>2, <1>3 DEF ItemTrue
  <2>2. /\ c \in deployed.routes /\ Key(c.method, c.path) = item.key /\ c.capability = None
        /\ authority.content.route_protection[item.key] = None
    BY <2>1, RecommendedOpen
  <2> QED BY <2>2, Demanded
<1> QED BY <1>6, <1>7, <1>8

\* Discoveries that are alike were made of the same protections.
LEMMA SameDiscovery ==
    ASSUME TypeOK, PlainRoutes, NEW s, NEW t,
           Proposed(s).discovery_revision = Proposed(t).discovery_revision
    PROVE  Protections(s) = Protections(t)
<1> DEFINE ms == Mappings(s.content)
           mt == Mappings(t.content)
           row(d) == [key |-> d.key, capability |-> d.capability, inference |-> d.inference]
<1>1. /\ Proposed(s).discovery_revision = {row(describe_route(c, ms)) : c \in deployed.routes}
      /\ Proposed(t).discovery_revision = {row(describe_route(c, mt)) : c \in deployed.routes}
  BY DEF Proposed, propose_authority, discovery_revision
<1>2. ASSUME NEW c \in deployed.routes
      PROVE  describe_route(c, ms).capability = describe_route(c, mt).capability
  <2>1. row(describe_route(c, ms)) \in {row(describe_route(e, mt)) : e \in deployed.routes}
    BY <1>1, Zenon
  <2>2. PICK e \in deployed.routes : row(describe_route(c, ms)) = row(describe_route(e, mt))
    BY <2>1, Zenon
  <2>3. /\ describe_route(c, ms).key = describe_route(e, mt).key
        /\ describe_route(c, ms).capability = describe_route(e, mt).capability
    BY <2>2
  <2>4. Key(c.method, c.path) = Key(e.method, e.path)
    BY <2>3, DescribedPlain
  <2>5. e = c
    BY <2>4 DEF PlainRoutes, TypeOK
  <2> QED BY <2>3, <2>5
<1> QED BY <1>2 DEF Protections

\* Outdated proposals of a report, in that state.
LEMMA Renewed ==
    ASSUME TypeOK, ReportInv, PlainRoutes
    PROVE  RecommendationsRenewed
<1>1. SUFFICES ASSUME NEW r \in Reader, Ready(r), local[r].snapshot.revision = local[r].revision,
                      NEW item \in local[r].items, item.status = "stale",
                      ~(proposals[item.id].revision > local[r].revision)
               PROVE  \E k \in DOMAIN changes :
                        /\ changes[k].resulting_state.revision <= local[r].revision
                        /\ Protections(changes[k].previous_state) = Protections(local[r].snapshot)
  BY DEF RecommendationsRenewed
<1> DEFINE p == proposals[item.id]
           s == local[r].revision
<1>2. /\ local[r] \in Report /\ ReportTrue(r) /\ ItemTrue(r, item) /\ local[r].pc = "ready"
      /\ authority.revision \in Nat
  BY <1>1 DEF ReportInv, ReportTrue, TypeOK, Ready, Authority
<1>3. s \in Nat /\ s <= authority.revision /\ local[r].snapshot \in Authority
  BY <1>2 DEF ReportTrue, Reading, Report
<1>4. /\ item.id \in DOMAIN proposals /\ p.revision # s
      /\ p.discovery_revision = Proposed(local[r].snapshot).discovery_revision
  BY <1>1, <1>2 DEF ItemTrue, DiscoveryOf
<1>5. p \in Proposal /\ Inferred(p)
  BY <1>4, SeqElement DEF TypeOK, ReportInv
<1>6. p.revision \in Nat /\ p.revision < s
  <2>1. p.revision \in Nat
    BY <1>5 DEF Proposal
  <2>2. ~(p.revision > s)
    BY <1>1
  <2> HIDE DEF p, s
  <2> QED BY <1>3, <1>4, <2>1, <2>2
<1>7. p.discovery_revision # None
  BY <1>3, <1>4, DiscoveryTyped
<1>8. PICK revision \in 0..p.revision : p.discovery_revision = Proposed(StateAt(revision)).discovery_revision
  BY <1>5, <1>7 DEF Inferred
<1>9. Len(changes) = authority.revision /\ DOMAIN changes = 1..Len(changes)
  BY SeqElement DEF ReportInv, Numbered, TypeOK
<1> DEFINE k == revision + 1
<1>10. k \in 1..Len(changes) /\ revision < Len(changes) /\ k <= s
  <2> HIDE DEF p, s
  <2> QED BY <1>2, <1>3, <1>6, <1>8, <1>9
<1>11. changes[k].previous_state = StateAt(revision)
  BY <1>10 DEF StateAt
<1>12. changes[k].resulting_state.revision = k
  <2> HIDE DEF k
  <2> QED BY <1>10 DEF ReportInv, Numbered
<1>13. Protections(changes[k].previous_state) = Protections(local[r].snapshot)
  BY <1>4, <1>8, <1>11, SameDiscovery
<1> HIDE DEF k
<1> QED BY <1>9, <1>10, <1>12, <1>13

\* What is left over if there is no drift: no new route, no orphaned
\* protection, no conflict and no proposal for a route that is not served.
LEMMA NoDrift ==
    ASSUME NEW routes, NEW mappings, NEW history, reconcile(routes, mappings, history).drift = {}
    PROVE  LET current == {r.key : r \in propose_authority(routes, mappings).routes}
               normal(k) == Key(k.method, normalize_path(k.path))
           IN /\ \A k \in current : \E o \in DOMAIN mappings : normal(o) = k
              /\ \A k \in DOMAIN mappings : normal(k) \in current
              /\ \A k \in current \cap DOMAIN mappings :
                   LET inferred == infer_capability(k.method, k.path)
                   IN inferred # None => inferred.capability = mappings[k]
              /\ \A h \in history : ~Stale([h EXCEPT !.key = Key(@.method, normalize_path(@.path))], current)
<1> DEFINE current == {r.key : r \in propose_authority(routes, mappings).routes}
           normal == [k \in DOMAIN mappings |-> Key(k.method, normalize_path(k.path))]
           previous == {normal[k] : k \in DOMAIN mappings}
           items == {[h EXCEPT !.key = Key(@.method, normalize_path(@.path))] : h \in history}
           changed == Paired(previous \ current, current \ previous)
           orphaned == {normal[k] : k \in {k \in DOMAIN mappings : normal[k] \notin current}}
<1>1. /\ {Drift("new_route", k) : k \in (current \ previous) \ {p[2] : p \in changed}} = {}
      /\ {Drift("route_changed", p[2]) : p \in changed} = {}
      /\ {Drift("orphaned_authority", k) : k \in orphaned} = {}
      /\ {Drift("stale_proposal", h.key) : h \in {h \in items : Stale(h, current)}} = {}
      /\ {Drift("capability_conflict", k) : k \in Conflicts(current, mappings)} = {}
  <2>1. reconcile(routes, mappings, history).drift
          = {Drift("new_route", k) : k \in (current \ previous) \ {p[2] : p \in changed}}
             \cup {Drift("removed_route", k) : k \in (previous \ current) \ {p[1] : p \in changed}}
             \cup {Drift("route_changed", p[2]) : p \in changed}
             \cup {Drift("orphaned_authority", k) : k \in orphaned}
             \cup {Drift("stale_proposal", h.key) : h \in {h \in items : Stale(h, current)}}
             \cup {Drift("capability_conflict", k) : k \in Conflicts(current, mappings)}
    BY DEF reconcile
  <2> HIDE DEF current, normal, previous, items, changed, orphaned
  <2> QED BY <2>1, Zenon
<1>2. changed = {}
  <2> HIDE DEF changed
  <2> QED BY <1>1, Zenon
<1>3. current \subseteq previous
  <2> HIDE DEF current, previous, changed
  <2> QED BY <1>1, <1>2, Zenon
<1>4. orphaned = {}
  <2> HIDE DEF orphaned
  <2> QED BY <1>1, Zenon
<1>5. \A h \in items : ~Stale(h, current)
  <2> HIDE DEF items, current
  <2> QED BY <1>1, Zenon
<1>6. Conflicts(current, mappings) = {}
  <2> HIDE DEF current
  <2> QED BY <1>1, Zenon
<1>7. \A k \in DOMAIN mappings : normal[k] = Key(k.method, normalize_path(k.path))
  OBVIOUS
<1>8. \A k \in current : \E o \in DOMAIN mappings : Key(o.method, normalize_path(o.path)) = k
  <2> HIDE DEF current
  <2> QED BY <1>3, <1>7
<1>9. \A k \in DOMAIN mappings : Key(k.method, normalize_path(k.path)) \in current
  <2> HIDE DEF current, normal
  <2> QED BY <1>4, <1>7
<1>10. \A k \in current \cap DOMAIN mappings :
         LET inferred == infer_capability(k.method, k.path)
         IN inferred # None => inferred.capability = mappings[k]
  <2> HIDE DEF current
  <2> QED BY <1>6 DEF Conflicts
<1>11. \A h \in history : ~Stale([h EXCEPT !.key = Key(@.method, normalize_path(@.path))], current)
  <2> HIDE DEF current
  <2> QED BY <1>5
<1> QED BY <1>8, <1>9, <1>10, <1>11

\* A reconciliation that finds no drift, in that state.
LEMMA NoDriftGuarded ==
    ASSUME TypeOK, ReportInv, PlainRoutes
    PROVE  NoDriftMeansGuarded
<1> DEFINE m == Mappings(authority.content)
           served == {Key(c.method, normalize_path(c.path)) : c \in deployed.routes}
<1>1. SUFFICES ASSUME NEW r \in Reader,
                      reconcile(deployed.routes, m, local[r].history).drift = {}
               PROVE  /\ \A c \in deployed.routes :
                           LET demand == Demand(Key(c.method, c.path))
                               inferred == infer_capability(c.method, c.path)
                           IN /\ demand.kind = "capability"
                              /\ inferred # None => demand.capability = inferred.capability
                      /\ DOMAIN m \subseteq served
                      /\ \A h \in local[r].history :
                           h.status \in {"Pending", "Approved", "Rejected"} => h.key \in served
  BY DEF NoDriftMeansGuarded
<1> DEFINE current == {d.key : d \in propose_authority(deployed.routes, m).routes}
           normal(k) == Key(k.method, normalize_path(k.path))
<1>2. /\ \A k \in current : \E o \in DOMAIN m : normal(o) = k
      /\ \A k \in DOMAIN m : normal(k) \in current
      /\ \A k \in current \cap DOMAIN m :
           infer_capability(k.method, k.path) # None => infer_capability(k.method, k.path).capability = m[k]
      /\ \A h \in local[r].history : ~Stale([h EXCEPT !.key = Key(@.method, normalize_path(@.path))], current)
  <2> HIDE DEF m
  <2> QED BY <1>1, NoDrift
<1>3. current = served
  <2>1. propose_authority(deployed.routes, m).routes = {describe_route(c, m) : c \in deployed.routes}
    BY DEF propose_authority
  <2>2. \A c \in deployed.routes : describe_route(c, m).key = Key(c.method, normalize_path(c.path))
    BY Described
  <2> HIDE DEF m
  <2> QED BY <2>1, <2>2
<1>4. \A k \in Route : normal(k) = k
  BY DEF PlainRoutes
<1>5. DOMAIN m \subseteq Route
  BY DEF Mappings
<1>6. DOMAIN m \subseteq served
  <2> HIDE DEF m, current, served
  <2> QED BY <1>2, <1>3, <1>4, <1>5
<1>7. ASSUME NEW c \in deployed.routes
      PROVE  LET demand == Demand(Key(c.method, c.path))
                 inferred == infer_capability(c.method, c.path)
             IN demand.kind = "capability" /\ (inferred # None => demand.capability = inferred.capability)
  <2> DEFINE key == Key(c.method, c.path)
  <2>1. key \in Route /\ normalize_path(c.path) = c.path
    BY Demanded
  <2>2. key \in served
    BY <2>1
  <2>3. key \in DOMAIN m
    <3> HIDE DEF m, current, served, key
    <3> QED BY <1>2, <1>3, <1>4, <1>5, <2>2
  <2>4. authority.content.route_protection[key] # None /\ m[key] = authority.content.route_protection[key]
    BY <2>1, <2>3, Mapped
  <2>5. Demand(key) = Requirement("capability", m[key])
    BY <2>4, Demanded
  <2>6. infer_capability(key.method, key.path) # None
          => infer_capability(key.method, key.path).capability = m[key]
    <3> HIDE DEF m, current, served, key
    <3> QED BY <1>2, <1>3, <2>2, <2>3
  <2>7. key.method = c.method /\ key.path = c.path
    BY Keys
  <2>8. /\ Demand(key).kind = "capability" /\ Demand(key).capability = m[key]
    <3> HIDE DEF m, key
    <3> QED BY <2>5 DEF Requirement
  <2> HIDE DEF m
  <2> QED BY <2>6, <2>7, <2>8
<1>8. ASSUME NEW h \in local[r].history, h.status \in {"Pending", "Approved", "Rejected"}
      PROVE  h.key \in served
  <2>1. h \in [key : Route, status : Status]
    BY DEF TypeOK, Report
  <2>2. [h EXCEPT !.key = Key(@.method, normalize_path(@.path))] = h
    BY <1>4, <2>1
  <2>3. ~Stale(h, current)
    <3> HIDE DEF current
    <3> QED BY <1>2, <2>2
  <2> HIDE DEF current, served
  <2> QED BY <1>3, <1>8, <2>3 DEF Stale
<1> HIDE DEF m, served
<1> QED BY <1>6, <1>7, <1>8

\* A route that a report calls protected lets nobody pass without a capability
\* (handle_application), as long as no change is applied after the report has
\* read the authority.
THEOREM ReportedIsGuarded ==
    ASSUME PlainRoutes
    PROVE  Spec => []ReportedProtectedIsGuarded
<1>1. TypeOK /\ ReportInv => ReportedProtectedIsGuarded
  BY ProtectedGuarded
<1> QED BY <1>1, ReportsAreTrue, PTL

\* The recommendations of a fresh report pass the checks of approve and apply
\* and do what they say, unless they were rejected.
THEOREM RecommendationsHold ==
    ASSUME PlainRoutes
    PROVE  Spec => []RecommendedIsActionable
<1>1. TypeOK /\ ReportInv => RecommendedIsActionable
  BY Actionable
<1> QED BY <1>1, ReportsAreTrue, PTL

\* ensure_proposal hands out an outdated proposal only if the protections were
\* once before what they are now.
THEOREM RecommendationsAreRenewed ==
    ASSUME PlainRoutes
    PROVE  Spec => []RecommendationsRenewed
<1>1. TypeOK /\ ReportInv => RecommendationsRenewed
  BY Renewed
<1> QED BY <1>1, ReportsAreTrue, PTL

\* A reconciliation without drift means that every route is guarded, with the
\* capability inferred for it, and that nothing else is protected or proposed.
THEOREM NoDriftIsGuarded ==
    ASSUME PlainRoutes
    PROVE  Spec => []NoDriftMeansGuarded
<1>1. TypeOK /\ ReportInv => NoDriftMeansGuarded
  BY NoDriftGuarded
<1> QED BY <1>1, ReportsAreTrue, PTL

(***************************************************************************)
(* What the fingerprint of a contract stands for.                          *)
(***************************************************************************)

\* A contract that is served was validated: its providers differ.
LEMMA ServedValid ==
    ASSUME NEW src, NEW entries, NEW mail
    PROVE  /\ Served(FromEntries(entries, mail)) # Error => IsInjective(Served(FromEntries(entries, mail)).providers)
           /\ Served(parse_auth_block(src, mail)) # Error => IsInjective(Served(parse_auth_block(src, mail)).providers)
<1>1. ASSUME NEW es PROVE FromEntries(es, mail) # Error => IsInjective(FromEntries(es, mail).providers)
  <2> DEFINE read == IF Conflicting(es) THEN Error ELSE Once(es, Field, AuthConfig)
             mailed == IF mail = None THEN None ELSE parse_mail_contract(mail)
             config == IF read = Error \/ mailed = Error THEN Error ELSE [Resolved(read) EXCEPT !.mail = mailed]
  <2>1. FromEntries(es, mail) = IF config = Error \/ ~validate(config) THEN Error ELSE config
    BY DEF FromEntries
  <2> HIDE DEF config
  <2>2. validate(config) => IsInjective(config.providers)
    BY DEF validate
  <2> QED BY <2>1, <2>2
<1>2. IsInjective(Resolved(AuthConfig).providers)
  BY DEF Resolved, AuthConfig, IsInjective
<1>3. parse_auth_block(src, mail) # Error => IsInjective(parse_auth_block(src, mail).providers)
  <2> DEFINE body == IF Count(src, "use auth") > 1 THEN Error ELSE extract_auth_block(src)
             read == IF body = Error THEN Error ELSE parse_entries(body)
  <2>1. \/ parse_auth_block(src, mail) \in {Error, Resolved(AuthConfig)}
        \/ parse_auth_block(src, mail) = FromEntries(read.value, mail)
    BY DEF parse_auth_block
  <2> HIDE DEF read
  <2> QED BY <1>1, <1>2, <2>1
<1> QED BY <1>1, <1>3 DEF Served

\* Whether there are several providers shows in their set.
LEMMA SeveralShown ==
    ASSUME NEW s, IsInjective(s)
    PROVE  Several(s) <=> \E x, y \in ToSet(s) : x # y
BY DEF Several, ToSet, IsInjective

\* The surface is made of the fields of the canonical form.
LEMMA CanonicalSurface ==
    ASSUME NEW c, NEW d, IsInjective(c.providers), IsInjective(d.providers), fingerprint(c) = fingerprint(d)
    PROVE  AuthSurface(c) = AuthSurface(d)
<1>1. /\ c.multi_tenant = d.multi_tenant /\ c.isolation = d.isolation /\ c.agents = d.agents
      /\ ToSet(c.providers) = ToSet(d.providers) /\ c.experience = d.experience
      /\ {CanonicalClaim(x) : x \in ToSet(c.claims)} = {CanonicalClaim(x) : x \in ToSet(d.claims)}
      /\ c.ui.renderer = d.ui.renderer /\ c.ui.theme = d.ui.theme /\ ToSet(c.ui.screens) = ToSet(d.ui.screens)
  <2>1. canonical(c) = canonical(d)
    BY DEF fingerprint
  <2>2. /\ canonical(c).multi_tenant = c.multi_tenant /\ canonical(c).isolation = c.isolation
        /\ canonical(c).agents = c.agents /\ canonical(c).providers = ToSet(c.providers)
        /\ canonical(c).experience = c.experience
        /\ canonical(c).claims = {CanonicalClaim(x) : x \in ToSet(c.claims)}
        /\ canonical(c).ui = [renderer |-> c.ui.renderer, theme |-> c.ui.theme, screens |-> ToSet(c.ui.screens)]
    BY DEF canonical
  <2>3. /\ canonical(d).multi_tenant = d.multi_tenant /\ canonical(d).isolation = d.isolation
        /\ canonical(d).agents = d.agents /\ canonical(d).providers = ToSet(d.providers)
        /\ canonical(d).experience = d.experience
        /\ canonical(d).claims = {CanonicalClaim(x) : x \in ToSet(d.claims)}
        /\ canonical(d).ui = [renderer |-> d.ui.renderer, theme |-> d.ui.theme, screens |-> ToSet(d.ui.screens)]
    BY DEF canonical
  <2>4. canonical(c).ui = canonical(d).ui
    BY <2>1
  <2> QED BY <2>1, <2>2, <2>3, <2>4
<1>2. Several(c.providers) = Several(d.providers)
  BY <1>1, SeveralShown DEF Several
<1>3. AuthFeatures(c) = AuthFeatures(d)
  BY <1>1, <1>2 DEF AuthFeatures, Enabled
<1>4. Routes(c) = Routes(d)
  <2>1. \A row : Exposed(c, row) = Exposed(d, row)
    BY <1>1, <1>3 DEF Exposed, Enabled, is_invokable
  <2> QED BY <2>1 DEF Routes
<1>5. ExperienceSurface(c) = ExperienceSurface(d)
  BY <1>1, <1>3 DEF ExperienceSurface, Listed
<1>6. \A s : ScreenMode(c, s) = ScreenMode(d, s)
  BY <1>1 DEF ScreenMode
<1>7. AuthUi(c) = AuthUi(d)
  BY <1>1, <1>6 DEF AuthUi
<1>8. PrincipalKinds(c) = PrincipalKinds(d)
  BY <1>1 DEF PrincipalKinds
<1> QED BY <1>1, <1>3, <1>4, <1>5, <1>7, <1>8 DEF AuthSurface

\* The contract that is served is a validated one.
ContractInv == Running => IsInjective(contract.providers)

\* Every step keeps the contract, and Start serves a validated one.
LEMMA ContractNext ==
    ASSUME ContractInv, [Next]_vars
    PROVE  ContractInv'
<1>1. contract' = contract \/ contract' = Served(parse_auth_block(deployed.source, deployed.mail))
  <2>1. ASSUME NEW r, ReaderStep(r) PROVE contract' = contract
    BY <2>1 DEF ReaderStep, ReadAuthority, ReadHistory, ReadRevision, EnsureFind, EnsureStore, ListInferred,
                ApproveNext, ApplyBulk, Step
  <2> QED BY <2>1 DEF Next, vars, Start, Ask, ProposeChange, Propose, Approve, Reject, Apply
<1>2. CASE contract' = contract
  BY <1>2 DEF ContractInv, Running
<1>3. CASE contract' = Served(parse_auth_block(deployed.source, deployed.mail))
  BY <1>3, ServedValid DEF ContractInv, Running
<1> QED BY <1>1, <1>2, <1>3

\* AuthConfig::fingerprint stands for the contract: contracts that are served
\* and have one fingerprint have one surface, whatever they declare.
THEOREM FingerprintIsSurface == Spec => []SameFingerprintSameSurface
<1>1. Init => ContractInv
  BY DEF Init, ContractInv, Running
<1>2. ContractInv /\ [Next]_vars => ContractInv'
  BY ContractNext
<1>3. ContractInv => SameFingerprintSameSurface
  <2>1. SUFFICES ASSUME ContractInv, Running, NEW d \in Deployments,
                        Served(FromEntries(d.entries, d.mail)) # Error,
                        fingerprint(Served(FromEntries(d.entries, d.mail))) = fingerprint(contract)
                 PROVE  AuthSurface(Served(FromEntries(d.entries, d.mail))) = AuthSurface(contract)
    BY DEF SameFingerprintSameSurface, AtStart
  <2> QED BY <2>1, ServedValid, CanonicalSurface DEF ContractInv
<1> QED BY <1>1, <1>2, <1>3, PTL DEF Spec

(***************************************************************************)
(* Which requests the surface answers.                                     *)
(***************************************************************************)

\* The operations of the table.
Operations ==
    {"login", "signup", "password_change", "password_forgot", "password_reset", "password_policy", "logout",
     "session", "sessions", "profile", "devices", "email_verification", "mfa", "passkeys", "recovery", "providers",
     "authorize", "policies", "authorization_decisions", "authorization_explain", "account_links",
     "current_tenant", "tenants", "agents", "delegations"}
NeverServed == NotEnabled \cup {"policies", "authorization_decisions", "authorization_explain"}

\* The rows of the table: an operation that needs a session looks for one, or
\* is not served at all.
LEMMA RowsOfTable ==
    /\ DOMAIN RouteTable = 1..25
    /\ \A i \in 1..25 : /\ RouteTable[i].operation \in Operations
                        /\ RouteTable[i].requires_session =>
                             RouteTable[i].operation \in NeverServed \cup LooksForSession
<1>1. DOMAIN RouteTable = 1..25
  BY DEF RouteTable
<1>2. \A i \in 1..25 : RouteTable[i].operation \in Operations
  BY DEF RouteTable, Row, Operations
<1>3. \A i \in 1..25 : RouteTable[i].requires_session => RouteTable[i].operation \in NeverServed \cup LooksForSession
  BY DEF RouteTable, Row, NeverServed, NotEnabled, LooksForSession
<1> QED BY <1>1, <1>2, <1>3

\* What route finds is an exposed row that has the path.
LEMMA RouteFound ==
    ASSUME NEW config, NEW path, route(Routes(config), path) # None
    PROVE  \E i \in 1..25 : /\ route(Routes(config), path) = RouteTable[i]
                            /\ Exposed(config, RouteTable[i]) /\ path \in RouteTable[i].spellings
<1> DEFINE routes == Routes(config)
           hits == {i \in DOMAIN routes : path \in routes[i].spellings}
<1>1. /\ DOMAIN routes = {i \in 1..25 : Exposed(config, RouteTable[i])}
      /\ \A i \in DOMAIN routes : routes[i] = RouteTable[i]
  BY RowsOfTable DEF Routes
<1>2. route(routes, path) = IF hits = {} THEN None ELSE routes[Least(hits)]
  BY DEF route
<1> HIDE DEF routes
<1>3. hits # {} /\ hits \subseteq Nat
  BY <1>1, <1>2 DEF routes
<1>4. Least(hits) \in hits
  <2> HIDE DEF hits
  <2> QED BY <1>3, LeastNumber
<1>5. Least(hits) \in DOMAIN routes /\ path \in routes[Least(hits)].spellings
  <2> DEFINE i == Least(hits)
  <2>1. i \in hits
    BY <1>4
  <2> HIDE DEF i
  <2>2. i \in DOMAIN routes /\ path \in routes[i].spellings
    BY <2>1
  <2> QED BY <2>2 DEF i
<1> HIDE DEF hits
<1> QED BY <1>1, <1>2, <1>3, <1>5 DEF routes

\* An operation answers only what its row in the table is found for.
LEMMA HandledByRow ==
    ASSUME NEW config, NEW request, handle(config, request).by \in Operations
    PROVE  LET found == route(Routes(config), request.path)
           IN /\ found # None /\ handle(config, request).by = found.operation
              /\ handle(config, request).status = handle_auth_route(found.operation, request.method, request.session)
<1> DEFINE found == route(Routes(config), request.path)
<1>1. \/ handle(config, request) \in {Answer("client", 200), Answer("control", 200), Answer("boundary", 405),
                                      Answer("boundary", 404), Answer("application", None)}
      \/ /\ found # None
         /\ handle(config, request)
              = Answer(found.operation, handle_auth_route(found.operation, request.method, request.session))
  <2> HIDE DEF found
  <2> QED BY DEF handle, found
<1>2. \A by, status : Answer(by, status).by = by /\ Answer(by, status).status = status
  BY DEF Answer
<1>3. {"client", "control", "boundary", "application"} \cap Operations = {}
  BY DEF Operations
<1> HIDE DEF found
<1> QED BY <1>1, <1>2, <1>3 DEF found

\* A request that the control plane leaves to the surface, and a row takes.
LEMMA HandledFound ==
    ASSUME NEW config, NEW request, NEW row, row # None, route(Routes(config), request.path) = row,
           ~IsControl(request.method, request.path), request.path # <<"authboundry", "client.js">>,
           request.method \in row.methods
    PROVE  handle(config, request).by = row.operation
<1>1. handle(config, request)
        = Answer(row.operation, handle_auth_route(row.operation, request.method, request.session))
  BY DEF handle
<1> QED BY <1>1 DEF Answer

\* Without a session, an operation that looks for one or is not served says so.
LEMMA Refused ==
    ASSUME NEW operation \in NeverServed \cup LooksForSession, NEW method, NEW session, ~session
    PROVE  handle_auth_route(operation, method, session) \notin {200, 202}
BY DEF handle_auth_route, NeverServed, NotEnabled, LooksForSession

\* Nothing is answered before the start.
AnswerInv == (contract = None => answer = None) /\ SessionRoutesNeedOne

\* What a step does to the answer.
LEMMA AnswerSteps ==
    ASSUME [Next]_vars
    PROVE  \/ answer' = None
           \/ Start
           \/ UNCHANGED <<answer, contract>>
           \/ Ask
           \/ Running /\ contract' = contract /\ answer'.by = "propose"
<1>1. ASSUME NEW r, ReaderStep(r) PROVE answer' = None
  BY <1>1 DEF ReaderStep, ReadAuthority, ReadHistory, ReadRevision, EnsureFind, EnsureStore, ListInferred,
              Listing, ApproveNext, ApplyBulk, Read
<1>2. ASSUME ProposeChange PROVE Running /\ contract' = contract /\ answer'.by = "propose"
  BY <1>2 DEF ProposeChange, Propose
<1> QED BY <1>1, <1>2 DEF Next, vars, Approve, Reject, Apply

\* An answer keeps to what its route says of sessions.
LEMMA AskStep ==
    ASSUME TypeOK, Ask
    PROVE  (contract = None => answer = None)' /\ SessionRoutesNeedOne'
<1>1. PICK request \in deployed.requests :
        LET boundary == handle(contract, [request EXCEPT !.path = Spelled(@)])
            application == handle_application(Key(request.method, request.path))
        IN answer' = IF boundary.by = "application"
                     THEN [to |-> request, by |-> "application", status |-> application.status,
                           demand |-> application.demand]
                     ELSE [to |-> request, by |-> boundary.by, status |-> boundary.status, demand |-> None]
  BY DEF Ask
<1>2. Running /\ contract' = contract
  BY DEF Ask
<1> DEFINE asked == [request EXCEPT !.path = Spelled(@)]
           boundary == handle(contract, asked)
           found == route(Routes(contract), Spelled(request.path))
<1>3. {"method", "path", "session"} \subseteq DOMAIN request
  BY BoundaryAssumption DEF TypeOK, WellFormed
<1>4. asked.path = Spelled(request.path) /\ asked.session = request.session
  BY <1>3
<1>5. answer'.by # "application" =>
        answer'.to = request /\ answer'.by = boundary.by /\ answer'.status = boundary.status
  <2> HIDE DEF boundary
  <2> QED BY <1>1 DEF boundary
<1> HIDE DEF asked
<1>6. ASSUME found # None, found.operation = boundary.by, found.requires_session, ~request.session
      PROVE  boundary.status \notin {200, 202}
  <2>1. PICK i \in 1..25 : found = RouteTable[i]
    BY <1>6, RouteFound
  <2>2. found.operation \in Operations /\ found.operation \in NeverServed \cup LooksForSession
    BY <1>6, <2>1, RowsOfTable
  <2>3. boundary.status = handle_auth_route(found.operation, asked.method, asked.session)
    BY <1>4, <1>6, <2>2, HandledByRow
  <2> HIDE DEF boundary, found
  <2> QED BY <1>4, <1>6, <2>2, <2>3, Refused
<1>7. SessionRoutesNeedOne'
  <2>1. SUFFICES ASSUME answer'.by # "application",
                        LET f == route(Routes(contract'), Spelled(answer'.to.path))
                        IN f # None /\ f.operation = answer'.by /\ f.requires_session /\ ~answer'.to.session
                 PROVE  answer'.status \notin {200, 202}
    BY DEF SessionRoutesNeedOne, Spelled
  <2>2. found # None /\ found.operation = boundary.by /\ found.requires_session /\ ~request.session
    <3> HIDE DEF boundary
    <3> QED BY <1>2, <1>5, <2>1
  <2> QED BY <1>5, <1>6, <2>1, <2>2
<1> QED BY <1>2, <1>7 DEF Running

\* A route that says it needs a session never serves a request that has none,
\* whatever the contract exposes (requires_session, handle_auth_route).
THEOREM SessionsAreNeeded == Spec => []SessionRoutesNeedOne
<1>1. Init => AnswerInv
  BY DEF Init, AnswerInv, SessionRoutesNeedOne
<1>2. TypeOK /\ AnswerInv /\ [Next]_vars => AnswerInv'
  <2>1. SUFFICES ASSUME TypeOK, AnswerInv, [Next]_vars PROVE AnswerInv'
    OBVIOUS
  <2>2. CASE answer' = None
    BY <2>2 DEF AnswerInv, SessionRoutesNeedOne
  <2>3. CASE Start
    <3>1. answer' = None
      BY <2>1, <2>3 DEF Start, AnswerInv
    <3> QED BY <3>1 DEF AnswerInv, SessionRoutesNeedOne
  <2>4. CASE UNCHANGED <<answer, contract>>
    BY <2>1, <2>4 DEF AnswerInv, SessionRoutesNeedOne, Spelled
  <2>5. CASE Ask
    BY <2>1, <2>5, AskStep DEF AnswerInv
  <2>6. CASE Running /\ contract' = contract /\ answer'.by = "propose"
    BY <2>6 DEF AnswerInv, SessionRoutesNeedOne, Running
  <2> QED BY <2>1, <2>2, <2>3, <2>4, <2>5, <2>6, AnswerSteps
<1>3. AnswerInv => SessionRoutesNeedOne
  BY DEF AnswerInv
<1> QED BY <1>1, <1>2, <1>3, ReportsAreTrue, PTL DEF Spec

\* For each experience that has an operation of its own, the row that serves
\* it, and a request that reaches it.
RowFor == [sign_in |-> 1, sign_up |-> 2, sign_out |-> 7, password_reset |-> 5, password_change |-> 3,
    account_linking |-> 21, email_verification |-> 12, mfa |-> 13, passkeys |-> 14, device_management |-> 11,
    session_management |-> 9, profile |-> 10, tenant_switching |-> 23, recovery |-> 15]
RequestFor == [sign_in |-> <<"POST", <<"auth", "login">>>>, sign_up |-> <<"POST", <<"auth", "signup">>>>,
    sign_out |-> <<"POST", <<"auth", "logout">>>>, password_reset |-> <<"POST", <<"auth", "password", "reset">>>>,
    password_change |-> <<"POST", <<"auth", "password", "change">>>>,
    account_linking |-> <<"POST", <<"auth", "account", "links">>>>,
    email_verification |-> <<"POST", <<"auth", "email", "verification">>>>,
    mfa |-> <<"POST", <<"auth", "mfa">>>>, passkeys |-> <<"POST", <<"auth", "passkeys">>>>,
    device_management |-> <<"GET", <<"auth", "devices">>>>, session_management |-> <<"GET", <<"auth", "sessions">>>>,
    profile |-> <<"GET", <<"auth", "profile">>>>, tenant_switching |-> <<"GET", <<"auth", "tenants">>>>,
    recovery |-> <<"POST", <<"auth", "recovery">>>>]

\* An operation of an experience is served by rows of this experience only.
LEMMA RowsOfOperation ==
    ASSUME NEW e \in Experiences \ {"external_identity"}, OperationOf[e] # None
    PROVE  /\ e \in DOMAIN RowFor /\ OperationOf[e] \in Operations
           /\ \A j \in 1..25 : RouteTable[j].operation = OperationOf[e] => RouteTable[j].experience = e
<1>1. e \in DOMAIN RowFor
  BY DEF Experiences, RowFor, OperationOf
<1>2. OperationOf[e] \in Operations
  BY <1>1 DEF RowFor, OperationOf, Operations
<1>3. \A j \in 1..25 : RouteTable[j].operation = OperationOf[e] => RouteTable[j].experience = e
  BY <1>1 DEF RowFor, OperationOf, RouteTable, Row
<1> QED BY <1>1, <1>2, <1>3

\* No other row has the spelling of one of these requests.
LEMMA SpelledOnce ==
    ASSUME NEW e \in DOMAIN RowFor, NEW j \in 1..25, RequestFor[e][2] \in RouteTable[j].spellings
    PROVE  j = RowFor[e]
<1>0. e \in {"sign_in", "sign_up", "sign_out", "password_reset", "password_change", "account_linking",
            "email_verification", "mfa", "passkeys", "device_management", "session_management", "profile",
            "tenant_switching", "recovery"}
  BY DEF RowFor
<1>1. CASE e = "sign_in"
  BY <1>1 DEF RowFor, RequestFor, RouteTable, Row
<1>2. CASE e = "sign_up"
  BY <1>2 DEF RowFor, RequestFor, RouteTable, Row
<1>3. CASE e = "sign_out"
  BY <1>3 DEF RowFor, RequestFor, RouteTable, Row
<1>4. CASE e = "password_reset"
  BY <1>4 DEF RowFor, RequestFor, RouteTable, Row
<1>5. CASE e = "password_change"
  BY <1>5 DEF RowFor, RequestFor, RouteTable, Row
<1>6. CASE e = "account_linking"
  BY <1>6 DEF RowFor, RequestFor, RouteTable, Row
<1>7. CASE e = "email_verification"
  BY <1>7 DEF RowFor, RequestFor, RouteTable, Row
<1>8. CASE e = "mfa"
  BY <1>8 DEF RowFor, RequestFor, RouteTable, Row
<1>9. CASE e = "passkeys"
  BY <1>9 DEF RowFor, RequestFor, RouteTable, Row
<1>10. CASE e = "device_management"
  BY <1>10 DEF RowFor, RequestFor, RouteTable, Row
<1>11. CASE e = "session_management"
  BY <1>11 DEF RowFor, RequestFor, RouteTable, Row
<1>12. CASE e = "profile"
  BY <1>12 DEF RowFor, RequestFor, RouteTable, Row
<1>13. CASE e = "tenant_switching"
  BY <1>13 DEF RowFor, RequestFor, RouteTable, Row
<1>14. CASE e = "recovery"
  BY <1>14 DEF RowFor, RequestFor, RouteTable, Row
<1> QED BY <1>0, <1>1, <1>2, <1>3, <1>4, <1>5, <1>6, <1>7, <1>8, <1>9, <1>10, <1>11, <1>12, <1>13, <1>14

\* The request for an experience is spelled in its row, and in no other.
LEMMA RowOfRequest ==
    ASSUME NEW e \in DOMAIN RowFor
    PROVE  LET row == RouteTable[RowFor[e]]
               path == RequestFor[e][2]
           IN /\ RowFor[e] \in 1..25 /\ row.operation = OperationOf[e] /\ row.experience = e
              /\ row.needs = (IF e = "account_linking" THEN "account_linking"
                              ELSE IF e = "tenant_switching" THEN "tenants" ELSE None)
              /\ RequestFor[e][1] \in Methods /\ RequestFor[e][1] \in row.methods
              /\ path \in row.spellings
              /\ path # <<"authboundry", "client.js">> /\ Head(path) = "auth"
              /\ \A j \in 1..25 : path \in RouteTable[j].spellings => j = RowFor[e]
<1>1. RowFor[e] \in 1..25
  BY DEF RowFor
<1>2. RouteTable[RowFor[e]].operation = OperationOf[e] /\ RouteTable[RowFor[e]].experience = e
  BY DEF RowFor, RouteTable, Row, OperationOf
<1>3. RouteTable[RowFor[e]].needs = (IF e = "account_linking" THEN "account_linking"
                                     ELSE IF e = "tenant_switching" THEN "tenants" ELSE None)
  BY DEF RowFor, RouteTable, Row
<1>4. RequestFor[e][1] \in Methods /\ RequestFor[e][1] \in RouteTable[RowFor[e]].methods
  BY DEF RowFor, RequestFor, RouteTable, Row, Methods
<1>5. RequestFor[e][2] \in RouteTable[RowFor[e]].spellings
  BY DEF RowFor, RequestFor, RouteTable, Row
<1>6. Head(RequestFor[e][2]) = "auth" /\ RequestFor[e][2] # <<"authboundry", "client.js">>
  BY DEF RowFor, RequestFor
<1>7. \A j \in 1..25 : RequestFor[e][2] \in RouteTable[j].spellings => j = RowFor[e]
  BY SpelledOnce
<1> QED BY <1>1, <1>2, <1>3, <1>4, <1>5, <1>6, <1>7

\* An operation answers some request exactly if its experience is exposed.
LEMMA ReachedIfDeclared ==
    ASSUME NEW config, NEW e \in Listed(config) \ {"external_identity"}, OperationOf[e] # None
    PROVE  Reaches(config, OperationOf[e]) <=> config.experience[e] # "disabled"
<1>1. /\ e \in Experiences /\ (e = "tenant_switching" => AuthFeatures(config)["tenants"])
      /\ (e = "account_linking" => AuthFeatures(config)["account_linking"])
  BY DEF Listed
<1>2. /\ e \in DOMAIN RowFor /\ OperationOf[e] \in Operations
      /\ \A j \in 1..25 : RouteTable[j].operation = OperationOf[e] => RouteTable[j].experience = e
  BY <1>1, RowsOfOperation
<1>3. e # None
  <2>1. None \notin Experiences
    BY BoundaryAssumption
  <2> QED BY <1>1, <2>1
<1>4. ASSUME Reaches(config, OperationOf[e]) PROVE config.experience[e] # "disabled"
  <2>1. PICK request : handle(config, request).by = OperationOf[e]
    BY <1>4 DEF Reaches
  <2> DEFINE found == route(Routes(config), request.path)
  <2>2. found # None /\ found.operation = OperationOf[e]
    BY <1>2, <2>1, HandledByRow
  <2>3. PICK i \in 1..25 : found = RouteTable[i] /\ Exposed(config, RouteTable[i])
    BY <2>2, RouteFound
  <2> HIDE DEF found
  <2>4. RouteTable[i].experience = e
    BY <1>2, <2>2, <2>3
  <2> QED BY <1>3, <2>3, <2>4 DEF Exposed, Enabled, is_invokable
<1>5. ASSUME config.experience[e] # "disabled" PROVE Reaches(config, OperationOf[e])
  <2> DEFINE i == RowFor[e]
             row == RouteTable[i]
             method == RequestFor[e][1]
             path == RequestFor[e][2]
             request == [method |-> method, path |-> path, session |-> TRUE]
             routes == Routes(config)
             hits == {j \in DOMAIN routes : path \in routes[j].spellings}
  <2>1. /\ i \in 1..25 /\ row.operation = OperationOf[e] /\ row.experience = e
        /\ row.needs = (IF e = "account_linking" THEN "account_linking"
                        ELSE IF e = "tenant_switching" THEN "tenants" ELSE None)
        /\ method \in Methods /\ method \in row.methods
        /\ path \in row.spellings
        /\ path # <<"authboundry", "client.js">> /\ Head(path) = "auth"
        /\ \A j \in 1..25 : path \in RouteTable[j].spellings => j = i
    BY <1>2, RowOfRequest
  <2>2. request.method = method /\ request.path = path
    OBVIOUS
  <2>3. row # None
    BY <2>1, RowsOfTable, BoundaryAssumption DEF ToSet
  <2> HIDE DEF i, method, path, request
  <2>4. Exposed(config, row)
    <3>1. Enabled(config, row.experience)
      BY <1>5, <2>1 DEF Enabled, is_invokable
    <3>2. row.needs = None \/ AuthFeatures(config)[row.needs]
      BY <1>1, <2>1
    <3> QED BY <3>1, <3>2 DEF Exposed
  <2>5. hits = {i} /\ routes[i] = row
    <3>1. /\ DOMAIN routes = {j \in 1..25 : Exposed(config, RouteTable[j])}
          /\ \A j \in DOMAIN routes : routes[j] = RouteTable[j]
      BY RowsOfTable DEF Routes
    <3> HIDE DEF routes
    <3> QED BY <2>1, <2>4, <3>1
  <2>6. route(routes, path) = row
    <3>1. Least({i}) = i
      BY <2>1 DEF Least
    <3> HIDE DEF routes, row
    <3> QED BY <2>5, <3>1 DEF route
  <2>7. ~IsControl(request.method, request.path)
    BY <2>1, <2>2 DEF IsControl
  <2>8. handle(config, request).by = row.operation
    <3>1. route(Routes(config), request.path) = row
      BY <2>2, <2>6
    <3>2. /\ request.path # <<"authboundry", "client.js">> /\ request.method \in row.methods
      BY <2>1, <2>2
    <3> HIDE DEF row, routes
    <3> QED BY <2>3, <2>7, <3>1, <3>2, HandledFound
  <2>9. path \in Spellings
    BY <2>1, RowsOfTable DEF Spellings
  <2> HIDE DEF row
  <2> QED BY <2>1, <2>8, <2>9 DEF Reaches, request
<1> QED BY <1>4, <1>5

\* The surface and the dispatch agree on what is_invokable exposes, for every
\* contract: an operation answers some request exactly if its experience is
\* not disabled.
THEOREM DeclaredIsReached == Spec => []OnlyDeclaredExperiences
<1>1. OnlyDeclaredExperiences
  BY ReachedIfDeclared DEF OnlyDeclaredExperiences
<1> QED BY <1>1, PTL

(***************************************************************************)
(* RequestUnderstood: what is written is what is read.                     *)
(***************************************************************************)

\* A sequence is one of its elements.
LEMMA OfElements ==
    /\ \A S : \A s \in Seq(S) : s \in Seq(ToSet(s)) /\ ToSet(s) \subseteq S
    /\ \A s : s \in Seq(ToSet(s)) => Len(s) \in Nat /\ DOMAIN s = 1..Len(s) /\ ToSet(s) = {s[i] : i \in 1..Len(s)}
<1>1. ASSUME NEW S, NEW s \in Seq(S) PROVE s \in Seq(ToSet(s)) /\ ToSet(s) \subseteq S
  <2>1. Len(s) \in Nat /\ DOMAIN s = 1..Len(s) /\ \A i \in 1..Len(s) : s[i] \in S
    BY SeqElement
  <2>2. s = [i \in 1..Len(s) |-> s[i]]
    BY <2>1
  <2>3. \A i \in 1..Len(s) : s[i] \in ToSet(s)
    BY <2>1 DEF ToSet
  <2>4. ToSet(s) \subseteq S
    BY <2>1 DEF ToSet
  <2> DEFINE A == ToSet(s)
             n == Len(s)
  <2>5. s \in [1..n -> A] /\ n \in Nat
    BY <2>1, <2>2, <2>3
  <2> HIDE DEF A, n
  <2>6. s \in Seq(A)
    BY <2>5
  <2> QED BY <2>4, <2>6 DEF A
<1>2. ASSUME NEW s, s \in Seq(ToSet(s))
      PROVE  Len(s) \in Nat /\ DOMAIN s = 1..Len(s) /\ ToSet(s) = {s[i] : i \in 1..Len(s)}
  <2>1. Len(s) \in Nat /\ DOMAIN s = 1..Len(s)
    BY <1>2, SeqElement
  <2> QED BY <2>1 DEF ToSet
<1> QED BY <1>1, <1>2

\* The elements of two sequences, one after the other.
LEMMA ElementsJoined ==
    ASSUME NEW S, NEW s \in Seq(S), NEW t \in Seq(S)
    PROVE  s \o t \in Seq(S) /\ ToSet(s \o t) = ToSet(s) \cup ToSet(t)
<1>1. /\ Len(s) \in Nat /\ DOMAIN s = 1..Len(s) /\ Len(t) \in Nat /\ DOMAIN t = 1..Len(t)
      /\ s \o t \in Seq(S) /\ Len(s \o t) = Len(s) + Len(t)
      /\ \A i \in 1..Len(s) + Len(t) :
            (s \o t)[i] = IF i <= Len(s) THEN s[i] ELSE t[i - Len(s)]
  BY SeqElement, ConcatProperties
<1> DEFINE u == s \o t
<1>2. DOMAIN u = 1..Len(s) + Len(t)
  BY <1>1, SeqElement
<1>3. \A i \in 1..Len(s) : u[i] = s[i] /\ i \in DOMAIN u
  BY <1>1, <1>2
<1>4. \A i \in 1..Len(t) : u[Len(s) + i] = t[i] /\ Len(s) + i \in DOMAIN u
  BY <1>1, <1>2
<1>5. \A i \in DOMAIN u : u[i] \in ToSet(s) \cup ToSet(t)
  <2>1. \A i \in DOMAIN u : i \in 1..Len(s) \/ i - Len(s) \in 1..Len(t)
    BY <1>1, <1>2
  <2> QED BY <2>1, <1>1, <1>2 DEF ToSet
<1> HIDE DEF u
<1>6. ToSet(u) = ToSet(s) \cup ToSet(t)
  BY <1>1, <1>3, <1>4, <1>5 DEF ToSet
<1> QED BY <1>1, <1>6 DEF u

\* The elements of several sequences, one after the other.
LEMMA ElementsFlattened ==
    ASSUME NEW S, NEW n \in Nat, n >= 1, NEW seqs \in [1..n -> Seq(S)]
    PROVE  /\ FlattenSeq(seqs) \in Seq(S)
           /\ ToSet(FlattenSeq(seqs)) = UNION {ToSet(seqs[i]) : i \in 1..n}
<1> DEFINE T == Seq(S)
           step == [k \in 1..n |-> [s \in T |-> s \o seqs[k]]]
           Def(g) == g = [i \in 1..n |-> IF i = 1 THEN seqs[i] ELSE g[i - 1] \o seqs[i]]
           flat == CHOOSE g : Def(g)
<1>1. Len(seqs) = n /\ n # 0
  OBVIOUS
<1>2. FlattenSeq(seqs) = flat[n]
  BY <1>1 DEF FlattenSeq
<1>3. Def(flat)
  <2>1. Steps(step, n, T)
    <3>1. \A k \in 1..n : \A s \in T : s \o seqs[k] \in T
      BY ConcatProperties
    <3> QED BY <3>1 DEF Steps
  <2>2. <<>> \in T
    OBVIOUS
  <2> HIDE DEF step
  <2>3. PICK f : IsIteration(f, n, T, <<>>, step)
    BY <2>1, <2>2, Iterates
  <2>4. f \in [0..n -> T] /\ f[0] = <<>> /\ \A k \in 1..n : f[k] = f[k - 1] \o seqs[k]
    <3>1. f \in [0..n -> T] /\ f[0] = <<>> /\ \A k \in 1..n : f[k] = step[k][f[k - 1]]
      BY <2>3 DEF IsIteration
    <3>2. \A k \in 1..n : \A s \in T : step[k][s] = s \o seqs[k]
      BY DEF step
    <3> HIDE DEF T
    <3>3. \A k \in 1..n : f[k - 1] \in T
      BY <3>1
    <3> QED BY <3>1, <3>2, <3>3
  <2> DEFINE g == [i \in 1..n |-> f[i]]
  <2>5. ASSUME NEW i \in 1..n PROVE g[i] = IF i = 1 THEN seqs[i] ELSE g[i - 1] \o seqs[i]
    <3>1. CASE i = 1
      <4>1. f[1] = <<>> \o seqs[1]
        <5>1. 1 \in 1..n /\ 1 - 1 = 0
          OBVIOUS
        <5> HIDE DEF T
        <5>2. f[1] = f[1 - 1] \o seqs[1]
          BY <2>4, <5>1
        <5> QED BY <2>4, <5>1, <5>2
      <4>2. <<>> \o seqs[1] = seqs[1]
        BY ConcatEmptySeq
      <4> QED BY <3>1, <4>1, <4>2
    <3>2. CASE i # 1
      <4>1. i - 1 \in 1..n /\ g[i] = f[i] /\ g[i - 1] = f[i - 1]
        BY <3>2
      <4> HIDE DEF T, g
      <4>2. f[i] = f[i - 1] \o seqs[i]
        BY <2>4
      <4> QED BY <3>2, <4>1, <4>2
    <3> QED BY <3>1, <3>2
  <2>6. Def(g)
    BY <2>5
  <2> HIDE DEF Def, g
  <2> QED BY <2>6
<1> HIDE DEF flat
<1>4. \A i \in 1..n : flat[i] = IF i = 1 THEN seqs[i] ELSE flat[i - 1] \o seqs[i]
  BY <1>3
<1> HIDE DEF Def
<1> DEFINE Fine(k) == k >= 1 => flat[k] \in T /\ ToSet(flat[k]) = UNION {ToSet(seqs[i]) : i \in 1..k}
           K == {k \in 0..n : Fine(k)}
<1>5. 0 \in K
  OBVIOUS
<1>6. ASSUME NEW k \in 1..n, k - 1 \in K PROVE k \in K
  <2>1. CASE k = 1
    <3>1. flat[1] = seqs[1] /\ seqs[1] \in T
      BY <1>4, <2>1
    <3>2. UNION {ToSet(seqs[i]) : i \in 1..1} = ToSet(seqs[1])
      OBVIOUS
    <3> QED BY <2>1, <3>1, <3>2
  <2>2. CASE k # 1
    <3>1. k - 1 \in 1..n /\ k - 1 >= 1 /\ flat[k] = flat[k - 1] \o seqs[k] /\ seqs[k] \in T
      <4>1. k - 1 \in 1..n /\ k - 1 >= 1
        BY <2>2
      <4>2. seqs[k] \in T
        OBVIOUS
      <4> HIDE DEF T
      <4>3. flat[k] = flat[k - 1] \o seqs[k]
        BY <1>4, <2>2
      <4> QED BY <4>1, <4>2, <4>3
    <3>2. flat[k - 1] \in T /\ ToSet(flat[k - 1]) = UNION {ToSet(seqs[i]) : i \in 1..k - 1}
      BY <1>6, <3>1
    <3>3. flat[k] \in T /\ ToSet(flat[k]) = ToSet(flat[k - 1]) \cup ToSet(seqs[k])
      BY <3>1, <3>2, ElementsJoined
    <3>4. UNION {ToSet(seqs[i]) : i \in 1..k} = (UNION {ToSet(seqs[i]) : i \in 1..k - 1}) \cup ToSet(seqs[k])
      <4>1. 1..k = (1..k - 1) \cup {k}
        OBVIOUS
      <4> DEFINE A == {ToSet(seqs[i]) : i \in 1..k}
                 B == {ToSet(seqs[i]) : i \in 1..k - 1}
      <4>2. A = B \cup {ToSet(seqs[k])}
        BY <4>1
      <4> HIDE DEF A, B
      <4>3. UNION A = (UNION B) \cup ToSet(seqs[k])
        BY <4>2
      <4> QED BY <4>3, Zenon DEF A, B
    <3> DEFINE U == UNION {ToSet(seqs[i]) : i \in 1..k}
               V == UNION {ToSet(seqs[i]) : i \in 1..k - 1}
    <3>5. ToSet(flat[k]) = U
      <4>1. ToSet(flat[k - 1]) = V /\ U = V \cup ToSet(seqs[k])
        BY <3>2, <3>4
      <4> HIDE DEF U, V
      <4> QED BY <3>3, <4>1
    <3> HIDE DEF U, V, T
    <3>6. flat[k] \in T /\ ToSet(flat[k]) = U
      BY <3>3, <3>5
    <3> QED BY <3>6 DEF U
  <2> QED BY <2>1, <2>2
<1> HIDE DEF K
<1>7. \A k \in 0..n : k \in K
  BY <1>5, <1>6, Induct
<1>8. Fine(n)
  BY <1>7 DEF K
<1> QED BY <1>2, <1>8

\* How a body is read that is made of a word and fields with other values: the
\* word alone decides what the change is, and a field is read by its name.
Reads(body, w, F) ==
    /\ Names(body, w) /\ KindOf(body) = Tests[Kinds[w]].kind
    /\ \A f \in F : (\A g \in F : g.name = f.name => g = f) =>
         \A kinds : Extract(body, f.name, kinds) = IF f.kind \in kinds THEN f.value ELSE None
    /\ \A name : name # "type" /\ (\A f \in F : f.name # name) => \A kinds : Extract(body, name, kinds) = None

\* Such a body of fields is read so, wherever the word stands.
LEMMA BodyRead ==
    ASSUME NEW body, DOMAIN body \subseteq Nat, NEW w \in DOMAIN Kinds, NEW spaced, NEW F,
           ToSet(body) = {BodyField("type", "word", w, spaced)} \cup F,
           \A f \in F : f.kind # "word" /\ f.name \notin Words \cup {"type"} /\ QuietField(f, w)
    PROVE  Reads(body, w, F)
<1> DEFINE t == BodyField("type", "word", w, spaced)
<1>1. t.name = "type" /\ t.kind = "word" /\ t.value = w
  BY DEF BodyField
<1> HIDE DEF t
<1>2. /\ \A i \in DOMAIN body : body[i] = t \/ body[i] \in F
      /\ \E i \in DOMAIN body : body[i] = t
      /\ \A f \in F : \E i \in DOMAIN body : body[i] = f
  BY DEF ToSet, t
<1>3. Names(body, w)
  BY <1>1, <1>2, NamesOne
<1>4. ASSUME NEW f \in F, \A g \in F : g.name = f.name => g = f, NEW kinds
      PROVE  Extract(body, f.name, kinds) = IF f.kind \in kinds THEN f.value ELSE None
  <2> DEFINE at == {i \in DOMAIN body : body[i].name = f.name}
  <2>1. at # {} /\ at \subseteq Nat /\ \A i \in at : body[i] = f
    BY <1>1, <1>2, <1>4
  <2>2. Extract(body, f.name, kinds)
          = IF at = {} THEN None ELSE IF body[Least(at)].kind \in kinds THEN body[Least(at)].value ELSE None
    BY DEF Extract
  <2> HIDE DEF at
  <2>3. Least(at) \in at
    BY <2>1, LeastNumber
  <2> QED BY <2>1, <2>2, <2>3
<1>5. ASSUME NEW name, name # "type", \A f \in F : f.name # name, NEW kinds
      PROVE  Extract(body, name, kinds) = None
  BY <1>1, <1>2, <1>5 DEF Extract
<1> QED BY <1>3, <1>4, <1>5, KindRead DEF Reads

\* The texts of a body: what is named is written, in the order of the names.
Texts(names, options, spaced) ==
    [i \in DOMAIN names |-> BodyField(names[i], "text", options[names[i]], spaced)]
TextsOf(names, options, spaced) == {BodyField(n, "text", options[n], spaced) : n \in ToSet(names)}

\* A body of a word, of texts, and of other values.
BodyWith(w, names, options, spaced, more) ==
    <<BodyField("type", "word", w, spaced)>> \o Texts(names, options, spaced) \o more
Writable(names, more) ==
    /\ names \in Seq(ToSet(names)) /\ more \in Seq(ToSet(more))
    /\ \A n \in ToSet(names) : n \notin Words \cup {"type"}
    /\ \A f \in ToSet(more) : f.kind \notin {"word", "text"} /\ f.name \notin Words \cup {"type"}
\* None of the texts misleads.
Quiet(w, names, options) == \A n \in ToSet(names) : QuietField(BodyField(n, "text", options[n], TRUE), w)
Made(body, w, spaced, F) == ToSet(body) = {BodyField("type", "word", w, spaced)} \cup F

\* It has these fields, and is read as such a body is.
LEMMA TextBody ==
    ASSUME NEW w \in DOMAIN Kinds, NEW spaced, NEW options, NEW names, NEW more, Writable(names, more),
           Quiet(w, names, options)
    PROVE  LET body == BodyWith(w, names, options, spaced, more)
               F == TextsOf(names, options, spaced) \cup ToSet(more)
           IN /\ Reads(body, w, F)
              /\ Made(body, w, spaced, F)
              /\ more = <<>> => body = <<BodyField("type", "word", w, spaced)>> \o Texts(names, options, spaced)
<1> DEFINE t == BodyField("type", "word", w, spaced)
           texts == Texts(names, options, spaced)
           T == TextsOf(names, options, spaced)
           S == {t} \cup T \cup ToSet(more)
<1>0. /\ names \in Seq(ToSet(names)) /\ more \in Seq(ToSet(more))
      /\ \A n \in ToSet(names) : n \notin Words \cup {"type"}
      /\ \A f \in ToSet(more) : f.kind \notin {"word", "text"} /\ f.name \notin Words \cup {"type"}
  BY DEF Writable
<1>1. texts \in Seq(S) /\ ToSet(texts) = T
  <2>1. Len(names) \in Nat /\ DOMAIN names = 1..Len(names)
    BY <1>0, SeqElement
  <2>2. texts = [i \in 1..Len(names) |-> BodyField(names[i], "text", options[names[i]], spaced)]
    BY <2>1 DEF Texts
  <2>3. ToSet(texts) = T
    BY <2>1, <2>2 DEF ToSet, TextsOf
  <2>4. \A i \in 1..Len(names) : texts[i] \in S
    BY <2>1, <2>2 DEF ToSet, TextsOf
  <2> HIDE DEF S, T
  <2> QED BY <2>1, <2>2, <2>3, <2>4
<1>2. <<t>> \in Seq(S) /\ ToSet(<<t>>) = {t}
  BY DEF ToSet
<1>3. more \in Seq(S)
  <2>1. ToSet(more) \subseteq S
    OBVIOUS
  <2> HIDE DEF S
  <2> QED BY <1>0, <2>1, SeqMonotonic
<1> DEFINE word == <<t>>
           front == word \o texts
<1> HIDE DEF t, texts, T, S, word, front
<1>4. front \in Seq(S) /\ ToSet(front) = {t} \cup T
  <2>1. word \in Seq(S) /\ ToSet(word) = {t}
    BY <1>2 DEF word
  <2>2. texts \in Seq(S) /\ ToSet(texts) = T
    BY <1>1
  <2>3. word \o texts \in Seq(S) /\ ToSet(word \o texts) = ToSet(word) \cup ToSet(texts)
    BY <2>1, <2>2, ElementsJoined
  <2> QED BY <2>1, <2>2, <2>3 DEF front
<1> DEFINE whole == front \o more
<1>5. whole \in Seq(S) /\ ToSet(whole) = {t} \cup T \cup ToSet(more)
  <2>1. front \o more \in Seq(S) /\ ToSet(front \o more) = ToSet(front) \cup ToSet(more)
    BY <1>3, <1>4, ElementsJoined
  <2> QED BY <1>4, <2>1
<1> HIDE DEF whole
<1>6. DOMAIN whole \subseteq Nat
  BY <1>5, SeqElement
<1>7. ASSUME NEW f \in T \cup ToSet(more)
      PROVE  f.kind # "word" /\ f.name \notin Words \cup {"type"} /\ QuietField(f, w)
  <2>1. CASE f \in T
    <3>1. PICK n \in ToSet(names) : f = BodyField(n, "text", options[n], spaced)
      BY <2>1 DEF T, TextsOf
    <3>2. QuietField(BodyField(n, "text", options[n], TRUE), w)
      BY DEF Quiet
    <3>3. QuietField(f, w)
      BY <3>1, <3>2 DEF QuietField, BodyField
    <3> QED BY <1>0, <3>1, <3>3 DEF BodyField
  <2>2. CASE f \in ToSet(more)
    BY <1>0, <2>2 DEF QuietField
  <2> QED BY <2>1, <2>2
<1>8. ToSet(whole) = {t} \cup (T \cup ToSet(more))
  BY <1>5
<1>9. Reads(whole, w, T \cup ToSet(more))
  BY <1>6, <1>7, <1>8, BodyRead DEF t
<1>10. whole = BodyWith(w, names, options, spaced, more)
  BY DEF BodyWith, whole, front, word, texts, t
<1>11. more = <<>> => whole = front
  BY <1>4, ConcatEmptySeq DEF whole
<1>12. front = <<BodyField("type", "word", w, spaced)>> \o Texts(names, options, spaced)
  BY DEF front, word, texts, t
<1> QED BY <1>8, <1>9, <1>10, <1>11, <1>12 DEF t, T, Made

\* What is read from it: the kind of its word, the texts under their names, and
\* nothing under a name that it does not have.
LEMMA TextsRead ==
    ASSUME NEW w \in DOMAIN Kinds, NEW spaced, NEW options, NEW names, NEW more, Writable(names, more),
           Quiet(w, names, options), \A f \in ToSet(more) : f.name \notin ToSet(names)
    PROVE  LET body == BodyWith(w, names, options, spaced, more)
           IN /\ KindOf(body) = Tests[Kinds[w]].kind /\ Names(body, w)
              /\ \A n \in ToSet(names) : extract_quoted_field(body, n) = options[n]
              /\ \A n : n # "type" /\ n \notin ToSet(names) /\ (\A f \in ToSet(more) : f.name # n)
                          => extract_quoted_field(body, n) = None
<1> DEFINE body == BodyWith(w, names, options, spaced, more)
           T == TextsOf(names, options, spaced)
           F == T \cup ToSet(more)
<1>1. Reads(body, w, F)
  BY TextBody
<1>2. \A f \in T : f.kind = "text" /\ f.name \in ToSet(names) /\ f = BodyField(f.name, "text", options[f.name], spaced)
  BY DEF TextsOf, BodyField
<1>3. \A n \in ToSet(names) : BodyField(n, "text", options[n], spaced) \in T
  BY DEF TextsOf
<1> HIDE DEF body, T
<1>4. ASSUME NEW n \in ToSet(names) PROVE extract_quoted_field(body, n) = options[n]
  <2> DEFINE f == BodyField(n, "text", options[n], spaced)
  <2>1. f.name = n /\ f.kind = "text" /\ f.value = options[n]
    BY DEF BodyField
  <2>2. \A g \in F : g.name = n => g = f
    BY <1>2
  <2>3. f \in F
    BY <1>3
  <2> HIDE DEF f, F
  <2>4. \A kinds : Extract(body, f.name, kinds) = IF f.kind \in kinds THEN f.value ELSE None
    BY <1>1, <2>1, <2>2, <2>3 DEF Reads
  <2> QED BY <2>1, <2>4 DEF extract_quoted_field
<1>5. ASSUME NEW n, n # "type", n \notin ToSet(names), \A f \in ToSet(more) : f.name # n
      PROVE  extract_quoted_field(body, n) = None
  <2>1. \A f \in F : f.name # n
    BY <1>2, <1>5
  <2> HIDE DEF F
  <2> QED BY <1>1, <1>5, <2>1 DEF Reads, extract_quoted_field
<1>6. KindOf(body) = Tests[Kinds[w]].kind /\ Names(body, w)
  BY <1>1 DEF Reads
<1> QED BY <1>4, <1>5, <1>6 DEF body

\* The names that clients write.
LEMMA NamesWritten ==
    /\ Needs["protect_route"] = <<"method", "path", "capability">>
    /\ Needs["set_policy"] = <<"capability", "policy">>
    /\ Needs["enable_provider"] = <<"provider">> /\ Needs["disable_provider"] = <<"provider">>
    /\ PageFields["protect_route"] = <<"method", "path", "capability">>
    /\ PageFields["set_capability_policy"] = <<"capability", "policy", "roles">>
    /\ \A v \in DOMAIN TypeWord : TypeWord[v] = v
    /\ DOMAIN TypeWord = {"protect_route", "unprotect_route", "set_policy", "enable_provider", "disable_provider"}
BY DEF Needs, PageFields, TypeWord

\* The names of one, two and three texts.
LEMMA FewNames ==
    /\ \A a, b, c : ToSet(<<a, b, c>>) = {a, b, c} /\ ToSet(<<a, b>>) = {a, b} /\ ToSet(<<a>>) = {a}
    /\ ToSet(<<>>) = {}
BY DEF ToSet

\* The protection that texts name, if the first names a method.
Protected(method, path, capability) ==
    OnRoute(RouteNamed(method, path),
            [type |-> "ProtectRoute", route |-> RouteNamed(method, path), capability |-> capability])

\* The kind of a body decides what is read from it (parse_authority_change).
LEMMA ParsedAs ==
    ASSUME NEW body
    PROVE  LET text(n) == extract_quoted_field(body, n)
           IN /\ KindOf(body) = "ProtectRoute" /\ text("method") # None /\ text("path") # None /\ text("capability") # None
                 => parse_authority_change(body) = Protected(text("method"), text("path"), text("capability"))
              /\ KindOf(body) = "SetCapabilityPolicy" /\ text("capability") # None /\ text("policy") # None
                 => parse_authority_change(body)
                      = [type |-> "SetCapabilityPolicy", capability |-> text("capability"), policy |-> RolePolicy(body)]
              /\ KindOf(body) = "SetProviderEnabled" /\ text("provider") # None
                 => parse_authority_change(body)
                      = [type |-> "SetProviderEnabled", provider |-> text("provider"), enabled |-> SwitchesOn(body)]
              /\ KindOf(body) = "SetPasswordPolicy" /\ password_policy_from_body(body) # Error
                 => parse_authority_change(body)
                      = [type |-> "SetPasswordPolicy", policy |-> password_policy_from_body(body)]
<1> DEFINE text(n) == extract_quoted_field(body, n)
<1>1. ASSUME KindOf(body) = "ProtectRoute", text("method") # None, text("path") # None, text("capability") # None
      PROVE  parse_authority_change(body) = Protected(text("method"), text("path"), text("capability"))
  BY <1>1 DEF parse_authority_change, Required, RouteIn, Protected
<1>2. ASSUME KindOf(body) = "SetCapabilityPolicy", text("capability") # None, text("policy") # None
      PROVE  parse_authority_change(body)
               = [type |-> "SetCapabilityPolicy", capability |-> text("capability"), policy |-> RolePolicy(body)]
  BY <1>2 DEF parse_authority_change, Required
<1>3. ASSUME KindOf(body) = "SetProviderEnabled", text("provider") # None
      PROVE  parse_authority_change(body)
               = [type |-> "SetProviderEnabled", provider |-> text("provider"), enabled |-> SwitchesOn(body)]
  BY <1>3 DEF parse_authority_change, Required
<1>4. ASSUME KindOf(body) = "SetPasswordPolicy", password_policy_from_body(body) # Error
      PROVE  parse_authority_change(body) = [type |-> "SetPasswordPolicy", policy |-> password_policy_from_body(body)]
  BY <1>4 DEF parse_authority_change
<1> QED BY <1>1, <1>2, <1>3, <1>4

\* The protection of a route.
LEMMA ProtectRead ==
    ASSUME NEW o, NEW spaced, o["method"] # None, o["path"] # None, o["capability"] # None
    PROVE  parse_authority_change(BodyWith("protect_route", <<"method", "path", "capability">>, o, spaced, <<>>))
             = Protected(o["method"], o["path"], o["capability"])
<1> DEFINE names == <<"method", "path", "capability">>
           body == BodyWith("protect_route", names, o, spaced, <<>>)
<1>1. ToSet(names) = {"method", "path", "capability"} /\ ToSet(<<>>) = {}
  BY FewNames
<1>2. Writable(names, <<>>)
  <2>1. names \in Seq({"method", "path", "capability"})
    OBVIOUS
  <2> HIDE DEF names
  <2>2. names \in Seq(ToSet(names)) /\ <<>> \in Seq(ToSet(<<>>))
    BY <1>1, <2>1
  <2> QED BY <1>1, <2>2 DEF Writable, Words
<1>3. "protect_route" \in DOMAIN Kinds /\ Tests[Kinds["protect_route"]].kind = "ProtectRoute"
  BY TestTable DEF Kinds
<1>q. Quiet("protect_route", names, o)
  BY MisleadingTable DEF Quiet, QuietField
<1> HIDE DEF names
<1>4. KindOf(body) = "ProtectRoute" /\ \A n \in ToSet(names) : extract_quoted_field(body, n) = o[n]
  BY <1>1, <1>2, <1>3, <1>q, TextsRead
<1> HIDE DEF body
<1>5. /\ extract_quoted_field(body, "method") = o["method"] /\ extract_quoted_field(body, "path") = o["path"]
      /\ extract_quoted_field(body, "capability") = o["capability"]
  BY <1>1, <1>4
<1>6. parse_authority_change(body) = Protected(o["method"], o["path"], o["capability"])
  BY <1>4, <1>5, ParsedAs
<1> QED BY <1>6 DEF body, names

\* The policy of a capability: the roles that are listed, or none.
LEMMA PolicyRead ==
    ASSUME NEW w \in {"set_policy", "set_capability_policy"}, NEW o, NEW spaced, NEW names,
           names = IF w = "set_policy" THEN <<"capability", "policy">> ELSE <<"capability", "policy", "roles">>,
           \A n \in ToSet(names) : o[n] # None, Quiet(w, names, o)
    PROVE  parse_authority_change(BodyWith(w, names, o, spaced, <<>>))
             = [type |-> "SetCapabilityPolicy", capability |-> o["capability"],
                policy |-> [id |-> o["policy"], roles |-> IF w = "set_policy" THEN None ELSE o["roles"]]]
<1> DEFINE body == BodyWith(w, names, o, spaced, <<>>)
           rule == [id |-> o["policy"], roles |-> IF w = "set_policy" THEN None ELSE o["roles"]]
<1>1. ToSet(names) = IF w = "set_policy" THEN {"capability", "policy"} ELSE {"capability", "policy", "roles"}
  <2>1. CASE w = "set_policy"
    BY <2>1, FewNames
  <2>2. CASE w # "set_policy"
    BY <2>2, FewNames
  <2> QED BY <2>1, <2>2
<1>2. Writable(names, <<>>)
  <2>1. names \in Seq({"capability", "policy", "roles"})
    <3>1. CASE w = "set_policy"
      BY <3>1
    <3>2. CASE w # "set_policy"
      BY <3>2
    <3> QED BY <3>1, <3>2
  <2>2. names \in Seq(ToSet(names))
    BY <2>1, OfElements
  <2>3. ToSet(<<>>) = {} /\ <<>> \in Seq(ToSet(<<>>))
    BY FewNames
  <2>4. \A n \in ToSet(names) : n \notin Words \cup {"type"}
    BY <1>1 DEF Words
  <2> QED BY <2>2, <2>3, <2>4 DEF Writable
<1>3. w \in DOMAIN Kinds /\ Tests[Kinds[w]].kind = "SetCapabilityPolicy"
  BY TestTable DEF Kinds
<1>4. /\ KindOf(body) = "SetCapabilityPolicy"
      /\ \A n \in ToSet(names) : extract_quoted_field(body, n) = o[n]
      /\ \A n : n # "type" /\ n \notin ToSet(names) => extract_quoted_field(body, n) = None
  <2>1. \A f \in ToSet(<<>>) : FALSE
    BY FewNames
  <2> QED BY <1>2, <1>3, <2>1, TextsRead
<1> HIDE DEF body
<1>5. RolePolicy(body) = rule
  <2>1. extract_quoted_field(body, "role") = None /\ extract_quoted_field(body, "policy") = o["policy"]
    BY <1>1, <1>4
  <2>2. CASE w = "set_policy"
    <3>1. extract_quoted_field(body, "roles") = None
      BY <1>1, <1>4, <2>2
    <3> QED BY <2>1, <2>2, <3>1 DEF RolePolicy, OrElse
  <2>3. CASE w # "set_policy"
    <3>1. extract_quoted_field(body, "roles") = o["roles"] /\ o["roles"] # None
      BY <1>1, <1>4, <2>3
    <3> QED BY <2>1, <2>3, <3>1 DEF RolePolicy, OrElse
  <2> QED BY <2>2, <2>3
<1>6. extract_quoted_field(body, "capability") = o["capability"] /\ extract_quoted_field(body, "policy") = o["policy"]
      /\ o["capability"] # None /\ o["policy"] # None
  BY <1>1, <1>4
<1> HIDE DEF rule
<1>7. parse_authority_change(body) = [type |-> "SetCapabilityPolicy", capability |-> o["capability"], policy |-> rule]
  BY <1>4, <1>5, <1>6, ParsedAs
<1> QED BY <1>7 DEF body, rule

\* Whether the verb w turns a provider on: an operator, so that its truth value
\* is a term of the facts below.
Enables(w) == w = "enable_provider"

\* A provider, and whether it is switched on.
LEMMA ProviderRead ==
    ASSUME NEW w \in {"enable_provider", "disable_provider"}, NEW o, o["provider"] # None, NEW spaced,
           Quiet(w, <<"provider">>, o)
    PROVE  spaced = TRUE => parse_authority_change(BodyWith(w, <<"provider">>, o, spaced, Switch(w, spaced)))
             = [type |-> "SetProviderEnabled", provider |-> o["provider"], enabled |-> Enables(w)]
<1> DEFINE names == <<"provider">>
           switch == BodyField("enabled", "bool", w = "enable_provider", spaced)
           more == <<switch>>
           body == BodyWith(w, names, o, spaced, more)
<1>1. ToSet(names) = {"provider"} /\ ToSet(more) = {switch}
  BY FewNames
<1>2. switch.name = "enabled" /\ switch.kind = "bool" /\ switch.spaced = spaced /\ switch.value = (w = "enable_provider")
  BY DEF BodyField
<1>3. Switch(w, spaced) = more
  BY DEF Switch
<1>4. more \in Seq(ToSet(more))
  <2> HIDE DEF switch
  <2> QED BY <1>1
<1> HIDE DEF switch
<1>5. Writable(names, more)
  <2>1. names \in Seq({"provider"})
    OBVIOUS
  <2> HIDE DEF names, more
  <2>2. names \in Seq(ToSet(names))
    BY <1>1, <2>1
  <2>3. \A n \in ToSet(names) : n \notin Words \cup {"type"}
    BY <1>1 DEF Words
  <2>4. \A f \in ToSet(more) : f.kind \notin {"word", "text"} /\ f.name \notin Words \cup {"type"}
    BY <1>1, <1>2 DEF Words
  <2> QED BY <1>4, <2>2, <2>3, <2>4 DEF Writable
<1>6. w \in DOMAIN Kinds /\ Tests[Kinds[w]].kind = "SetProviderEnabled"
  BY TestTable DEF Kinds
<1>q. Quiet(w, names, o)
  OBVIOUS
<1> HIDE DEF names, more
<1>7. \A f \in ToSet(more) : f.name \notin ToSet(names)
  BY <1>1, <1>2
<1>8. KindOf(body) = "SetProviderEnabled" /\ Names(body, w) /\ \A n \in ToSet(names) : extract_quoted_field(body, n) = o[n]
  BY <1>5, <1>6, <1>7, <1>q, TextsRead
<1>9. Made(body, w, spaced, TextsOf(names, o, spaced) \cup ToSet(more))
  BY <1>5, <1>6, <1>q, TextBody
<1> HIDE DEF body
<1>10. ASSUME spaced = TRUE PROVE SwitchesOn(body) <=> w = "enable_provider"
  <2>1. HoldsWord(body, "enable_provider") <=> w = "enable_provider"
    <3>1. w = "disable_provider" => "enable_provider" \in Misleading(w)
      BY MisleadingTable
    <3> QED BY <1>8, <3>1 DEF Names
  <2>2. ASSUME NEW i \in DOMAIN body, body[i].name = "enabled" PROVE body[i].value = (w = "enable_provider")
    <3>1. body[i] \in ToSet(body)
      BY DEF ToSet
    <3>2. BodyField("type", "word", w, spaced).name # "enabled"
      BY DEF BodyField
    <3>4. ASSUME NEW f \in TextsOf(names, o, spaced) PROVE f.name # "enabled"
      <4>1. PICK n \in ToSet(names) : f = BodyField(n, "text", o[n], spaced)
        BY DEF TextsOf
      <4> QED BY <1>1, <4>1 DEF BodyField
    <3>3. body[i] = switch
      BY <1>1, <1>9, <2>2, <3>1, <3>2, <3>4 DEF Made
    <3> QED BY <1>2, <3>3
  <2>3. ASSUME w = "enable_provider" PROVE SwitchesOn(body)
    BY <2>1, <2>3 DEF SwitchesOn
  <2>4. ASSUME SwitchesOn(body), w # "enable_provider" PROVE FALSE
    <3>1. PICK i \in DOMAIN body : body[i].name = "enabled" /\ body[i].value = TRUE
      BY <2>1, <2>4 DEF SwitchesOn
    <3>2. body[i].value = (w = "enable_provider")
      BY <2>2, <3>1
    <3> QED BY <2>4, <3>1, <3>2
  <2> QED BY <2>3, <2>4
<1>11. extract_quoted_field(body, "provider") = o["provider"]
  BY <1>1, <1>8
<1>12. ASSUME spaced = TRUE PROVE SwitchesOn(body) = (w = "enable_provider")
  <2>1. SwitchesOn(body) \in BOOLEAN
    BY DEF SwitchesOn
  <2> QED BY <1>10, <1>12, <2>1
<1>13. ASSUME spaced = TRUE PROVE parse_authority_change(body)
        = [type |-> "SetProviderEnabled", provider |-> o["provider"], enabled |-> Enables(w)]
  <2>1. parse_authority_change(body)
          = [type |-> "SetProviderEnabled", provider |-> extract_quoted_field(body, "provider"),
             enabled |-> SwitchesOn(body)]
    BY <1>8, <1>11, ParsedAs
  <2> QED BY <1>11, <1>12, <1>13, <2>1 DEF Enables
<1> QED BY <1>3, <1>13 DEF body, names

(***************************************************************************)
(* The password policy: the settings and the switches that are given.      *)
(***************************************************************************)

Wished(o, n, kind, value) == n \in DOMAIN o /\ (kind # "bool" \/ o[n] = value)
Given(o, names, kind, value) ==
    FlattenSeq([i \in DOMAIN names |->
                   IF Wished(o, names[i], kind, value) THEN <<BodyField(names[i], kind, o[names[i]], TRUE)>> ELSE <<>>])
GivenOf(o, names, kind, value) ==
    {BodyField(n, kind, o[n], TRUE) : n \in {m \in ToSet(names) : Wished(o, m, kind, value)}}

\* What is written for the names of a list.
LEMMA GivenFields ==
    ASSUME NEW o, NEW names, names \in Seq(ToSet(names)), Len(names) >= 1, NEW kind, NEW value
    PROVE  /\ Given(o, names, kind, value) \in Seq(GivenOf(o, names, kind, value))
           /\ ToSet(Given(o, names, kind, value)) = GivenOf(o, names, kind, value)
<1> DEFINE n == Len(names)
           S == GivenOf(o, names, kind, value)
           one(m) == IF Wished(o, m, kind, value) THEN <<BodyField(m, kind, o[m], TRUE)>> ELSE <<>>
           seqs == [i \in DOMAIN names |-> one(names[i])]
<1>1. n \in Nat /\ n >= 1 /\ DOMAIN names = 1..n /\ ToSet(names) = {names[i] : i \in 1..n}
  BY OfElements
<1>2. \A i \in 1..n : names[i] \in ToSet(names)
  BY <1>1
<1>3. ASSUME NEW m \in ToSet(names)
      PROVE  /\ one(m) \in Seq(S)
             /\ ToSet(one(m)) = {f \in S : Wished(o, m, kind, value) /\ f = BodyField(m, kind, o[m], TRUE)}
  <2>1. CASE Wished(o, m, kind, value)
    <3> DEFINE f == BodyField(m, kind, o[m], TRUE)
    <3>1. f \in S
      BY <2>1 DEF GivenOf
    <3>2. one(m) = <<f>>
      BY <2>1
    <3> HIDE DEF f, S, one
    <3>3. ToSet(<<f>>) = {f}
      BY FewNames
    <3>4. <<f>> \in Seq(S)
      BY <3>1
    <3>5. {g \in S : Wished(o, m, kind, value) /\ g = f} = {f}
      BY <2>1, <3>1
    <3> QED BY <3>2, <3>3, <3>4, <3>5 DEF f
  <2>2. CASE ~Wished(o, m, kind, value)
    <3>1. one(m) = <<>>
      BY <2>2
    <3>2. <<>> \in Seq(S) /\ ToSet(<<>>) = {}
      BY EmptySeq, FewNames
    <3>3. one(m) \in Seq(S) /\ ToSet(one(m)) = {}
      BY <3>1, <3>2, Zenon
    <3> HIDE DEF S, one
    <3> QED BY <2>2, <3>3
  <2> QED BY <2>1, <2>2
<1>4. seqs \in [1..n -> Seq(S)] /\ \A i \in 1..n : seqs[i] = one(names[i])
  <2>1. \A i \in 1..n : one(names[i]) \in Seq(S)
    BY <1>2, <1>3
  <2> HIDE DEF S, one, n
  <2> QED BY <1>1, <2>1
<1>5. Given(o, names, kind, value) = FlattenSeq(seqs)
  BY DEF Given
<1> HIDE DEF seqs, one, S, n
<1>6. FlattenSeq(seqs) \in Seq(S) /\ ToSet(FlattenSeq(seqs)) = UNION {ToSet(seqs[i]) : i \in 1..n}
  BY <1>1, <1>4, ElementsFlattened
<1>7. UNION {ToSet(seqs[i]) : i \in 1..n} = S
  <2>1. ASSUME NEW i \in 1..n, NEW f \in ToSet(seqs[i]) PROVE f \in S
    <3>1. ToSet(seqs[i]) = ToSet(one(names[i])) /\ names[i] \in ToSet(names)
      BY <1>2, <1>4
    <3> QED BY <1>3, <2>1, <3>1
  <2>2. ASSUME NEW f \in S PROVE \E i \in 1..n : f \in ToSet(seqs[i])
    <3>1. PICK m \in ToSet(names) : Wished(o, m, kind, value) /\ f = BodyField(m, kind, o[m], TRUE)
      BY DEF S, GivenOf
    <3>2. PICK i \in 1..n : m = names[i]
      BY <1>1
    <3>3. f \in ToSet(one(m))
      BY <1>3, <3>1
    <3> QED BY <1>4, <3>2, <3>3
  <2> QED BY <2>1, <2>2
<1> QED BY <1>5, <1>6, <1>7 DEF S

Forever(o) == IF "no_expiration" \in DOMAIN o THEN <<BodyField("expiration_days", "null", None, TRUE)>> ELSE <<>>
PolicyFields(o) ==
    Given(o, Settings, "number", None) \o Given(o, Switches, "bool", TRUE)
      \o Given(o, Switches, "bool", FALSE) \o Forever(o)
Wishes(o) ==
    GivenOf(o, Settings, "number", None) \cup GivenOf(o, Switches, "bool", TRUE)
      \cup GivenOf(o, Switches, "bool", FALSE) \cup ToSet(Forever(o))

\* The names of the settings and of the switches.
LEMMA PolicyNames ==
    /\ ToSet(Settings) = {"min_length", "max_length", "expiration_days", "history_count"}
    /\ ToSet(Switches) = {"require_uppercase", "require_lowercase", "require_number",
                          "require_special_character", "allow_password_change", "allow_password_reset"}
    /\ Settings \in Seq(ToSet(Settings)) /\ Len(Settings) >= 1
    /\ Switches \in Seq(ToSet(Switches)) /\ Len(Switches) >= 1
<1>1. ToSet(Settings) = {"min_length", "max_length", "expiration_days", "history_count"}
  BY DEF Settings, ToSet
<1>2. ToSet(Switches) = {"require_uppercase", "require_lowercase", "require_number",
                          "require_special_character", "allow_password_change", "allow_password_reset"}
  BY DEF Switches, ToSet
<1>3. Settings \in Seq({"min_length", "max_length", "expiration_days", "history_count"}) /\ Len(Settings) = 4
  BY DEF Settings
<1>4. Switches \in Seq({"require_uppercase", "require_lowercase", "require_number",
                        "require_special_character", "allow_password_change", "allow_password_reset"})
      /\ Len(Switches) = 6
  BY DEF Switches
<1>5. Settings \in Seq(ToSet(Settings)) /\ Switches \in Seq(ToSet(Switches))
  BY <1>3, <1>4, OfElements
<1>6. Len(Settings) >= 1 /\ Len(Switches) >= 1
  BY <1>3, <1>4
<1> QED BY <1>1, <1>2, <1>5, <1>6

\* The fields of the body of password_policy_body.
LEMMA PolicyBody ==
    ASSUME NEW o, password_policy_body(o) # Error
    PROVE  LET word == BodyField("type", "word", "set_password_policy", TRUE)
           IN /\ DOMAIN password_policy_body(o) \subseteq Nat
              /\ ToSet(password_policy_body(o)) = {word} \cup Wishes(o)
<1> DEFINE word == BodyField("type", "word", "set_password_policy", TRUE)
           N == Given(o, Settings, "number", None)
           On == Given(o, Switches, "bool", TRUE)
           Off == Given(o, Switches, "bool", FALSE)
           Z == Forever(o)
           S == {word} \cup Wishes(o)
<1>1. password_policy_body(o) = <<word>> \o (N \o On \o Off \o Z)
  BY DEF password_policy_body, Given, Wished, Forever
<1>2. N \in Seq(GivenOf(o, Settings, "number", None)) /\ ToSet(N) = GivenOf(o, Settings, "number", None)
  BY PolicyNames, GivenFields
<1>3. On \in Seq(GivenOf(o, Switches, "bool", TRUE)) /\ ToSet(On) = GivenOf(o, Switches, "bool", TRUE)
  BY PolicyNames, GivenFields
<1>4. Off \in Seq(GivenOf(o, Switches, "bool", FALSE)) /\ ToSet(Off) = GivenOf(o, Switches, "bool", FALSE)
  BY PolicyNames, GivenFields
<1>5. Z \in Seq(ToSet(Z))
  <2> DEFINE f == BodyField("expiration_days", "null", None, TRUE)
  <2>1. Z = <<f>> \/ Z = <<>>
    BY DEF Forever
  <2> HIDE DEF f, Z
  <2>2. CASE Z = <<f>>
    <3>1. ToSet(<<f>>) = {f} /\ <<f>> \in Seq({f})
      BY FewNames
    <3> QED BY <2>2, <3>1
  <2>3. CASE Z = <<>>
    <3>1. <<>> \in Seq(ToSet(<<>>))
      BY EmptySeq
    <3> QED BY <2>3, <3>1
  <2> QED BY <2>1, <2>2, <2>3
<1> HIDE DEF word, N, On, Off, Z
<1>6. /\ GivenOf(o, Settings, "number", None) \subseteq S /\ GivenOf(o, Switches, "bool", TRUE) \subseteq S
      /\ GivenOf(o, Switches, "bool", FALSE) \subseteq S /\ ToSet(Z) \subseteq S /\ {word} \subseteq S
  BY DEF Wishes, Z
<1> HIDE DEF S
<1>7. N \in Seq(S) /\ On \in Seq(S) /\ Off \in Seq(S) /\ Z \in Seq(S) /\ <<word>> \in Seq(S) /\ ToSet(<<word>>) = {word}
  <2>1. N \in Seq(S)
    BY <1>2, <1>6, SeqMonotonic
  <2>2. On \in Seq(S)
    BY <1>3, <1>6, SeqMonotonic
  <2>3. Off \in Seq(S)
    BY <1>4, <1>6, SeqMonotonic
  <2>4. Z \in Seq(S)
    BY <1>5, <1>6, SeqMonotonic
  <2>5. <<word>> \in Seq(S) /\ ToSet(<<word>>) = {word}
    BY <1>6, FewNames
  <2> QED BY <2>1, <2>2, <2>3, <2>4, <2>5
<1> DEFINE A == N \o On
           B == A \o Off
           C == B \o Z
           W == <<word>>
           D == W \o C
<1> HIDE DEF W
<1>8. A \in Seq(S) /\ ToSet(A) = ToSet(N) \cup ToSet(On)
  BY <1>7, ElementsJoined
<1> HIDE DEF A
<1>9. B \in Seq(S) /\ ToSet(B) = ToSet(A) \cup ToSet(Off)
  BY <1>7, <1>8, ElementsJoined
<1> HIDE DEF B
<1>10. C \in Seq(S) /\ ToSet(C) = ToSet(B) \cup ToSet(Z)
  BY <1>7, <1>9, ElementsJoined
<1> HIDE DEF C
<1>11. D \in Seq(S) /\ ToSet(D) = ToSet(W) \cup ToSet(C)
  <2>1. W \in Seq(S)
    BY <1>7 DEF W
  <2> QED BY <1>10, <2>1, ElementsJoined
<1> HIDE DEF D
<1>12. password_policy_body(o) = D
  BY <1>1 DEF A, B, C, D, W
<1>13. ToSet(D) = {word} \cup Wishes(o)
  <2>1. ToSet(W) = {word}
    BY <1>7 DEF W
  <2>2. Wishes(o) = ToSet(N) \cup ToSet(On) \cup ToSet(Off) \cup ToSet(Z)
    BY <1>2, <1>3, <1>4 DEF Wishes, Z
  <2> QED BY <1>8, <1>9, <1>10, <1>11, <2>1, <2>2
<1>14. DOMAIN D \subseteq Nat
  BY <1>11, SeqElement
<1> QED BY <1>12, <1>13, <1>14 DEF word

\* A wish for a policy: values of the right kind, and one wish for the expiration.
Sound(o) ==
    /\ \A n \in DOMAIN o : o[n] # None
    /\ \A n \in DOMAIN o : /\ n \in ToSet(Settings) => o[n] \in Nat
                           /\ n \in ToSet(Switches) => o[n] \in BOOLEAN
    /\ ~({"no_expiration", "expiration_days"} \subseteq DOMAIN o)
Number(o, n) == BodyField(n, "number", o[n], TRUE)
Bool(o, n) == BodyField(n, "bool", o[n], TRUE)
Endless == BodyField("expiration_days", "null", None, TRUE)

\* The fields of a wish: one for each setting and switch that is given, and one
\* that says that nothing expires.
LEMMA WishedFields ==
    ASSUME NEW o, Sound(o)
    PROVE  /\ \A n \in ToSet(Settings) \cap DOMAIN o : Number(o, n) \in Wishes(o)
           /\ \A n \in ToSet(Switches) \cap DOMAIN o : Bool(o, n) \in Wishes(o)
           /\ "no_expiration" \in DOMAIN o => Endless \in Wishes(o)
           /\ \A f \in Wishes(o) :
                 \/ f.name \in ToSet(Settings) \cap DOMAIN o /\ f = Number(o, f.name)
                 \/ f.name \in ToSet(Switches) \cap DOMAIN o /\ f = Bool(o, f.name)
                 \/ "no_expiration" \in DOMAIN o /\ f = Endless
<1>1. ASSUME NEW n \in ToSet(Settings) \cap DOMAIN o PROVE Number(o, n) \in Wishes(o)
  BY DEF Wishes, GivenOf, Wished, Number
<1>2. ASSUME NEW n \in ToSet(Switches) \cap DOMAIN o PROVE Bool(o, n) \in Wishes(o)
  <2>1. o[n] = TRUE \/ o[n] = FALSE
    BY DEF Sound
  <2>2. CASE o[n] = TRUE
    <3>1. Bool(o, n) \in GivenOf(o, Switches, "bool", TRUE)
      BY <2>2 DEF GivenOf, Wished, Bool
    <3> QED BY <3>1 DEF Wishes
  <2>3. CASE o[n] = FALSE
    <3>1. Bool(o, n) \in GivenOf(o, Switches, "bool", FALSE)
      BY <2>3 DEF GivenOf, Wished, Bool
    <3> QED BY <3>1 DEF Wishes
  <2> QED BY <2>1, <2>2, <2>3
<1>3. ToSet(Forever(o)) = IF "no_expiration" \in DOMAIN o THEN {Endless} ELSE {}
  <2>1. CASE "no_expiration" \in DOMAIN o
    <3>1. Forever(o) = <<Endless>>
      BY <2>1 DEF Forever, Endless
    <3> QED BY <2>1, <3>1, FewNames
  <2>2. CASE "no_expiration" \notin DOMAIN o
    <3>1. Forever(o) = <<>>
      BY <2>2 DEF Forever
    <3> QED BY <2>2, <3>1, FewNames
  <2> QED BY <2>1, <2>2
<1>4. ASSUME "no_expiration" \in DOMAIN o PROVE Endless \in Wishes(o)
  <2>1. Endless \in ToSet(Forever(o))
    BY <1>3, <1>4
  <2> QED BY <2>1 DEF Wishes
<1>5. ASSUME NEW f \in Wishes(o)
      PROVE  \/ f.name \in ToSet(Settings) \cap DOMAIN o /\ f = Number(o, f.name)
             \/ f.name \in ToSet(Switches) \cap DOMAIN o /\ f = Bool(o, f.name)
             \/ "no_expiration" \in DOMAIN o /\ f = Endless
  <2>1. CASE f \in GivenOf(o, Settings, "number", None)
    <3>1. PICK n \in ToSet(Settings) : n \in DOMAIN o /\ f = BodyField(n, "number", o[n], TRUE)
      BY <2>1 DEF GivenOf, Wished
    <3>2. f.name = n
      BY <3>1 DEF BodyField
    <3> QED BY <3>1, <3>2 DEF Number
  <2>2. ASSUME NEW value, f \in GivenOf(o, Switches, "bool", value)
        PROVE  f.name \in ToSet(Switches) \cap DOMAIN o /\ f = Bool(o, f.name)
    <3>1. PICK n \in ToSet(Switches) : n \in DOMAIN o /\ f = BodyField(n, "bool", o[n], TRUE)
      BY <2>2 DEF GivenOf, Wished
    <3>2. f.name = n
      BY <3>1 DEF BodyField
    <3> QED BY <3>1, <3>2 DEF Bool
  <2>3. CASE f \in ToSet(Forever(o))
    BY <1>3, <2>3
  <2> QED BY <2>1, <2>2, <2>3 DEF Wishes
<1> QED BY <1>1, <1>2, <1>4, <1>5

\* What is read from the body of a wish, field by field.
LEMMA WishRead ==
    ASSUME NEW o, Sound(o), NEW body, Reads(body, "set_password_policy", Wishes(o))
    PROVE  /\ \A n \in ToSet(Settings) :
                 extract_number_field(body, n) = IF n \in DOMAIN o THEN o[n] ELSE None
           /\ \A n \in ToSet(Switches) :
                 extract_bool_field(body, n) = IF n \in DOMAIN o THEN o[n] ELSE None
           /\ \A n \in {"password_expiration_days", "password_history_count"} : extract_number_field(body, n) = None
<1> DEFINE F == Wishes(o)
<1>0. ToSet(Settings) \cap ToSet(Switches) = {} /\ "type" \notin ToSet(Settings) \cup ToSet(Switches)
      /\ "expiration_days" \notin ToSet(Switches)
  BY PolicyNames
<1>1. /\ \A n : Number(o, n).name = n /\ Number(o, n).kind = "number" /\ Number(o, n).value = o[n]
      /\ \A n : Bool(o, n).name = n /\ Bool(o, n).kind = "bool" /\ Bool(o, n).value = o[n]
      /\ Endless.name = "expiration_days" /\ Endless.kind = "null" /\ Endless.value = None
  BY DEF Number, Bool, Endless, BodyField
<1>2. \A f \in F : \A g \in F : g.name = f.name => g = f
  <2> SUFFICES ASSUME NEW f \in F, NEW g \in F, g.name = f.name PROVE g = f
    OBVIOUS
  <2>1. ASSUME NEW h \in F
        PROVE  \/ h.name \in ToSet(Settings) \cap DOMAIN o /\ h = Number(o, h.name)
               \/ h.name \in ToSet(Switches) \cap DOMAIN o /\ h = Bool(o, h.name)
               \/ "no_expiration" \in DOMAIN o /\ h = Endless
    BY WishedFields
  <2>2. "no_expiration" \in DOMAIN o => "expiration_days" \notin DOMAIN o
    BY DEF Sound
  <2> HIDE DEF F
  <2> QED BY <1>0, <1>1, <2>1, <2>2
<1>3. ASSUME NEW f \in F, NEW kinds
      PROVE  Extract(body, f.name, kinds) = IF f.kind \in kinds THEN f.value ELSE None
  BY <1>2 DEF Reads
<1>4. ASSUME NEW n, n # "type", \A f \in F : f.name # n, NEW kinds PROVE Extract(body, n, kinds) = None
  BY <1>4 DEF Reads
<1>5. ASSUME NEW n \in ToSet(Settings)
      PROVE  extract_number_field(body, n) = IF n \in DOMAIN o THEN o[n] ELSE None
  <2>1. CASE n \in DOMAIN o
    <3>1. Number(o, n) \in F
      BY <2>1, WishedFields
    <3> HIDE DEF F
    <3>2. Extract(body, Number(o, n).name, {"number"})
            = IF Number(o, n).kind \in {"number"} THEN Number(o, n).value ELSE None
      BY <1>3, <3>1
    <3> QED BY <1>1, <2>1, <3>2 DEF extract_number_field
  <2>2. CASE n \notin DOMAIN o
    <3>1. CASE n = "expiration_days" /\ "no_expiration" \in DOMAIN o
      <4>1. Endless \in F
        BY <3>1, WishedFields
      <4> HIDE DEF F
      <4>2. Extract(body, Endless.name, {"number"})
              = IF Endless.kind \in {"number"} THEN Endless.value ELSE None
        BY <1>3, <4>1
      <4> QED BY <1>1, <2>2, <3>1, <4>2 DEF extract_number_field
    <3>2. CASE ~(n = "expiration_days" /\ "no_expiration" \in DOMAIN o)
      <4>1. \A f \in F : f.name # n
        BY <1>1, <2>2, <3>2, WishedFields
      <4> HIDE DEF F
      <4>2. Extract(body, n, {"number"}) = None
        BY <1>0, <1>4, <4>1
      <4> QED BY <2>2, <4>2 DEF extract_number_field
    <3> QED BY <3>1, <3>2
  <2> QED BY <2>1, <2>2
<1>6. ASSUME NEW n \in ToSet(Switches)
      PROVE  extract_bool_field(body, n) = IF n \in DOMAIN o THEN o[n] ELSE None
  <2>1. CASE n \in DOMAIN o
    <3>1. Bool(o, n) \in F
      BY <2>1, WishedFields
    <3> HIDE DEF F
    <3>2. Extract(body, Bool(o, n).name, {"bool"})
            = IF Bool(o, n).kind \in {"bool"} THEN Bool(o, n).value ELSE None
      BY <1>3, <3>1
    <3> QED BY <1>1, <2>1, <3>2 DEF extract_bool_field
  <2>2. CASE n \notin DOMAIN o
    <3>1. \A f \in F : f.name # n
      BY <1>0, <1>1, <2>2, WishedFields
    <3> HIDE DEF F
    <3>2. Extract(body, n, {"bool"}) = None
      BY <1>0, <1>4, <3>1
    <3> QED BY <2>2, <3>2 DEF extract_bool_field
  <2> QED BY <2>1, <2>2
<1>7. ASSUME NEW n \in {"password_expiration_days", "password_history_count"}
      PROVE  extract_number_field(body, n) = None
  <2>1. n # "type" /\ n \notin ToSet(Settings) \cup ToSet(Switches) /\ n # "expiration_days"
    BY PolicyNames
  <2>2. \A f \in F : f.name # n
    BY <1>1, <2>1, WishedFields
  <2> HIDE DEF F
  <2> QED BY <1>4, <2>1, <2>2 DEF extract_number_field
<1> QED BY <1>5, <1>6, <1>7

\* The policy that is read from a wish is the one that is wished for.
LEMMA PolicyFromWish ==
    ASSUME NEW o, Sound(o), NEW body, Reads(body, "set_password_policy", Wishes(o)),
           ToSet(body) = {BodyField("type", "word", "set_password_policy", TRUE)} \cup Wishes(o),
           NEW wished, wished = [f \in DOMAIN DefaultPassword |-> PolicySetting(o, f)],
           ValidPassword(wished), wished # Error
    PROVE  password_policy_from_body(body) = wished
<1> DEFINE forever == \E i \in DOMAIN body : /\ body[i].name \in {"expiration_days", "password_expiration_days"}
                                             /\ body[i].kind = "null" /\ body[i].spaced
           number(name, field) ==
               OrElse(OrElse(extract_number_field(body, name), extract_number_field(body, field)), DefaultPassword[field])
           setting(f) == CASE f \in {"min_length", "max_length"} -> number(f, f)
                           [] f = "password_expiration_days" -> IF forever THEN None ELSE number("expiration_days", f)
                           [] f = "password_history_count" -> number("history_count", f)
                           [] OTHER -> OrElse(extract_bool_field(body, f), DefaultPassword[f])
           policy == [f \in DOMAIN DefaultPassword |-> setting(f)]
           numbers == {"min_length", "max_length", "password_history_count", "password_expiration_days"}
<1>1. password_policy_from_body(body)
        = IF \E f \in numbers : policy[f] # None /\ policy[f] < 0 THEN Error
          ELSE IF ValidPassword(policy) THEN policy ELSE Error
  BY DEF password_policy_from_body
<1>2. DOMAIN DefaultPassword = numbers \cup ToSet(Switches)
      /\ DefaultPassword["min_length"] = 12 /\ DefaultPassword["max_length"] = 128
      /\ DefaultPassword["password_expiration_days"] = None /\ DefaultPassword["password_history_count"] = 5
  BY PolicyNames DEF DefaultPassword
<1>3. /\ \A n \in ToSet(Settings) :
            extract_number_field(body, n) = IF n \in DOMAIN o THEN o[n] ELSE None
      /\ \A n \in ToSet(Switches) :
            extract_bool_field(body, n) = IF n \in DOMAIN o THEN o[n] ELSE None
      /\ \A n \in {"password_expiration_days", "password_history_count"} : extract_number_field(body, n) = None
  BY WishRead
<1>4. forever <=> "no_expiration" \in DOMAIN o
  <2>1. /\ \A n : Number(o, n).kind = "number" /\ Bool(o, n).kind = "bool"
        /\ Endless.name = "expiration_days" /\ Endless.kind = "null" /\ Endless.spaced = TRUE
    BY DEF Number, Bool, Endless, BodyField
  <2>2. ASSUME "no_expiration" \in DOMAIN o PROVE forever
    <3>1. Endless \in ToSet(body)
      BY <2>2, WishedFields
    <3>2. PICK i \in DOMAIN body : body[i] = Endless
      BY <3>1 DEF ToSet
    <3> QED BY <2>1, <3>2
  <2>3. ASSUME forever PROVE "no_expiration" \in DOMAIN o
    <3>1. PICK i \in DOMAIN body : body[i].kind = "null"
      BY <2>3
    <3>2. body[i] \in ToSet(body)
      BY DEF ToSet
    <3>3. BodyField("type", "word", "set_password_policy", TRUE).kind = "word"
      BY DEF BodyField
    <3>4. body[i] \in Wishes(o)
      BY <3>1, <3>2, <3>3
    <3> QED BY <2>1, <3>1, <3>4, WishedFields
  <2> QED BY <2>2, <2>3
<1> HIDE DEF forever
<1>5. ASSUME NEW f \in DOMAIN DefaultPassword PROVE setting(f) = PolicySetting(o, f)
  <2>1. \A n \in DOMAIN o : o[n] # None
    BY DEF Sound
  <2>2. CASE f \in {"min_length", "max_length"}
    <3>1. f \in ToSet(Settings)
      BY <2>2, PolicyNames
    <3>2. extract_number_field(body, f) = IF f \in DOMAIN o THEN o[f] ELSE None
      BY <1>3, <3>1
    <3>3. setting(f) = OrElse(OrElse(extract_number_field(body, f), extract_number_field(body, f)), DefaultPassword[f])
      BY <2>2
    <3>4. setting(f) = IF f \in DOMAIN o THEN o[f] ELSE DefaultPassword[f]
      BY <2>1, <3>2, <3>3 DEF OrElse
    <3> HIDE DEF setting
    <3> QED BY <2>2, <3>4 DEF PolicySetting
  <2>3. CASE f = "password_expiration_days"
    <3>1. "expiration_days" \in ToSet(Settings)
      BY PolicyNames
    <3>2. extract_number_field(body, "expiration_days") = IF "expiration_days" \in DOMAIN o THEN o["expiration_days"] ELSE None
      BY <1>3, <3>1
    <3>3. extract_number_field(body, f) = None
      BY <1>3, <2>3
    <3>4. setting(f) = IF forever THEN None ELSE
            OrElse(OrElse(extract_number_field(body, "expiration_days"), extract_number_field(body, f)), DefaultPassword[f])
      BY <2>3
    <3>5. setting(f) = IF "expiration_days" \in DOMAIN o THEN o["expiration_days"] ELSE None
      <4>1. "no_expiration" \in DOMAIN o => "expiration_days" \notin DOMAIN o
        BY DEF Sound
      <4> QED BY <1>2, <1>4, <2>1, <2>3, <3>2, <3>3, <3>4, <4>1 DEF OrElse
    <3> HIDE DEF setting
    <3> QED BY <2>3, <3>5 DEF PolicySetting
  <2>4. CASE f = "password_history_count"
    <3>1. "history_count" \in ToSet(Settings)
      BY PolicyNames
    <3>2. extract_number_field(body, "history_count") = IF "history_count" \in DOMAIN o THEN o["history_count"] ELSE None
      BY <1>3, <3>1
    <3>3. extract_number_field(body, f) = None
      BY <1>3, <2>4
    <3>4. setting(f) = OrElse(OrElse(extract_number_field(body, "history_count"), extract_number_field(body, f)), DefaultPassword[f])
      BY <2>4
    <3>5. setting(f) = IF "history_count" \in DOMAIN o THEN o["history_count"] ELSE DefaultPassword[f]
      BY <2>1, <3>2, <3>3, <3>4 DEF OrElse
    <3> HIDE DEF setting
    <3> QED BY <2>4, <3>5 DEF PolicySetting
  <2>5. CASE f \in ToSet(Switches)
    <3>1. f \notin numbers
      BY <2>5, PolicyNames
    <3>2. extract_bool_field(body, f) = IF f \in DOMAIN o THEN o[f] ELSE None
      BY <1>3, <2>5
    <3>3. setting(f) = OrElse(extract_bool_field(body, f), DefaultPassword[f])
      BY <3>1
    <3>4. setting(f) = IF f \in DOMAIN o THEN o[f] ELSE DefaultPassword[f]
      BY <2>1, <3>2, <3>3 DEF OrElse
    <3>5. PolicySetting(o, f) = IF f \in DOMAIN o THEN o[f] ELSE DefaultPassword[f]
      BY <3>1 DEF PolicySetting
    <3> HIDE DEF setting
    <3> QED BY <3>4, <3>5
  <2> HIDE DEF setting
  <2> QED BY <1>2, <2>2, <2>3, <2>4, <2>5
<1>6. policy = wished
  <2> HIDE DEF setting
  <2> QED BY <1>5
<1>7. \A f \in numbers : policy[f] = None \/ policy[f] \in Nat
  <2>1. \A n \in ToSet(Settings) : n \in DOMAIN o => o[n] \in Nat
    BY DEF Sound
  <2>2. \A f \in numbers : PolicySetting(o, f) = None \/ PolicySetting(o, f) \in Nat
    BY <1>2, <2>1, PolicyNames DEF PolicySetting
  <2>3. \A f \in numbers : wished[f] = PolicySetting(o, f)
    BY <1>2
  <2> HIDE DEF policy
  <2> QED BY <1>6, <2>2, <2>3
<1> HIDE DEF policy
<1>8. ~ \E f \in numbers : policy[f] # None /\ policy[f] < 0
  BY <1>7
<1> QED BY <1>1, <1>6, <1>8

(***************************************************************************)
(* Every command that is clear is understood.                              *)
(***************************************************************************)

\* The texts of a clear command do not mislead.
LEMMA ClearQuiet ==
    ASSUME NEW command, Clear(command), NEW names, ToSet(names) \subseteq DOMAIN command.options
    PROVE  Quiet(command.verb, names, command.options)
<1> DEFINE o == command.options
<1>1. \A n \in DOMAIN o \cap DOMAIN Mentions : \A m \in Mentions[n] :
          o[n] = m.text => m.word \notin Misleading(command.verb)
  BY DEF Clear
<1> QED BY <1>1 DEF Quiet, QuietField, BodyField

\* What a page or the command line writes, as a word, texts and a switch.
LEMMA BodyWritten ==
    ASSUME NEW command, Clear(command), BodyOf(command) # Error
    PROVE  LET v == command.verb  o == command.options
           IN IF command.client = "page"
              THEN /\ v \in {"protect_route", "set_capability_policy"} /\ ToSet(PageFields[v]) \subseteq DOMAIN o
                   /\ BodyOf(command) = BodyWith(v, PageFields[v], o, FALSE, <<>>)
              ELSE \/ v = "password_policy" /\ BodyOf(command) = password_policy_body(o)
                   \/ /\ v \in {"protect_route", "set_policy", "enable_provider", "disable_provider"}
                      /\ ToSet(Needs[v]) \subseteq DOMAIN o
                      /\ BodyOf(command) = BodyWith(v, Needs[v], o, TRUE, Switch(v, TRUE))
<1> DEFINE v == command.verb
           o == command.options
<1>1. CASE command.client = "page"
  <2>1. v \in {"protect_route", "set_capability_policy"} /\ ToSet(PageFields[v]) \subseteq DOMAIN o
    BY <1>1 DEF Clear
  <2>2. BodyOf(command) = <<BodyField("type", "word", v, FALSE)>> \o Texts(PageFields[v], o, FALSE)
    BY <1>1 DEF BodyOf, PageBody, Texts
  <2>3. v \in DOMAIN Kinds
    BY <2>1 DEF Kinds
  <2>4. Writable(PageFields[v], <<>>)
    <3>1. CASE v = "protect_route"
      <4>1. PageFields[v] = <<"method", "path", "capability">>
        BY <3>1, NamesWritten
      <4>2. <<"method", "path", "capability">> \in Seq({"method", "path", "capability"})
        OBVIOUS
      <4>3. PageFields[v] \in Seq(ToSet(PageFields[v])) /\ ToSet(PageFields[v]) = {"method", "path", "capability"}
        BY <4>1, <4>2, FewNames
      <4>4. \A n \in ToSet(PageFields[v]) : n \notin Words \cup {"type"}
        BY <4>3 DEF Words
      <4>5. <<>> \in Seq(ToSet(<<>>)) /\ \A f \in ToSet(<<>>) : FALSE
        BY FewNames, EmptySeq
      <4> QED BY <4>3, <4>4, <4>5 DEF Writable
    <3>2. CASE v = "set_capability_policy"
      <4>1. PageFields[v] = <<"capability", "policy", "roles">>
        BY <3>2, NamesWritten
      <4>2. <<"capability", "policy", "roles">> \in Seq({"capability", "policy", "roles"})
        OBVIOUS
      <4>3. PageFields[v] \in Seq(ToSet(PageFields[v])) /\ ToSet(PageFields[v]) = {"capability", "policy", "roles"}
        BY <4>1, <4>2, FewNames
      <4>4. \A n \in ToSet(PageFields[v]) : n \notin Words \cup {"type"}
        BY <4>3 DEF Words
      <4>5. <<>> \in Seq(ToSet(<<>>)) /\ \A f \in ToSet(<<>>) : FALSE
        BY FewNames, EmptySeq
      <4> QED BY <4>3, <4>4, <4>5 DEF Writable
    <3> QED BY <2>1, <3>1, <3>2
  <2> DEFINE names == PageFields[v]
             none == <<>>
  <2>5. none = <<>> /\ Writable(names, none) /\ Quiet(v, names, o)
    BY <2>1, <2>4, ClearQuiet
  <2> HIDE DEF names, none
  <2>6. BodyWith(v, names, o, FALSE, none) = <<BodyField("type", "word", v, FALSE)>> \o Texts(names, o, FALSE)
    BY <2>3, <2>5, TextBody
  <2> QED BY <1>1, <2>1, <2>2, <2>5, <2>6 DEF names
<1>2. CASE command.client # "page"
  <2>1. v \in {"protect_route", "set_policy", "enable_provider", "disable_provider", "password_policy"}
    BY <1>2, NamesWritten DEF Clear
  <2>2. CASE v = "password_policy"
    <3>1. BodyOf(command) = password_policy_body(o)
      BY <1>2, <2>2 DEF BodyOf
    <3> QED BY <1>2, <2>2, <3>1
  <2>3. CASE v # "password_policy"
    <3>1. BodyOf(command) = proposal_body(v, o)
      BY <1>2, <2>1, <2>3 DEF BodyOf
    <3>2. TypeWord[v] = v
      BY <2>1, <2>3, NamesWritten
    <3>3. ToSet(Needs[v]) \subseteq DOMAIN o
      BY <3>1 DEF proposal_body
    <3>4. BodyOf(command) = BodyWith(TypeWord[v], Needs[v], o, TRUE, Switch(v, TRUE))
      BY <3>1, <3>3 DEF proposal_body, BodyWith, Texts
    <3> QED BY <1>2, <2>1, <2>3, <3>2, <3>3, <3>4
  <2> QED BY <2>2, <2>3
<1> QED BY <1>1, <1>2

\* What was meant, verb by verb.
LEMMA MeantBy ==
    ASSUME NEW command
    PROVE  LET v == command.verb  o == command.options
           IN /\ v = "protect_route" =>
                   Meant(command) = Protected(o["method"], o["path"], o["capability"])
              /\ v \in {"set_policy", "set_capability_policy"} =>
                   Meant(command) = [type |-> "SetCapabilityPolicy", capability |-> o["capability"],
                                     policy |-> [id |-> o["policy"], roles |-> IF "roles" \in DOMAIN o THEN o["roles"] ELSE None]]
              /\ v \in {"enable_provider", "disable_provider"} =>
                   Meant(command) = [type |-> "SetProviderEnabled", provider |-> o["provider"],
                                     enabled |-> v = "enable_provider"]
              /\ v = "password_policy" =>
                   Meant(command) = [type |-> "SetPasswordPolicy",
                                     policy |-> [f \in DOMAIN DefaultPassword |-> PolicySetting(o, f)]]
              /\ v = "revert" => Meant(command) = [type |-> "Revert", change_id |-> o["change_id"]]
<1> DEFINE v == command.verb
           o == command.options
<1>1. CASE v = "protect_route"
  BY <1>1 DEF Meant, Protected
<1>2. CASE v \in {"set_policy", "set_capability_policy"}
  BY <1>2 DEF Meant
<1>3. CASE v \in {"enable_provider", "disable_provider"}
  BY <1>3 DEF Meant
<1>4. CASE v = "password_policy"
  BY <1>4 DEF Meant
<1>5. CASE v = "revert"
  BY <1>5 DEF Meant
<1>6. CASE v \notin {"protect_route", "set_policy", "set_capability_policy", "enable_provider", "disable_provider",
                     "password_policy", "revert"}
  BY <1>6
<1> QED BY <1>1, <1>2, <1>3, <1>4, <1>5, <1>6

\* A clear command is read as what was meant.
LEMMA ClearRead ==
    ASSUME NEW command, Clear(command), BodyOf(command) # Error
    PROVE  parse_authority_change(BodyOf(command)) = Meant(command)
<1> DEFINE v == command.verb
           o == command.options
           body == BodyOf(command)
           names == IF command.client = "page" THEN PageFields[v] ELSE Needs[v]
<1>1. \A n \in DOMAIN o : o[n] # None
  BY DEF Clear
<1>q. ASSUME ToSet(names) \subseteq DOMAIN o PROVE Quiet(v, names, o)
  BY <1>q, ClearQuiet
<1>2. CASE v = "protect_route"
  <2>1. /\ names = <<"method", "path", "capability">> /\ ToSet(names) \subseteq DOMAIN o
        /\ body = BodyWith(v, names, o, command.client # "page", <<>>)
    <3>1. Switch(v, TRUE) = <<>>
      BY <1>2 DEF Switch
    <3> QED BY <1>2, <3>1, BodyWritten, NamesWritten
  <2> HIDE DEF body, names
  <2>2. o["method"] # None /\ o["path"] # None /\ o["capability"] # None
    BY <1>1, <2>1, FewNames
  <2> HIDE DEF o
  <2>3. parse_authority_change(body)
          = Protected(o["method"], o["path"], o["capability"])
    BY <1>2, <2>1, <2>2, ProtectRead
  <2> QED BY <1>2, <2>3, MeantBy DEF body, o
<1>3. CASE v \in {"set_policy", "set_capability_policy"}
  <2>1. /\ names = IF v = "set_policy" THEN <<"capability", "policy">> ELSE <<"capability", "policy", "roles">>
        /\ ToSet(names) \subseteq DOMAIN o
        /\ body = BodyWith(v, names, o, command.client # "page", <<>>)
    <3>1. Switch(v, TRUE) = <<>>
      BY <1>3 DEF Switch
    <3> QED BY <1>3, <3>1, BodyWritten, NamesWritten
  <2>2. "roles" \in DOMAIN o <=> v # "set_policy"
    <3>1. v = "set_policy" => "roles" \notin DOMAIN o
      BY DEF Clear
    <3>2. v # "set_policy" => names = <<"capability", "policy", "roles">> /\ ToSet(names) \subseteq DOMAIN o
      BY <2>1
    <3> HIDE DEF names
    <3>3. v # "set_policy" => "roles" \in DOMAIN o
      BY <3>2, FewNames
    <3> QED BY <3>1, <3>3
  <2>3. (\A n \in ToSet(names) : o[n] # None) /\ Quiet(v, names, o)
    BY <1>1, <1>q, <2>1
  <2> HIDE DEF body, names
  <2>4. parse_authority_change(body)
          = [type |-> "SetCapabilityPolicy", capability |-> o["capability"],
             policy |-> [id |-> o["policy"], roles |-> IF v = "set_policy" THEN None ELSE o["roles"]]]
    <3> HIDE DEF o, v
    <3> QED BY <1>3, <2>1, <2>3, PolicyRead
  <2>5. Meant(command)
          = [type |-> "SetCapabilityPolicy", capability |-> o["capability"],
             policy |-> [id |-> o["policy"], roles |-> IF "roles" \in DOMAIN o THEN o["roles"] ELSE None]]
    BY <1>3, MeantBy
  <2> QED BY <2>2, <2>4, <2>5 DEF body
<1>4. CASE v \in {"enable_provider", "disable_provider"}
  <2>1. ToSet(Needs[v]) \subseteq DOMAIN o /\ body = BodyWith(v, <<"provider">>, o, TRUE, Switch(v, TRUE))
    BY <1>4, BodyWritten, NamesWritten
  <2>2. "provider" \in DOMAIN o
    <3>1. Needs[v] = <<"provider">>
      BY <1>4, NamesWritten
    <3> QED BY <2>1, <3>1, FewNames
  <2>3. Meant(command) = [type |-> "SetProviderEnabled", provider |-> o["provider"], enabled |-> v = "enable_provider"]
    BY <1>4, MeantBy
  <2>4. o["provider"] # None /\ Quiet(v, <<"provider">>, o)
    <3>1. names = <<"provider">> /\ ToSet(names) \subseteq DOMAIN o
      BY <1>4, <2>1, BodyWritten, NamesWritten
    <3>2. Quiet(v, names, o)
      BY <1>q, <3>1
    <3>3. Quiet(v, <<"provider">>, o)
      BY <3>1, <3>2
    <3> QED BY <1>1, <2>2, <3>3
  <2> HIDE DEF body, v, o, names
  <2>5. \A spaced : spaced = TRUE => parse_authority_change(BodyWith(v, <<"provider">>, o, spaced, Switch(v, spaced)))
          = [type |-> "SetProviderEnabled", provider |-> o["provider"], enabled |-> Enables(v)]
    BY <1>4, <2>4, ProviderRead
  <2>6. parse_authority_change(BodyWith(v, <<"provider">>, o, TRUE, Switch(v, TRUE)))
          = [type |-> "SetProviderEnabled", provider |-> o["provider"], enabled |-> Enables(v)]
    BY <2>5, Zenon
  <2> QED BY <2>1, <2>3, <2>6 DEF body, Enables
<1>5. CASE v = "password_policy"
  <2> DEFINE wished == [f \in DOMAIN DefaultPassword |-> PolicySetting(o, f)]
             F == Wishes(o)
  <2>1. body = password_policy_body(o)
    BY <1>5, BodyWritten
  <2>2. Meant(command) = [type |-> "SetPasswordPolicy", policy |-> wished]
    BY <1>5, MeantBy
  <2>3. Sound(o) /\ ValidPassword(wished) /\ wished # Error
    <3>1. Meant(command).policy = wished
      BY <2>2
    <3> HIDE DEF wished
    <3> QED BY <1>5, <3>1 DEF Clear, Sound
  <2>4. DOMAIN body \subseteq Nat /\ ToSet(body) = {BodyField("type", "word", "set_password_policy", TRUE)} \cup F
    BY <2>1, PolicyBody
  <2>5. \A f \in F : f.kind # "word" /\ f.name \notin Words \cup {"type"} /\ QuietField(f, "set_password_policy")
    <3>1. /\ \A n : Number(o, n).kind = "number" /\ Bool(o, n).kind = "bool"
          /\ Endless.name = "expiration_days" /\ Endless.kind = "null"
      BY DEF Number, Bool, Endless, BodyField
    <3>2. \A n \in ToSet(Settings) \cup ToSet(Switches) : n \notin Words \cup {"type"}
      BY PolicyNames DEF Words
    <3>3. "expiration_days" \in ToSet(Settings)
      BY PolicyNames
    <3>4. \A f \in F : f.name \in ToSet(Settings) \cup ToSet(Switches) /\ f.kind \in {"number", "bool", "null"}
      BY <2>3, <3>1, <3>3, WishedFields
    <3> HIDE DEF F
    <3> QED BY <3>2, <3>4 DEF QuietField
  <2> HIDE DEF body, F, wished
  <2>6. "set_password_policy" \in DOMAIN Kinds /\ Tests[Kinds["set_password_policy"]].kind = "SetPasswordPolicy"
    BY TestTable DEF Kinds
  <2>7. Reads(body, "set_password_policy", F)
    BY <2>4, <2>5, <2>6, BodyRead
  <2>8. password_policy_from_body(body) = wished
    <3>1. wished = [f \in DOMAIN DefaultPassword |-> PolicySetting(o, f)]
      BY DEF wished
    <3> HIDE DEF o
    <3> QED BY <2>3, <2>4, <2>7, <3>1, PolicyFromWish DEF F
  <2>9. KindOf(body) = "SetPasswordPolicy"
    BY <2>6, <2>7 DEF Reads
  <2>10. parse_authority_change(body) = [type |-> "SetPasswordPolicy", policy |-> wished]
    BY <2>3, <2>8, <2>9, ParsedAs
  <2> QED BY <2>2, <2>10 DEF body
<1>6. v \in {"protect_route", "set_policy", "set_capability_policy", "enable_provider", "disable_provider",
             "password_policy"}
  BY BodyWritten
<1> QED BY <1>2, <1>3, <1>4, <1>5, <1>6

\* The requests of the answers are of deployed commands, or of reverts.
LEMMA ProposeUnderstood ==
    ASSUME TypeOK, ProposeChange, ClearCommands
    PROVE  RequestUnderstood'
<1>1. PICK command \in deployed.commands \cup Reverts : Propose(command)
  BY DEF ProposeChange
<1> DEFINE change == parse_authority_change(BodyOf(command))
<1>2. answer' = [to |-> command, by |-> "propose", change |-> change] /\ BodyOf(command) # Error
  BY <1>1 DEF Propose
<1>3. change = Meant(command)
  <2>1. CASE command \in deployed.commands
    <3>1. Clear(command)
      BY <2>1 DEF ClearCommands, TypeOK
    <3> QED BY <1>2, <3>1, ClearRead
  <2>2. CASE command \in Reverts
    <3>1. PICK id \in DOMAIN changes : command = Command("cli", "revert", [change_id |-> id])
      BY <2>2 DEF Reverts
    <3>2. id \in Nat /\ id # None
      BY <3>1, SeqElement, BoundaryAssumption DEF TypeOK
    <3>3. change = [type |-> "Revert", change_id |-> id]
      BY <3>1, <3>2, RevertRead
    <3>4. command.verb = "revert" /\ command.options["change_id"] = id
      BY <3>1 DEF Command
    <3>5. Meant(command) = [type |-> "Revert", change_id |-> id]
      BY <3>4, MeantBy
    <3> QED BY <3>3, <3>5
  <2> QED BY <1>1, <2>1, <2>2
<1> HIDE DEF change
<1>4. answer'.to = command /\ answer'.change = change
  BY <1>2
<1>5. Meant(answer'.to) = Meant(command)
  BY <1>4
<1> QED BY <1>3, <1>4, <1>5 DEF RequestUnderstood

\* A request of a client is never answered as a proposal is.
LEMMA HandledNot ==
    ASSUME NEW config, NEW request
    PROVE  handle(config, request).by # "propose"
<1>1. CASE handle(config, request).by \in Operations
  <2>1. "propose" \notin Operations
    BY DEF Operations
  <2> QED BY <1>1, <2>1
<1>2. CASE handle(config, request).by \notin Operations
  <2> DEFINE found == route(Routes(config), request.path)
  <2>1. \/ handle(config, request) \in {Answer("client", 200), Answer("control", 200), Answer("boundary", 405),
                                        Answer("boundary", 404), Answer("application", None)}
        \/ /\ found # None
           /\ handle(config, request)
                = Answer(found.operation, handle_auth_route(found.operation, request.method, request.session))
    <3> HIDE DEF found
    <3> QED BY DEF handle, found
  <2>2. \A by, status : Answer(by, status).by = by
    BY DEF Answer
  <2>3. found # None => found.operation \in Operations
    BY RouteFound, RowsOfTable
  <2> HIDE DEF found
  <2> QED BY <1>2, <2>1, <2>2, <2>3
<1> QED BY <1>1, <1>2

\* What a client asked for is what the control plane understands, a request for
\* an unknown method as nothing, whatever way the clients write their commands,
\* as long as the commands are clear: bodies are searched for words, one word is
\* found inside another, and any text may hold one (parse_authority_change).
THEOREM RequestsAreUnderstood ==
    ASSUME ClearCommands
    PROVE  Spec => []RequestUnderstood
<1>1. Init => RequestUnderstood
  BY DEF Init, RequestUnderstood
<1>2. TypeOK /\ RequestUnderstood /\ [Next]_vars => RequestUnderstood'
  <2> SUFFICES ASSUME TypeOK, RequestUnderstood, [Next]_vars PROVE RequestUnderstood'
    OBVIOUS
  <2>1. CASE ProposeChange
    BY <2>1, ProposeUnderstood
  <2>2. CASE Ask
    <3>1. PICK request \in deployed.requests :
        LET boundary == handle(contract, [request EXCEPT !.path = Spelled(@)])
            application == handle_application(Key(request.method, request.path))
        IN answer' = IF boundary.by = "application"
                     THEN [to |-> request, by |-> "application", status |-> application.status,
                           demand |-> application.demand]
                     ELSE [to |-> request, by |-> boundary.by, status |-> boundary.status, demand |-> None]
      BY <2>2 DEF Ask
    <3>2. handle(contract, [request EXCEPT !.path = Spelled(@)]).by # "propose"
      BY HandledNot
    <3>3. answer'.by # "propose"
      BY <3>1, <3>2
    <3> QED BY <3>3 DEF RequestUnderstood
  <2>3. CASE answer' = None
    BY <2>3 DEF RequestUnderstood
  <2>4. CASE UNCHANGED answer
    BY <2>4 DEF RequestUnderstood
  <2>5. Start => answer' = answer
    BY DEF Start
  <2>6. \/ answer' = None \/ Start \/ UNCHANGED answer \/ Ask \/ ProposeChange
    <3>1. ASSUME NEW r, ReaderStep(r) PROVE answer' = None
      BY <3>1 DEF ReaderStep, ReadAuthority, ReadHistory, ReadRevision, EnsureFind, EnsureStore, ListInferred,
                  Listing, ApproveNext, ApplyBulk, Read
    <3> QED BY <3>1 DEF Next, vars, Approve, Reject, Apply
  <2> QED BY <2>1, <2>2, <2>3, <2>4, <2>5, <2>6
<1>3. Spec => [](TypeOK /\ ReportInv)
  BY ReportsAreTrue
<1> QED BY <1>1, <1>2, <1>3, PTL DEF Spec
=============================================================================
