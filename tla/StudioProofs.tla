----------------------------- MODULE StudioProofs -----------------------------
(***************************************************************************)
(* What holds of Studio and the boundary it runs for every application,    *)
(* every set of upstreams, users and clients and any number of operations  *)
(* and restarts.                                                           *)
(***************************************************************************)
EXTENDS Studio, FiniteSetTheorems, TLAPS

Target == Upstream \cup {NoUpstream}
AttachmentPlan == [before : Target, upstream : Upstream]

\* What a route file and the live protections may hold.
Saved == {a \in UNION {[D -> Access] : D \in SUBSET Offered} : IsFiniteSet(DOMAIN a)}

\* What a Studio thread may hold, by where it is.
StudioState(l) ==
    \/ l.pc \in {"idle", "unbind", "resync"}
    \/ l \in [pc : {"sync", "attach"}, upstream : Target]
    \/ l.pc = "set" /\ l = [pc |-> "set", proxy |-> l.proxy]
    \/ l \in [pc : {"check", "write"}, plan : AttachmentPlan]
    \/ l \in [pc : {"save"}, route : Offered, level : Access]
    \/ l \in [pc : {"rename"}, saved : Saved]
    \/ l \in [pc : {"persist"}, user : User]
    \/ l \in [pc : {"append", "fill"}, user : User, accounts : Seq(User)]

ClientState(l) ==
    \/ l = Idle
    \/ /\ DOMAIN l = {"pc", "role", "route", "upgrade", "need"}
       /\ l.pc \in {"resolve", "enforce", "forward"}

\* What the stores and the process hold.
StoreInv ==
    /\ adoption \in Target
    /\ reachable \subseteq Upstream
    /\ access \in Saved /\ protections \in Saved
    /\ accounts \in Seq(User) /\ users \subseteq User
    /\ proposals \subseteq AttachmentPlan

\* What the threads hold.
HoldInv ==
    /\ DOMAIN local = Thread
    /\ \A s \in StudioThread : StudioState(local[s])
    /\ \A c \in ClientThread : ClientState(local[c])

TypeInv == StoreInv /\ HoldInv

-----------------------------------------------------------------------------
(* The inductive invariants. *)

\* A request on its way has seen what is demanded now; what it took from the
\* rules and from the live authority it has seen as well.
Entitled(c) ==
    local[c].pc # "idle" =>
        /\ <<Static(local[c].route), Live(local[c].route)>> \in seen[c]
        /\ local[c].pc = "enforce" => \E x \in seen[c] : x[1] = local[c].need
        /\ local[c].pc = "forward" =>
             \E x, y \in seen[c] :
                 Satisfies(local[c].role,
                           IF local[c].upgrade \/ y[2] = NoRequirement THEN x[1] ELSE y[2])
EntitledInv == \A c \in ClientThread : Entitled(c)

\* One Studio request at a time, as for a single person at the page.
OneStudio == \A s, q \in StudioThread : s = q

\* The users of the file are in the process, and so is the one a thread adds; a
\* thread that is to write the file has it as it is, or, when it has begun, as
\* it was; and but for cut writes nobody is missing from it.
UsersInv ==
    /\ (\A s \in StudioThread : local[s].pc # "fill") => Missing \subseteq lost
    /\ Range(accounts) \subseteq users
    /\ \A s \in StudioThread :
        /\ local[s].pc \in {"persist", "append", "fill"} => local[s].user \in users
        /\ local[s].pc = "append" => local[s].accounts = accounts
        /\ local[s].pc = "fill" =>
            /\ (Range(Seed) \cup created) \ Range(local[s].accounts) \subseteq lost
            /\ Range(local[s].accounts) \subseteq users

\* The proxy forwards where the file says, but for a thread that has written or
\* read the file and is about to set the proxy.
FileInv ==
    /\ (\A s \in StudioThread : local[s].pc \notin {"sync", "set", "attach", "unbind"}) =>
           (~outside /\ proxy # NoProxy => proxy.upstream = adoption)
    /\ \A s \in StudioThread :
        /\ local[s].pc \in {"sync", "attach"} /\ ~outside => local[s].upstream = adoption
        /\ local[s].pc = "set" /\ ~outside => local[s].proxy.upstream = adoption

\* The rules are those of the saved access, but for a thread that has written it
\* and is about to set the proxy.
RulesInv ==
    /\ (\A s \in StudioThread : local[s].pc \notin {"resync", "sync", "set"}) /\ proxy # NoProxy =>
           proxy.policy = application_policy(<<>>, access)
    /\ \A s \in StudioThread :
           local[s].pc = "set" => local[s].proxy.policy = application_policy(<<>>, access)

Mirrors(p, a) == \A r \in DOMAIN p : r \in DOMAIN a /\ a[r] = p[r]

\* Every live protection is saved, or about to be.
LiveInv ==
    /\ (\A s \in StudioThread : local[s].pc \notin {"save", "rename"}) => Mirrors(protections, access)
    /\ \A s \in StudioThread :
        /\ local[s].pc = "save" =>
               Mirrors(protections, With(access, local[s].route, local[s].level))
        /\ local[s].pc = "rename" => Mirrors(protections, local[s].saved)

-----------------------------------------------------------------------------
(* Route files. *)

\* A file without entries.
LEMMA EmptySaved == <<>> \in Saved
<1>1. DOMAIN <<>> = {}
  OBVIOUS
<1>2. <<>> \in [{} -> Access]
  BY <1>1
<1>3. IsFiniteSet(DOMAIN <<>>)
  BY <1>1, FS_EmptySet
<1> QED
  BY <1>2, <1>3 DEF Saved

\* An entry is added, or replaced.
LEMMA WithSaved ==
    ASSUME NEW a \in Saved, NEW r \in Offered, NEW v \in Access
    PROVE  With(a, r, v) \in Saved
<1>1. PICK D \in SUBSET Offered : a \in [D -> Access]
  BY DEF Saved
<1>2. DOMAIN a = D /\ IsFiniteSet(D)
  BY <1>1 DEF Saved
<1>3. With(a, r, v) \in [D \cup {r} -> Access]
  BY <1>1, <1>2 DEF With
<1>4. IsFiniteSet(D \cup {r})
  BY <1>2, FS_AddElement
<1>5. DOMAIN With(a, r, v) = D \cup {r}
  BY <1>3
<1>6. D \cup {r} \in SUBSET Offered
  OBVIOUS
<1> QED
  BY <1>3, <1>4, <1>5, <1>6 DEF Saved

-----------------------------------------------------------------------------
(* Rows of the accounts file. *)

\* A row at the end adds its user.
LEMMA AppendedRows ==
    ASSUME NEW rows \in Seq(User), NEW user \in User
    PROVE  /\ Appended(rows, user) \in Seq(User)
           /\ Range(Appended(rows, user)) = Range(rows) \cup {user}
<1>1. /\ Appended(rows, user) \in Seq(User)
      /\ DOMAIN Appended(rows, user) = 1..(Len(rows) + 1)
      /\ \A i \in 1..Len(rows) : Appended(rows, user)[i] = rows[i]
      /\ Appended(rows, user)[Len(rows) + 1] = user
  BY DEF Appended
<1>2. Len(rows) \in Nat /\ DOMAIN rows = 1..Len(rows)
  OBVIOUS
<1> QED
  BY <1>1, <1>2 DEF Range

\* The first rows have no other users.
LEMMA FirstRows ==
    ASSUME NEW rows \in Seq(User), NEW n \in 0..Len(rows)
    PROVE  /\ SubSeq(rows, 1, n) \in Seq(User)
           /\ Range(SubSeq(rows, 1, n)) \subseteq Range(rows)
<1>1. Len(rows) \in Nat /\ DOMAIN rows = 1..Len(rows)
  OBVIOUS
<1>2. SubSeq(rows, 1, n) = [i \in 1..n |-> rows[i]]
  BY <1>1
<1>3. 1..n \subseteq 1..Len(rows) /\ n \in Nat
  BY <1>1
<1>4. \A i \in 1..n : rows[i] \in User
  BY <1>1, <1>3
<1> QED
  BY <1>1, <1>2, <1>3, <1>4 DEF Range

-----------------------------------------------------------------------------
(* Types. *)

\* A thread that moves leaves the others where they are.
LEMMA Moves ==
    ASSUME DOMAIN local = Thread, NEW t \in Thread, NEW x, Become(t, x)
    PROVE  /\ local'[t] = x
           /\ \A q \in Thread : q # t => local'[q] = local[q]
           /\ DOMAIN local' = Thread
BY DEF Become

\* Going to a step is becoming the same state at that step.
LEMMA GotoMoves ==
    ASSUME DOMAIN local = Thread, NEW t \in Thread, NEW pc, Goto(t, pc)
    PROVE  Become(t, [local[t] EXCEPT !.pc = pc])
BY DEF Goto, Become

\* A Studio thread that moves to a state of its step keeps the types.
LEMMA StudioMoves ==
    ASSUME HoldInv, NEW s \in StudioThread, NEW x, Become(s, x), StudioState(x)
    PROVE  HoldInv'
<1>1. s \in Thread /\ s \notin ClientThread /\ ClientThread \subseteq Thread /\ StudioThread \subseteq Thread
  BY StudioAssumption DEF Thread
<1>2. /\ local'[s] = x
      /\ \A q \in Thread : q # s => local'[q] = local[q]
      /\ DOMAIN local' = Thread
  BY <1>1, Moves DEF HoldInv
<1>3. ASSUME NEW q \in StudioThread PROVE StudioState(local'[q])
  BY <1>1, <1>2 DEF HoldInv
<1>4. ASSUME NEW c \in ClientThread PROVE ClientState(local'[c])
  BY <1>1, <1>2 DEF HoldInv
<1> QED
  BY <1>2, <1>3, <1>4 DEF HoldInv

\* A client that moves to a state of its step keeps the types.
LEMMA ClientMoves ==
    ASSUME HoldInv, NEW c \in ClientThread, NEW x, Become(c, x), ClientState(x)
    PROVE  HoldInv'
<1>1. c \in Thread /\ c \notin StudioThread /\ ClientThread \subseteq Thread /\ StudioThread \subseteq Thread
  BY StudioAssumption DEF Thread
<1>2. /\ local'[c] = x
      /\ \A q \in Thread : q # c => local'[q] = local[q]
      /\ DOMAIN local' = Thread
  BY <1>1, Moves DEF HoldInv
<1>3. ASSUME NEW q \in StudioThread PROVE StudioState(local'[q])
  BY <1>1, <1>2 DEF HoldInv
<1>4. ASSUME NEW q \in ClientThread PROVE ClientState(local'[q])
  BY <1>1, <1>2 DEF HoldInv
<1> QED
  BY <1>2, <1>3, <1>4 DEF HoldInv

\* A thread at rest holds nothing.
LEMMA IdleStates == StudioState(Idle) /\ ClientState(Idle)
BY DEF StudioState, ClientState, Idle

\* A thread is Studio's or a client's.
LEMMA ThreadKinds ==
    /\ StudioThread \subseteq Thread /\ ClientThread \subseteq Thread
    /\ \A s \in StudioThread, c \in ClientThread : s # c
BY StudioAssumption DEF Thread

\* Studio's steps keep the types.
LEMMA StudioTypes ==
    ASSUME TypeInv, NEW s \in StudioThread, StudioStep(s)
    PROVE  TypeInv'
<1> USE DEF TypeInv
<1> DEFINE l == local[s]
<1>l. StudioState(l) /\ DOMAIN local = Thread /\ s \in Thread
  BY ThreadKinds DEF HoldInv
<1>1. CASE page(s)
  <2>1. StudioState([pc |-> "sync", upstream |-> adoption])
    BY DEF StoreInv, StudioState
  <2>2. HoldInv'
    BY <1>1, <2>1, StudioMoves DEF page
  <2> QED
    BY <1>1, <2>2 DEF page, StoreInv, files, process
<1>2. CASE Sync(s)
  <2>1. ASSUME NEW p PROVE StudioState([pc |-> "set", proxy |-> p])
    BY DEF StudioState
  <2>2. HoldInv'
    BY <1>2, <2>1, StudioMoves, IdleStates DEF Sync, Done
  <2> QED
    BY <1>2, <2>2 DEF Sync, StoreInv, files
<1>3. CASE SetProxy(s)
  <2>1. HoldInv'
    BY <1>3, StudioMoves, IdleStates DEF SetProxy, Done
  <2> QED
    BY <1>3, <2>1 DEF SetProxy, StoreInv, files
<1>4. ASSUME NEW u \in Upstream, Preview(s, u) PROVE TypeInv'
  <2>1. [before |-> adoption, upstream |-> u] \in AttachmentPlan
    BY DEF StoreInv, AttachmentPlan
  <2>2. StoreInv'
    BY <1>4, <2>1 DEF Preview, StoreInv, files
  <2> QED
    BY <1>4, <2>2 DEF Preview, HoldInv
<1>5. ASSUME NEW plan \in proposals, Apply(s, plan) PROVE TypeInv'
  <2>1. StudioState([pc |-> "check", plan |-> plan])
    BY DEF StoreInv, StudioState
  <2>2. HoldInv'
    BY <1>5, <2>1, StudioMoves DEF Apply
  <2> QED
    BY <1>5, <2>2 DEF Apply, StoreInv, files
<1>6. CASE ApplyCheck(s)
  <2>1. l \in [pc : {"check", "write"}, plan : AttachmentPlan]
    BY <1>6, <1>l DEF ApplyCheck, At, StudioState
  <2>2. StudioState([l EXCEPT !.pc = "write"])
    BY <2>1 DEF StudioState
  <2>3. HoldInv'
    BY <1>6, <1>l, <2>2, StudioMoves, GotoMoves, IdleStates DEF ApplyCheck, Done
  <2> QED
    BY <1>6, <2>3 DEF ApplyCheck, StoreInv, files, process
<1>7. CASE ApplyWrite(s)
  <2>1. l \in [pc : {"check", "write"}, plan : AttachmentPlan]
    BY <1>7, <1>l DEF ApplyWrite, At, StudioState
  <2>2. l.plan.upstream \in Upstream
    BY <2>1 DEF AttachmentPlan
  <2>3. StudioState([pc |-> "attach", upstream |-> l.plan.upstream])
    BY <2>2 DEF StudioState, Target
  <2>4. HoldInv'
    BY <1>7, <2>3, StudioMoves, IdleStates DEF ApplyWrite, Done
  <2> QED
    BY <1>7, <2>2, <2>4 DEF ApplyWrite, StoreInv, process, Target
<1>8. CASE Attach(s)
  <2>1. ASSUME NEW p PROVE StudioState([pc |-> "set", proxy |-> p])
    BY DEF StudioState
  <2>2. HoldInv'
    BY <1>8, <2>1, StudioMoves DEF Attach
  <2> QED
    BY <1>8, <2>2 DEF Attach, StoreInv, files, process
<1>9. CASE Detach(s)
  <2>1. StudioState([pc |-> "unbind"])
    BY DEF StudioState
  <2>2. HoldInv'
    BY <1>9, <2>1, StudioMoves DEF Detach
  <2> QED
    BY <1>9, <2>2 DEF Detach, StoreInv, process, Target
<1>10. CASE Unbind(s)
  <2>1. HoldInv'
    BY <1>10, StudioMoves, IdleStates DEF Unbind, Done
  <2> QED
    BY <1>10, <2>1 DEF Unbind, StoreInv, files
<1>11. ASSUME NEW route \in Offered, NEW level \in Access \cup {"default"}, Protect(s, route, level)
       PROVE  TypeInv'
  <2>1. CASE level = "default"
    BY <1>11, <2>1 DEF Protect, StoreInv, HoldInv, files
  <2>2. CASE level # "default"
    <3>1. StudioState([pc |-> "save", route |-> route, level |-> level])
      BY <2>2 DEF StudioState
    <3>2. HoldInv'
      BY <1>11, <2>2, <3>1, StudioMoves DEF Protect
    <3>3. protections' \in Saved
      BY <1>11, <2>2, WithSaved DEF Protect, StoreInv
    <3> QED
      BY <1>11, <3>2, <3>3 DEF Protect, StoreInv, files
  <2> QED
    BY <2>1, <2>2
<1>12. CASE SaveRead(s)
  <2>1. l \in [pc : {"save"}, route : Offered, level : Access]
    BY <1>12, <1>l DEF SaveRead, At, StudioState
  <2>2. l.level # "default"
    BY <2>1 DEF Access
  <2>3. With(access, l.route, l.level) \in Saved
    BY <2>1, WithSaved DEF StoreInv
  <2>4. StudioState([pc |-> "rename", saved |-> With(access, l.route, l.level)])
    BY <2>3 DEF StudioState
  <2>5. HoldInv'
    BY <1>12, <2>2, <2>4, StudioMoves DEF SaveRead
  <2> QED
    BY <1>12, <2>5 DEF SaveRead, StoreInv, files, process
<1>13. CASE SaveWrite(s)
  <2>1. l \in [pc : {"rename"}, saved : Saved]
    BY <1>13, <1>l DEF SaveWrite, At, StudioState
  <2>2. StudioState([l EXCEPT !.pc = "resync"])
    BY <2>1 DEF StudioState
  <2>3. HoldInv'
    BY <1>13, <1>l, <2>2, StudioMoves, GotoMoves DEF SaveWrite, SaveAndSync
  <2> QED
    BY <1>13, <2>1, <2>3 DEF SaveWrite, SaveAndSync, StoreInv, process
<1>14. CASE Resync(s)
  <2>1. StudioState([pc |-> "sync", upstream |-> adoption])
    BY DEF StoreInv, StudioState
  <2>2. HoldInv'
    BY <1>14, <2>1, StudioMoves DEF Resync
  <2> QED
    BY <1>14, <2>2 DEF Resync, StoreInv, files, process
<1>15. ASSUME NEW user \in User, CreateUser(s, user) PROVE TypeInv'
  <2>1. StudioState([pc |-> "persist", user |-> user])
    BY DEF StudioState
  <2>2. HoldInv'
    BY <1>15, <2>1, StudioMoves DEF CreateUser
  <2> QED
    BY <1>15, <2>2 DEF CreateUser, StoreInv, files
<1>16. CASE PersistRead(s)
  <2>1. l \in [pc : {"persist"}, user : User]
    BY <1>16, <1>l DEF PersistRead, At, StudioState
  <2>2. StudioState([pc |-> "append", user |-> l.user, accounts |-> accounts])
    BY <2>1 DEF StudioState, StoreInv
  <2>3. HoldInv'
    BY <1>16, <2>2, StudioMoves, IdleStates DEF PersistRead, Done
  <2> QED
    BY <1>16, <2>3 DEF PersistRead, StoreInv, files, process
<1>17. CASE PersistStart(s)
  <2> DEFINE rows == Appended(l.accounts, l.user)
  <2>1. l \in [pc : {"append", "fill"}, user : User, accounts : Seq(User)]
    BY <1>17, <1>l DEF PersistStart, At, StudioState
  <2>2. StudioState([l EXCEPT !.pc = "fill"])
    BY <2>1 DEF StudioState
  <2>3. HoldInv'
    BY <1>17, <1>l, <2>2, StudioMoves, GotoMoves DEF PersistStart
  <2>4. rows \in Seq(User)
    BY <2>1, AppendedRows
  <2>5. PICK n \in 0..Len(rows) : accounts' = SubSeq(rows, 1, n)
    BY <1>17 DEF PersistStart
  <2>6. accounts' \in Seq(User)
    <3> HIDE DEF rows
    <3> QED
      BY <2>4, <2>5, FirstRows
  <2> QED
    BY <1>17, <2>3, <2>6 DEF PersistStart, StoreInv, process
<1>18. CASE PersistWrite(s)
  <2>1. l \in [pc : {"append", "fill"}, user : User, accounts : Seq(User)]
    BY <1>18, <1>l DEF PersistWrite, At, StudioState
  <2>2. HoldInv'
    BY <1>18, StudioMoves, IdleStates DEF PersistWrite, Done
  <2>3. accounts' \in Seq(User)
    BY <1>18, <2>1, AppendedRows DEF PersistWrite
  <2> QED
    BY <1>18, <2>2, <2>3 DEF PersistWrite, StoreInv, process
<1>19. CASE PersistFails(s)
  <2>1. HoldInv'
    BY <1>19, StudioMoves, IdleStates DEF PersistFails, Done
  <2> QED
    BY <1>19, <2>1 DEF PersistFails, StoreInv, files, process
<1> QED
  BY <1>1, <1>2, <1>3, <1>4, <1>5, <1>6, <1>7, <1>8, <1>9, <1>10, <1>11, <1>12, <1>13,
     <1>14, <1>15, <1>16, <1>17, <1>18, <1>19 DEF StudioStep

\* A client's steps change nothing that is shared.
Shared == <<files, reachable, process, ops, restarts, outside, created, lost>>

\* resolve, enforce and forward read the proxy and the live authority only.
LEMMA ClientChangesNothing ==
    ASSUME NEW c \in ClientThread, ClientStep(c)
    PROVE  UNCHANGED Shared
BY DEF ClientStep, Request, ResolveRoute, Enforce, Forward, Shared

\* A client's steps keep the types.
LEMMA ClientTypes ==
    ASSUME TypeInv, NEW c \in ClientThread, ClientStep(c)
    PROVE  TypeInv'
<1> USE DEF TypeInv
<1> DEFINE l == local[c]
<1>l. ClientState(l)
  BY DEF HoldInv
<1>s. StoreInv'
  BY ClientChangesNothing DEF Shared, StoreInv, files, process
<1>1. ASSUME NEW role \in Role, NEW route \in Asked, NEW upgrade \in BOOLEAN,
             Request(c, role, route, upgrade)
      PROVE  HoldInv'
  <2>1. ClientState([pc |-> "resolve", role |-> role, route |-> route, upgrade |-> upgrade,
                     need |-> NoRequirement])
    BY DEF ClientState
  <2> QED
    BY <1>1, <2>1, ClientMoves DEF Request
<1>2. CASE ResolveRoute(c)
  <2>1. DOMAIN l = {"pc", "role", "route", "upgrade", "need"}
    BY <1>2, <1>l DEF ResolveRoute, At, ClientState, Idle
  <2>2. ASSUME NEW n PROVE ClientState([l EXCEPT !.pc = "enforce", !.need = n])
    BY <2>1 DEF ClientState
  <2> QED
    BY <1>s, <1>2, <2>2, ClientMoves, IdleStates DEF ResolveRoute, Done
<1>3. CASE Enforce(c)
  <2>1. DOMAIN l = {"pc", "role", "route", "upgrade", "need"}
    BY <1>3, <1>l DEF Enforce, At, ClientState, Idle
  <2>2. ASSUME NEW n PROVE ClientState([l EXCEPT !.pc = "forward", !.need = n])
    BY <2>1 DEF ClientState
  <2> QED
    BY <1>s, <1>3, <2>2, ClientMoves, IdleStates DEF Enforce, Done
<1>4. CASE Forward(c)
  BY <1>s, <1>4, ClientMoves, IdleStates DEF Forward, Done
<1> QED
  BY <1>s, <1>1, <1>2, <1>3, <1>4 DEF ClientStep

\* A restart keeps the types.
LEMMA RestartTypes ==
    ASSUME TypeInv, Restart
    PROVE  TypeInv'
<1>1. \A t \in Thread : local'[t] = Idle
  BY DEF Restart, Started
<1>2. DOMAIN local' = Thread
  BY DEF Restart, Started
<1>3. HoldInv'
  BY <1>1, <1>2, IdleStates, ThreadKinds DEF HoldInv
<1>4. protections' \in Saved
  BY EmptySaved DEF Restart, Started
<1>u. Range(accounts) \subseteq User
  BY DEF TypeInv, StoreInv, Range
<1>5. StoreInv'
  BY <1>4, <1>u DEF Restart, Started, TypeInv, StoreInv, files
<1> QED
  BY <1>3, <1>5 DEF TypeInv

\* The initial state is well typed.
LEMMA TypeInit == Init => TypeInv
<1> SUFFICES ASSUME Init PROVE TypeInv
  OBVIOUS
<1>1. \A t \in Thread : local[t] = Idle
  BY DEF Init
<1>2. HoldInv
  BY <1>1, IdleStates, ThreadKinds DEF Init, HoldInv
<1>u. Seed \in Seq(User) /\ Range(Seed) \subseteq User
  BY StudioAssumption DEF Range
<1>3. StoreInv
  BY <1>u, EmptySaved, StudioAssumption DEF Init, StoreInv, Target
<1> QED
  BY <1>2, <1>3 DEF TypeInv

\* Every step keeps the types.
LEMMA TypeStep == TypeInv /\ [Next]_vars => TypeInv'
<1> SUFFICES ASSUME TypeInv, [Next]_vars PROVE TypeInv'
  OBVIOUS
<1>1. ASSUME NEW u \in Upstream, AttachElsewhere(u) PROVE TypeInv'
  BY <1>1 DEF AttachElsewhere, TypeInv, HoldInv, StoreInv, process, Target
<1>2. ASSUME NEW u \in Upstream, Reachability(u) PROVE TypeInv'
  BY <1>2 DEF Reachability, TypeInv, HoldInv, StoreInv, files, process
<1>3. CASE UNCHANGED vars
  BY <1>3 DEF vars, TypeInv, HoldInv, StoreInv, files, process
<1> QED
  BY <1>1, <1>2, <1>3, StudioTypes, ClientTypes, RestartTypes DEF Next, Step

\* Every reachable state of Studio and its boundary is well typed: the files
\* and the process hold what the code puts there, and each thread has the
\* locals of the step it is at.
THEOREM StudioTypesHold == Spec => []TypeInv
<1> QED
  BY TypeInit, TypeStep, PTL DEF Spec

-----------------------------------------------------------------------------
(* Who moves. *)

\* A step of a Studio thread moves no other thread.
LEMMA StudioMovesOne ==
    ASSUME HoldInv, NEW s \in StudioThread, StudioStep(s)
    PROVE  \A q \in Thread : q # s => local'[q] = local[q]
<1>0. DOMAIN local = Thread /\ s \in Thread
  BY ThreadKinds DEF HoldInv
<1>1. UNCHANGED local \/ \E x : Become(s, x)
  BY <1>0, GotoMoves DEF StudioStep, page, Sync, SetProxy, Preview, Apply, ApplyCheck, ApplyWrite, Attach,
     Detach, Unbind, Protect, SaveRead, SaveWrite, SaveAndSync, Resync, CreateUser, PersistRead,
     PersistStart, PersistWrite, PersistFails, Done
<1> QED
  BY <1>0, <1>1, Moves

\* A step of a client moves no other thread.
LEMMA ClientMovesOne ==
    ASSUME HoldInv, NEW c \in ClientThread, ClientStep(c)
    PROVE  \A q \in Thread : q # c => local'[q] = local[q]
<1>0. DOMAIN local = Thread /\ c \in Thread
  BY ThreadKinds DEF HoldInv
<1>1. \E x : Become(c, x)
  BY DEF ClientStep, Request, ResolveRoute, Enforce, Forward, Done
<1> QED
  BY <1>0, <1>1, Moves

-----------------------------------------------------------------------------
(* What a forwarded request was entitled to. *)

\* A pending request has seen what is demanded after the step, and forgets nothing.
LEMMA SeenGrows ==
    ASSUME seen' = [c \in ClientThread |-> Watch(c)], NEW c \in ClientThread, local'[c].pc # "idle"
    PROVE  /\ <<Static(local[c].route), Live(local[c].route)>>' \in seen'[c]
           /\ local[c].pc # "idle" => seen[c] \subseteq seen'[c]
<1>1. seen'[c] = (IF local[c].pc = "idle" THEN {} ELSE seen[c])
                     \cup {<<Static(r), Live(r)>>' : r \in {local'[c].route}}
  BY DEF Watch
<1>2. <<Static(local[c].route), Live(local[c].route)>>' \in
          {<<Static(r), Live(r)>>' : r \in {local'[c].route}}
  BY DEF Static, Live
<1> QED
  BY <1>1, <1>2

\* A client that does not move has seen what it had seen.
LEMMA EntitledStays ==
    ASSUME seen' = [c \in ClientThread |-> Watch(c)], NEW c \in ClientThread, Entitled(c),
           local'[c] = local[c]
    PROVE  Entitled(c)'
<1> SUFFICES ASSUME local'[c].pc # "idle" PROVE Entitled(c)'
  BY DEF Entitled
<1>1. /\ <<Static(local[c].route), Live(local[c].route)>>' \in seen'[c]
      /\ seen[c] \subseteq seen'[c]
  BY SeenGrows
<1>2. local'[c].pc = "enforce" => \E x \in seen'[c] : x[1] = local'[c].need
  BY <1>1 DEF Entitled
<1>3. local'[c].pc = "forward" =>
          \E x, y \in seen'[c] :
              Satisfies(local'[c].role,
                        IF local'[c].upgrade \/ y[2] = NoRequirement THEN x[1] ELSE y[2])
  BY <1>1 DEF Entitled
<1> QED
  BY <1>1, <1>2, <1>3 DEF Entitled

\* A client that moves has seen what it takes.
LEMMA EntitledMoves ==
    ASSUME TypeInv, seen' = [c \in ClientThread |-> Watch(c)], NEW c \in ClientThread, Entitled(c),
           ClientStep(c)
    PROVE  Entitled(c)'
<1> DEFINE l == local[c]
<1> SUFFICES ASSUME local'[c].pc # "idle" PROVE Entitled(c)'
  BY DEF Entitled
<1>d. DOMAIN local = Thread /\ c \in Thread /\ ClientState(l)
  BY ThreadKinds DEF TypeInv, HoldInv
<1>1. /\ <<Static(local[c].route), Live(local[c].route)>>' \in seen'[c]
      /\ l.pc # "idle" => seen[c] \subseteq seen'[c]
  BY SeenGrows
<1>i. Idle.pc = "idle"
  BY DEF Idle
<1>2. ASSUME NEW role \in Role, NEW route \in Asked, NEW upgrade \in BOOLEAN,
             Request(c, role, route, upgrade)
      PROVE  Entitled(c)'
  <2>1. local'[c].pc = "resolve"
    BY <1>2, <1>d, Moves DEF Request
  <2> QED
    BY <1>1, <2>1 DEF Entitled
<1>3. CASE ResolveRoute(c)
  <2>1. l.pc = "resolve" /\ DOMAIN l = {"pc", "role", "route", "upgrade", "need"}
    BY <1>3, <1>d DEF ResolveRoute, At, ClientState, Idle
  <2>2. local'[c] = [l EXCEPT !.pc = "enforce", !.need = Static(l.route)]
    BY <1>3, <1>d, <1>i, Moves DEF ResolveRoute, Done
  <2>3. local'[c].pc = "enforce" /\ local'[c].need = Static(l.route)
    BY <2>1, <2>2
  <2>4. <<Static(l.route), Live(l.route)>> \in seen'[c]
    BY <1>1, <2>1 DEF Entitled
  <2>5. \E x \in seen'[c] : x[1] = local'[c].need
    BY <2>3, <2>4
  <2> QED
    BY <1>1, <2>3, <2>5 DEF Entitled
<1>4. CASE Enforce(c)
  <2>1. l.pc = "enforce" /\ DOMAIN l = {"pc", "role", "route", "upgrade", "need"}
    BY <1>4, <1>d DEF Enforce, At, ClientState, Idle
  <2>2. /\ local'[c] = [l EXCEPT !.pc = "forward", !.need = Needed(l)]
        /\ Satisfies(l.role, Needed(l))
    BY <1>4, <1>d, <1>i, Moves DEF Enforce, Done
  <2>3. local'[c].pc = "forward" /\ local'[c].role = l.role /\ local'[c].upgrade = l.upgrade
    BY <2>1, <2>2
  <2>4. PICK x \in seen[c] : x[1] = l.need
    BY <2>1 DEF Entitled
  <2> DEFINE y == <<Static(l.route), Live(l.route)>>
  <2>5. y \in seen[c]
    BY <2>1 DEF Entitled
  <2>6. Needed(l) = IF l.upgrade \/ y[2] = NoRequirement THEN x[1] ELSE y[2]
    BY <2>4 DEF Needed
  <2>7. x \in seen'[c] /\ y \in seen'[c]
    BY <1>1, <2>1, <2>4, <2>5
  <2>8. \E v, w \in seen'[c] :
            Satisfies(local'[c].role,
                      IF local'[c].upgrade \/ w[2] = NoRequirement THEN v[1] ELSE w[2])
    <3> HIDE DEF y
    <3> QED
      BY <2>2, <2>3, <2>6, <2>7
  <2> QED
    BY <1>1, <2>3, <2>8 DEF Entitled
<1>5. CASE Forward(c)
  BY <1>5, <1>d, <1>i, Moves DEF Forward, Done
<1> QED
  BY <1>2, <1>3, <1>4, <1>5 DEF ClientStep

\* Every step keeps what pending requests have seen and taken.
LEMMA EntitledStep == TypeInv /\ EntitledInv /\ [Next]_vars => EntitledInv'
<1> SUFFICES ASSUME TypeInv, EntitledInv, [Next]_vars, NEW c \in ClientThread PROVE Entitled(c)'
  BY DEF EntitledInv
<1>e. Entitled(c)
  BY DEF EntitledInv
<1>k. c \in Thread
  BY ThreadKinds
<1>1. CASE UNCHANGED vars
  BY <1>1, <1>e DEF vars, process, Entitled, Static, Live
<1>2. CASE Next
  <2>0. seen' = [d \in ClientThread |-> Watch(d)]
    BY <1>2 DEF Next
  <2>1. ASSUME NEW s \in StudioThread, StudioStep(s) PROVE Entitled(c)'
    <3>1. local'[c] = local[c]
      BY <2>1, <1>k, StudioMovesOne, ThreadKinds DEF TypeInv
    <3> QED
      BY <2>0, <3>1, <1>e, EntitledStays
  <2>2. ASSUME NEW d \in ClientThread, ClientStep(d) PROVE Entitled(c)'
    <3>1. CASE d = c
      BY <2>0, <2>2, <3>1, <1>e, EntitledMoves
    <3>2. CASE d # c
      <4>1. local'[c] = local[c]
        BY <2>2, <3>2, <1>k, ClientMovesOne DEF TypeInv
      <4> QED
        BY <2>0, <4>1, <1>e, EntitledStays
    <3> QED
      BY <3>1, <3>2
  <2>3. ASSUME NEW u \in Upstream, AttachElsewhere(u) \/ Reachability(u) PROVE Entitled(c)'
    <3>1. local'[c] = local[c]
      BY <2>3 DEF AttachElsewhere, Reachability
    <3> QED
      BY <2>0, <3>1, <1>e, EntitledStays
  <2>4. CASE Restart
    <3>1. local'[c].pc = "idle"
      BY <2>4, <1>k DEF Restart, Started, Idle
    <3> QED
      BY <3>1 DEF Entitled
  <2> QED
    BY <1>2, <2>1, <2>2, <2>3, <2>4 DEF Next, Step
<1> QED
  BY <1>1, <1>2

\* A request is forwarded only for a caller who satisfies what its route
\* demanded, a live protection before the rules, whatever Studio, other clients
\* and restarts do meanwhile, if neither demand changed on its way
\* (handle_application; an upgrade is held to the rules alone).
THEOREM ForwardsOnlyEntitledHolds == Spec => []ForwardsOnlyEntitled
<1>1. Init => EntitledInv
  <2> SUFFICES ASSUME Init, NEW c \in ClientThread PROVE local[c].pc = "idle"
    BY DEF EntitledInv, Entitled
  <2> QED
    BY ThreadKinds DEF Init, Idle
<1>2. EntitledInv => ForwardsOnlyEntitled
  <2> SUFFICES ASSUME EntitledInv, NEW c \in ClientThread, At(c, "forward"),
                      NEW rules \in Requirement \cup {NoRequirement},
                      NEW live \in Requirement \cup {NoRequirement},
                      seen[c] = {<<rules, live>>}
               PROVE  Satisfies(local[c].role,
                          IF local[c].upgrade \/ live = NoRequirement THEN rules ELSE live)
    BY DEF ForwardsOnlyEntitled
  <2>1. PICK x, y \in seen[c] :
            Satisfies(local[c].role,
                      IF local[c].upgrade \/ y[2] = NoRequirement THEN x[1] ELSE y[2])
    BY DEF EntitledInv, Entitled, At
  <2>2. x[1] = rules /\ y[2] = live
    BY <2>1
  <2> QED
    BY <2>1, <2>2
<1> QED
  BY <1>1, <1>2, StudioTypesHold, EntitledStep, PTL DEF Spec

-----------------------------------------------------------------------------
(* Users. *)

\* What the invariants of Studio's own state say is about Studio's threads and
\* the shared state, neither of which a client touches.
LEMMA ClientLeavesStudio ==
    ASSUME HoldInv, NEW c \in ClientThread, ClientStep(c)
    PROVE  UNCHANGED Shared /\ \A s \in StudioThread : local'[s] = local[s]
BY ClientChangesNothing, ClientMovesOne, ThreadKinds

\* The thread s that moved, and the only one.
LEMMA OnlyStudio ==
    ASSUME OneStudio, HoldInv, NEW s \in StudioThread, NEW x, Become(s, x)
    PROVE  \A q \in StudioThread : q = s /\ local'[q] = x
BY Moves, ThreadKinds DEF OneStudio, HoldInv

\* The same for a thread that only changes its step.
LEMMA OnlyStudioGoes ==
    ASSUME OneStudio, HoldInv, NEW s \in StudioThread, NEW pc, Goto(s, pc)
    PROVE  \A q \in StudioThread : q = s /\ local'[q] = [local[s] EXCEPT !.pc = pc]
BY OnlyStudio, GotoMoves, ThreadKinds DEF HoldInv

\* Studio's steps keep the users of the file and the process together.
LEMMA UsersStudio ==
    ASSUME OneStudio, TypeInv, UsersInv, NEW s \in StudioThread, StudioStep(s)
    PROVE  UsersInv'
<1> DEFINE l == local[s]
<1>h. HoldInv /\ StudioState(l)
  BY DEF TypeInv, HoldInv
<1>i. Idle.pc = "idle"
  BY DEF Idle
<1>o. \A q \in StudioThread : q = s
  BY DEF OneStudio
<1> DEFINE Kept == UNCHANGED <<accounts, users, created, lost>>
           Off == {"persist", "append", "fill"}
<1>s. UNCHANGED <<accounts, created>> => Missing' = Missing
  BY DEF Missing
<1>1. ASSUME NEW x, Become(s, x), x.pc \notin Off, l.pc # "fill", Kept
      PROVE  UsersInv'
  <2>1. \A q \in StudioThread : local'[q] = x
    BY <1>1, <1>h, OnlyStudio
  <2>2. Missing \subseteq lost
    BY <1>1, <1>o DEF UsersInv
  <2> QED
    BY <1>1, <1>s, <2>1, <2>2 DEF UsersInv
<1>2. ASSUME NEW pc, Goto(s, pc), [l EXCEPT !.pc = pc].pc \notin Off, l.pc # "fill", Kept
      PROVE  UsersInv'
  BY <1>1, <1>2, <1>h, GotoMoves, ThreadKinds DEF HoldInv
<1>3. ASSUME UNCHANGED local, Kept PROVE UsersInv'
  BY <1>3, <1>s DEF UsersInv
<1>4. CASE \/ page(s) \/ Sync(s) \/ SetProxy(s) \/ Attach(s) \/ Detach(s) \/ Unbind(s)
           \/ ApplyWrite(s) \/ Resync(s) \/ SaveRead(s)
  BY <1>4, <1>1, <1>i DEF page, Sync, SetProxy, Attach, Detach, Unbind, ApplyWrite, Resync, SaveRead,
     Begins, At, Done, files, process
<1>5. CASE \/ \E u \in Upstream : Preview(s, u)
           \/ \E plan \in proposals : Apply(s, plan)
           \/ \E route \in Offered, level \in Access \cup {"default"} : Protect(s, route, level)
  BY <1>5, <1>1, <1>3 DEF Preview, Apply, Protect, Begins, At, files
<1>6. CASE ApplyCheck(s)
  <2>1. [l EXCEPT !.pc = "write"].pc = "write"
    BY <1>6, <1>h DEF ApplyCheck, At, StudioState
  <2> QED
    BY <1>6, <2>1, <1>1, <1>2, <1>i DEF ApplyCheck, At, Done, files, process
<1>7. CASE SaveWrite(s)
  <2>1. [l EXCEPT !.pc = "resync"].pc = "resync"
    BY <1>7, <1>h DEF SaveWrite, At, StudioState
  <2> QED
    BY <1>7, <2>1, <1>2 DEF SaveWrite, SaveAndSync, At, process
<1>8. ASSUME NEW user \in User, CreateUser(s, user) PROVE UsersInv'
  <2>1. \A q \in StudioThread : local'[q] = [pc |-> "persist", user |-> user]
    BY <1>8, <1>h, OnlyStudio DEF CreateUser
  <2>2. Missing' \subseteq lost'
    BY <1>8, <1>o, <1>s DEF CreateUser, Begins, At, UsersInv, files
  <2> QED
    BY <1>8, <2>1, <2>2 DEF CreateUser, UsersInv, files
<1>9. CASE PersistRead(s)
  <2>1. CASE l.user \in Range(accounts)
    BY <1>9, <2>1, <1>1, <1>i DEF PersistRead, At, Done, files, process
  <2>2. CASE l.user \notin Range(accounts)
    <3>1. \A q \in StudioThread :
              local'[q] = [pc |-> "append", user |-> l.user, accounts |-> accounts]
      BY <1>9, <2>2, <1>h, OnlyStudio DEF PersistRead
    <3>2. l.user \in users
      BY <1>9 DEF PersistRead, At, UsersInv
    <3>3. Missing' \subseteq lost'
      BY <1>9, <1>o, <1>s DEF PersistRead, At, UsersInv, files
    <3> QED
      BY <1>9, <3>1, <3>2, <3>3 DEF PersistRead, UsersInv, files, process
  <2> QED
    BY <2>1, <2>2
<1>10. CASE PersistStart(s)
  <2> DEFINE rows == Appended(l.accounts, l.user)
  <2>1. l.pc = "append" /\ l.user \in users /\ l.accounts = accounts
    BY <1>10 DEF PersistStart, At, UsersInv
  <2>2. l.user \in User /\ accounts \in Seq(User)
    BY <2>1, <1>h DEF TypeInv, StoreInv, StudioState
  <2>3. rows \in Seq(User) /\ Range(rows) = Range(accounts) \cup {l.user}
    BY <2>1, <2>2, AppendedRows
  <2>4. PICK n \in 0..Len(rows) : accounts' = SubSeq(rows, 1, n)
    BY <1>10 DEF PersistStart
  <2>5. Range(accounts') \subseteq Range(rows)
    <3> HIDE DEF rows
    <3> QED
      BY <2>3, <2>4, FirstRows
  <2>6. Range(accounts) \subseteq users /\ Missing \subseteq lost
    BY <2>1, <1>o DEF UsersInv
  <2>7. \A q \in StudioThread : q = s /\ local'[q] = [l EXCEPT !.pc = "fill"]
    BY <1>10, <1>h, OnlyStudioGoes DEF PersistStart
  <2>8. l \in [pc : {"append", "fill"}, user : User, accounts : Seq(User)]
    BY <2>1, <1>h DEF StudioState
  <2>9. \A q \in StudioThread :
            local'[q].pc = "fill" /\ local'[q].user = l.user /\ local'[q].accounts = accounts
    BY <2>1, <2>7, <2>8
  <2>10. UNCHANGED <<users, created, lost>>
    BY <1>10 DEF PersistStart, process
  <2>11. Range(accounts') \subseteq users'
    BY <2>1, <2>3, <2>5, <2>6, <2>10
  <2> QED
    BY <2>1, <2>6, <2>7, <2>9, <2>10, <2>11 DEF UsersInv, Missing
<1>11. CASE PersistWrite(s)
  <2>1. l.pc = "fill" /\ l.user \in users
    BY <1>11 DEF PersistWrite, At, UsersInv
  <2>2. l.user \in User /\ l.accounts \in Seq(User)
    BY <2>1, <1>h DEF StudioState
  <2>3. /\ (Range(Seed) \cup created) \ Range(l.accounts) \subseteq lost
        /\ Range(l.accounts) \subseteq users
    BY <2>1 DEF UsersInv
  <2>4. Range(accounts') = Range(l.accounts) \cup {l.user}
    BY <1>11, <2>2, AppendedRows DEF PersistWrite
  <2>5. created' = created \cup {l.user} /\ lost' = lost \ {l.user} /\ users' = users
    BY <1>11 DEF PersistWrite, process
  <2>6. Missing' = (Range(Seed) \cup created') \ Range(accounts')
    BY DEF Missing
  <2>7. Missing' \subseteq lost' /\ Range(accounts') \subseteq users'
    BY <2>1, <2>3, <2>4, <2>5, <2>6
  <2>8. \A q \in StudioThread : local'[q].pc = "idle"
    BY <1>11, <1>h, <1>i, OnlyStudio DEF PersistWrite, Done
  <2> QED
    BY <2>7, <2>8 DEF UsersInv
<1>12. CASE PersistFails(s)
  <2>1. \A q \in StudioThread : local'[q].pc = "idle"
    BY <1>12, <1>h, <1>i, OnlyStudio DEF PersistFails, Done
  <2>2. Missing \subseteq lost'
    BY <1>12, <1>o DEF PersistFails, At, UsersInv
  <2>3. UNCHANGED <<accounts, users, created>>
    BY <1>12 DEF PersistFails, files, process
  <2> QED
    BY <1>s, <2>1, <2>2, <2>3 DEF UsersInv
<1> QED
  BY <1>4, <1>5, <1>6, <1>7, <1>8, <1>9, <1>10, <1>11, <1>12 DEF StudioStep

\* Every step does.
LEMMA UsersStep == OneStudio /\ TypeInv /\ UsersInv /\ [Next]_vars => UsersInv'
<1> SUFFICES ASSUME OneStudio, TypeInv, UsersInv, [Next]_vars PROVE UsersInv'
  OBVIOUS
<1>1. ASSUME NEW c \in ClientThread, ClientStep(c) PROVE UsersInv'
  BY <1>1, ClientLeavesStudio DEF TypeInv, UsersInv, Missing, Shared, files, process
<1>2. ASSUME NEW u \in Upstream, AttachElsewhere(u) \/ Reachability(u) PROVE UsersInv'
  BY <1>2 DEF AttachElsewhere, Reachability, UsersInv, Missing, files, process
<1>3. CASE Restart
  <2>1. \A s \in StudioThread : local'[s].pc = "idle"
    BY <1>3, ThreadKinds DEF Restart, Started, Idle
  <2>2. Missing \subseteq lost'
    BY <1>3 DEF Restart, At, UsersInv
  <2>3. UNCHANGED <<accounts, created>> /\ users' = Range(accounts)
    BY <1>3 DEF Restart, Started, files
  <2> QED
    BY <2>1, <2>2, <2>3 DEF UsersInv, Missing
<1>4. CASE UNCHANGED vars
  BY <1>4 DEF vars, UsersInv, Missing, files, process
<1> QED
  BY <1>1, <1>2, <1>3, <1>4, UsersStudio DEF Next, Step

\* With one Studio request at a time, the users Studio said it created and those
\* of init are in the file of accounts, and so there after any restart, but for
\* those that a cut write of the file lost; and the file never has a user the
\* running process lacks (create_local_user, persist_development_account).
THEOREM CreatedUsersStayHolds == OneStudio => (Spec => []CreatedUsersStay)
<1> SUFFICES ASSUME OneStudio PROVE Spec => []CreatedUsersStay
  OBVIOUS
<1>1. Init => UsersInv
  <2> SUFFICES ASSUME Init PROVE UsersInv
    OBVIOUS
  <2>1. \A s \in StudioThread : local[s].pc = "idle"
    BY ThreadKinds DEF Init, Idle
  <2> QED
    BY <2>1 DEF Init, UsersInv, Missing
<1>2. UsersInv => CreatedUsersStay
  BY DEF UsersInv, CreatedUsersStay, At
<1>3. TypeInv /\ UsersInv /\ [Next]_vars => UsersInv'
  BY UsersStep
<1> QED
  BY <1>1, <1>2, <1>3, StudioTypesHold, PTL DEF Spec

-----------------------------------------------------------------------------
(* Where the boundary forwards. *)

\* Studio's steps keep the proxy in line with the adoption file.
LEMMA FileStudio ==
    ASSUME OneStudio, TypeInv, FileInv, NEW s \in StudioThread, StudioStep(s)
    PROVE  FileInv'
<1> DEFINE l == local[s]
           Off == {"sync", "set", "attach", "unbind"}
           Settled == ~outside /\ proxy # NoProxy => proxy.upstream = adoption
<1>h. HoldInv /\ StudioState(l)
  BY DEF TypeInv, HoldInv
<1>i. Idle.pc = "idle"
  BY DEF Idle
<1>o. \A q \in StudioThread : q = s
  BY DEF OneStudio
<1>1. ASSUME NEW x, Become(s, x), x.pc \notin Off, Settled' PROVE FileInv'
  <2>1. \A q \in StudioThread : local'[q] = x
    BY <1>1, <1>h, OnlyStudio
  <2> QED
    BY <1>1, <2>1 DEF FileInv
<1>2. ASSUME l.pc \notin Off, UNCHANGED <<adoption, proxy, outside>> PROVE Settled'
  BY <1>2, <1>o DEF FileInv
<1>3. CASE page(s) \/ Resync(s)
  <2>1. \A q \in StudioThread : local'[q] = [pc |-> "sync", upstream |-> adoption]
    BY <1>3, <1>h, OnlyStudio DEF page, Resync
  <2>2. adoption' = adoption
    BY <1>3 DEF page, Resync, files
  <2> QED
    BY <2>1, <2>2 DEF FileInv
<1>4. CASE Sync(s)
  <2>1. CASE upstream_reachable(l.upstream)
    <3>1. \A q \in StudioThread :
              local'[q] = [pc |-> "set", proxy |-> build_proxy(l.upstream, access)]
      BY <1>4, <2>1, <1>h, OnlyStudio DEF Sync
    <3>2. build_proxy(l.upstream, access).upstream = l.upstream
      BY DEF build_proxy
    <3>3. ~outside' => l.upstream = adoption'
      BY <1>4 DEF Sync, At, FileInv, files
    <3> QED
      BY <3>1, <3>2, <3>3 DEF FileInv
  <2>2. CASE ~upstream_reachable(l.upstream)
    <3>1. proxy' = NoProxy /\ Become(s, Idle)
      BY <1>4, <2>2 DEF Sync, Done
    <3> QED
      BY <3>1, <1>1, <1>i
  <2> QED
    BY <2>1, <2>2
<1>5. CASE SetProxy(s)
  <2>1. ~outside => l.proxy.upstream = adoption
    BY <1>5 DEF SetProxy, At, FileInv
  <2>2. Settled'
    BY <1>5, <2>1 DEF SetProxy, files
  <2> QED
    BY <1>5, <2>2, <1>1, <1>i DEF SetProxy, Done
<1>6. CASE Attach(s)
  <2>1. \A q \in StudioThread :
            local'[q] = [pc |-> "set", proxy |-> build_proxy(l.upstream, access)]
    BY <1>6, <1>h, OnlyStudio DEF Attach
  <2>2. build_proxy(l.upstream, access).upstream = l.upstream
    BY DEF build_proxy
  <2>3. ~outside' => l.upstream = adoption'
    BY <1>6 DEF Attach, At, FileInv, files
  <2> QED
    BY <2>1, <2>2, <2>3 DEF FileInv
<1>7. CASE ApplyWrite(s)
  <2>1. CASE l.plan.upstream \in reachable
    <3>1. \A q \in StudioThread : local'[q] = [pc |-> "attach", upstream |-> l.plan.upstream]
      BY <1>7, <2>1, <1>h, OnlyStudio DEF ApplyWrite
    <3>2. adoption' = l.plan.upstream
      BY <1>7, <2>1 DEF ApplyWrite
    <3> QED
      BY <3>1, <3>2 DEF FileInv
  <2>2. CASE l.plan.upstream \notin reachable
    BY <1>7, <2>2, <1>1, <1>2, <1>i DEF ApplyWrite, At, Done, process
  <2> QED
    BY <2>1, <2>2
<1>8. CASE Detach(s)
  <2>1. \A q \in StudioThread : local'[q] = [pc |-> "unbind"]
    BY <1>8, <1>h, OnlyStudio DEF Detach
  <2> QED
    BY <2>1 DEF FileInv
<1>9. CASE Unbind(s)
  BY <1>9, <1>1, <1>i DEF Unbind, Done
<1>10. CASE \/ \E u \in Upstream : Preview(s, u)
            \/ \E plan \in proposals : Apply(s, plan)
            \/ \E route \in Offered, level \in Access \cup {"default"} : Protect(s, route, level)
            \/ \E user \in User : CreateUser(s, user)
  <2>1. l.pc \notin Off /\ UNCHANGED <<adoption, proxy, outside>>
    BY <1>10 DEF Preview, Apply, Protect, CreateUser, Begins, At, files
  <2>2. Settled'
    BY <2>1, <1>2
  <2>3. CASE UNCHANGED local
    BY <2>1, <2>3 DEF FileInv
  <2>4. CASE \E x : Become(s, x) /\ x.pc \notin Off
    BY <2>2, <2>4, <1>1
  <2>5. ASSUME NEW plan, Apply(s, plan) PROVE \E x : Become(s, x) /\ x.pc \notin Off
    BY <2>5 DEF Apply
  <2>6. ASSUME NEW route, NEW level, Protect(s, route, level), ~ UNCHANGED local
        PROVE  \E x : Become(s, x) /\ x.pc \notin Off
    BY <2>6 DEF Protect
  <2>7. ASSUME NEW user, CreateUser(s, user) PROVE \E x : Become(s, x) /\ x.pc \notin Off
    BY <2>7 DEF CreateUser
  <2>8. ASSUME NEW u, Preview(s, u) PROVE UNCHANGED local
    BY <2>8 DEF Preview
  <2> QED
    BY <1>10, <2>3, <2>4, <2>5, <2>6, <2>7, <2>8
<1>11. CASE SaveRead(s) \/ PersistRead(s) \/ PersistStart(s) \/ PersistWrite(s) \/ PersistFails(s)
  <2>1. l.pc \notin Off /\ UNCHANGED <<adoption, proxy, outside>>
    BY <1>11 DEF SaveRead, PersistRead, PersistStart, PersistWrite, PersistFails, At, files, process
  <2>2. Settled'
    BY <2>1, <1>2
  <2>3. \E x : Become(s, x) /\ x.pc \notin Off
    <3>1. ASSUME PersistStart(s) PROVE [l EXCEPT !.pc = "fill"].pc = "fill"
      BY <3>1, <1>h DEF PersistStart, At, StudioState
    <3>2. ASSUME PersistStart(s) PROVE \E x : Become(s, x) /\ x.pc \notin Off
      BY <3>1, <3>2, <1>h, GotoMoves, ThreadKinds DEF PersistStart, HoldInv
    <3> QED
      BY <1>11, <1>i, <3>2 DEF SaveRead, PersistRead, PersistWrite, PersistFails, Done
  <2> QED
    BY <2>2, <2>3, <1>1
<1>12. CASE ApplyCheck(s)
  <2>1. l.pc \notin Off /\ UNCHANGED <<adoption, proxy, outside>>
    BY <1>12 DEF ApplyCheck, At, files, process
  <2>2. Settled'
    BY <2>1, <1>2
  <2>3. [l EXCEPT !.pc = "write"].pc = "write"
    BY <1>12, <1>h DEF ApplyCheck, At, StudioState
  <2>4. \E x : Become(s, x) /\ x.pc \notin Off
    BY <1>12, <1>h, <1>i, <2>3, GotoMoves, ThreadKinds DEF ApplyCheck, Done, HoldInv
  <2> QED
    BY <2>2, <2>4, <1>1
<1>13. CASE SaveWrite(s)
  <2>1. l.pc \notin Off /\ UNCHANGED <<adoption, proxy, outside>>
    BY <1>13 DEF SaveWrite, SaveAndSync, At, process
  <2>2. Settled'
    BY <2>1, <1>2
  <2>3. [l EXCEPT !.pc = "resync"].pc = "resync"
    BY <1>13, <1>h DEF SaveWrite, At, StudioState
  <2>4. \E x : Become(s, x) /\ x.pc \notin Off
    BY <1>13, <1>h, <2>3, GotoMoves, ThreadKinds DEF SaveWrite, SaveAndSync, HoldInv
  <2> QED
    BY <2>2, <2>4, <1>1
<1> QED
  BY <1>3, <1>4, <1>5, <1>6, <1>7, <1>8, <1>9, <1>10, <1>11, <1>12, <1>13 DEF StudioStep

\* Every step does.
LEMMA FileStep == OneStudio /\ TypeInv /\ FileInv /\ [Next]_vars => FileInv'
<1> SUFFICES ASSUME OneStudio, TypeInv, FileInv, [Next]_vars PROVE FileInv'
  OBVIOUS
<1>1. ASSUME NEW c \in ClientThread, ClientStep(c) PROVE FileInv'
  BY <1>1, ClientLeavesStudio DEF TypeInv, FileInv, Shared, files, process
<1>2. ASSUME NEW u \in Upstream, AttachElsewhere(u) PROVE FileInv'
  BY <1>2 DEF AttachElsewhere, FileInv
<1>3. ASSUME NEW u \in Upstream, Reachability(u) PROVE FileInv'
  BY <1>3 DEF Reachability, FileInv, files, process
<1>4. CASE Restart
  <2>1. \A s \in StudioThread : local'[s].pc = "idle"
    BY <1>4, ThreadKinds DEF Restart, Started, Idle
  <2>2. proxy' # NoProxy => proxy' = build_proxy(adoption, access)
    BY <1>4 DEF Restart, Started
  <2>3. build_proxy(adoption, access).upstream = adoption /\ adoption' = adoption
    BY <1>4 DEF build_proxy, Restart, files
  <2> QED
    BY <2>1, <2>2, <2>3 DEF FileInv
<1>5. CASE UNCHANGED vars
  BY <1>5 DEF vars, FileInv, files, process
<1> QED
  BY <1>1, <1>2, <1>3, <1>4, <1>5, FileStudio DEF Next, Step

\* With one Studio request at a time, the boundary forwards where the adoption
\* file says, or nowhere, whenever Studio has answered, unless another process
\* rewrote the file since (StudioApplication::sync, attach, detach).
THEOREM ProxyFollowsFileHolds == OneStudio => (Spec => []ProxyFollowsFile)
<1> SUFFICES ASSUME OneStudio PROVE Spec => []ProxyFollowsFile
  OBVIOUS
<1>1. Init => FileInv
  <2> SUFFICES ASSUME Init PROVE FileInv
    OBVIOUS
  <2>1. \A s \in StudioThread : local[s].pc = "idle"
    BY ThreadKinds DEF Init, Idle
  <2> QED
    BY <2>1 DEF Init, FileInv
<1>2. FileInv => ProxyFollowsFile
  BY DEF FileInv, ProxyFollowsFile, StudioQuiet, At
<1>3. TypeInv /\ FileInv /\ [Next]_vars => FileInv'
  BY FileStep
<1> QED
  BY <1>1, <1>2, <1>3, StudioTypesHold, PTL DEF Spec

-----------------------------------------------------------------------------
(* The rules and the live protections follow the saved access. *)

\* The steps of Studio that leave both the rules and the saved access alone, and
\* do not make rules.
Aside(s) ==
    \/ \E u \in Upstream : Preview(s, u)
    \/ \E plan \in proposals : Apply(s, plan)
    \/ ApplyCheck(s) \/ ApplyWrite(s) \/ Detach(s)
    \/ \E user \in User : CreateUser(s, user)
    \/ PersistRead(s) \/ PersistStart(s) \/ PersistWrite(s) \/ PersistFails(s)

\* Such a step starts and ends where nothing is being saved or made.
LEMMA AsideMoves ==
    ASSUME TypeInv, NEW s \in StudioThread, Aside(s)
    PROVE  /\ local[s].pc \notin {"resync", "sync", "set", "save", "rename"}
           /\ UNCHANGED <<proxy, access, protections>>
           /\ \/ UNCHANGED local
              \/ \E x : Become(s, x) /\ x.pc \notin {"resync", "sync", "set", "save", "rename"}
<1> DEFINE Off == {"resync", "sync", "set", "save", "rename"}
<1>h. StudioState(local[s]) /\ DOMAIN local = Thread /\ s \in Thread
  BY ThreadKinds DEF TypeInv, HoldInv
<1>i. Idle.pc = "idle"
  BY DEF Idle
<1>1. local[s].pc \notin Off /\ UNCHANGED <<proxy, access, protections>>
  BY DEF Aside, Preview, Apply, ApplyCheck, ApplyWrite, Detach, CreateUser, PersistRead, PersistStart,
     PersistWrite, PersistFails, Begins, At, files, process
<1>2. ASSUME NEW u, Preview(s, u) PROVE UNCHANGED local
  BY <1>2 DEF Preview
<1>3. ASSUME NEW plan, Apply(s, plan) PROVE \E x : Become(s, x) /\ x.pc \notin Off
  BY <1>3 DEF Apply
<1>4. ASSUME ApplyCheck(s) PROVE \E x : Become(s, x) /\ x.pc \notin Off
  <2>1. [local[s] EXCEPT !.pc = "write"].pc = "write"
    BY <1>4, <1>h DEF ApplyCheck, At, StudioState
  <2> QED
    BY <1>4, <1>h, <1>i, <2>1, GotoMoves DEF ApplyCheck, Done
<1>5. ASSUME ApplyWrite(s) \/ Detach(s) PROVE \E x : Become(s, x) /\ x.pc \notin Off
  BY <1>5, <1>i DEF ApplyWrite, Detach, Done
<1>6. ASSUME NEW user, CreateUser(s, user) PROVE \E x : Become(s, x) /\ x.pc \notin Off
  BY <1>6 DEF CreateUser
<1>7. ASSUME PersistRead(s) \/ PersistWrite(s) \/ PersistFails(s)
      PROVE  \E x : Become(s, x) /\ x.pc \notin Off
  BY <1>7, <1>i DEF PersistRead, PersistWrite, PersistFails, Done
<1>8. ASSUME PersistStart(s) PROVE \E x : Become(s, x) /\ x.pc \notin Off
  <2>1. [local[s] EXCEPT !.pc = "fill"].pc = "fill"
    BY <1>8, <1>h DEF PersistStart, At, StudioState
  <2> QED
    BY <1>8, <1>h, <2>1, GotoMoves DEF PersistStart
<1> QED
  BY <1>1, <1>2, <1>3, <1>4, <1>5, <1>6, <1>7, <1>8 DEF Aside

\* Studio's steps keep the rules in line with the saved access.
LEMMA RulesStudio ==
    ASSUME OneStudio, TypeInv, RulesInv, NEW s \in StudioThread, StudioStep(s)
    PROVE  RulesInv'
<1> DEFINE l == local[s]
           Off == {"resync", "sync", "set"}
           Built == proxy # NoProxy => proxy.policy = application_policy(<<>>, access)
<1>h. HoldInv /\ StudioState(l)
  BY DEF TypeInv, HoldInv
<1>i. Idle.pc = "idle"
  BY DEF Idle
<1>o. \A q \in StudioThread : q = s
  BY DEF OneStudio
<1>b. ASSUME NEW u PROVE build_proxy(u, access).policy = application_policy(<<>>, access)
  BY DEF build_proxy
<1>1. ASSUME NEW x, Become(s, x), x.pc \notin Off, Built' PROVE RulesInv'
  <2>1. \A q \in StudioThread : local'[q] = x
    BY <1>1, <1>h, OnlyStudio
  <2> QED
    BY <1>1, <2>1 DEF RulesInv
<1>2. ASSUME l.pc \notin Off, UNCHANGED <<proxy, access>> PROVE Built'
  BY <1>2, <1>o DEF RulesInv
<1>3. CASE page(s) \/ Resync(s)
  <2>1. \A q \in StudioThread : local'[q] = [pc |-> "sync", upstream |-> adoption]
    BY <1>3, <1>h, OnlyStudio DEF page, Resync
  <2> QED
    BY <2>1 DEF RulesInv
<1>4. ASSUME NEW u, Become(s, [pc |-> "set", proxy |-> build_proxy(u, access)]), UNCHANGED access
      PROVE  RulesInv'
  <2>1. \A q \in StudioThread : local'[q] = [pc |-> "set", proxy |-> build_proxy(u, access)]
    BY <1>4, <1>h, OnlyStudio
  <2> QED
    BY <1>4, <1>b, <2>1 DEF RulesInv
<1>5. CASE Sync(s)
  <2>1. CASE upstream_reachable(l.upstream)
    BY <1>5, <2>1, <1>4 DEF Sync, files
  <2>2. CASE ~upstream_reachable(l.upstream)
    BY <1>5, <2>2, <1>1, <1>i DEF Sync, Done
  <2> QED
    BY <2>1, <2>2
<1>6. CASE Attach(s)
  BY <1>6, <1>4 DEF Attach, files
<1>7. CASE SetProxy(s)
  <2>1. l.proxy.policy = application_policy(<<>>, access)
    BY <1>7 DEF SetProxy, At, RulesInv
  <2>2. Built'
    BY <1>7, <2>1 DEF SetProxy, files
  <2> QED
    BY <1>7, <2>2, <1>1, <1>i DEF SetProxy, Done
<1>8. CASE Unbind(s)
  BY <1>8, <1>1, <1>i DEF Unbind, Done
<1>9. CASE Aside(s)
  <2>1. CASE UNCHANGED local
    BY <1>9, <2>1, AsideMoves DEF RulesInv
  <2>2. CASE \E x : Become(s, x) /\ x.pc \notin Off
    BY <1>9, <2>2, <1>1, <1>2, AsideMoves
  <2> QED
    BY <1>9, <2>1, <2>2, AsideMoves
<1>10. ASSUME NEW route \in Offered, NEW level \in Access \cup {"default"}, Protect(s, route, level)
       PROVE  RulesInv'
  <2>1. CASE level = "default"
    BY <1>10, <2>1 DEF Protect, RulesInv, files
  <2>2. CASE level # "default"
    BY <1>10, <2>2, <1>1, <1>2 DEF Protect, Begins, At, files
  <2> QED
    BY <2>1, <2>2
<1>11. CASE SaveRead(s)
  BY <1>11, <1>1, <1>2 DEF SaveRead, At, files, process
<1>12. CASE SaveWrite(s)
  <2>1. [l EXCEPT !.pc = "resync"].pc = "resync"
    BY <1>12, <1>h DEF SaveWrite, At, StudioState
  <2>2. \A q \in StudioThread : local'[q].pc = "resync"
    BY <1>12, <1>h, <2>1, OnlyStudioGoes DEF SaveWrite, SaveAndSync
  <2> QED
    BY <2>2 DEF RulesInv
<1> QED
  BY <1>3, <1>5, <1>6, <1>7, <1>8, <1>9, <1>10, <1>11, <1>12 DEF StudioStep, Aside

\* Studio's steps keep the live protections within what is saved or about to be.
LEMMA LiveStudio ==
    ASSUME OneStudio, TypeInv, LiveInv, NEW s \in StudioThread, StudioStep(s)
    PROVE  LiveInv'
<1> DEFINE l == local[s]
           Off == {"save", "rename"}
<1>h. HoldInv /\ StudioState(l)
  BY DEF TypeInv, HoldInv
<1>i. Idle.pc = "idle"
  BY DEF Idle
<1>o. \A q \in StudioThread : q = s
  BY DEF OneStudio
<1>1. ASSUME NEW x, Become(s, x), x.pc \notin Off, l.pc \notin Off, UNCHANGED <<access, protections>>
      PROVE  LiveInv'
  <2>1. \A q \in StudioThread : local'[q] = x
    BY <1>1, <1>h, OnlyStudio
  <2>2. Mirrors(protections, access)
    BY <1>1, <1>o DEF LiveInv
  <2> QED
    BY <1>1, <2>1, <2>2 DEF LiveInv
<1>2. CASE page(s) \/ Sync(s) \/ SetProxy(s) \/ Attach(s) \/ Unbind(s) \/ Resync(s)
  <2>1. l.pc \notin Off /\ UNCHANGED <<access, protections>>
    BY <1>2 DEF page, Sync, SetProxy, Attach, Unbind, Resync, Begins, At, files, process
  <2>2. \E x : Become(s, x) /\ x.pc \notin Off
    BY <1>2, <1>i DEF page, Sync, SetProxy, Attach, Unbind, Resync, Done
  <2> QED
    BY <2>1, <2>2, <1>1
<1>3. CASE Aside(s)
  <2>1. CASE UNCHANGED local
    BY <1>3, <2>1, AsideMoves DEF LiveInv
  <2>2. CASE \E x : Become(s, x) /\ x.pc \notin Off
    BY <1>3, <2>2, <1>1, AsideMoves
  <2> QED
    BY <1>3, <2>1, <2>2, AsideMoves
<1>4. ASSUME NEW route \in Offered, NEW level \in Access \cup {"default"}, Protect(s, route, level)
      PROVE  LiveInv'
  <2>1. CASE level = "default"
    BY <1>4, <2>1 DEF Protect, LiveInv, files
  <2>2. CASE level # "default"
    <3>1. \A q \in StudioThread : local'[q] = [pc |-> "save", route |-> route, level |-> level]
      BY <1>4, <2>2, <1>h, OnlyStudio DEF Protect
    <3>2. Mirrors(protections, access)
      BY <1>4, <1>o DEF LiveInv, Protect, Begins, At
    <3>3. Mirrors(With(protections, route, level), With(access, route, level))
      BY <3>2 DEF Mirrors, With
    <3>4. protections' = With(protections, route, level) /\ access' = access
      BY <1>4, <2>2 DEF Protect, files
    <3> QED
      BY <3>1, <3>3, <3>4 DEF LiveInv
  <2> QED
    BY <2>1, <2>2
<1>5. CASE SaveRead(s)
  <2>1. l \in [pc : {"save"}, route : Offered, level : Access]
    BY <1>5, <1>h DEF SaveRead, At, StudioState
  <2>2. l.pc = "save" /\ l.level # "default"
    BY <2>1 DEF Access
  <2>3. \A q \in StudioThread :
            local'[q] = [pc |-> "rename", saved |-> With(access, l.route, l.level)]
    BY <1>5, <2>2, <1>h, OnlyStudio DEF SaveRead
  <2>4. Mirrors(protections, With(access, l.route, l.level))
    BY <2>2 DEF LiveInv
  <2>5. protections' = protections
    BY <1>5 DEF SaveRead, process
  <2> QED
    BY <2>3, <2>4, <2>5 DEF LiveInv
<1>6. CASE SaveWrite(s)
  <2>1. [l EXCEPT !.pc = "resync"].pc = "resync"
    BY <1>6, <1>h DEF SaveWrite, At, StudioState
  <2>2. \A q \in StudioThread : local'[q].pc = "resync"
    BY <1>6, <1>h, <2>1, OnlyStudioGoes DEF SaveWrite, SaveAndSync
  <2>3. Mirrors(protections, l.saved)
    BY <1>6 DEF SaveWrite, At, LiveInv
  <2>4. access' = l.saved /\ protections' = protections
    BY <1>6 DEF SaveWrite, SaveAndSync, process
  <2> QED
    BY <2>2, <2>3, <2>4 DEF LiveInv
<1> QED
  BY <1>2, <1>3, <1>4, <1>5, <1>6 DEF StudioStep, Aside

\* Every step does both.
LEMMA AccessStep ==
    OneStudio /\ TypeInv /\ RulesInv /\ LiveInv /\ [Next]_vars => RulesInv' /\ LiveInv'
<1> SUFFICES ASSUME OneStudio, TypeInv, RulesInv, LiveInv, [Next]_vars PROVE RulesInv' /\ LiveInv'
  OBVIOUS
<1>1. ASSUME NEW c \in ClientThread, ClientStep(c) PROVE RulesInv' /\ LiveInv'
  <2>1. UNCHANGED <<proxy, access, protections>> /\ \A s \in StudioThread : local'[s] = local[s]
    BY <1>1, ClientLeavesStudio DEF TypeInv, Shared, files, process
  <2> QED
    BY <2>1 DEF RulesInv, LiveInv
<1>2. ASSUME NEW u \in Upstream, AttachElsewhere(u) \/ Reachability(u) PROVE RulesInv' /\ LiveInv'
  <2>1. UNCHANGED <<proxy, access, protections, local>>
    BY <1>2 DEF AttachElsewhere, Reachability, files, process
  <2> QED
    BY <2>1 DEF RulesInv, LiveInv
<1>3. CASE Restart
  <2>1. \A s \in StudioThread : local'[s].pc = "idle"
    BY <1>3, ThreadKinds DEF Restart, Started, Idle
  <2>2. proxy' # NoProxy => proxy' = build_proxy(adoption, access)
    BY <1>3 DEF Restart, Started
  <2>3. build_proxy(adoption, access).policy = application_policy(<<>>, access) /\ access' = access
    BY <1>3 DEF build_proxy, Restart, files
  <2>4. RulesInv'
    BY <2>1, <2>2, <2>3 DEF RulesInv
  <2>5. Mirrors(protections', access')
    BY <1>3 DEF Restart, Started, Mirrors
  <2> QED
    BY <2>1, <2>4, <2>5 DEF LiveInv
<1>4. CASE UNCHANGED vars
  <2>1. UNCHANGED <<proxy, access, protections, local>>
    BY <1>4 DEF vars, files, process
  <2> QED
    BY <2>1 DEF RulesInv, LiveInv
<1> QED
  BY <1>1, <1>2, <1>3, <1>4, RulesStudio, LiveStudio DEF Next, Step

-----------------------------------------------------------------------------
(* What the rules of a saved access demand. *)

\* The routes offered have paths of their own, are of methods the rules know,
\* and are neither public entries nor under a public prefix.  Otherwise the code
\* does not do what was saved.
OfferedApart ==
    \A r \in Offered :
        /\ \A q \in Offered \cup Asked : r.path = q.path => r = q
        /\ r.method \in all
        /\ ~ OpenTo(r)

\* With paths of their own, the entries can be sorted, each once.
LEMMA SortedEntries ==
    ASSUME OfferedApart, NEW a \in Saved
    PROVE  Sorted(a) \in Bijection(1..Cardinality(DOMAIN a), DOMAIN a)
<1> DEFINE n == Cardinality(DOMAIN a)
           Ordered(f) == \A i, j \in DOMAIN f :
               i < j /\ f[i].path = f[j].path => Rank(f[i].method) < Rank(f[j].method)
<1>1. IsFiniteSet(DOMAIN a) /\ DOMAIN a \subseteq Offered
  BY DEF Saved
<1>2. n \in Nat /\ Bijection(1..n, DOMAIN a) # {}
  BY <1>1, FS_CardinalityType DEF ExistsBijection
<1>3. PICK f \in Bijection(1..n, DOMAIN a) : TRUE
  BY <1>2
<1>4. f \in [1..n -> DOMAIN a] /\ \A i, j \in 1..n : f[i] = f[j] => i = j
  BY <1>3 DEF Bijection, Injection, IsInjective
<1>5. ASSUME NEW i \in DOMAIN f, NEW j \in DOMAIN f, i < j, f[i].path = f[j].path PROVE FALSE
  <2>1. i \in 1..n /\ j \in 1..n /\ f[i] \in Offered /\ f[j] \in Offered
    BY <1>1, <1>4
  <2>2. f[i] = f[j]
    BY <1>5, <2>1 DEF OfferedApart
  <2> QED
    BY <1>2, <1>4, <1>5, <2>1, <2>2
<1>6. Ordered(f)
  BY <1>5
<1>7. \E g \in Bijection(1..n, DOMAIN a) : Ordered(g)
  BY <1>3, <1>6
<1>8. Sorted(a) = CHOOSE g \in Bijection(1..n, DOMAIN a) : Ordered(g)
  BY DEF Sorted
<1> HIDE DEF Ordered
<1> QED
  BY <1>7, <1>8

\* What a file of accesses means for a route.
MeantBy(a, route) ==
    IF route \in DOMAIN a THEN a[route]
    ELSE IF OpenTo(route) THEN "public"
    ELSE IF route.method \in all THEN "authenticated" ELSE NoRequirement

\* The first rule that matches decides.
LEMMA FirstDecides ==
    ASSUME NEW rules, NEW method, NEW path,
           NEW i \in Nat, i \in Matching(rules, method, path),
           \A j \in Matching(rules, method, path) : j \in Nat /\ i <= j
    PROVE  resolve(rules, method, path) = rules[i].requirement
<1> DEFINE hits == Matching(rules, method, path)
           first == CHOOSE k \in hits : \A j \in hits : k <= j
<1>1. first \in hits /\ \A j \in hits : first <= j
  OBVIOUS
<1>2. first = i
  <2> HIDE DEF first, hits
  <2>1. first <= i /\ i <= first /\ first \in Nat
    BY <1>1 DEF hits
  <2> QED
    BY <2>1
<1>3. resolve(rules, method, path) = rules[first].requirement
  BY DEF resolve
<1> QED
  BY <1>2, <1>3

\* The rules demand of each route what the file says.
LEMMA RulesMeanAccess ==
    ASSUME OfferedApart, NEW a \in Saved, NEW route \in Offered \cup Asked
    PROVE  resolve(application_policy(<<>>, a), route.method, route.path) = MeantBy(a, route)
<1> DEFINE n == Cardinality(DOMAIN a)
           entries == Sorted(a)
           R1 == RouteRule({"GET", "HEAD"}, PublicEntry, "public")
           R2 == RouteRule(all, PublicPrefix, "public")
           RE == RequiredExact(a)
           Rule == {RouteRule(all, {entries[i].path}, a[entries[i]]) : i \in 1..n}
           R3 == RouteRule(all, Everything, "authenticated")
           rules == application_policy(<<>>, a)
           m == route.method
           p == route.path
           hits == Matching(rules, m, p)
<1>1. n \in Nat /\ DOMAIN a \subseteq Offered
  BY FS_CardinalityType DEF Saved
<1>2. /\ entries \in [1..n -> DOMAIN a]
      /\ \A i, j \in 1..n : entries[i] = entries[j] => i = j
      /\ \A r \in DOMAIN a : \E i \in 1..n : entries[i] = r
  BY SortedEntries DEF Bijection, Injection, Surjection, IsInjective
<1>3. RE = [i \in 1..n |-> RouteRule(all, {entries[i].path}, a[entries[i]])]
  BY <1>2 DEF RequiredExact, Exact
<1>4. RE \in Seq(Rule) /\ Len(RE) = n
  <2>1. RE \in [1..n -> Rule] /\ n \in Nat
    <3> HIDE DEF entries, RE, n
    <3> QED
      BY <1>1, <1>3
  <2> HIDE DEF entries, RE, n, Rule
  <2> QED
    BY <2>1
<1>5. rules = <<R1, R2>> \o <<>> \o RE \o <<R3>>
  BY DEF application_policy, Public, Default
<1>6. /\ DOMAIN rules = 1..(n + 3)
      /\ rules[1] = R1 /\ rules[2] = R2
      /\ \A i \in 1..n : rules[i + 2] = RE[i]
      /\ rules[n + 3] = R3
  <2> HIDE DEF entries, RE, Rule, R1, R2, R3, rules, n
  <2> QED
    BY <1>1, <1>4, <1>5
<1>7. m \in Method /\ p \in Path
  BY StudioAssumption DEF Route
<1>8. hits = {i \in 1..(n + 3) : p \in rules[i].pattern /\ m \in rules[i].methods}
  BY <1>6 DEF Matching
<1>9. /\ 1 \in hits <=> p \in PublicEntry /\ m \in {"GET", "HEAD"}
      /\ 2 \in hits <=> p \in PublicPrefix /\ m \in all
  <2>1. rules[1].pattern = PublicEntry /\ rules[1].methods = {"GET", "HEAD"}
    BY <1>6 DEF RouteRule
  <2>2. rules[2].pattern = PublicPrefix /\ rules[2].methods = all
    BY <1>6 DEF RouteRule
  <2>3. 1 \in 1..(n + 3) /\ 2 \in 1..(n + 3)
    BY <1>1
  <2> HIDE DEF rules, hits, n
  <2> QED
    BY <1>8, <2>1, <2>2, <2>3
<1>10. ASSUME NEW i \in 1..n PROVE i + 2 \in hits <=> p = entries[i].path /\ m \in all
  <2>1. rules[i + 2] = RouteRule(all, {entries[i].path}, a[entries[i]])
    BY <1>3, <1>6
  <2>2. rules[i + 2].pattern = {entries[i].path} /\ rules[i + 2].methods = all
    BY <2>1 DEF RouteRule
  <2>3. i + 2 \in 1..(n + 3)
    BY <1>1
  <2> HIDE DEF rules, hits, entries
  <2> QED
    BY <1>8, <2>2, <2>3
<1>11. n + 3 \in hits <=> m \in all
  <2>1. rules[n + 3].pattern = Path /\ rules[n + 3].methods = all
    BY <1>6 DEF RouteRule, Everything
  <2>2. n + 3 \in 1..(n + 3)
    BY <1>1
  <2> HIDE DEF rules, hits, n
  <2> QED
    BY <1>7, <1>8, <2>1, <2>2
<1>12. ASSUME NEW i \in 1..n, p = entries[i].path PROVE route = entries[i]
  BY <1>1, <1>2, <1>12 DEF OfferedApart
<1>13. ASSUME NEW j \in hits PROVE j \in Nat /\ (j \in {1, 2} \/ j = n + 3 \/ \E i \in 1..n : j = i + 2)
  <2>1. j \in 1..(n + 3)
    BY <1>8
  <2>2. j \notin {1, 2} /\ j # n + 3 => j - 2 \in 1..n /\ j = (j - 2) + 2
    BY <1>1, <2>1
  <2> QED
    BY <2>1, <2>2
<1> HIDE DEF rules, hits, entries, RE, n, m, p
<1>14. CASE route \in DOMAIN a
  <2>1. PICK i \in 1..n : entries[i] = route
    BY <1>2, <1>14
  <2>2. m \in all /\ 1 \notin hits /\ 2 \notin hits
    BY <1>1, <1>9, <1>14 DEF OfferedApart, OpenTo, m, p
  <2>3. i + 2 \in hits
    BY <1>10, <2>1, <2>2 DEF p
  <2>4. ASSUME NEW j \in hits PROVE j \in Nat /\ i + 2 <= j
    <3>1. j \notin {1, 2}
      BY <2>2
    <3>2. ASSUME NEW k \in 1..n, j = k + 2 PROVE j = i + 2
      <4>1. route = entries[k]
        BY <1>10, <1>12, <3>2
      <4> QED
        BY <1>2, <2>1, <3>2, <4>1
    <3> QED
      BY <1>1, <1>13, <3>1, <3>2
  <2>5. resolve(rules, m, p) = rules[i + 2].requirement
    <3>1. i + 2 \in Nat
      BY <1>1
    <3> QED
      BY <2>3, <2>4, <3>1, FirstDecides DEF hits
  <2>6. rules[i + 2].requirement = a[route]
    BY <1>3, <1>6, <2>1 DEF RouteRule
  <2> QED
    BY <1>14, <2>5, <2>6 DEF MeantBy, rules, m, p
<1>15. CASE route \notin DOMAIN a /\ OpenTo(route)
  <2>1. 1 \in hits \/ 2 \in hits
    BY <1>9, <1>15 DEF OpenTo, m, p
  <2>2. \A j \in hits : j \in Nat /\ 1 <= j /\ (j = 1 \/ 2 <= j)
    BY <1>1, <1>13
  <2>3. resolve(rules, m, p) \in {rules[1].requirement, rules[2].requirement}
    <3>1. CASE 1 \in hits
      BY <3>1, <2>2, FirstDecides DEF hits
    <3>2. CASE 1 \notin hits
      BY <3>2, <2>1, <2>2, FirstDecides DEF hits
    <3> QED
      BY <3>1, <3>2
  <2>4. rules[1].requirement = "public" /\ rules[2].requirement = "public"
    BY <1>6 DEF RouteRule
  <2> QED
    BY <1>15, <2>3, <2>4 DEF MeantBy, rules, m, p
<1>16. ASSUME route \notin DOMAIN a, ~ OpenTo(route)
       PROVE  \A j \in hits : j = n + 3
  <2>1. ASSUME NEW i \in 1..n PROVE i + 2 \notin hits
    BY <1>2, <1>10, <1>12, <1>16
  <2>2. 1 \notin hits /\ 2 \notin hits
    BY <1>9, <1>16 DEF OpenTo, m, p
  <2> QED
    BY <1>13, <2>1, <2>2
<1>17. CASE route \notin DOMAIN a /\ ~ OpenTo(route) /\ m \in all
  <2>1. n + 3 \in hits /\ n + 3 \in Nat
    BY <1>1, <1>11, <1>17
  <2>2. \A j \in hits : j \in Nat /\ n + 3 <= j
    BY <1>16, <1>17, <2>1
  <2>3. resolve(rules, m, p) = rules[n + 3].requirement
    BY <2>1, <2>2, FirstDecides DEF hits
  <2>4. rules[n + 3].requirement = "authenticated"
    BY <1>6 DEF RouteRule
  <2> QED
    BY <1>17, <2>3, <2>4 DEF MeantBy, rules, m, p
<1>18. CASE route \notin DOMAIN a /\ ~ OpenTo(route) /\ m \notin all
  <2>1. hits = {}
    BY <1>11, <1>16, <1>18
  <2>2. resolve(rules, m, p) = NoRequirement
    BY <2>1 DEF resolve, hits
  <2> QED
    BY <1>18, <2>2 DEF MeantBy, rules, m, p
<1> QED
  BY <1>14, <1>15, <1>17, <1>18

\* With one Studio request at a time, and for routes whose saved accesses do
\* not get in each other's way, an attached application is guarded by the access
\* that was saved, route by route, whenever Studio has answered: right after the
\* save, after new rules, and after a restart lost the live authority
\* (save_route_access, application_policy, route_protection).
THEOREM SavedAccessGovernsHolds == OneStudio /\ OfferedApart => (Spec => []SavedAccessGoverns)
<1> SUFFICES ASSUME OneStudio, OfferedApart PROVE Spec => []SavedAccessGoverns
  OBVIOUS
<1>1. Init => RulesInv /\ LiveInv
  <2> SUFFICES ASSUME Init PROVE RulesInv /\ LiveInv
    OBVIOUS
  <2>1. \A s \in StudioThread : local[s].pc = "idle"
    BY ThreadKinds DEF Init, Idle
  <2>2. Mirrors(protections, access)
    BY DEF Init, Mirrors
  <2> QED
    BY <2>1, <2>2 DEF Init, RulesInv, LiveInv
<1>2. TypeInv /\ RulesInv /\ LiveInv => SavedAccessGoverns
  <2> SUFFICES ASSUME TypeInv, RulesInv, LiveInv, StudioQuiet, proxy # NoProxy,
                      NEW route \in Offered \cup Asked
               PROVE  Demand(route) = Meant(route)
    BY DEF SavedAccessGoverns
  <2>1. proxy.policy = application_policy(<<>>, access)
    BY DEF RulesInv, StudioQuiet, At
  <2>2. Mirrors(protections, access)
    BY DEF LiveInv, StudioQuiet, At
  <2>3. Static(route) = MeantBy(access, route)
    BY <2>1, RulesMeanAccess DEF Static, TypeInv, StoreInv
  <2>4. Meant(route) = MeantBy(access, route)
    BY DEF Meant, MeantBy
  <2>5. CASE route \in DOMAIN protections
    <3>1. Live(route) = access[route] /\ Meant(route) = access[route]
      BY <2>2, <2>5 DEF Live, Mirrors, Meant
    <3> QED
      BY <2>3, <2>4, <3>1 DEF Demand
  <2>6. CASE route \notin DOMAIN protections
    <3>1. Live(route) = NoRequirement
      BY <2>6 DEF Live
    <3> QED
      BY <2>3, <2>4, <3>1 DEF Demand
  <2> QED
    BY <2>5, <2>6
<1>3. TypeInv /\ RulesInv /\ LiveInv /\ [Next]_vars => RulesInv' /\ LiveInv'
  BY AccessStep
<1> QED
  BY <1>1, <1>2, <1>3, StudioTypesHold, PTL DEF Spec
===============================================================================
