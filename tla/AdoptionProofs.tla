---------------------------- MODULE AdoptionProofs ----------------------------
(***************************************************************************)
(* What holds of the commands that adopt an application, for every text of *)
(* its entrypoint, any number of edits, faults and commands, and any set   *)
(* of steps at which a command may fail or be killed (with one exception   *)
(* for rollback, FillNotKilled).                                           *)
(***************************************************************************)
EXTENDS Adoption, SequenceTheorems, TLAPS

Value == Content \cup {Absent}
PlanFile == File \ {"routes"}

\* The entrypoint is never absent.
Files == {d \in [File -> Value] : d["entry"] \in Content}
Planned == {c \in [file : PlanFile, before : Value, after : Content] :
               c.file = "entry" => c.before \in Content}
Written == {c \in [file : PlanFile, before : Value] : c.file = "entry" => c.before \in Content}
Noted == {e \in [file : PlanFile, kind : {"existing", "created"}] :
             e.file = "entry" => e.kind = "existing"}

Writing == {"journal", "create", "fill", "write"}
Rolling == {"restore", "consume", "routes"}

\* What a command holds, by where it is.
Command(l) ==
    \/ l \in [pc : {"idle", "review", "attach", "undo"} \cup Writing, plan : Seq(Planned),
              done : Seq(Written), held : Value, start : Files \cup {<<>>},
              left : SUBSET File]
    \/ l \in [pc : {"probe", "offboard"}, plan : {<<>>}, done : {<<>>}, held : Content, start : {<<>>}, left : {{}}]
    \/ l \in [pc : Rolling, plan : Seq(Noted), done : Seq(PlanFile), held : Value, start : {<<>>}, left : {{}}]

\* Types of the files and of what the commands hold.
DiskInv ==
    /\ fs \in Files
    /\ manifest \in [exists : BOOLEAN, action : Seq(Noted)]
    /\ DOMAIN backups \subseteq PlanFile /\ \A f \in DOMAIN backups : backups[f] \in Content
    /\ DOMAIN origin \subseteq PlanFile
    /\ edits \in 0..MaxEdits
HoldInv == DOMAIN local = Terminal /\ \A t \in Terminal : Command(local[t])
TypeInv == DiskInv /\ HoldInv

-----------------------------------------------------------------------------
(* The inductive invariants. *)

\* One command at a time, and nobody edits the files while it writes them.
Alone ==
    /\ \A s, t \in Terminal : s = t
    /\ EditsAt \cap (Writing \cup Rolling \cup {"undo"}) = {}

\* No command is killed between creating the manifest and filling it.
FillNotKilled == "fill" \notin FaultAt

Distinct(changes) ==
    \A i, j \in DOMAIN changes : changes[i].file = changes[j].file => i = j

\* A plan that is being carried out is still about the files as they are, and
\* has one change for a file.
Current(l, d) ==
    /\ Distinct(l.plan)
    /\ l.pc \in Writing => \A i \in DOMAIN l.plan : d[l.plan[i].file] = l.plan[i].before
PlanInv ==
    \A t \in Terminal : local[t].pc \in Writing \cup {"review"} => Current(local[t], fs)

\* The files are those at the start, but for the ones done, each of which is
\* remembered as it was, and the ones whose undo failed.
Undoable(l, d) ==
    /\ l.start \in Files
    /\ Distinct(l.done)
    /\ \A i \in DOMAIN l.done : l.done[i].before = l.start[l.done[i].file]
    /\ \A f \in File :
         /\ f # "accounts" \/ l.pc # "undo"
         /\ f \notin l.left
         /\ \A i \in DOMAIN l.done : l.done[i].file # f
         => d[f] = l.start[f]
    /\ l.pc # "undo" =>
         /\ l.left = {}
         /\ \A i \in DOMAIN l.plan, j \in DOMAIN l.done : l.plan[i].file # l.done[j].file
UndoInv ==
    \A t \in Terminal :
        /\ local[t].pc = "review" => local[t].done = <<>> /\ local[t].left = {}
        /\ local[t].pc \in Writing \cup {"undo"} => Undoable(local[t], fs)

\* The backups and the history agree with the plan that is being journalled.
Journalled(plan, b, o) ==
    /\ DOMAIN o = {plan[i].file : i \in DOMAIN plan}
    /\ \A i \in DOMAIN plan :
        /\ o[plan[i].file] = plan[i].before
        /\ plan[i].before # Absent =>
               plan[i].file \in DOMAIN b /\ b[plan[i].file] = plan[i].before

\* A journal leads back to the files it was begun for.
Faithful(action, b, o) ==
    /\ DOMAIN o = {action[i].file : i \in DOMAIN action}
    /\ \A i \in DOMAIN action :
         IF action[i].kind = "existing"
         THEN action[i].file \in DOMAIN b => b[action[i].file] = o[action[i].file]
         ELSE o[action[i].file] = Absent

JournalInv ==
    /\ manifest.exists /\ (\A t \in Terminal : local[t].pc # "fill") =>
           Faithful(manifest.action, backups, origin)
    /\ \A t \in Terminal :
        /\ local[t].pc = "create" => ~ manifest.exists
        /\ local[t].pc \in {"create", "fill"} => Journalled(local[t].plan, backups, origin)

Back(d, o) == \A f \in DOMAIN o : d[f] = o[f]

\* A rollback has put back what it has gone through.
Behind(plan, action, d, o) ==
    /\ Len(plan) <= Len(action)
    /\ \A i \in 1..Len(plan) : plan[i] = action[i]
    /\ \A i \in 1..Len(action) : i > Len(plan) => d[action[i].file] = o[action[i].file]
RestoreInv ==
    /\ \A t \in Terminal :
        /\ local[t].pc = "restore" =>
               manifest.exists /\ Behind(local[t].plan, manifest.action, fs, origin)
        /\ local[t].pc \in {"consume", "routes"} => Back(fs, origin)
    /\ outcome = "rolledback" => Back(fs, origin) /\ fs["routes"] = Absent

-----------------------------------------------------------------------------
(* Contents and plans. *)

\* A file AuthBoundry writes anew.
LEMMA NewContent ==
    ASSUME NEW mark \in Mark
    PROVE  New(mark) \in Content
BY AdoptionAssumption DEF New, Content, Text

\* A file AuthBoundry completes.
LEMMA MarkedContent ==
    ASSUME NEW c \in Content, NEW mark \in Mark
    PROVE  Marked(c, mark) \in Content
BY DEF Marked, Content

\* One file is replaced.
LEMMA FileReplaced ==
    ASSUME NEW d \in Files, NEW f \in File, NEW v \in Value, f = "entry" => v \in Content
    PROVE  /\ [d EXCEPT ![f] = v] \in Files
           /\ [d EXCEPT ![f] = v][f] = v
           /\ \A g \in File : g # f => [d EXCEPT ![f] = v][g] = d[g]
<1>1. d \in [File -> Value] /\ d["entry"] \in Content /\ "entry" \in File
  BY DEF Files, File
<1>2. /\ [d EXCEPT ![f] = v] \in [File -> Value]
      /\ [d EXCEPT ![f] = v][f] = v
      /\ \A g \in File : g # f => [d EXCEPT ![f] = v][g] = d[g]
  BY <1>1
<1>3. [d EXCEPT ![f] = v]["entry"] \in Content
  BY <1>1
<1> QED
  BY <1>2, <1>3 DEF Files

\* A plan for the files F as they are in d, with one change for a file.
Good(p, d, F) ==
    /\ p \in Seq(Planned)
    /\ Distinct(p)
    /\ \A i \in DOMAIN p : p[i].file \in F /\ p[i].before = d[p[i].file]

\* An empty plan.
LEMMA GoodEmpty ==
    ASSUME NEW d, NEW F
    PROVE  Good(<<>>, d, F)
BY DEF Good, Distinct

\* A plan of one change, or none.
LEMMA GoodWhen ==
    ASSUME NEW d, NEW c, NEW condition \in BOOLEAN,
           condition => c \in Planned /\ c.before = d[c.file]
    PROVE  Good(When(condition, c), d, {c.file})
<1>1. CASE condition
  <2>1. <<c>> \in Seq(Planned) /\ DOMAIN <<c>> = {1} /\ <<c>>[1] = c
    BY <1>1
  <2> QED
    BY <1>1, <2>1 DEF When, Good, Distinct
<1>2. CASE ~condition
  BY <1>2, GoodEmpty DEF When
<1> QED
  BY <1>1, <1>2

\* Plans for different files, one after the other.
LEMMA GoodConcat ==
    ASSUME NEW d, NEW p, NEW q, NEW F, NEW G, Good(p, d, F), Good(q, d, G), F \cap G = {}
    PROVE  Good(p \o q, d, F \cup G)
<1> DEFINE r == p \o q  m == Len(p)  n == Len(q)
<1>1. p \in Seq(Planned) /\ q \in Seq(Planned) /\ m \in Nat /\ n \in Nat
  BY DEF Good
<1>2. /\ r \in Seq(Planned) /\ DOMAIN r = 1..(m + n) /\ DOMAIN p = 1..m /\ DOMAIN q = 1..n
      /\ \A i \in 1..m : r[i] = p[i]
      /\ \A i \in (m + 1)..(m + n) : r[i] = q[i - m] /\ i - m \in 1..n
  BY <1>1
<1> HIDE DEF r, m, n
<1>3. ASSUME NEW i \in DOMAIN r
      PROVE  \/ i \in DOMAIN p /\ r[i] = p[i]
             \/ i - m \in DOMAIN q /\ r[i] = q[i - m]
  BY <1>1, <1>2
<1>4. ASSUME NEW i \in DOMAIN r PROVE r[i].file \in F \cup G /\ r[i].before = d[r[i].file]
  BY <1>3 DEF Good
<1>5. ASSUME NEW i \in DOMAIN r, NEW j \in DOMAIN r, r[i].file = r[j].file PROVE i = j
  <2>0. i \in Nat /\ j \in Nat
    BY <1>1, <1>2
  <2>1. CASE i \in DOMAIN p /\ r[i] = p[i] /\ j \in DOMAIN p /\ r[j] = p[j]
    BY <1>5, <2>1 DEF Good, Distinct
  <2>2. CASE i - m \in DOMAIN q /\ r[i] = q[i - m] /\ j - m \in DOMAIN q /\ r[j] = q[j - m]
    <3>1. i - m = j - m
      BY <1>5, <2>2 DEF Good, Distinct
    <3> QED
      BY <1>1, <2>0, <3>1
  <2>3. CASE i \in DOMAIN p /\ r[i] = p[i] /\ j - m \in DOMAIN q /\ r[j] = q[j - m]
    BY <1>5, <2>3 DEF Good
  <2>4. CASE i - m \in DOMAIN q /\ r[i] = q[i - m] /\ j \in DOMAIN p /\ r[j] = p[j]
    BY <1>5, <2>4 DEF Good
  <2> QED
    BY <1>3, <2>1, <2>2, <2>3, <2>4
<1> QED
  BY <1>2, <1>4, <1>5 DEF Good, Distinct, r

\* Two changes in a row.
LEMMA PairOf ==
    ASSUME NEW a, NEW b
    PROVE  <<a>> \o <<b>> = <<a, b>>
<1> DEFINE r == <<a>> \o <<b>>
           s == <<a, b>>
<1>1. <<a>> \in Seq({a, b}) /\ <<b>> \in Seq({a, b}) /\ Len(<<a>>) = 1 /\ Len(<<b>>) = 1
  OBVIOUS
<1>2. r \in Seq({a, b}) /\ Len(r) = 2 /\ r[1] = a /\ r[2] = b
  BY <1>1, ConcatProperties
<1>3. s \in Seq({a, b}) /\ Len(s) = 2 /\ s[1] = a /\ s[2] = b
  OBVIOUS
<1> HIDE DEF r, s
<1>4. r = s
  BY <1>2, <1>3, SeqEqual
<1> QED
  BY <1>4 DEF r, s

\* What init plans is about the files as they are, with one change for a file,
\* and none for the route file.
LEMMA BuildPlan ==
    ASSUME NEW d \in Files, NEW mode \in {"standalone", "embedded"}
    PROVE  Good(build_plan(d, mode), d, PlanFile)
<1>v. /\ \A f \in File : d[f] \in Value
      /\ \A f \in File : d[f] # Absent => d[f] \in Content
      /\ d["entry"] \in Content
  BY DEF Files, Value
<1>p. ASSUME NEW f \in PlanFile, NEW after \in Content PROVE Change(f, d[f], after) \in Planned
  BY <1>v DEF Change, Planned, PlanFile
<1>c. ASSUME NEW f, NEW b, NEW a PROVE Change(f, b, a).file = f /\ Change(f, b, a).before = b
  BY DEF Change
<1>f. PlanFile = {"config", "adoption", "accounts", "integration", "support", "provider", "entry"}
  BY DEF PlanFile, File
<1>w. ASSUME NEW f \in PlanFile, NEW condition \in BOOLEAN, NEW after, condition => after \in Content
      PROVE  Good(When(condition, Change(f, d[f], after)), d, {f})
  <2>1. condition => Change(f, d[f], after) \in Planned
    BY <1>p, <1>w
  <2> QED
    BY <1>c, <2>1, GoodWhen
<1>a. ASSUME NEW f \in PlanFile, NEW after \in Content
      PROVE  Good(When(d[f] = Absent, Change(f, Absent, after)), d, {f})
  <2>1. When(d[f] = Absent, Change(f, Absent, after)) = When(d[f] = Absent, Change(f, d[f], after))
    BY DEF When
  <2>2. (d[f] = Absent) \in BOOLEAN
    OBVIOUS
  <2> QED
    BY <1>w, <2>1, <2>2
<1>n. /\ \A k \in {"full", "generated", "planned"} : New(k) \in Content
      /\ New(mode) \in Content
  BY NewContent DEF Mark
<1>1. Good(config_change(d), d, {"config"})
  BY <1>a, <1>n, <1>f DEF config_change
<1>2. Good(config_upgrade_change(d), d, {"config"})
  <2>1. d["config"] # Absent => Marked(d["config"], "full") \in Content
    BY <1>v, MarkedContent DEF Mark, File
  <2> QED
    BY <1>w, <1>f, <2>1 DEF config_upgrade_change
<1>3. Good(manifest_change(d, mode), d, {"adoption"})
  BY <1>w, <1>n, <1>f DEF manifest_change, boundary_integrated
<1>4. Good(development_accounts_change(d), d, {"accounts"})
  BY <1>a, <1>n, <1>f DEF development_accounts_change
<1>5. Good(integration_change(d), d, {"integration"})
  BY <1>a, <1>n, <1>f DEF integration_change
<1>6. Good(gitignore_change(d), d, {"support"})
  <2>1. (IF d["support"] = Absent THEN New("full") ELSE Marked(d["support"], "full")) \in Content
    BY <1>v, <1>n, MarkedContent DEF Mark, File
  <2> QED
    BY <1>w, <1>f, <2>1 DEF gitignore_change
<1>7. Good(framework_integration_changes(d), d, {"provider", "entry"})
  <2> DEFINE condition == ~AlreadyBridged(d["entry"]) /\ d["entry"].text \in Bridgeable
             p == When(condition, Change("provider", d["provider"], New("generated")))
             q == When(condition, Change("entry", d["entry"], Marked(d["entry"], "bridge")))
  <2>1. Good(p, d, {"provider"})
    BY <1>w, <1>n, <1>f
  <2>2. Marked(d["entry"], "bridge") \in Content
    BY <1>v, MarkedContent DEF Mark
  <2>3. Good(q, d, {"entry"})
    BY <1>w, <1>f, <2>2
  <2>4. Good(p \o q, d, {"provider"} \cup {"entry"})
    BY <2>1, <2>3, GoodConcat
  <2>5. framework_integration_changes(d) = p \o q
    <3> DEFINE a == Change("provider", d["provider"], New("generated"))
               b == Change("entry", d["entry"], Marked(d["entry"], "bridge"))
    <3>1. framework_integration_changes(d) = IF condition THEN <<a, b>> ELSE <<>>
      BY DEF framework_integration_changes
    <3>2. p = (IF condition THEN <<a>> ELSE <<>>) /\ q = (IF condition THEN <<b>> ELSE <<>>)
      BY DEF When
    <3> HIDE DEF a, b, condition, p, q
    <3>3. <<a>> \o <<b>> = <<a, b>> /\ <<>> \o <<>> = <<>>
      BY PairOf, EmptySeq, ConcatEmptySeq
    <3> QED
      BY <3>1, <3>2, <3>3
  <2>6. {"provider"} \cup {"entry"} = {"provider", "entry"}
    OBVIOUS
  <2> QED
    BY <2>4, <2>5, <2>6
<1>e. Good(<<>>, d, {})
  BY GoodEmpty
<1>8. PICK F, G : /\ Good(config_change(d), d, F) /\ Good(config_upgrade_change(d), d, G)
                  /\ F \cap G = {} /\ F \cup G = {"config"}
  <2>1. CASE d["config"] = Absent
    <3>1. config_upgrade_change(d) = <<>>
      BY <2>1 DEF config_upgrade_change, When
    <3>2. {"config"} \cap {} = {} /\ {"config"} \cup {} = {"config"}
      OBVIOUS
    <3> QED
      BY <1>1, <1>e, <3>1, <3>2, Zenon
  <2>2. CASE d["config"] # Absent
    <3>1. config_change(d) = <<>>
      BY <2>2 DEF config_change, When
    <3>2. {} \cap {"config"} = {} /\ {} \cup {"config"} = {"config"}
      OBVIOUS
    <3> QED
      BY <1>2, <1>e, <3>1, <3>2, Zenon
  <2> QED
    BY <2>1, <2>2
<1> DEFINE p2 == config_change(d) \o manifest_change(d, mode)
           p3 == p2 \o config_upgrade_change(d)
           p4 == p3 \o development_accounts_change(d)
           p5 == p4 \o integration_change(d)
           p6 == p5 \o gitignore_change(d)
           p7 == p6 \o framework_integration_changes(d)
           F3 == (F \cup {"adoption"}) \cup G
<1>f3. F3 = {"config", "adoption"}
  BY <1>8
<1>9. Good(p2, d, F \cup {"adoption"})
  BY <1>3, <1>8, GoodConcat
<1>10. Good(p3, d, F3)
  BY <1>8, <1>9, GoodConcat
<1>11. Good(p4, d, F3 \cup {"accounts"})
  BY <1>4, <1>10, <1>f3, GoodConcat
<1>12. Good(p5, d, (F3 \cup {"accounts"}) \cup {"integration"})
  BY <1>5, <1>11, <1>f3, GoodConcat
<1>13. Good(p6, d, ((F3 \cup {"accounts"}) \cup {"integration"}) \cup {"support"})
  BY <1>6, <1>12, <1>f3, GoodConcat
<1>14. Good(p7, d, (((F3 \cup {"accounts"}) \cup {"integration"}) \cup {"support"}) \cup {"provider", "entry"})
  BY <1>7, <1>13, <1>f3, GoodConcat
<1>15. (((F3 \cup {"accounts"}) \cup {"integration"}) \cup {"support"}) \cup {"provider", "entry"} = PlanFile
  BY <1>f3, <1>f
<1>16. build_plan(d, mode) = p7
  BY DEF build_plan
<1> QED
  BY <1>14, <1>15, <1>16

-----------------------------------------------------------------------------
(* Types. *)

\* A command that moves leaves the others where they are.
LEMMA Moves ==
    ASSUME DOMAIN local = Terminal, NEW t \in Terminal, NEW x, Become(t, x)
    PROVE  /\ local'[t] = x
           /\ \A q \in Terminal : q # t => local'[q] = local[q]
           /\ DOMAIN local' = Terminal
BY DEF Become

\* Going to a step is becoming the same state at that step.
LEMMA GotoMoves ==
    ASSUME DOMAIN local = Terminal, NEW t \in Terminal, NEW pc, Goto(t, pc)
    PROVE  Become(t, [local[t] EXCEPT !.pc = pc])
BY DEF Goto, Become

\* A command that moves to a state of its step keeps the types.
LEMMA HoldMoves ==
    ASSUME HoldInv, NEW t \in Terminal, NEW x, Become(t, x), Command(x)
    PROVE  HoldInv'
<1>1. /\ local'[t] = x
      /\ \A q \in Terminal : q # t => local'[q] = local[q]
      /\ DOMAIN local' = Terminal
  BY Moves DEF HoldInv
<1>2. ASSUME NEW q \in Terminal PROVE Command(local'[q])
  BY <1>1 DEF HoldInv
<1> QED
  BY <1>1, <1>2 DEF HoldInv

\* A terminal at rest.
LEMMA IdleCommand == Command(Idle) /\ Idle.pc = "idle" /\ Idle.plan = <<>> /\ Idle.done = <<>>
                     /\ Idle.left = {}
<1>1. Idle = [pc |-> "idle", plan |-> <<>>, done |-> <<>>, held |-> Absent, start |-> <<>>,
             left |-> {}]
  BY DEF Idle
<1>2. <<>> \in Seq(Planned) /\ <<>> \in Seq(Written)
  OBVIOUS
<1>3. Idle \in [pc : {"idle", "review", "attach", "undo"} \cup Writing, plan : Seq(Planned),
                done : Seq(Written), held : Value, start : Files \cup {<<>>},
              left : SUBSET File]
  BY <1>1, <1>2 DEF Value
<1> QED
  BY <1>1, <1>3 DEF Command

\* A command that ends is at rest.
LEMMA EndsHold ==
    ASSUME HoldInv, NEW t \in Terminal, NEW how, Ends(t, how)
    PROVE  HoldInv'
BY HoldMoves, IdleCommand DEF Ends

\* What is left of a sequence without its last element.
LEMMA FrontOf ==
    ASSUME NEW S, NEW s \in Seq(S), s # <<>>
    PROVE  /\ Len(s) \in Nat /\ Len(s) \in DOMAIN s /\ s[Len(s)] \in S
           /\ SubSeq(s, 1, Len(s) - 1) \in Seq(S)
           /\ Len(SubSeq(s, 1, Len(s) - 1)) = Len(s) - 1
           /\ \A i \in 1..(Len(s) - 1) : SubSeq(s, 1, Len(s) - 1)[i] = s[i]
<1>1. Len(s) \in Nat \ {0} /\ DOMAIN s = 1..Len(s) /\ \A i \in 1..Len(s) : s[i] \in S
  BY LenProperties, EmptySeq, ElementOfSeq
<1>2. \A i \in 1..(Len(s) - 1) : s[i] \in S
  BY <1>1
<1>3. /\ SubSeq(s, 1, Len(s) - 1) \in Seq(S)
      /\ Len(SubSeq(s, 1, Len(s) - 1)) = Len(s) - 1
      /\ \A i \in 1..(Len(s) - 1) : SubSeq(s, 1, Len(s) - 1)[i] = s[i]
  <2>1. 1 \in Int /\ Len(s) - 1 \in Int
    BY <1>1
  <2>2. /\ SubSeq(s, 1, Len(s) - 1) \in Seq(S)
        /\ Len(SubSeq(s, 1, Len(s) - 1)) = IF 1 <= Len(s) - 1 THEN (Len(s) - 1) - 1 + 1 ELSE 0
        /\ \A i \in 1..((Len(s) - 1) - 1 + 1) : SubSeq(s, 1, Len(s) - 1)[i] = s[1 + i - 1]
    BY <1>2, <2>1, SubSeqProperties
  <2> QED
    BY <1>1, <2>2
<1> QED
  BY <1>1, <1>3

\* What init holds at each of its steps, and what a rollback does.
InitHolds(l) ==
    l \in [pc : {"idle", "review", "attach", "undo"} \cup Writing, plan : Seq(Planned),
           done : Seq(Written), held : Value, start : Files \cup {<<>>},
              left : SUBSET File]
RollbackHolds(l) ==
    l \in [pc : Rolling, plan : Seq(Noted), done : Seq(PlanFile), held : Value, start : {<<>>}, left : {{}}]

\* Which of them it is shows in the step.
LEMMA HoldsAt ==
    ASSUME NEW l, Command(l)
    PROVE  /\ l.pc \in {"idle", "review", "attach", "undo"} \cup Writing => InitHolds(l)
           /\ l.pc \in Rolling => RollbackHolds(l)
           /\ l.pc \in {"probe", "offboard"} => l.held \in Content
BY DEF Command, InitHolds, RollbackHolds, Writing, Rolling

\* Both are states of a command.
LEMMA HoldsCommand ==
    ASSUME NEW l, InitHolds(l) \/ RollbackHolds(l)
    PROVE  Command(l)
BY DEF Command, InitHolds, RollbackHolds

\* How a plan is taken up.
LEMMA PlanHolds ==
    ASSUME DiskInv, NEW mode \in {"standalone", "embedded"}, NEW pc \in {"review", "journal"}
    PROVE  InitHolds([Idle EXCEPT !.pc = pc, !.plan = build_plan(fs, mode), !.start = fs])
<1>1. build_plan(fs, mode) \in Seq(Planned)
  BY BuildPlan DEF DiskInv, Good
<1>2. InitHolds(Idle)
  BY IdleCommand, HoldsAt
<1>3. fs \in Files
  BY DEF DiskInv
<1> QED
  BY <1>1, <1>2, <1>3 DEF InitHolds, Writing

\* The steps of init up to the writes keep the types.
LEMMA JournalTypes ==
    ASSUME TypeInv, NEW t \in Terminal,
           \/ \E mode \in {"standalone", "embedded"}, interactive \in BOOLEAN : Plan(t, mode, interactive)
           \/ Confirm(t) \/ Refuse(t) \/ KeepJournal(t) \/ WriteBackups(t) \/ CreateManifest(t)
           \/ FillManifest(t)
    PROVE  TypeInv'
<1> DEFINE l == local[t]
<1>h. DiskInv /\ HoldInv /\ Command(l) /\ DOMAIN local = Terminal
  BY DEF TypeInv, HoldInv
<1>1. ASSUME NEW mode \in {"standalone", "embedded"}, NEW interactive \in BOOLEAN,
             Plan(t, mode, interactive)
      PROVE  TypeInv'
  <2>1. Become(t, [Idle EXCEPT !.pc = IF interactive THEN "review" ELSE "journal",
                               !.plan = build_plan(fs, mode), !.start = fs])
    BY <1>1 DEF Plan
  <2>2. HoldInv'
    BY <1>h, <2>1, PlanHolds, HoldsCommand, HoldMoves
  <2> QED
    BY <1>h, <1>1, <2>2 DEF Plan, TypeInv, DiskInv
<1>2. CASE Confirm(t)
  <2>1. InitHolds(l)
    BY <1>2, <1>h, HoldsAt DEF Confirm, At
  <2>2. InitHolds([l EXCEPT !.pc = "journal", !.start = fs])
    BY <1>h, <2>1 DEF InitHolds, Writing, DiskInv
  <2>3. HoldInv'
    BY <1>2, <1>h, <2>2, HoldsCommand, HoldMoves DEF Confirm
  <2> QED
    BY <1>h, <1>2, <2>3 DEF Confirm, TypeInv, DiskInv
<1>3. CASE Refuse(t)
  BY <1>3, <1>h, EndsHold DEF Refuse, TypeInv, DiskInv
<1>4. CASE KeepJournal(t)
  <2>1. InitHolds(l)
    BY <1>4, <1>h, HoldsAt DEF KeepJournal, At, Writing
  <2>2. InitHolds([l EXCEPT !.pc = "write"])
    BY <2>1 DEF InitHolds, Writing
  <2>3. HoldInv'
    BY <1>4, <1>h, <2>2, HoldsCommand, HoldMoves, GotoMoves DEF KeepJournal
  <2> QED
    BY <1>h, <1>4, <2>3 DEF KeepJournal, TypeInv, DiskInv
<1>5. CASE WriteBackups(t)
  <2> DEFINE plan == l.plan
             files == {plan[i].file : i \in Journaled(plan)}
  <2>1. InitHolds(l)
    BY <1>5, <1>h, HoldsAt DEF WriteBackups, At, Writing
  <2>2. plan \in Seq(Planned) /\ \A i \in DOMAIN plan : plan[i] \in Planned
    BY <2>1 DEF InitHolds
  <2>3. InitHolds([l EXCEPT !.pc = "create"])
    BY <2>1 DEF InitHolds, Writing
  <2>4. HoldInv'
    BY <1>5, <1>h, <2>3, HoldsCommand, HoldMoves, GotoMoves DEF WriteBackups
  <2>5. \A i \in DOMAIN plan : plan[i].file \in PlanFile /\ plan[i].before \in Value
    BY <2>2 DEF Planned
  <2>6. /\ DOMAIN backups' = DOMAIN backups \cup files
        /\ \A f \in DOMAIN backups' :
              backups'[f] = IF f \in files
                            THEN plan[CHOOSE i \in Journaled(plan) : plan[i].file = f].before
                            ELSE backups[f]
    BY <1>5 DEF WriteBackups
  <2>7. files \subseteq PlanFile
    BY <2>5 DEF Journaled
  <2>8. ASSUME NEW f \in files
        PROVE  plan[CHOOSE i \in Journaled(plan) : plan[i].file = f].before \in Content
    <3> DEFINE k == CHOOSE i \in Journaled(plan) : plan[i].file = f
    <3>1. k \in Journaled(plan)
      OBVIOUS
    <3>2. plan[k].before # Absent /\ k \in DOMAIN plan
      BY <3>1 DEF Journaled
    <3> QED
      BY <2>5, <3>2 DEF Value
  <2>9. DOMAIN backups' \subseteq PlanFile /\ \A f \in DOMAIN backups' : backups'[f] \in Content
    BY <1>h, <2>6, <2>7, <2>8 DEF DiskInv
  <2>10. DOMAIN origin' \subseteq PlanFile
    BY <1>5, <2>5 DEF WriteBackups
  <2> QED
    BY <1>h, <1>5, <2>4, <2>9, <2>10 DEF WriteBackups, TypeInv, DiskInv
<1>6. CASE CreateManifest(t)
  <2>1. InitHolds(l)
    BY <1>6, <1>h, HoldsAt DEF CreateManifest, At, Writing
  <2>2. InitHolds([l EXCEPT !.pc = "fill"])
    BY <2>1 DEF InitHolds, Writing
  <2>3. HoldInv'
    BY <1>6, <1>h, <2>2, HoldsCommand, HoldMoves, GotoMoves DEF CreateManifest
  <2>4. <<>> \in Seq(Noted)
    OBVIOUS
  <2> QED
    BY <1>h, <1>6, <2>3, <2>4 DEF CreateManifest, TypeInv, DiskInv
<1>7. CASE FillManifest(t)
  <2> DEFINE plan == l.plan
             action == [i \in DOMAIN plan |-> [file |-> plan[i].file, kind |-> Kind(plan[i])]]
  <2>1. InitHolds(l)
    BY <1>7, <1>h, HoldsAt DEF FillManifest, At, Writing
  <2>2. InitHolds([l EXCEPT !.pc = "write"])
    BY <2>1 DEF InitHolds, Writing
  <2>3. HoldInv'
    BY <1>7, <1>h, <2>2, HoldsCommand, HoldMoves, GotoMoves DEF FillManifest
  <2>4. plan \in Seq(Planned)
    BY <2>1 DEF InitHolds
  <2>5. Len(plan) \in Nat /\ DOMAIN plan = 1..Len(plan) /\ \A i \in DOMAIN plan : plan[i] \in Planned
    BY <2>4
  <2>6. ASSUME NEW i \in DOMAIN plan PROVE [file |-> plan[i].file, kind |-> Kind(plan[i])] \in Noted
    BY <2>5, AbsentAssumption DEF Planned, Noted, Kind
  <2>7. action \in [1..Len(plan) -> Noted]
    BY <2>5, <2>6
  <2>8. action \in Seq(Noted)
    <3> HIDE DEF action, plan
    <3> QED
      BY <2>5, <2>7
  <2>9. manifest' = [manifest EXCEPT !.action = action]
    BY <1>7 DEF FillManifest
  <2>10. manifest' \in [exists : BOOLEAN, action : Seq(Noted)]
    <3> HIDE DEF action
    <3> QED
      BY <1>h, <2>8, <2>9 DEF DiskInv
  <2> QED
    BY <1>h, <1>7, <2>3, <2>10 DEF FillManifest, TypeInv, DiskInv
<1> QED
  BY <1>1, <1>2, <1>3, <1>4, <1>5, <1>6, <1>7

\* The writes of init and their undo keep the types.
LEMMA WriteTypes ==
    ASSUME TypeInv, NEW t \in Terminal,
           \/ WriteChange(t) \/ Applied(t) \/ DirectoryFails(t) \/ WriteFails(t)
           \/ Undo(t) \/ UndoFails(t)
    PROVE  TypeInv'
<1> DEFINE l == local[t]
<1>h. DiskInv /\ HoldInv /\ Command(l) /\ DOMAIN local = Terminal
  BY DEF TypeInv, HoldInv
<1>i. InitHolds(l)
  BY <1>h, HoldsAt DEF WriteChange, Applied, DirectoryFails, WriteFails, Undo, UndoFails, At, Writing
<1>p. l.plan \in Seq(Planned) /\ l.done \in Seq(Written)
  BY <1>i DEF InitHolds
<1>f. fs \in Files /\ \A f \in File : fs[f] \in Value /\ (f = "entry" => fs[f] \in Content)
  BY <1>h DEF DiskInv, Files
<1>1. ASSUME l.plan # <<>>
      PROVE  /\ Head(l.plan) \in Planned /\ Tail(l.plan) \in Seq(Planned)
             /\ [fs EXCEPT ![Head(l.plan).file] = Head(l.plan).after] \in Files
  <2>1. Head(l.plan) \in Planned /\ Tail(l.plan) \in Seq(Planned)
    BY <1>1, <1>p, HeadTailProperties
  <2>2. Head(l.plan).file \in File /\ Head(l.plan).after \in Content
    BY <2>1 DEF Planned, PlanFile
  <2> QED
    BY <1>f, <2>1, <2>2, FileReplaced DEF Value
<1>2. CASE WriteChange(t)
  <2> DEFINE change == Head(l.plan)
             written == [file |-> change.file, before |-> fs[change.file]]
  <2>1. l.plan # <<>>
    BY <1>2 DEF WriteChange
  <2>2. change \in Planned
    BY <1>1, <2>1
  <2>3. written \in Written
    BY <1>f, <2>2 DEF Planned, Written, PlanFile
  <2>4. Append(l.done, written) \in Seq(Written)
    <3> HIDE DEF written
    <3> QED
      BY <1>p, <2>3
  <2>5. InitHolds([l EXCEPT !.plan = Tail(l.plan), !.done = Append(l.done, written)])
    <3> HIDE DEF written
    <3> QED
      BY <1>1, <1>i, <2>1, <2>4 DEF InitHolds
  <2>6. HoldInv'
    BY <1>2, <1>h, <2>5, HoldsCommand, HoldMoves DEF WriteChange, Remember
  <2> QED
    BY <1>h, <1>1, <1>2, <2>1, <2>6 DEF WriteChange, TypeInv, DiskInv
<1>3. CASE Applied(t) \/ DirectoryFails(t)
  BY <1>3, <1>h, EndsHold DEF Applied, DirectoryFails, TypeInv, DiskInv
<1>4. CASE WriteFails(t)
  <2>1. InitHolds([l EXCEPT !.pc = "undo"])
    BY <1>i DEF InitHolds
  <2>2. HoldInv'
    BY <1>4, <1>h, <2>1, HoldsCommand, HoldMoves, GotoMoves DEF WriteFails
  <2>3. fs' \in Files
    BY <1>1, <1>4, <1>f DEF WriteFails
  <2> QED
    BY <1>h, <1>4, <2>2, <2>3 DEF WriteFails, TypeInv, DiskInv
<1>5. CASE Undo(t)
  <2>1. CASE l.done = <<>>
    BY <1>5, <1>h, <2>1, EndsHold DEF Undo, TypeInv, DiskInv
  <2>2. CASE l.done # <<>>
    <3> DEFINE last == l.done[Len(l.done)]
    <3>1. last \in Written /\ SubSeq(l.done, 1, Len(l.done) - 1) \in Seq(Written)
      BY <1>p, <2>2, FrontOf
    <3>2. last.file \in File /\ last.before \in Value /\ (last.file = "entry" => last.before \in Content)
      BY <3>1 DEF Written, PlanFile
    <3>3. [fs EXCEPT ![last.file] = last.before] \in Files
      BY <1>f, <3>2, FileReplaced
    <3>4. InitHolds([l EXCEPT !.done = SubSeq(l.done, 1, Len(l.done) - 1)])
      BY <1>i, <3>1 DEF InitHolds
    <3>5. Become(t, [l EXCEPT !.done = SubSeq(l.done, 1, Len(l.done) - 1)])
      BY <1>5, <2>2 DEF Undo
    <3>6. HoldInv'
      BY <1>h, <3>4, <3>5, HoldsCommand, HoldMoves
    <3> QED
      BY <1>h, <1>5, <2>2, <3>3, <3>6 DEF Undo, TypeInv, DiskInv
  <2> QED
    BY <2>1, <2>2
<1>6. CASE UndoFails(t)
  <2> DEFINE last == l.done[Len(l.done)]
             less == SubSeq(l.done, 1, Len(l.done) - 1)
             left == l.left \cup {last.file}
  <2>1. last \in Written /\ less \in Seq(Written)
    BY <1>6, <1>p, FrontOf DEF UndoFails
  <2>2. last.file \in File
    BY <2>1 DEF Written, PlanFile
  <2>3. fs' = fs \/ fs' = [fs EXCEPT ![last.file] = Cut(last.file)]
    BY <1>6 DEF UndoFails
  <2>4. Cut(last.file) \in Content
    BY NewContent DEF Cut, Mark
  <2>5. fs' \in Files
    BY <1>f, <2>2, <2>3, <2>4, FileReplaced DEF Value
  <2>6. Become(t, [l EXCEPT !.done = less, !.left = left])
    BY <1>6 DEF UndoFails
  <2>7. left \in SUBSET File
    BY <1>i, <2>2 DEF InitHolds
  <2> HIDE DEF last, less, left
  <2>8. InitHolds([l EXCEPT !.done = less, !.left = left])
    BY <1>i, <2>1, <2>7 DEF InitHolds
  <2>9. HoldInv'
    BY <1>h, <2>6, <2>8, HoldsCommand, HoldMoves
  <2> QED
    BY <1>h, <1>6, <2>5, <2>9 DEF UndoFails, TypeInv, DiskInv
<1> QED
  BY <1>2, <1>3, <1>4, <1>5, <1>6

\* A terminal at rest, field by field.
LEMMA IdleFields ==
    Idle \in [pc : {"idle"}, plan : {<<>>}, done : {<<>>}, held : {Absent}, start : {<<>>}, left : {{}}]
BY DEF Idle

\* The steps of a rollback keep the types.
LEMMA RollbackTypes ==
    ASSUME TypeInv, NEW t \in Terminal,
           \/ ReadManifest(t) \/ Restore(t) \/ RestoreFails(t) \/ Restored(t)
           \/ ConsumeBackup(t) \/ ConsumeManifest(t) \/ RemoveRouteAccess(t)
    PROVE  TypeInv'
<1> DEFINE l == local[t]
<1>h. DiskInv /\ HoldInv /\ Command(l) /\ DOMAIN local = Terminal
  BY DEF TypeInv, HoldInv
<1>f. fs \in Files
  BY <1>h DEF DiskInv
<1>1. CASE ReadManifest(t)
  <2>1. manifest.action \in Seq(Noted) /\ <<>> \in Seq(PlanFile)
    BY <1>h DEF DiskInv
  <2>2. RollbackHolds([Idle EXCEPT !.pc = "restore", !.plan = manifest.action])
    BY <2>1, IdleFields DEF RollbackHolds, Rolling, Value
  <2>3. HoldInv'
    BY <1>1, <1>h, <2>2, HoldsCommand, HoldMoves DEF ReadManifest
  <2> QED
    BY <1>h, <1>1, <2>3 DEF ReadManifest, TypeInv, DiskInv
<1>2. CASE Restore(t)
  <2> DEFINE entry == l.plan[Len(l.plan)]
             restored == [l EXCEPT !.plan = SubSeq(l.plan, 1, Len(l.plan) - 1),
                                   !.done = IF entry.kind = "existing"
                                            THEN Append(l.done, entry.file) ELSE l.done]
  <2>1. RollbackHolds(l) /\ l.plan # <<>>
    BY <1>2, <1>h, HoldsAt DEF Restore, At, Rolling
  <2>2. l.plan \in Seq(Noted) /\ l.done \in Seq(PlanFile)
    BY <2>1 DEF RollbackHolds
  <2>3. entry \in Noted /\ SubSeq(l.plan, 1, Len(l.plan) - 1) \in Seq(Noted)
    BY <2>1, <2>2, FrontOf
  <2>4. CASE entry.kind = "existing" /\ entry.file \notin DOMAIN backups
    BY <1>h, <1>2, <2>4, EndsHold DEF Restore, TypeInv, DiskInv
  <2>5. CASE ~ (entry.kind = "existing" /\ entry.file \notin DOMAIN backups)
    <3>1. Original(entry) \in Value /\ (entry.file = "entry" => Original(entry) \in Content)
      BY <1>h, <2>3, <2>5 DEF Original, Noted, Value, DiskInv
    <3>2. entry.file \in File /\ entry.file \in PlanFile
      BY <2>3 DEF Noted, PlanFile
    <3>3. [fs EXCEPT ![entry.file] = Original(entry)] \in Files
      BY <1>f, <3>1, <3>2, FileReplaced
    <3>4. RollbackHolds(restored)
      <4> HIDE DEF entry
      <4>1. (IF entry.kind = "existing" THEN Append(l.done, entry.file) ELSE l.done) \in Seq(PlanFile)
        BY <2>2, <3>2
      <4> QED
        BY <2>1, <2>3, <4>1 DEF RollbackHolds
    <3>5. Become(t, restored) /\ fs' = [fs EXCEPT ![entry.file] = Original(entry)]
      BY <1>2, <2>5 DEF Restore
    <3>6. HoldInv'
      BY <1>h, <3>4, <3>5, HoldsCommand, HoldMoves
    <3> QED
      BY <1>h, <1>2, <3>3, <3>5, <3>6 DEF Restore, TypeInv, DiskInv
  <2> QED
    BY <2>4, <2>5
<1>3. CASE RestoreFails(t)
  BY <1>3, <1>h, EndsHold DEF RestoreFails, TypeInv, DiskInv
<1>4. CASE Restored(t)
  <2>1. RollbackHolds(l)
    BY <1>4, <1>h, HoldsAt DEF Restored, At, Rolling
  <2>2. RollbackHolds([l EXCEPT !.pc = "consume"])
    BY <2>1 DEF RollbackHolds, Rolling
  <2>3. HoldInv'
    BY <1>4, <1>h, <2>2, HoldsCommand, HoldMoves, GotoMoves DEF Restored
  <2> QED
    BY <1>h, <1>4, <2>3 DEF Restored, TypeInv, DiskInv
<1>5. CASE ConsumeBackup(t)
  <2>1. RollbackHolds(l) /\ l.done # <<>>
    BY <1>5, <1>h, HoldsAt DEF ConsumeBackup, At, Rolling
  <2>2. Tail(l.done) \in Seq(PlanFile)
    BY <2>1, HeadTailProperties DEF RollbackHolds
  <2>3. RollbackHolds([l EXCEPT !.done = Tail(l.done)])
    BY <2>1, <2>2 DEF RollbackHolds
  <2>4. HoldInv'
    BY <1>5, <1>h, <2>3, HoldsCommand, HoldMoves DEF ConsumeBackup
  <2>5. DOMAIN backups' \subseteq PlanFile /\ \A f \in DOMAIN backups' : backups'[f] \in Content
    BY <1>5, <1>h DEF ConsumeBackup, Without, DiskInv
  <2> QED
    BY <1>h, <1>5, <2>4, <2>5 DEF ConsumeBackup, TypeInv, DiskInv
<1>6. CASE ConsumeManifest(t)
  <2>1. RollbackHolds(l)
    BY <1>6, <1>h, HoldsAt DEF ConsumeManifest, At, Rolling
  <2>2. RollbackHolds([l EXCEPT !.pc = "routes"])
    BY <2>1 DEF RollbackHolds, Rolling
  <2>3. HoldInv'
    BY <1>6, <1>h, <2>2, HoldsCommand, HoldMoves, GotoMoves, EndsHold DEF ConsumeManifest
  <2>4. NoManifest \in [exists : BOOLEAN, action : Seq(Noted)]
    <3>1. <<>> \in Seq(Noted)
      OBVIOUS
    <3> QED
      BY <3>1 DEF NoManifest
  <2> QED
    BY <1>h, <1>6, <2>3, <2>4 DEF ConsumeManifest, TypeInv, DiskInv
<1>7. CASE RemoveRouteAccess(t)
  <2>1. [fs EXCEPT !["routes"] = Absent] \in Files
    <3>1. "routes" \in File /\ Absent \in Value /\ "routes" # "entry"
      BY DEF File, Value
    <3> QED
      BY <1>f, <3>1, FileReplaced
  <2> QED
    BY <1>7, <1>h, <2>1, EndsHold DEF RemoveRouteAccess, TypeInv, DiskInv
<1> QED
  BY <1>1, <1>2, <1>3, <1>4, <1>5, <1>6, <1>7

\* The steps of the other commands keep the types.
LEMMA OtherTypes ==
    ASSUME TypeInv, NEW t \in Terminal,
           \/ Cutover(t) \/ ProbesPass(t) \/ ProbeFails(t) \/ Offboard(t) \/ OffboardWrite(t)
           \/ PlanAttachment(t) \/ ApplyAttachment(t) \/ Detach(t) \/ Kill(t)
    PROVE  TypeInv'
<1> DEFINE l == local[t]
<1>h. DiskInv /\ HoldInv /\ Command(l) /\ DOMAIN local = Terminal
  BY DEF TypeInv, HoldInv
<1>f. fs \in Files /\ \A f \in File : fs[f] \in Value
  BY <1>h DEF DiskInv, Files
<1>w. ASSUME NEW f \in {"integration", "adoption"}, NEW v \in Content
      PROVE  [fs EXCEPT ![f] = v] \in Files
  <2>1. f \in File /\ v \in Value /\ f # "entry"
    BY <1>w DEF File, Value
  <2> QED
    BY <1>f, <2>1, FileReplaced
<1>1. ASSUME NEW status, NEW pc \in {"probe", "offboard"}, ReadStatus(t, status, pc) PROVE TypeInv'
  <2>1. fs["integration"] \in Content
    BY <1>1, <1>f DEF ReadStatus, Value, File
  <2>2. Command([Idle EXCEPT !.pc = pc, !.held = fs["integration"]])
    BY <2>1, IdleFields DEF Command
  <2>3. HoldInv'
    BY <1>1, <1>h, <2>2, HoldMoves DEF ReadStatus
  <2> QED
    BY <1>h, <1>1, <2>3 DEF ReadStatus, TypeInv, DiskInv
<1>2. CASE Cutover(t) \/ Offboard(t)
  BY <1>1, <1>2 DEF Cutover, Offboard
<1>3. CASE ProbesPass(t) \/ OffboardWrite(t)
  <2>1. l.held \in Content
    BY <1>3, <1>h, HoldsAt DEF ProbesPass, OffboardWrite, At
  <2>2. Marked(l.held, "verified") \in Content /\ Marked(l.held, "offboarded") \in Content
    BY <2>1, MarkedContent DEF Mark
  <2> QED
    BY <1>3, <1>h, <1>w, <2>2, EndsHold DEF ProbesPass, OffboardWrite, TypeInv, DiskInv
<1>4. CASE ProbeFails(t) \/ Kill(t)
  BY <1>4, <1>h, EndsHold DEF ProbeFails, Kill, TypeInv, DiskInv
<1>5. CASE PlanAttachment(t)
  <2>1. InitHolds([Idle EXCEPT !.pc = "attach", !.held = fs["adoption"]])
    <3>1. InitHolds(Idle)
      BY IdleCommand, HoldsAt
    <3>2. fs["adoption"] \in Value
      BY <1>f DEF File
    <3> QED
      BY <3>1, <3>2 DEF InitHolds
  <2>2. HoldInv'
    BY <1>5, <1>h, <2>1, HoldsCommand, HoldMoves DEF PlanAttachment
  <2> QED
    BY <1>h, <1>5, <2>2 DEF PlanAttachment, TypeInv, DiskInv
<1>6. CASE ApplyAttachment(t)
  <2>1. New("attached") \in Content
    BY NewContent DEF Mark
  <2> QED
    BY <1>6, <1>h, <1>w, <2>1, EndsHold DEF ApplyAttachment, TypeInv, DiskInv
<1>7. CASE Detach(t)
  <2>1. ASSUME NEW m PROVE New(DetachedMode(m)) \in Content
    BY NewContent DEF Mark, DetachedMode
  <2>2. fs' \in Files
    BY <1>7, <1>w, <2>1 DEF Detach
  <2> QED
    BY <1>7, <1>h, <2>2 DEF Detach, TypeInv, DiskInv, HoldInv
<1> QED
  BY <1>2, <1>3, <1>4, <1>5, <1>6, <1>7

\* Every step keeps the types.
LEMMA TypeStep == TypeInv /\ [Next]_vars => TypeInv'
<1> SUFFICES ASSUME TypeInv, [Next]_vars PROVE TypeInv'
  OBVIOUS
<1>h. DiskInv /\ HoldInv /\ fs \in Files /\ edits \in 0..MaxEdits /\ MaxEdits \in Nat
  BY AdoptionAssumption DEF TypeInv, DiskInv
<1>1. ASSUME NEW f \in {"entry", "config"}, NEW mark \in {"none", "full", "bridge"}, Edit(f, mark)
      PROVE  TypeInv'
  <2>1. edits < MaxEdits /\ edits' = edits + 1 /\ fs' = [fs EXCEPT ![f] = [text |-> edits + 2, mark |-> mark]]
    BY <1>1 DEF Edit
  <2>2. edits + 2 \in Text /\ edits' \in 0..MaxEdits
    BY <1>h, <2>1 DEF Text
  <2>3. [text |-> edits + 2, mark |-> mark] \in Content
    BY <2>2 DEF Content, Mark
  <2>4. fs' \in Files
    <3>1. f \in File
      BY DEF File
    <3> QED
      BY <1>h, <2>1, <2>3, <3>1, FileReplaced DEF Value
  <2> QED
    BY <1>h, <1>1, <2>2, <2>4 DEF Edit, TypeInv, DiskInv, HoldInv
<1>2. CASE SaveRoutes
  <2>1. New("generated") \in Content /\ "routes" \in File
    BY NewContent DEF Mark, File
  <2>2. fs' \in Files
    BY <1>2, <1>h, <2>1, FileReplaced DEF SaveRoutes, Value
  <2> QED
    BY <1>h, <1>2, <2>2 DEF SaveRoutes, TypeInv, DiskInv, HoldInv
<1>3. CASE UNCHANGED vars
  BY <1>3 DEF vars, TypeInv, DiskInv, HoldInv
<1> QED
  BY <1>1, <1>2, <1>3, JournalTypes, WriteTypes, RollbackTypes, OtherTypes DEF Next

\* The initial states are well typed.
LEMMA TypeInit == Init => TypeInv
<1> SUFFICES ASSUME Init PROVE TypeInv
  OBVIOUS
<1>1. HoldInv
  BY IdleCommand DEF Init, HoldInv
<1>2. PICK x \in {0, 1}, config \in {Absent, New("none"), New("full"), New("alien")},
           support \in {Absent, New("none")} :
        fs = [f \in File |-> CASE f = "entry" -> [text |-> x, mark |-> "none"]
                               [] f = "config" -> config
                               [] f = "support" -> support
                               [] OTHER -> Absent]
  BY DEF Init
<1>3. config \in Value /\ support \in Value /\ Absent \in Value
  BY NewContent DEF Mark, Value
<1>4. [text |-> x, mark |-> "none"] \in Content
  BY AdoptionAssumption DEF Content, Text, Mark
<1>5. "entry" \in File /\ fs["entry"] = [text |-> x, mark |-> "none"]
  BY <1>2 DEF File
<1>6. fs \in [File -> Value]
  <2>1. ASSUME NEW f \in File PROVE fs[f] \in Value
    BY <1>2, <1>3, <1>4 DEF Value
  <2> QED
    BY <1>2, <2>1
<1>7. fs \in Files
  BY <1>4, <1>5, <1>6 DEF Files
<1>8. manifest \in [exists : BOOLEAN, action : Seq(Noted)]
  <2>1. <<>> \in Seq(Noted)
    OBVIOUS
  <2> QED
    BY <2>1 DEF Init, NoManifest
<1> QED
  BY <1>1, <1>7, <1>8, AdoptionAssumption DEF Init, TypeInv, DiskInv

\* The files, the journal and what each command holds are well typed, and the
\* entrypoint is never lost, with any number of terminals and faults.
THEOREM AdoptionTypes == Spec => []TypeInv
<1> QED
  BY TypeInit, TypeStep, PTL DEF Spec

-----------------------------------------------------------------------------
(* Who moves, and where to. *)

\* The command that moved, and the only one.
LEMMA OnlyOne ==
    ASSUME Alone, HoldInv, NEW t \in Terminal, NEW x, Become(t, x)
    PROVE  \A q \in Terminal : q = t /\ local'[q] = x
BY Moves DEF Alone, HoldInv

\* The same for a command that only changes its step.
LEMMA OnlyOneGoes ==
    ASSUME Alone, HoldInv, NEW t \in Terminal, NEW pc, Goto(t, pc)
    PROVE  \A q \in Terminal : q = t /\ local'[q] = [local[t] EXCEPT !.pc = pc]
BY OnlyOne, GotoMoves DEF HoldInv

\* A command's record has its fields.
LEMMA CommandFields ==
    ASSUME NEW l, Command(l)
    PROVE  DOMAIN l = {"pc", "plan", "done", "held", "start", "left"}
BY DEF Command

\* The steps that do not lead into init, or on in it.
Apart(t) ==
    \/ Refuse(t) \/ Applied(t) \/ DirectoryFails(t)
    \/ ReadManifest(t) \/ Restore(t) \/ RestoreFails(t) \/ Restored(t)
    \/ ConsumeBackup(t) \/ ConsumeManifest(t) \/ RemoveRouteAccess(t)
    \/ Cutover(t) \/ ProbesPass(t) \/ ProbeFails(t) \/ Offboard(t) \/ OffboardWrite(t)
    \/ PlanAttachment(t) \/ ApplyAttachment(t) \/ Detach(t)
    \/ Kill(t)

\* They end outside init.
LEMMA ApartMoves ==
    ASSUME Alone, TypeInv, NEW t \in Terminal, Apart(t)
    PROVE  \A q \in Terminal : local'[q].pc \notin Writing \cup {"review", "undo"}
<1> DEFINE l == local[t]
           Off == Writing \cup {"review", "undo"}
<1>h. HoldInv /\ Command(l) /\ DOMAIN l = {"pc", "plan", "done", "held", "start", "left"}
  BY CommandFields DEF TypeInv, HoldInv
<1>o. \A q \in Terminal : q = t
  BY DEF Alone
<1>1. ASSUME NEW x, Become(t, x), x.pc \notin Off PROVE \A q \in Terminal : local'[q].pc \notin Off
  BY <1>1, <1>h, OnlyOne
<1>2. ASSUME NEW pc \in {"consume", "routes"}, Goto(t, pc) PROVE \A q \in Terminal : local'[q].pc \notin Off
  <2>1. [l EXCEPT !.pc = pc].pc = pc
    BY <1>h
  <2>2. pc \notin Off
    BY DEF Writing
  <2> QED
    BY <1>2, <1>h, <2>1, <2>2, OnlyOneGoes
<1>3. ASSUME NEW how, Ends(t, how) PROVE \A q \in Terminal : local'[q].pc \notin Off
  <2>1. Idle.pc \notin Off
    BY IdleCommand DEF Writing
  <2> QED
    BY <1>1, <1>3, <2>1 DEF Ends
<1>4. CASE \/ Refuse(t) \/ Applied(t) \/ DirectoryFails(t) \/ RestoreFails(t)
           \/ RemoveRouteAccess(t) \/ ProbesPass(t) \/ ProbeFails(t) \/ OffboardWrite(t)
           \/ ApplyAttachment(t) \/ Kill(t)
  BY <1>3, <1>4 DEF Refuse, Applied, DirectoryFails, RestoreFails, RemoveRouteAccess, ProbesPass,
     ProbeFails, OffboardWrite, ApplyAttachment, Kill
<1>5. CASE ReadManifest(t)
  <2>1. [Idle EXCEPT !.pc = "restore", !.plan = manifest.action].pc = "restore"
    BY IdleFields
  <2> QED
    BY <1>1, <1>5, <2>1 DEF ReadManifest, Writing
<1>6. CASE Restore(t)
  <2>1. ASSUME NEW p, NEW d PROVE [l EXCEPT !.plan = p, !.done = d].pc = "restore"
    BY <1>6, <1>h DEF Restore, At
  <2> QED
    BY <1>1, <1>3, <1>6, <2>1 DEF Restore, Writing
<1>7. CASE Restored(t) \/ ConsumeManifest(t)
  BY <1>2, <1>3, <1>7 DEF Restored, ConsumeManifest
<1>8. CASE ConsumeBackup(t)
  <2>1. ASSUME NEW d PROVE [l EXCEPT !.done = d].pc = "consume"
    BY <1>8, <1>h DEF ConsumeBackup, At
  <2> QED
    BY <1>1, <1>8, <2>1 DEF ConsumeBackup, Writing
<1>9. CASE Cutover(t) \/ Offboard(t)
  <2>1. ASSUME NEW pc \in {"probe", "offboard"}, NEW h
        PROVE  [Idle EXCEPT !.pc = pc, !.held = h].pc = pc /\ pc \notin Off
    BY IdleFields DEF Writing
  <2> QED
    BY <1>1, <1>9, <2>1 DEF Cutover, Offboard, ReadStatus
<1>10. CASE PlanAttachment(t)
  <2>1. ASSUME NEW h PROVE [Idle EXCEPT !.pc = "attach", !.held = h].pc = "attach"
    BY IdleFields
  <2> QED
    BY <1>1, <1>10, <2>1 DEF PlanAttachment, Writing
<1>11. CASE Detach(t)
  BY <1>o, <1>11 DEF Detach, At, Writing
<1> QED
  BY <1>4, <1>5, <1>6, <1>7, <1>8, <1>9, <1>10, <1>11 DEF Apart

\* The steps of the surroundings: nobody is writing then.
Around ==
    \/ \E f \in {"entry", "config"}, mark \in {"none", "full", "bridge"} : Edit(f, mark)
    \/ SaveRoutes

\* They leave the commands, the journal and its history alone.
LEMMA AroundMoves ==
    ASSUME Alone, Around
    PROVE  /\ UNCHANGED <<local, manifest, backups, origin>>
           /\ outcome' = "none"
           /\ \A t \in Terminal : local[t].pc \notin Writing \cup Rolling \cup {"undo"}
<1>1. UNCHANGED <<local, manifest, backups, origin>> /\ outcome' = "none" /\ Calm
  BY DEF Around, Edit, SaveRoutes, Quiet
<1>2. "idle" \notin Writing \cup Rolling \cup {"undo"}
  BY DEF Writing, Rolling
<1> QED
  BY <1>1, <1>2 DEF Calm, Alone

\* One file is undone, or its undo fails.
Undoes(t) == Undo(t) \/ UndoFails(t)

\* The journal stays, and the next is another undo or the end.
LEMMA UndoMoves ==
    ASSUME Alone, TypeInv, NEW t \in Terminal, Undoes(t)
    PROVE  /\ local[t].pc = "undo"
           /\ UNCHANGED <<manifest, backups, origin>> /\ outcome' = "none"
           /\ \A q \in Terminal :
                /\ local'[q].pc \in {"undo", "idle"}
                /\ local[t].done # <<>> => local'[q].pc = "undo"
<1> DEFINE l == local[t]
<1>h. HoldInv /\ DOMAIN l = {"pc", "plan", "done", "held", "start", "left"}
  BY CommandFields DEF TypeInv, HoldInv
<1>1. l.pc = "undo" /\ UNCHANGED <<manifest, backups, origin>> /\ outcome' = "none"
  BY DEF Undoes, Undo, UndoFails, At, Ends, Quiet
<1>2. ASSUME NEW d, NEW f
      PROVE  [l EXCEPT !.done = d].pc = "undo" /\ [l EXCEPT !.done = d, !.left = f].pc = "undo"
  BY <1>1, <1>h
<1>3. \/ l.done = <<>> /\ Become(t, Idle)
      \/ \E d, f : Become(t, [l EXCEPT !.done = d]) \/ Become(t, [l EXCEPT !.done = d, !.left = f])
  BY DEF Undoes, Undo, UndoFails, Ends
<1>4. ASSUME NEW x, Become(t, x) PROVE \A q \in Terminal : local'[q] = x
  BY <1>4, <1>h, OnlyOne
<1>5. CASE l.done = <<>> /\ Become(t, Idle)
  BY <1>1, <1>4, <1>5, IdleCommand
<1>6. ASSUME NEW d, NEW f, Become(t, [l EXCEPT !.done = d]) \/ Become(t, [l EXCEPT !.done = d, !.left = f])
      PROVE  \A q \in Terminal : local'[q].pc = "undo"
  <2> DEFINE x == [l EXCEPT !.done = d]
             y == [l EXCEPT !.done = d, !.left = f]
  <2>1. x.pc = "undo" /\ y.pc = "undo"
    BY <1>2
  <2>2. (\A q \in Terminal : local'[q] = x) \/ (\A q \in Terminal : local'[q] = y)
    BY <1>4, <1>6
  <2> HIDE DEF x, y
  <2> QED
    BY <2>1, <2>2
<1> QED
  BY <1>1, <1>3, <1>5, <1>6

\* A step is one of init's, one apart from it, or of the surroundings.
LEMMA StepKinds ==
    ASSUME Next
    PROVE  \/ \E t \in Terminal :
                \/ \E mode \in {"standalone", "embedded"}, interactive \in BOOLEAN :
                       Plan(t, mode, interactive)
                \/ Confirm(t) \/ KeepJournal(t) \/ WriteBackups(t) \/ CreateManifest(t)
                \/ FillManifest(t) \/ WriteChange(t) \/ WriteFails(t) \/ Undoes(t)
                \/ Apart(t)
           \/ Around
BY DEF Next, Apart, Around, Undoes

-----------------------------------------------------------------------------
(* Init writes what was reviewed, and undoes it when it fails. *)

\* A step within the journal.
Journals(t) == KeepJournal(t) \/ WriteBackups(t) \/ CreateManifest(t) \/ FillManifest(t)

\* It leaves the application's files and the plan alone.
LEMMA JournalMoves ==
    ASSUME Alone, TypeInv, NEW t \in Terminal, Journals(t)
    PROVE  /\ fs' = fs
           /\ local[t].pc \in Writing
           /\ \A q \in Terminal :
                /\ q = t /\ local'[q].pc \in Writing
                /\ local'[q].plan = local[t].plan /\ local'[q].done = local[t].done
                /\ local'[q].start = local[t].start /\ local'[q].left = local[t].left
<1> DEFINE l == local[t]
<1>h. HoldInv /\ DOMAIN l = {"pc", "plan", "done", "held", "start", "left"}
  BY CommandFields DEF TypeInv, HoldInv
<1>1. PICK pc \in Writing : Goto(t, pc)
  BY DEF Journals, KeepJournal, WriteBackups, CreateManifest, FillManifest, Writing
<1>2. \A q \in Terminal : q = t /\ local'[q] = [l EXCEPT !.pc = pc]
  BY <1>h, <1>1, OnlyOneGoes
<1>3. LET m == [l EXCEPT !.pc = pc] IN m.pc = pc /\ m.plan = l.plan /\ m.done = l.done /\ m.start = l.start
      /\ m.left = l.left
  BY <1>h
<1>4. fs' = fs /\ l.pc \in Writing
  BY DEF Journals, KeepJournal, WriteBackups, CreateManifest, FillManifest, Writing, At
<1> QED
  BY <1>1, <1>2, <1>3, <1>4

\* Where a plan starts.
LEMMA PlanMoves ==
    ASSUME Alone, TypeInv, NEW t \in Terminal, NEW mode \in {"standalone", "embedded"},
           NEW interactive \in BOOLEAN, Plan(t, mode, interactive)
    PROVE  /\ fs' = fs
           /\ Good(build_plan(fs, mode), fs, PlanFile)
           /\ \A q \in Terminal :
                /\ q = t /\ local'[q].pc \in {"review", "journal"}
                /\ local'[q].plan = build_plan(fs, mode) /\ local'[q].done = <<>> /\ local'[q].start = fs
                /\ local'[q].left = {}
<1> DEFINE pc == IF interactive THEN "review" ELSE "journal"
           x == [Idle EXCEPT !.pc = pc, !.plan = build_plan(fs, mode), !.start = fs]
<1>1. Become(t, x) /\ fs' = fs
  BY DEF Plan
<1>2. x.pc = pc /\ x.plan = build_plan(fs, mode) /\ x.done = <<>> /\ x.start = fs
      /\ x.left = {}
  BY IdleFields
<1>3. \A q \in Terminal : q = t /\ local'[q] = x
  BY <1>1, OnlyOne DEF TypeInv
<1>4. Good(build_plan(fs, mode), fs, PlanFile)
  BY BuildPlan DEF TypeInv, DiskInv
<1> QED
  BY <1>1, <1>2, <1>3, <1>4

\* What a write does.
LEMMA WriteMoves ==
    ASSUME Alone, TypeInv, NEW t \in Terminal, WriteChange(t)
    PROVE  LET l == local[t]  change == Head(l.plan) IN
           /\ l.pc = "write" /\ l.plan \in Seq(Planned) /\ l.done \in Seq(Written) /\ l.plan # <<>>
           /\ 1 \in DOMAIN l.plan /\ change = l.plan[1] /\ change.file \in File
           /\ fs'[change.file] = change.after /\ \A f \in File : f # change.file => fs'[f] = fs[f]
           /\ \A q \in Terminal :
                /\ q = t /\ local'[q].pc = "write" /\ local'[q].start = l.start /\ local'[q].left = l.left
                /\ local'[q].plan = Tail(l.plan)
                /\ local'[q].done = Append(l.done, [file |-> change.file, before |-> fs[change.file]])
<1> DEFINE l == local[t]
           change == Head(l.plan)
           done == Append(l.done, [file |-> change.file, before |-> fs[change.file]])
           x == [l EXCEPT !.plan = Tail(l.plan), !.done = done]
<1>h. HoldInv /\ Command(l) /\ DOMAIN l = {"pc", "plan", "done", "held", "start", "left"}
  BY CommandFields DEF TypeInv, HoldInv
<1>1. l.pc = "write" /\ l.plan # <<>> /\ Become(t, x) /\ fs' = [fs EXCEPT ![change.file] = change.after]
  BY DEF WriteChange, At, Remember
<1>2. InitHolds(l)
  BY <1>h, <1>1, HoldsAt DEF Writing
<1>3. l.plan \in Seq(Planned) /\ l.done \in Seq(Written)
  BY <1>2 DEF InitHolds
<1>4. 1 \in DOMAIN l.plan /\ change = l.plan[1] /\ change \in Planned
  BY <1>1, <1>3, HeadTailProperties, LenProperties, EmptySeq
<1>5. change.file \in File /\ change.after \in Value /\ (change.file = "entry" => change.after \in Content)
  BY <1>4 DEF Planned, PlanFile, Value
<1>6. fs'[change.file] = change.after /\ \A f \in File : f # change.file => fs'[f] = fs[f]
  BY <1>1, <1>5, FileReplaced DEF TypeInv, DiskInv
<1>7. x.pc = "write" /\ x.plan = Tail(l.plan) /\ x.done = done /\ x.start = l.start
      /\ x.left = l.left
  <2> HIDE DEF done
  <2> QED
    BY <1>h, <1>1
<1>8. \A q \in Terminal : q = t /\ local'[q] = x
  BY <1>h, <1>1, OnlyOne
<1> QED
  BY <1>1, <1>3, <1>4, <1>5, <1>6, <1>7, <1>8

\* Every step keeps the plan in line with the files.
LEMMA PlanStep == Alone /\ TypeInv /\ PlanInv /\ [Next]_vars => PlanInv'
<1> SUFFICES ASSUME Alone, TypeInv, PlanInv, [Next]_vars PROVE PlanInv'
  OBVIOUS
<1> DEFINE Off == Writing \cup {"review"}
<1>h. HoldInv /\ \A t \in Terminal : DOMAIN local[t] = {"pc", "plan", "done", "held", "start", "left"}
  BY CommandFields DEF TypeInv, HoldInv
<1>1. ASSUME NEW t \in Terminal, NEW mode \in {"standalone", "embedded"},
             NEW interactive \in BOOLEAN, Plan(t, mode, interactive)
      PROVE  PlanInv'
  BY <1>1, PlanMoves DEF PlanInv, Current, Good
<1>2. ASSUME NEW t \in Terminal, Confirm(t) PROVE PlanInv'
  <2> DEFINE x == [local[t] EXCEPT !.pc = "journal", !.start = fs]
  <2>1. Become(t, x) /\ fs' = fs /\ plan_inputs_unchanged(local[t].plan) /\ local[t].pc = "review"
    BY <1>2 DEF Confirm, At
  <2>2. x.pc = "journal" /\ x.plan = local[t].plan
    BY <1>h
  <2>3. \A q \in Terminal : local'[q] = x
    BY <1>h, <2>1, OnlyOne
  <2>4. Distinct(local[t].plan)
    BY <2>1 DEF PlanInv, Current
  <2>5. Current(x, fs)
    BY <2>1, <2>2, <2>4 DEF Current, plan_inputs_unchanged
  <2> HIDE DEF x
  <2> QED
    BY <2>1, <2>3, <2>5 DEF PlanInv
<1>3. ASSUME NEW t \in Terminal, Journals(t) PROVE PlanInv'
  <2>1. Current(local[t], fs) /\ local[t].pc \in Writing
    BY <1>3, JournalMoves DEF PlanInv
  <2>2. ASSUME NEW q \in Terminal PROVE Current(local'[q], fs')
    BY <1>3, <2>1, JournalMoves DEF Current
  <2> QED
    BY <2>2 DEF PlanInv
<1>4. ASSUME NEW t \in Terminal, WriteChange(t) PROVE PlanInv'
  <2> DEFINE plan == local[t].plan
             rest == Tail(plan)
  <2>1. /\ local[t].pc = "write" /\ plan \in Seq(Planned) /\ plan # <<>> /\ 1 \in DOMAIN plan
        /\ Head(plan) = plan[1]
        /\ \A f \in File : f # plan[1].file => fs'[f] = fs[f]
        /\ \A q \in Terminal : q = t /\ local'[q].plan = rest
    BY <1>4, WriteMoves
  <2>2. Distinct(plan) /\ \A i \in DOMAIN plan : fs[plan[i].file] = plan[i].before
    BY <2>1 DEF PlanInv, Current, Writing
  <2>3. /\ DOMAIN plan = 1..Len(plan) /\ DOMAIN rest = 1..(Len(plan) - 1) /\ Len(plan) \in Nat
        /\ \A i \in DOMAIN rest : rest[i] = plan[i + 1] /\ i + 1 \in DOMAIN plan
    <3>1. Len(plan) \in Nat \ {0} /\ DOMAIN plan = 1..Len(plan)
      BY <2>1, LenProperties, EmptySeq
    <3>2. rest \in Seq(Planned) /\ Len(rest) = Len(plan) - 1 /\ \A i \in 1..Len(rest) : rest[i] = plan[i + 1]
      BY <2>1, HeadTailProperties
    <3>3. DOMAIN rest = 1..Len(rest)
      BY <3>2, LenProperties
    <3> HIDE DEF rest, plan
    <3> QED
      BY <3>1, <3>2, <3>3
  <2>4. \A i \in DOMAIN plan : plan[i].file \in File
    <3>1. \A i \in DOMAIN plan : plan[i] \in Planned
      BY <2>1, LenProperties, ElementOfSeq
    <3> QED
      BY <3>1 DEF Planned, PlanFile
  <2> HIDE DEF rest, plan
  <2>5. ASSUME NEW i \in DOMAIN rest PROVE fs'[rest[i].file] = rest[i].before
    <3>1. i \in Nat /\ i + 1 # 1 /\ i + 1 \in DOMAIN plan /\ rest[i] = plan[i + 1]
      BY <2>3
    <3>2. plan[i + 1].file # plan[1].file
      BY <2>1, <2>2, <3>1 DEF Distinct
    <3> QED
      BY <2>1, <2>2, <2>4, <3>1, <3>2
  <2>6. Distinct(rest)
    <3> SUFFICES ASSUME NEW i \in DOMAIN rest, NEW j \in DOMAIN rest, rest[i].file = rest[j].file
                 PROVE  i = j
      BY DEF Distinct
    <3>1. i + 1 = j + 1
      BY <2>2, <2>3 DEF Distinct
    <3>2. i \in Nat /\ j \in Nat
      BY <2>3
    <3> QED
      BY <3>1, <3>2
  <2> QED
    BY <2>1, <2>5, <2>6 DEF PlanInv, Current
<1>5. ASSUME NEW t \in Terminal, WriteFails(t) PROVE PlanInv'
  <2>1. \A q \in Terminal : local'[q] = [local[t] EXCEPT !.pc = "undo"]
    BY <1>5, <1>h, OnlyOneGoes DEF WriteFails
  <2>2. [local[t] EXCEPT !.pc = "undo"].pc = "undo"
    BY <1>h
  <2> QED
    BY <2>1, <2>2 DEF PlanInv, Writing
<1>6. ASSUME NEW t \in Terminal, Undoes(t) PROVE PlanInv'
  BY <1>6, UndoMoves DEF PlanInv, Writing
<1>7. ASSUME NEW t \in Terminal, Apart(t) PROVE PlanInv'
  BY <1>7, ApartMoves DEF PlanInv
<1>8. CASE Around
  BY <1>8, AroundMoves DEF PlanInv, Current
<1>9. CASE UNCHANGED vars
  BY <1>9 DEF vars, PlanInv
<1> QED
  BY <1>1, <1>2, <1>3, <1>4, <1>5, <1>6, <1>7, <1>8, <1>9, StepKinds DEF Journals

\* With one command at a time, and nobody editing the files while it writes
\* them, init replaces exactly what its plan was made from: an edit made under
\* review stops it (build_plan, plan_inputs_unchanged, apply_plan), whatever
\* commands, faults and edits came before.
THEOREM AppliesReviewedPlanHolds == Alone => (Spec => []AppliesReviewedPlan)
<1> SUFFICES ASSUME Alone PROVE Spec => []AppliesReviewedPlan
  OBVIOUS
<1>1. Init => PlanInv
  BY IdleCommand DEF Init, PlanInv, Writing
<1>2. PlanInv => AppliesReviewedPlan
  BY DEF PlanInv, Current, AppliesReviewedPlan, Writing
<1>3. TypeInv /\ PlanInv /\ [Next]_vars => PlanInv'
  BY PlanStep
<1> QED
  BY <1>1, <1>2, <1>3, AdoptionTypes, PTL DEF Spec

\* A plan at its start: nothing is done.
LEMMA UndoableAtStart ==
    ASSUME NEW l, NEW d, d \in Files, l.start = d, l.done = <<>>, l.left = {}
    PROVE  Undoable(l, d)
<1>1. DOMAIN l.done = {}
  OBVIOUS
<1> QED
  BY <1>1 DEF Undoable, Distinct

\* A write is remembered.
LEMMA UndoableWrite ==
    ASSUME Alone, TypeInv, PlanInv, NEW t \in Terminal, WriteChange(t), Undoable(local[t], fs),
           NEW q \in Terminal
    PROVE  Undoable(local'[q], fs')
<1> DEFINE l == local[t]
           plan == l.plan
           done == l.done
           rest == Tail(plan)
           last == [file |-> plan[1].file, before |-> fs[plan[1].file]]
           more == Append(done, last)
           n == Len(done)
<1>1. /\ l.pc = "write" /\ plan \in Seq(Planned) /\ done \in Seq(Written) /\ plan # <<>>
      /\ 1 \in DOMAIN plan /\ plan[1].file \in File
      /\ \A f \in File : f # plan[1].file => fs'[f] = fs[f]
      /\ local'[q].pc = "write" /\ local'[q].start = l.start /\ local'[q].left = l.left
      /\ local'[q].plan = rest /\ local'[q].done = more
  BY WriteMoves
<1>2. n \in Nat /\ DOMAIN done = 1..n /\ DOMAIN more = 1..(n + 1) /\ more[n + 1] = last
      /\ \A i \in 1..n : more[i] = done[i]
  <2>1. n \in Nat /\ DOMAIN done = 1..n
    BY <1>1, LenProperties
  <2> HIDE DEF last
  <2>2. more \in Seq(Written \cup {last}) /\ Len(more) = n + 1 /\ more[n + 1] = last
        /\ \A i \in 1..n : more[i] = done[i]
    <3>1. done \in Seq(Written \cup {last}) /\ last \in Written \cup {last}
      BY <1>1, SeqMonotonic
    <3> HIDE DEF done
    <3> QED
      BY <3>1, AppendProperties
  <2>3. DOMAIN more = 1..(n + 1)
    BY <2>2, LenProperties
  <2> QED
    BY <2>1, <2>2, <2>3
<1>3. last.file = plan[1].file /\ last.before = fs[plan[1].file]
  OBVIOUS
<1>4. Distinct(plan)
  BY <1>1 DEF PlanInv, Current, Writing
<1>5. \A i \in DOMAIN rest : i \in Nat /\ rest[i] = plan[i + 1] /\ i + 1 \in DOMAIN plan /\ i + 1 # 1
  <2>1. Len(plan) \in Nat \ {0} /\ DOMAIN plan = 1..Len(plan)
    BY <1>1, LenProperties, EmptySeq
  <2>2. rest \in Seq(Planned) /\ Len(rest) = Len(plan) - 1 /\ \A i \in 1..Len(rest) : rest[i] = plan[i + 1]
    BY <1>1, HeadTailProperties
  <2>3. DOMAIN rest = 1..Len(rest)
    BY <2>2, LenProperties
  <2> HIDE DEF rest, plan
  <2> QED
    BY <2>1, <2>2, <2>3
<1>6. /\ l.start \in Files /\ Distinct(done) /\ l.left = {}
      /\ \A i \in DOMAIN done : done[i].before = l.start[done[i].file]
      /\ \A f \in File : (\A i \in DOMAIN done : done[i].file # f) => fs[f] = l.start[f]
      /\ \A i \in DOMAIN plan, j \in DOMAIN done : plan[i].file # done[j].file
  BY <1>1 DEF Undoable
<1> HIDE DEF l, plan, done, rest, last, more, n
<1>7. last.before = l.start[last.file]
  BY <1>1, <1>3, <1>6
<1>8. \A j \in DOMAIN more : (j \in DOMAIN done /\ more[j] = done[j]) \/ (j = n + 1 /\ more[j] = last)
  <2> SUFFICES ASSUME NEW j \in DOMAIN more
               PROVE  (j \in DOMAIN done /\ more[j] = done[j]) \/ (j = n + 1 /\ more[j] = last)
    OBVIOUS
  <2>1. j \in 1..n \/ j = n + 1
    BY <1>2
  <2> QED
    BY <1>2, <2>1
<1>9. Distinct(more)
  <2> SUFFICES ASSUME NEW i \in DOMAIN more, NEW j \in DOMAIN more, more[i].file = more[j].file
               PROVE  i = j
    BY DEF Distinct
  <2>1. \A k \in DOMAIN done : done[k].file # last.file
    BY <1>1, <1>3, <1>6
  <2> QED
    BY <1>6, <1>8, <2>1 DEF Distinct
<1>10. \A i \in DOMAIN more : more[i].before = l.start[more[i].file]
  BY <1>6, <1>7, <1>8
<1>11. ASSUME NEW f \in File, \A i \in DOMAIN more : more[i].file # f PROVE fs'[f] = l.start[f]
  <2>1. f # last.file
    BY <1>2, <1>11
  <2>2. \A i \in DOMAIN done : done[i].file # f
    BY <1>2, <1>11
  <2> QED
    BY <1>1, <1>3, <1>6, <2>1, <2>2
<1>12. ASSUME NEW i \in DOMAIN rest, NEW j \in DOMAIN more PROVE rest[i].file # more[j].file
  <2>1. rest[i] = plan[i + 1] /\ i + 1 \in DOMAIN plan /\ i + 1 # 1
    BY <1>5
  <2>2. plan[i + 1].file # last.file
    BY <1>1, <1>3, <1>4, <2>1 DEF Distinct
  <2> QED
    BY <1>6, <1>8, <2>1, <2>2
<1>13. /\ local'[q].start = l.start /\ local'[q].left = l.left
       /\ local'[q].done = more /\ local'[q].plan = rest
  BY <1>1
<1> QED
  BY <1>6, <1>9, <1>10, <1>11, <1>12, <1>13 DEF Undoable

\* A write fails; the development credentials may be in place.
LEMMA UndoableFails ==
    ASSUME Alone, TypeInv, NEW t \in Terminal, WriteFails(t), Undoable(local[t], fs), NEW q \in Terminal
    PROVE  Undoable(local'[q], fs')
<1> DEFINE l == local[t]
           m == [l EXCEPT !.pc = "undo"]
<1>h. HoldInv /\ DOMAIN l = {"pc", "plan", "done", "held", "start", "left"} /\ fs \in Files
  BY CommandFields DEF TypeInv, HoldInv, DiskInv
<1>1. l.pc = "write" /\ local'[q] = m
  BY <1>h, OnlyOneGoes DEF WriteFails, At
<1>2. m.pc = "undo" /\ m.done = l.done /\ m.start = l.start /\ m.left = l.left
  BY <1>h
<1>3. \A f \in File : f # "accounts" => fs'[f] = fs[f]
  BY <1>h DEF WriteFails, Files
<1> HIDE DEF m
<1>4. Undoable(m, fs')
  BY <1>1, <1>2, <1>3 DEF Undoable
<1> QED
  BY <1>1, <1>4

\* One write is undone, or stays because its undo fails.
LEMMA UndoableUndo ==
    ASSUME Alone, TypeInv, NEW t \in Terminal, Undoes(t), local[t].done # <<>>,
           Undoable(local[t], fs), NEW q \in Terminal
    PROVE  Undoable(local'[q], fs')
<1> DEFINE l == local[t]
           done == l.done
           n == Len(done)
           last == done[n]
           less == SubSeq(done, 1, n - 1)
           more == l.left \cup {last.file}
           m == local'[q]
<1>h. HoldInv /\ Command(l) /\ DOMAIN l = {"pc", "plan", "done", "held", "start", "left"}
      /\ fs \in Files
  BY CommandFields DEF TypeInv, HoldInv, DiskInv
<1>1. l.pc = "undo"
  BY DEF Undoes, Undo, UndoFails, At
<1>2. done \in Seq(Written)
  BY <1>h, <1>1, HoldsAt DEF InitHolds
<1>3. /\ n \in Nat /\ n \in DOMAIN done /\ last \in Written
      /\ less \in Seq(Written) /\ Len(less) = n - 1 /\ \A i \in 1..(n - 1) : less[i] = done[i]
  BY <1>2, FrontOf
<1>4. DOMAIN done = 1..n /\ DOMAIN less = 1..(n - 1)
  <2>1. DOMAIN done = 1..n /\ DOMAIN less = 1..Len(less)
    BY <1>2, <1>3, LenProperties
  <2> QED
    BY <1>3, <2>1
<1>7. /\ l.start \in Files /\ Distinct(done)
      /\ \A i \in DOMAIN done : done[i].before = l.start[done[i].file]
      /\ \A f \in File \ ({"accounts"} \cup l.left) :
           (\A i \in DOMAIN done : done[i].file # f) => fs[f] = l.start[f]
  BY DEF Undoable
<1>8. last.file \in File /\ last.before \in Value /\ (last.file = "entry" => last.before \in Content)
  BY <1>3 DEF Written, PlanFile
<1>5. /\ m.pc = "undo" /\ m.done = less /\ m.start = l.start
      /\ (m.left = l.left /\ fs'[last.file] = last.before) \/ m.left = more
      /\ l.left \subseteq m.left
      /\ \A f \in File : f # last.file => fs'[f] = fs[f]
  <2>1. CASE Undo(t)
    <3>1. Become(t, [l EXCEPT !.done = less]) /\ fs' = [fs EXCEPT ![last.file] = last.before]
      BY <2>1 DEF Undo
    <3>2. m = [l EXCEPT !.done = less]
      BY <1>h, <3>1, OnlyOne
    <3>3. fs'[last.file] = last.before /\ \A f \in File : f # last.file => fs'[f] = fs[f]
      BY <1>h, <1>8, <3>1, FileReplaced
    <3> HIDE DEF less, m, last
    <3> QED
      BY <1>h, <1>1, <3>2, <3>3
  <2>2. CASE UndoFails(t)
    <3>1. /\ Become(t, [l EXCEPT !.done = less, !.left = more])
          /\ fs' = fs \/ fs' = [fs EXCEPT ![last.file] = Cut(last.file)]
      BY <2>2 DEF UndoFails
    <3>2. m = [l EXCEPT !.done = less, !.left = more]
      BY <1>h, <3>1, OnlyOne
    <3>3. Cut(last.file) \in Content
      BY NewContent DEF Cut, Mark
    <3>4. \A f \in File : f # last.file => fs'[f] = fs[f]
      <4>1. Cut(last.file) \in Value /\ last.file \in File
        BY <1>8, <3>3 DEF Value
      <4>2. \A f \in File : f # last.file => [fs EXCEPT ![last.file] = Cut(last.file)][f] = fs[f]
        BY <1>h, <3>3, <4>1, FileReplaced
      <4> QED
        BY <3>1, <4>2
    <3>5. l.left \subseteq more
      OBVIOUS
    <3> HIDE DEF less, more, m, last
    <3> QED
      BY <1>h, <1>1, <3>2, <3>4, <3>5
  <2> QED
    BY <2>1, <2>2 DEF Undoes
<1>6. last.file \notin m.left => fs'[last.file] = last.before
  <2>1. last.file \in more
    OBVIOUS
  <2> QED
    BY <1>5, <2>1
<1> HIDE DEF l, done, n, last, less, more, m
<1>10. \A i \in DOMAIN less : i \in DOMAIN done /\ less[i] = done[i]
  BY <1>3, <1>4
<1>11. \A i \in DOMAIN done : i \in DOMAIN less \/ i = n
  BY <1>3, <1>4
<1>12. ASSUME NEW f \in File, f # "accounts", f \notin m.left, \A i \in DOMAIN less : less[i].file # f
       PROVE  fs'[f] = l.start[f]
  <2>1. CASE f = last.file
    BY <1>3, <1>6, <1>7, <1>12, <2>1 DEF last
  <2>2. CASE f # last.file
    <3>1. \A i \in DOMAIN done : done[i].file # f
      BY <1>10, <1>11, <1>12, <2>2 DEF last
    <3>2. f \notin l.left
      BY <1>5, <1>12
    <3> QED
      BY <1>5, <1>7, <1>12, <2>2, <3>1, <3>2
  <2> QED
    BY <2>1, <2>2
<1>13. Distinct(less)
  BY <1>7, <1>10 DEF Distinct
<1>14. \A i \in DOMAIN less : less[i].before = l.start[less[i].file]
  BY <1>7, <1>10
<1>15. Undoable(m, fs')
  BY <1>5, <1>7, <1>12, <1>13, <1>14 DEF Undoable
<1> QED
  BY <1>15 DEF m

\* Every step keeps init undoable.
LEMMA UndoStep == Alone /\ TypeInv /\ PlanInv /\ UndoInv /\ [Next]_vars => UndoInv'
<1> SUFFICES ASSUME Alone, TypeInv, PlanInv, UndoInv, [Next]_vars PROVE UndoInv'
  OBVIOUS
<1>h. HoldInv /\ \A t \in Terminal : DOMAIN local[t] = {"pc", "plan", "done", "held", "start", "left"}
  BY CommandFields DEF TypeInv, HoldInv
<1>f. fs \in Files
  BY DEF TypeInv, DiskInv
<1>1. ASSUME NEW t \in Terminal, NEW mode \in {"standalone", "embedded"},
             NEW interactive \in BOOLEAN, Plan(t, mode, interactive)
      PROVE  UndoInv'
  BY <1>1, <1>f, PlanMoves, UndoableAtStart DEF UndoInv
<1>2. ASSUME NEW t \in Terminal, Confirm(t) PROVE UndoInv'
  <2> DEFINE x == [local[t] EXCEPT !.pc = "journal", !.start = fs]
  <2>1. Become(t, x) /\ fs' = fs /\ local[t].done = <<>> /\ local[t].left = {}
    BY <1>2 DEF Confirm, At, UndoInv
  <2>2. x.pc = "journal" /\ x.done = <<>> /\ x.start = fs /\ x.left = {}
    BY <1>h, <2>1
  <2>3. \A q \in Terminal : local'[q] = x
    BY <1>h, <2>1, OnlyOne
  <2> HIDE DEF x
  <2>4. Undoable(x, fs)
    BY <1>f, <2>2, UndoableAtStart
  <2> QED
    BY <2>1, <2>2, <2>3, <2>4 DEF UndoInv
<1>3. ASSUME NEW t \in Terminal, Journals(t) PROVE UndoInv'
  <2>1. Undoable(local[t], fs) /\ local[t].pc \in Writing
    BY <1>3, JournalMoves DEF UndoInv
  <2>2. "undo" \notin Writing /\ "review" \notin Writing
    BY DEF Writing
  <2>3. ASSUME NEW q \in Terminal PROVE Undoable(local'[q], fs') /\ local'[q].pc # "review"
    BY <1>3, <2>1, <2>2, JournalMoves DEF Undoable
  <2> QED
    BY <2>3 DEF UndoInv
<1>4. ASSUME NEW t \in Terminal, WriteChange(t) PROVE UndoInv'
  <2>1. Undoable(local[t], fs)
    BY <1>4 DEF WriteChange, At, UndoInv, Writing
  <2>2. \A q \in Terminal : local'[q].pc = "write"
    BY <1>4, WriteMoves
  <2> QED
    BY <1>4, <2>1, <2>2, UndoableWrite DEF UndoInv
<1>5. ASSUME NEW t \in Terminal, WriteFails(t) PROVE UndoInv'
  <2>1. Undoable(local[t], fs)
    BY <1>5 DEF WriteFails, At, UndoInv, Writing
  <2>2. \A q \in Terminal : local'[q] = [local[t] EXCEPT !.pc = "undo"]
    BY <1>5, <1>h, OnlyOneGoes DEF WriteFails
  <2>3. \A q \in Terminal : local'[q].pc = "undo"
    BY <1>h, <2>2
  <2> QED
    BY <1>5, <2>1, <2>3, UndoableFails DEF UndoInv
<1>6. ASSUME NEW t \in Terminal, Undoes(t) PROVE UndoInv'
  <2>1. CASE local[t].done = <<>>
    <3>1. \A q \in Terminal : local'[q] = Idle
      BY <1>6, <1>h, <2>1, OnlyOne DEF Undoes, Undo, UndoFails, Ends
    <3> QED
      BY <3>1, IdleCommand DEF UndoInv, Writing
  <2>2. CASE local[t].done # <<>>
    <3>1. Undoable(local[t], fs)
      BY <1>6, UndoMoves DEF UndoInv
    <3>2. \A q \in Terminal : local'[q].pc = "undo"
      BY <1>6, <2>2, UndoMoves
    <3> QED
      BY <1>6, <2>2, <3>1, <3>2, UndoableUndo DEF UndoInv
  <2> QED
    BY <2>1, <2>2
<1>7. ASSUME NEW t \in Terminal, Apart(t) PROVE UndoInv'
  BY <1>7, ApartMoves DEF UndoInv
<1>8. CASE Around
  BY <1>8, AroundMoves DEF UndoInv
<1>9. CASE UNCHANGED vars
  BY <1>9 DEF vars, UndoInv
<1> QED
  BY <1>1, <1>2, <1>3, <1>4, <1>5, <1>6, <1>7, <1>8, <1>9, StepKinds DEF Journals

\* With one command at a time, and nobody editing the files while it writes
\* them, an init of which a write fails, early or late, leaves every file as it
\* was when it began to write, but for the files whose own undo fails and the
\* development credentials (apply_plan and its rollback of the written changes).
THEOREM FailedInitUndoneHolds == Alone => (Spec => []FailedInitUndone)
<1> SUFFICES ASSUME Alone PROVE Spec => []FailedInitUndone
  OBVIOUS
<1>1. Init => PlanInv /\ UndoInv
  BY IdleCommand DEF Init, PlanInv, UndoInv, Writing
<1>2. UndoInv => FailedInitUndone
  <2> SUFFICES ASSUME UndoInv, NEW t \in Terminal, At(t, "undo"), local[t].done = <<>>,
                      NEW f \in File \ ({"accounts"} \cup local[t].left)
               PROVE  fs[f] = local[t].start[f]
    BY DEF FailedInitUndone
  <2>1. Undoable(local[t], fs) /\ DOMAIN local[t].done = {}
    BY DEF UndoInv, At
  <2> QED
    BY <2>1 DEF Undoable
<1>3. TypeInv /\ PlanInv /\ UndoInv /\ [Next]_vars => PlanInv' /\ UndoInv'
  BY PlanStep, UndoStep
<1> QED
  BY <1>1, <1>2, <1>3, AdoptionTypes, PTL DEF Spec

-----------------------------------------------------------------------------
(* A rollback restores. *)

\* The steps that leave the journal alone.
Elsewhere(t) ==
    \/ \E mode \in {"standalone", "embedded"}, interactive \in BOOLEAN : Plan(t, mode, interactive)
    \/ Confirm(t) \/ KeepJournal(t) \/ WriteChange(t) \/ WriteFails(t) \/ Undoes(t)
    \/ Apart(t) /\ ~ConsumeBackup(t) /\ ~ConsumeManifest(t)

\* None of them begins or ends within the creation of the manifest.
LEMMA ElsewhereMoves ==
    ASSUME Alone, FillNotKilled, TypeInv, NEW t \in Terminal, Elsewhere(t)
    PROVE  /\ UNCHANGED <<manifest, backups, origin>>
           /\ \A q \in Terminal : local[q].pc # "fill" /\ local'[q].pc \notin {"create", "fill"}
<1> DEFINE l == local[t]
<1>h. HoldInv /\ Command(l) /\ DOMAIN l = {"pc", "plan", "done", "held", "start", "left"}
  BY CommandFields DEF TypeInv, HoldInv
<1>o. \A q \in Terminal : q = t
  BY DEF Alone
<1>1. ASSUME NEW mode \in {"standalone", "embedded"}, NEW interactive \in BOOLEAN,
             Plan(t, mode, interactive)
      PROVE  /\ UNCHANGED <<manifest, backups, origin>> /\ l.pc # "fill"
             /\ \A q \in Terminal : local'[q].pc \notin {"create", "fill"}
  <2>1. \A q \in Terminal : local'[q].pc \in {"review", "journal"}
    BY <1>1, PlanMoves
  <2> QED
    BY <1>1, <2>1 DEF Plan, At
<1>2. CASE Confirm(t)
  <2>1. Become(t, [l EXCEPT !.pc = "journal", !.start = fs]) /\ l.pc = "review"
        /\ UNCHANGED <<manifest, backups, origin>>
    BY <1>2 DEF Confirm, At
  <2>2. [l EXCEPT !.pc = "journal", !.start = fs].pc = "journal"
    BY <1>h
  <2>3. \A q \in Terminal : local'[q].pc = "journal"
    <3> DEFINE next == [l EXCEPT !.pc = "journal", !.start = fs]
    <3>1. Become(t, next) /\ next.pc = "journal"
      BY <2>1, <2>2
    <3> HIDE DEF next, l
    <3>2. \A q \in Terminal : local'[q] = next
      BY <1>h, <3>1, OnlyOne
    <3> QED
      BY <3>1, <3>2
  <2> QED
    BY <1>o, <2>1, <2>3
<1>3. ASSUME NEW pc \in {"write", "undo"}, Goto(t, pc) PROVE \A q \in Terminal : local'[q].pc = pc
  <2>1. [l EXCEPT !.pc = pc].pc = pc
    BY <1>h
  <2> QED
    BY <1>3, <1>h, <2>1, OnlyOneGoes
<1>4. CASE KeepJournal(t) \/ WriteFails(t)
  BY <1>o, <1>3, <1>4 DEF KeepJournal, WriteFails, At
<1>5. CASE WriteChange(t)
  <2>1. \A q \in Terminal : local'[q].pc = "write"
    BY <1>5, WriteMoves
  <2> QED
    BY <1>o, <1>5, <2>1 DEF WriteChange, At
<1>6. CASE Undoes(t)
  BY <1>o, <1>6, UndoMoves
<1>7. CASE Apart(t) /\ ~ConsumeBackup(t) /\ ~ConsumeManifest(t)
  <2>1. \A q \in Terminal : local'[q].pc \notin {"create", "fill"}
    BY <1>7, ApartMoves DEF Writing
  <2>2. l.pc # "fill"
    BY <1>7 DEF Apart, Refuse, Applied, DirectoryFails, ReadManifest, Restore, RestoreFails, Restored,
       RemoveRouteAccess, Cutover, ProbesPass, ProbeFails, Offboard, OffboardWrite, ReadStatus,
       PlanAttachment, ApplyAttachment, Detach, Kill, Fault, FillNotKilled, At
  <2>3. UNCHANGED <<manifest, backups, origin>>
    BY <1>7 DEF Apart, Refuse, Applied, DirectoryFails, ReadManifest, Restore, RestoreFails, Restored,
       RemoveRouteAccess, Cutover, ProbesPass, ProbeFails, Offboard, OffboardWrite, ReadStatus,
       PlanAttachment, ApplyAttachment, Detach, Kill
  <2> QED
    BY <1>o, <2>1, <2>2, <2>3
<1> QED
  BY <1>o, <1>1, <1>2, <1>4, <1>5, <1>6, <1>7 DEF Elsewhere

\* Writing the backups journals the plan.
LEMMA JournalledByBackups ==
    ASSUME Alone, TypeInv, PlanInv, NEW t \in Terminal, WriteBackups(t)
    PROVE  Journalled(local[t].plan, backups', origin')
<1> DEFINE plan == local[t].plan
           files == {plan[i].file : i \in Journaled(plan)}
<1>1. Distinct(plan) /\ \A i \in DOMAIN plan : fs[plan[i].file] = plan[i].before
  BY DEF WriteBackups, At, PlanInv, Current, Writing
<1>2. /\ DOMAIN backups' = DOMAIN backups \cup files
      /\ \A f \in DOMAIN backups' :
            backups'[f] = IF f \in files
                          THEN plan[CHOOSE i \in Journaled(plan) : plan[i].file = f].before
                          ELSE backups[f]
  BY DEF WriteBackups
<1>3. origin' = [f \in {plan[i].file : i \in DOMAIN plan} |-> fs[f]]
  BY DEF WriteBackups
<1>4. DOMAIN origin' = {plan[i].file : i \in DOMAIN plan}
      /\ \A i \in DOMAIN plan : origin'[plan[i].file] = plan[i].before
  BY <1>1, <1>3
<1>5. ASSUME NEW i \in DOMAIN plan, plan[i].before # Absent
      PROVE  plan[i].file \in DOMAIN backups' /\ backups'[plan[i].file] = plan[i].before
  <2> DEFINE k == CHOOSE j \in Journaled(plan) : plan[j].file = plan[i].file
  <2>1. i \in Journaled(plan) /\ plan[i].file \in files
    BY <1>5 DEF Journaled
  <2>2. k \in Journaled(plan) /\ plan[k].file = plan[i].file
    BY <2>1
  <2>3. k \in DOMAIN plan
    BY <2>2 DEF Journaled
  <2>4. k = i
    BY <1>1, <2>2, <2>3 DEF Distinct
  <2>5. backups'[plan[i].file] = plan[k].before
    BY <1>2, <2>1
  <2> HIDE DEF k
  <2> QED
    BY <1>2, <2>1, <2>4, <2>5
<1> QED
  BY <1>4, <1>5 DEF Journalled

\* The manifest of a journalled plan is faithful.
LEMMA FaithfulByFill ==
    ASSUME NEW plan, NEW b, NEW o, Journalled(plan, b, o)
    PROVE  Faithful([i \in DOMAIN plan |-> [file |-> plan[i].file, kind |-> Kind(plan[i])]], b, o)
<1> DEFINE action == [i \in DOMAIN plan |-> [file |-> plan[i].file, kind |-> Kind(plan[i])]]
<1>1. DOMAIN action = DOMAIN plan
      /\ \A i \in DOMAIN plan : action[i].file = plan[i].file /\ action[i].kind = Kind(plan[i])
  OBVIOUS
<1> HIDE DEF action
<1>2. DOMAIN o = {action[i].file : i \in DOMAIN action}
  BY <1>1 DEF Journalled
<1>3. ASSUME NEW i \in DOMAIN action
      PROVE  IF action[i].kind = "existing"
             THEN action[i].file \in DOMAIN b => b[action[i].file] = o[action[i].file]
             ELSE o[action[i].file] = Absent
  BY <1>1 DEF Journalled, Kind
<1>4. Faithful(action, b, o)
  BY <1>2, <1>3 DEF Faithful
<1> QED
  BY <1>4 DEF action

\* Every step keeps the journal faithful.
LEMMA JournalStep ==
    Alone /\ FillNotKilled /\ TypeInv /\ PlanInv /\ JournalInv /\ [Next]_vars => JournalInv'
<1> SUFFICES ASSUME Alone, FillNotKilled, TypeInv, PlanInv, JournalInv, [Next]_vars
             PROVE  JournalInv'
  OBVIOUS
<1>h. HoldInv /\ \A t \in Terminal : DOMAIN local[t] = {"pc", "plan", "done", "held", "start", "left"}
  BY CommandFields DEF TypeInv, HoldInv
<1>o. \A s, t \in Terminal : s = t
  BY DEF Alone
<1>g. ASSUME NEW t \in Terminal, NEW pc, Goto(t, pc)
      PROVE  \A q \in Terminal : local'[q].pc = pc /\ local'[q].plan = local[t].plan
  <2>1. LET m == [local[t] EXCEPT !.pc = pc] IN m.pc = pc /\ m.plan = local[t].plan
    BY <1>h
  <2> QED
    BY <1>g, <1>h, <2>1, OnlyOneGoes
<1>1. ASSUME NEW t \in Terminal, Elsewhere(t) PROVE JournalInv'
  BY <1>1, ElsewhereMoves DEF JournalInv
<1>2. ASSUME NEW t \in Terminal, WriteBackups(t) PROVE JournalInv'
  <2>1. \A q \in Terminal : local'[q].pc = "create" /\ local'[q].plan = local[t].plan
    BY <1>2, <1>g DEF WriteBackups
  <2>2. Journalled(local[t].plan, backups', origin')
    BY <1>2, JournalledByBackups
  <2>3. ~manifest'.exists
    BY <1>2 DEF WriteBackups
  <2> QED
    BY <2>1, <2>2, <2>3 DEF JournalInv
<1>3. ASSUME NEW t \in Terminal, CreateManifest(t) PROVE JournalInv'
  <2>1. \A q \in Terminal : local'[q].pc = "fill" /\ local'[q].plan = local[t].plan
    BY <1>3, <1>g DEF CreateManifest
  <2>2. Journalled(local[t].plan, backups, origin) /\ backups' = backups /\ origin' = origin
    BY <1>3 DEF CreateManifest, At, JournalInv
  <2> QED
    BY <2>1, <2>2 DEF JournalInv
<1>4. ASSUME NEW t \in Terminal, FillManifest(t) PROVE JournalInv'
  <2> DEFINE plan == local[t].plan
             action == [i \in DOMAIN plan |-> [file |-> plan[i].file, kind |-> Kind(plan[i])]]
  <2>1. \A q \in Terminal : local'[q].pc = "write"
    BY <1>4, <1>g DEF FillManifest
  <2>2. Journalled(plan, backups, origin) /\ backups' = backups /\ origin' = origin
    BY <1>4 DEF FillManifest, At, JournalInv
  <2>3. manifest' = [manifest EXCEPT !.action = action]
    BY <1>4 DEF FillManifest
  <2>4. Faithful(action, backups, origin)
    BY <2>2, FaithfulByFill
  <2> HIDE DEF action
  <2>5. manifest'.action = action
    BY <2>3 DEF TypeInv, DiskInv
  <2> QED
    BY <2>1, <2>2, <2>4, <2>5 DEF JournalInv
<1>5. ASSUME NEW t \in Terminal, ConsumeBackup(t) PROVE JournalInv'
  <2>1. \A q \in Terminal : local[q].pc # "fill" /\ local'[q].pc \notin {"create", "fill"}
    <3>1. \A q \in Terminal : local'[q].pc \notin {"create", "fill"}
      BY <1>5, ApartMoves DEF Apart, Writing
    <3> QED
      BY <1>5, <1>o, <3>1 DEF ConsumeBackup, At
  <2>2. /\ manifest' = manifest /\ origin' = origin /\ DOMAIN backups' \subseteq DOMAIN backups
        /\ \A f \in DOMAIN backups' : backups'[f] = backups[f]
    BY <1>5 DEF ConsumeBackup, Without
  <2>3. Faithful(manifest.action, backups, origin) => Faithful(manifest.action, backups', origin)
    BY <2>2 DEF Faithful
  <2> QED
    BY <2>1, <2>2, <2>3 DEF JournalInv
<1>6. ASSUME NEW t \in Terminal, ConsumeManifest(t) PROVE JournalInv'
  <2>1. \A q \in Terminal : local[q].pc # "fill" /\ local'[q].pc \notin {"create", "fill"}
    <3>1. \A q \in Terminal : local'[q].pc \notin {"create", "fill"}
      BY <1>6, ApartMoves DEF Apart, Writing
    <3> QED
      BY <1>6, <1>o, <3>1 DEF ConsumeManifest, At
  <2>2. ~manifest'.exists
    BY <1>6 DEF ConsumeManifest, NoManifest
  <2> QED
    BY <2>1, <2>2 DEF JournalInv
<1>7. CASE Around
  BY <1>7, AroundMoves DEF JournalInv, Writing
<1>8. CASE UNCHANGED vars
  BY <1>8 DEF vars, JournalInv
<1> QED
  BY <1>1, <1>2, <1>3, <1>4, <1>5, <1>6, <1>7, <1>8, StepKinds DEF Elsewhere

\* A rollback begins with the whole journal before it.
LEMMA BehindAtStart ==
    ASSUME NEW action \in Seq(Noted), NEW d, NEW o
    PROVE  Behind(action, action, d, o)
<1>1. Len(action) \in Nat
  BY LenProperties
<1> QED
  BY <1>1 DEF Behind

\* A rollback that has gone through a faithful journal has put back its files.
LEMMA BehindAtEnd ==
    ASSUME NEW action \in Seq(Noted), NEW b, NEW d, NEW o, Faithful(action, b, o),
           Behind(<<>>, action, d, o)
    PROVE  Back(d, o)
<1>1. Len(<<>>) = 0 /\ Len(action) \in Nat /\ DOMAIN action = 1..Len(action)
  BY LenProperties, EmptySeq
<1>2. \A i \in DOMAIN action : i > 0
  BY <1>1
<1>3. \A i \in DOMAIN action : d[action[i].file] = o[action[i].file]
  BY <1>1, <1>2 DEF Behind
<1> QED
  BY <1>3 DEF Faithful, Back

\* One file is put back.
LEMMA BehindRestore ==
    ASSUME TypeInv, JournalInv, Alone, NEW t \in Terminal, Restore(t),
           manifest.exists, Behind(local[t].plan, manifest.action, fs, origin),
           LET entry == local[t].plan[Len(local[t].plan)] IN
               entry.kind = "existing" => entry.file \in DOMAIN backups,
           NEW q \in Terminal
    PROVE  /\ local'[q].pc = "restore"
           /\ Behind(local'[q].plan, manifest.action, fs', origin)
<1> DEFINE l == local[t]
           plan == l.plan
           n == Len(plan)
           entry == plan[n]
           less == SubSeq(plan, 1, n - 1)
           done == IF entry.kind = "existing" THEN Append(l.done, entry.file) ELSE l.done
           m == [l EXCEPT !.plan = less, !.done = done]
           action == manifest.action
<1>h. HoldInv /\ Command(l) /\ DOMAIN l = {"pc", "plan", "done", "held", "start", "left"} /\ fs \in Files
  BY CommandFields DEF TypeInv, HoldInv, DiskInv
<1>1. l.pc = "restore" /\ plan # <<>> /\ Become(t, m) /\ fs' = [fs EXCEPT ![entry.file] = Original(entry)]
  BY DEF Restore, At
<1>2. plan \in Seq(Noted) /\ action \in Seq(Noted)
  BY <1>h, <1>1, HoldsAt DEF RollbackHolds, Rolling, TypeInv, DiskInv
<1>3. /\ n \in Nat /\ n \in DOMAIN plan /\ entry \in Noted
      /\ less \in Seq(Noted) /\ Len(less) = n - 1 /\ \A i \in 1..(n - 1) : less[i] = plan[i]
  BY <1>1, <1>2, FrontOf
<1>4. DOMAIN plan = 1..n /\ Len(action) \in Nat /\ DOMAIN action = 1..Len(action)
  BY <1>2, LenProperties
<1>5. m.pc = "restore" /\ m.plan = less
  <2> HIDE DEF less, done
  <2> QED
    BY <1>h, <1>1
<1>6. local'[q] = m
  BY <1>h, <1>1, OnlyOne
<1>7. Faithful(action, backups, origin)
  BY <1>1 DEF JournalInv, Alone
<1>8. entry.file \in File /\ Original(entry) \in Value /\ (entry.file = "entry" => Original(entry) \in Content)
  BY <1>3 DEF Noted, PlanFile, Original, Value, TypeInv, DiskInv
<1>9. fs'[entry.file] = Original(entry) /\ \A f \in File : f # entry.file => fs'[f] = fs[f]
  BY <1>h, <1>1, <1>8, FileReplaced
<1>10. n <= Len(action) /\ (\A i \in 1..n : plan[i] = action[i])
       /\ (\A i \in 1..Len(action) : i > n => fs[action[i].file] = origin[action[i].file])
  BY DEF Behind
<1>e. entry.kind = "existing" => entry.file \in DOMAIN backups
  OBVIOUS
<1> HIDE DEF less, done, m, l, plan, action, n
<1>11. n \in 1..n /\ n \in DOMAIN action /\ entry = action[n]
  BY <1>3, <1>4, <1>10
<1>12. Original(entry) = origin[entry.file]
  BY <1>7, <1>11, <1>e DEF Faithful, Original
<1>13. \A i \in DOMAIN action : action[i].file \in File
  <2>1. \A i \in DOMAIN action : action[i] \in Noted
    BY <1>2, <1>4, ElementOfSeq
  <2> QED
    BY <2>1 DEF Noted, PlanFile
<1>14. ASSUME NEW i \in 1..Len(action), i > n - 1 PROVE fs'[action[i].file] = origin[action[i].file]
  <2>1. i = n \/ i > n
    BY <1>3, <1>14
  <2>2. i \in DOMAIN action
    BY <1>4
  <2>3. CASE action[i].file = entry.file
    BY <1>9, <1>12, <2>3
  <2>4. CASE action[i].file # entry.file
    BY <1>9, <1>10, <1>11, <1>13, <2>1, <2>2, <2>4
  <2> QED
    BY <2>3, <2>4
<1>15. n - 1 <= Len(action) /\ \A i \in 1..(n - 1) : less[i] = action[i]
  <2>1. \A i \in 1..(n - 1) : i \in 1..n
    BY <1>3
  <2> QED
    BY <1>3, <1>4, <1>10, <2>1
<1>16. Behind(less, action, fs', origin)
  BY <1>3, <1>14, <1>15 DEF Behind
<1> QED
  BY <1>5, <1>6, <1>16 DEF action

\* The steps of a rollback that go on with it.
RollsOn(t) ==
    \/ ReadManifest(t) \/ Restore(t) \/ Restored(t) \/ ConsumeBackup(t) \/ ConsumeManifest(t)
    \/ RemoveRouteAccess(t)

\* The other steps are not of a rollback, and none ends well as one.
LEMMA NotRolling ==
    ASSUME Alone, TypeInv, NEW t \in Terminal,
           \/ \E mode \in {"standalone", "embedded"}, interactive \in BOOLEAN : Plan(t, mode, interactive)
           \/ Confirm(t) \/ Journals(t) \/ WriteChange(t) \/ WriteFails(t) \/ Undoes(t)
           \/ Apart(t) /\ ~RollsOn(t)
    PROVE  outcome' = "none" /\ \A q \in Terminal : local'[q].pc \notin Rolling
<1> DEFINE l == local[t]
<1>h. HoldInv /\ Command(l) /\ DOMAIN l = {"pc", "plan", "done", "held", "start", "left"}
  BY CommandFields DEF TypeInv, HoldInv
<1>o. \A q \in Terminal : q = t
  BY DEF Alone
<1>i. Idle.pc \notin Rolling
  BY IdleCommand DEF Rolling
<1>b. ASSUME NEW x, Become(t, x), x.pc \notin Rolling PROVE \A q \in Terminal : local'[q].pc \notin Rolling
  BY <1>b, <1>h, OnlyOne
<1>1. ASSUME NEW mode \in {"standalone", "embedded"}, NEW interactive \in BOOLEAN,
             Plan(t, mode, interactive)
      PROVE  outcome' = "none" /\ \A q \in Terminal : local'[q].pc \notin Rolling
  <2>1. \A q \in Terminal : local'[q].pc \in {"review", "journal"}
    BY <1>1, PlanMoves
  <2> QED
    BY <1>1, <2>1 DEF Plan, Quiet, Rolling
<1>2. CASE Confirm(t)
  <2>1. Become(t, [l EXCEPT !.pc = "journal", !.start = fs]) /\ outcome' = "none"
    BY <1>2 DEF Confirm, Quiet
  <2>2. [l EXCEPT !.pc = "journal", !.start = fs].pc = "journal"
    BY <1>h
  <2> QED
    BY <1>b, <2>1, <2>2 DEF Rolling
<1>3. CASE Journals(t)
  <2>1. \A q \in Terminal : local'[q].pc \in Writing
    BY <1>3, JournalMoves
  <2> QED
    BY <1>3, <2>1 DEF Journals, KeepJournal, WriteBackups, CreateManifest, FillManifest, Quiet,
       Writing, Rolling
<1>4. CASE WriteChange(t)
  <2>1. \A q \in Terminal : local'[q].pc = "write"
    BY <1>4, WriteMoves
  <2> QED
    BY <1>4, <2>1 DEF WriteChange, Quiet, Rolling
<1>5. CASE WriteFails(t)
  <2>1. Become(t, [l EXCEPT !.pc = "undo"]) /\ outcome' = "none"
    BY <1>5, <1>h, GotoMoves DEF WriteFails, Quiet, HoldInv
  <2>2. [l EXCEPT !.pc = "undo"].pc = "undo"
    BY <1>h
  <2> QED
    BY <1>b, <2>1, <2>2 DEF Rolling
<1>6. CASE Undoes(t)
  BY <1>6, UndoMoves DEF Rolling
<1>7. CASE Apart(t) /\ ~RollsOn(t)
  <2>1. CASE \/ Refuse(t) \/ Applied(t) \/ DirectoryFails(t) \/ RestoreFails(t) \/ ProbesPass(t)
             \/ ProbeFails(t) \/ OffboardWrite(t) \/ ApplyAttachment(t) \/ Kill(t)
    <3>1. Ends(t, "none")
      BY <2>1 DEF Refuse, Applied, DirectoryFails, RestoreFails, ProbesPass, ProbeFails, OffboardWrite,
         ApplyAttachment, Kill
    <3> QED
      BY <1>b, <1>i, <3>1 DEF Ends
  <2>2. CASE Cutover(t) \/ Offboard(t)
    <3>1. ASSUME NEW pc \in {"probe", "offboard"}, NEW h
          PROVE  [Idle EXCEPT !.pc = pc, !.held = h].pc = pc /\ pc \notin Rolling
      BY IdleFields DEF Rolling
    <3> QED
      BY <1>b, <2>2, <3>1 DEF Cutover, Offboard, ReadStatus, Quiet
  <2>3. CASE PlanAttachment(t)
    <3>1. ASSUME NEW h PROVE [Idle EXCEPT !.pc = "attach", !.held = h].pc = "attach"
      BY IdleFields
    <3> QED
      BY <1>b, <2>3, <3>1 DEF PlanAttachment, Quiet, Rolling
  <2>4. CASE Detach(t)
    BY <1>o, <2>4 DEF Detach, At, Quiet, Rolling
  <2> QED
    BY <1>7, <2>1, <2>2, <2>3, <2>4 DEF Apart, RollsOn
<1> QED
  BY <1>1, <1>2, <1>3, <1>4, <1>5, <1>6, <1>7

\* Every step of a rollback keeps what it has put back.
LEMMA RestoreStep ==
    Alone /\ TypeInv /\ JournalInv /\ RestoreInv /\ [Next]_vars => RestoreInv'
<1> SUFFICES ASSUME Alone, TypeInv, JournalInv, RestoreInv, [Next]_vars
             PROVE  RestoreInv'
  OBVIOUS
<1>h. HoldInv /\ fs \in Files /\ \A t \in Terminal : DOMAIN local[t] = {"pc", "plan", "done", "held", "start", "left"}
  BY CommandFields DEF TypeInv, HoldInv, DiskInv
<1>o. \A s, t \in Terminal : s = t
  BY DEF Alone
<1>g. ASSUME NEW t \in Terminal, NEW pc, Goto(t, pc) PROVE \A q \in Terminal : local'[q].pc = pc
  <2>1. [local[t] EXCEPT !.pc = pc].pc = pc
    BY <1>h
  <2> QED
    BY <1>g, <1>h, <2>1, OnlyOneGoes
<1>i. ASSUME NEW t \in Terminal, NEW how, Ends(t, how)
      PROVE  outcome' = how /\ \A q \in Terminal : local'[q].pc = "idle"
  BY <1>i, <1>h, OnlyOne, IdleCommand DEF Ends
<1>1. ASSUME outcome' = "none", \A q \in Terminal : local'[q].pc \notin Rolling PROVE RestoreInv'
  BY <1>1 DEF RestoreInv, Rolling
<1>2. ASSUME NEW t \in Terminal, ReadManifest(t) PROVE RestoreInv'
  <2> DEFINE x == [Idle EXCEPT !.pc = "restore", !.plan = manifest.action]
  <2>1. Become(t, x) /\ manifest.exists /\ UNCHANGED <<fs, manifest, origin>> /\ outcome' = "none"
    BY <1>2 DEF ReadManifest, Quiet
  <2>2. x.pc = "restore" /\ x.plan = manifest.action
    BY IdleFields
  <2>3. \A q \in Terminal : local'[q] = x
    BY <1>h, <2>1, OnlyOne
  <2>4. Behind(manifest.action, manifest.action, fs, origin)
    BY BehindAtStart DEF TypeInv, DiskInv
  <2> HIDE DEF x
  <2> QED
    BY <2>1, <2>2, <2>3, <2>4 DEF RestoreInv
<1>3. ASSUME NEW t \in Terminal, Restore(t) PROVE RestoreInv'
  <2> DEFINE entry == local[t].plan[Len(local[t].plan)]
  <2>1. CASE entry.kind = "existing" /\ entry.file \notin DOMAIN backups
    <3>1. Ends(t, "none")
      BY <1>3, <2>1 DEF Restore
    <3> QED
      BY <1>1, <1>i, <3>1 DEF Rolling
  <2>2. CASE ~ (entry.kind = "existing" /\ entry.file \notin DOMAIN backups)
    <3>1. manifest.exists /\ Behind(local[t].plan, manifest.action, fs, origin)
      BY <1>3 DEF Restore, At, RestoreInv
    <3>2. outcome' = "none" /\ manifest' = manifest /\ origin' = origin
      BY <1>3, <2>2 DEF Restore, Quiet
    <3>3. ASSUME NEW q \in Terminal
          PROVE  local'[q].pc = "restore" /\ Behind(local'[q].plan, manifest.action, fs', origin)
      BY <1>3, <2>2, <3>1, BehindRestore
    <3> QED
      BY <3>1, <3>2, <3>3 DEF RestoreInv
  <2> QED
    BY <2>1, <2>2
<1>4. ASSUME NEW t \in Terminal, Restored(t) PROVE RestoreInv'
  <2>1. \A q \in Terminal : local'[q].pc = "consume"
    BY <1>4, <1>g DEF Restored
  <2>2. outcome' = "none" /\ fs' = fs /\ origin' = origin /\ local[t].pc = "restore" /\ local[t].plan = <<>>
    BY <1>4 DEF Restored, Quiet, At
  <2>3. manifest.exists /\ Behind(<<>>, manifest.action, fs, origin)
    BY <2>2 DEF RestoreInv
  <2>4. Faithful(manifest.action, backups, origin)
    BY <1>o, <2>2, <2>3 DEF JournalInv
  <2>5. manifest.action \in Seq(Noted)
    BY DEF TypeInv, DiskInv
  <2>6. Back(fs, origin)
    BY <2>3, <2>4, <2>5, BehindAtEnd
  <2> QED
    BY <2>1, <2>2, <2>6 DEF RestoreInv
<1>5. ASSUME NEW t \in Terminal, ConsumeBackup(t) PROVE RestoreInv'
  <2>1. ASSUME NEW d PROVE [local[t] EXCEPT !.done = d].pc = "consume"
    BY <1>5, <1>h DEF ConsumeBackup, At
  <2>2. \A q \in Terminal : local'[q].pc = "consume"
    BY <1>5, <1>h, <2>1, OnlyOne DEF ConsumeBackup
  <2>3. outcome' = "none" /\ fs' = fs /\ origin' = origin /\ Back(fs, origin)
    BY <1>5 DEF ConsumeBackup, Quiet, At, RestoreInv
  <2> QED
    BY <2>2, <2>3 DEF RestoreInv
<1>6. ASSUME NEW t \in Terminal, ConsumeManifest(t) PROVE RestoreInv'
  <2>1. fs' = fs /\ origin' = origin /\ Back(fs, origin)
    BY <1>6 DEF ConsumeManifest, At, RestoreInv
  <2>2. CASE manifest.exists
    <3>1. outcome' = "none" /\ \A q \in Terminal : local'[q].pc = "routes"
      BY <1>6, <1>g, <2>2 DEF ConsumeManifest, Quiet
    <3> QED
      BY <2>1, <3>1 DEF RestoreInv
  <2>3. CASE ~manifest.exists
    <3>1. Ends(t, "none")
      BY <1>6, <2>3 DEF ConsumeManifest
    <3> QED
      BY <1>1, <1>i, <3>1 DEF Rolling
  <2> QED
    BY <2>2, <2>3
<1>7. ASSUME NEW t \in Terminal, RemoveRouteAccess(t) PROVE RestoreInv'
  <2>1. Back(fs, origin) /\ origin' = origin /\ fs' = [fs EXCEPT !["routes"] = Absent]
    BY <1>7 DEF RemoveRouteAccess, At, RestoreInv
  <2>2. \A q \in Terminal : local'[q].pc = "idle"
    BY <1>7, <1>i DEF RemoveRouteAccess
  <2>3. "routes" \in File /\ Absent \in Value /\ "routes" # "entry"
    BY DEF File, Value
  <2>4. fs'["routes"] = Absent /\ \A f \in File : f # "routes" => fs'[f] = fs[f]
    BY <1>h, <2>1, <2>3, FileReplaced
  <2>5. \A f \in DOMAIN origin : f \in File /\ f # "routes"
    BY DEF TypeInv, DiskInv, PlanFile
  <2>6. Back(fs', origin')
    BY <2>1, <2>4, <2>5 DEF Back
  <2> QED
    BY <2>2, <2>4, <2>6 DEF RestoreInv
<1>8. CASE Around
  BY <1>8, <1>1, AroundMoves
<1>9. CASE UNCHANGED vars
  BY <1>9 DEF vars, RestoreInv
<1>10. ASSUME NEW t \in Terminal,
              \/ \E mode \in {"standalone", "embedded"}, interactive \in BOOLEAN :
                     Plan(t, mode, interactive)
              \/ Confirm(t) \/ Journals(t) \/ WriteChange(t) \/ WriteFails(t) \/ Undoes(t)
              \/ Apart(t) /\ ~RollsOn(t)
       PROVE  RestoreInv'
  BY <1>1, <1>10, NotRolling
<1>11. ASSUME NEW t \in Terminal, RollsOn(t) PROVE RestoreInv'
  BY <1>2, <1>3, <1>4, <1>5, <1>6, <1>7, <1>11 DEF RollsOn
<1> QED
  BY <1>8, <1>9, <1>10, <1>11, StepKinds DEF Journals

\* With one command at a time, nobody editing the files while it writes them,
\* and no kill between creating the manifest and filling it, a rollback that
\* ends well has put back every file of the plan its journal was begun for,
\* whatever was killed, failed or was run again in between, and has removed
\* the route authority (create_rollback_journal, rollback_integration).
THEOREM RollbackRestoresHolds == Alone /\ FillNotKilled => (Spec => []RollbackRestores)
<1> SUFFICES ASSUME Alone, FillNotKilled PROVE Spec => []RollbackRestores
  OBVIOUS
<1>1. Init => PlanInv /\ JournalInv /\ RestoreInv
  BY IdleCommand DEF Init, PlanInv, JournalInv, RestoreInv, Writing, NoManifest
<1>2. RestoreInv => RollbackRestores
  BY DEF RestoreInv, RollbackRestores, Back
<1>3. TypeInv /\ PlanInv /\ JournalInv /\ RestoreInv /\ [Next]_vars => PlanInv' /\ JournalInv' /\ RestoreInv'
  BY PlanStep, JournalStep, RestoreStep
<1> QED
  BY <1>1, <1>2, <1>3, AdoptionTypes, PTL DEF Spec
===============================================================================
