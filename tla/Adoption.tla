------------------------------- MODULE Adoption -------------------------------
(***************************************************************************)
(* Adopting an application from the command line: init, attach, detach,    *)
(* cutover, offboard-auth and rollback (crates/cli/src/init.rs).           *)
(*                                                                         *)
(* The commands share nothing but the files of the application's           *)
(* directory.  A terminal runs one command at a time; an action is what a  *)
(* command does up to its next change of a file, so that it can be killed, *)
(* or another terminal can run, in between.  A file is the user's text (a  *)
(* number) and AuthBoundry's mark on it.                                   *)
(***************************************************************************)
EXTENDS Naturals, Sequences, FiniteSets

CONSTANTS
    Terminal,     \* where commands are typed
    Absent,       \* a file that does not exist
    Bridgeable,   \* the texts of the entrypoint that can be bridged
    Unsafe,       \* those whose framework is known and constructor is not found
    FaultAt,      \* the steps that may be killed or meet an I/O error
    EditsAt,      \* the steps of a command at which the user may edit
    MaxEdits, MaxFaults, MaxCommands  \* bounds

ASSUME AdoptionAssumption ==
    /\ Bridgeable \cap Unsafe = {}
    /\ {MaxEdits, MaxFaults, MaxCommands} \subseteq Nat

VARIABLES
    fs,        \* the application's files
    manifest,  \* .authboundry/rollback/manifest.tsv
    backups,   \* the *.backup files beside it
    local,     \* what each terminal's command holds in memory
    edits, faults, commands,  \* counters, for the bounds
    origin,    \* history: the files of the plan when the journal was begun
    outcome    \* history: "rolledback" in the step after a rollback ended well

vars == <<fs, manifest, backups, local, edits, faults, commands, origin, outcome>>

File == {"config", "adoption", "accounts", "integration", "support", "provider", "entry", "routes"}
Text == 0..(MaxEdits + 1)
Mark == {"none", "full", "alien", "standalone", "embedded", "attached", "generated",
         "planned", "verified", "offboarded", "bridge"}
Content == [text : Text, mark : Mark]

ASSUME AbsentAssumption == Absent \notin Content

\* The manifest is created empty and then filled: fs::write, unlike the
\* changes, does not go through a temporary file.
NoManifest == [exists |-> FALSE, action |-> <<>>]

New(mark) == [text |-> 0, mark |-> mark]
Marked(content, mark) == [content EXCEPT !.mark = mark]
Change(file, before, after) == [file |-> file, before |-> before, after |-> after]
When(condition, change) == IF condition THEN <<change>> ELSE <<>>

-----------------------------------------------------------------------------
(* What init plans to change, from the files as they are. *)

boundary_integrated(d) == d["config"] # Absent /\ d["adoption"] # Absent

config_change(d) ==
    When(d["config"] = Absent, Change("config", Absent, New("full")))

\* A declaration without the known marker is left as it is.
config_upgrade_change(d) ==
    When(d["config"] # Absent /\ d["config"].mark = "none",
         Change("config", d["config"], Marked(d["config"], "full")))

manifest_change(d, mode) ==
    When(~boundary_integrated(d), Change("adoption", d["adoption"], New(mode)))

development_accounts_change(d) ==
    When(d["accounts"] = Absent, Change("accounts", Absent, New("generated")))

integration_change(d) ==
    When(d["integration"] = Absent, Change("integration", Absent, New("planned")))

\* The environment samples, the ignore list, the mail templates and the Vite
\* guard: created, or completed where they exist.
gitignore_change(d) ==
    When(d["support"] = Absent \/ d["support"].mark = "none",
         Change("support", d["support"],
                IF d["support"] = Absent THEN New("full") ELSE Marked(d["support"], "full")))

AlreadyBridged(content) == content.mark = "bridge"

framework_integration_changes(d) ==
    IF ~AlreadyBridged(d["entry"]) /\ d["entry"].text \in Bridgeable
    THEN <<Change("provider", d["provider"], New("generated")),
           Change("entry", d["entry"], Marked(d["entry"], "bridge"))>>
    ELSE <<>>

build_plan(d, mode) ==
    config_change(d) \o manifest_change(d, mode) \o config_upgrade_change(d)
        \o development_accounts_change(d) \o integration_change(d)
        \o gitignore_change(d) \o framework_integration_changes(d)

\* A known framework whose constructor cannot be found stops init.
Plannable(d) == AlreadyBridged(d["entry"]) \/ d["entry"].text \notin Unsafe

Bug_ApplyStalePlan(plan) == TRUE
plan_inputs_unchanged(plan) == \A i \in DOMAIN plan : fs[plan[i].file] = plan[i].before

-----------------------------------------------------------------------------

\* start and left are history: the files when init begins to write, and those
\* that its undo could not put back.
Idle ==
    [pc |-> "idle", plan |-> <<>>, done |-> <<>>, held |-> Absent, start |-> <<>>, left |-> {}]

\* The declaration and the supporting files may be the user's own.
Init ==
    /\ fs \in {[f \in File |->
                   CASE f = "entry" -> [text |-> x, mark |-> "none"]
                     [] f = "config" -> config
                     [] f = "support" -> support
                     [] OTHER -> Absent] :
               x \in {0, 1}, config \in {Absent, New("none"), New("full"), New("alien")},
               support \in {Absent, New("none")}}
    /\ manifest = NoManifest
    /\ backups = <<>>
    /\ local = [t \in Terminal |-> Idle]
    /\ edits = 0 /\ faults = 0 /\ commands = 0
    /\ origin = <<>>
    /\ outcome = "none"

At(t, pc) == local[t].pc = pc
Become(t, state) == local' = [local EXCEPT ![t] = state]
Goto(t, pc) == local' = [local EXCEPT ![t].pc = pc]
Ends(t, how) == Become(t, Idle) /\ outcome' = how

Quiet == outcome' = "none"
Start == commands < MaxCommands /\ commands' = commands + 1
Fault(pc) == pc \in FaultAt /\ faults < MaxFaults /\ faults' = faults + 1

Without(function, f) == [x \in DOMAIN function \ {f} |-> function[x]]

-----------------------------------------------------------------------------
(* init *)

\* --json and --dry-run stop here, and so does a plan without changes.
Plan(t, mode, interactive) ==
    LET plan == build_plan(fs, mode) IN
    /\ At(t, "idle") /\ Start
    /\ Plannable(fs) /\ plan # <<>>
    /\ Become(t, [Idle EXCEPT !.pc = IF interactive THEN "review" ELSE "journal",
                              !.plan = plan, !.start = fs])
    /\ Quiet
    /\ UNCHANGED <<fs, manifest, backups, edits, faults, origin>>

Confirm(t) ==
    /\ At(t, "review")
    /\ plan_inputs_unchanged(local[t].plan)
    /\ Become(t, [local[t] EXCEPT !.pc = "journal", !.start = fs])
    /\ Quiet
    /\ UNCHANGED <<fs, manifest, backups, edits, faults, commands, origin>>

\* The answer is no, or the application changed under the review.
Refuse(t) ==
    /\ At(t, "review")
    /\ Ends(t, "none")
    /\ UNCHANGED <<fs, manifest, backups, edits, faults, commands, origin>>

\* A journal that is there is kept, whatever plan it was made for.
KeepJournal(t) ==
    /\ At(t, "journal") /\ manifest.exists
    /\ Goto(t, "write")
    /\ Quiet
    /\ UNCHANGED <<fs, manifest, backups, edits, faults, commands, origin>>

\* How the journal names a change.
Kind(change) == IF change.before # Absent THEN "existing" ELSE "created"
Journaled(plan) == {i \in DOMAIN plan : plan[i].before # Absent}

WriteBackups(t) ==
    LET plan == local[t].plan
        files == {plan[i].file : i \in Journaled(plan)}
    IN
    /\ At(t, "journal") /\ ~manifest.exists
    /\ backups' = [f \in DOMAIN backups \cup files |->
                      IF f \in files
                      THEN plan[CHOOSE i \in Journaled(plan) : plan[i].file = f].before
                      ELSE backups[f]]
    /\ origin' = [f \in {plan[i].file : i \in DOMAIN plan} |-> fs[f]]
    /\ Goto(t, "create")
    /\ Quiet
    /\ UNCHANGED <<fs, manifest, edits, faults, commands>>

CreateManifest(t) ==
    /\ At(t, "create")
    /\ manifest' = [exists |-> TRUE, action |-> <<>>]
    /\ Goto(t, "fill")
    /\ Quiet
    /\ UNCHANGED <<fs, backups, edits, faults, commands, origin>>

FillManifest(t) ==
    LET plan == local[t].plan IN
    /\ At(t, "fill")
    /\ manifest' = [manifest EXCEPT !.action =
           [i \in DOMAIN plan |-> [file |-> plan[i].file, kind |-> Kind(plan[i])]]]
    /\ Goto(t, "write")
    /\ Quiet
    /\ UNCHANGED <<fs, backups, edits, faults, commands, origin>>

\* What the file held is remembered for the in-process rollback.
Bug_RememberReplaced(done, file, before) ==
    IF before = Absent THEN done ELSE Append(done, [file |-> file, before |-> before])
Remember(done, file, before) == Append(done, [file |-> file, before |-> before])

WriteChange(t) ==
    LET me == local[t]  change == Head(me.plan) IN
    /\ At(t, "write") /\ me.plan # <<>>
    /\ fs' = [fs EXCEPT ![change.file] = change.after]
    /\ Become(t, [me EXCEPT !.plan = Tail(@),
                            !.done = Remember(@, change.file, fs[change.file])])
    /\ Quiet
    /\ UNCHANGED <<manifest, backups, edits, faults, commands, origin>>

\* verify_root reads; whatever it finds, the changes stay.
Applied(t) ==
    /\ At(t, "write") /\ local[t].plan = <<>>
    /\ Ends(t, "none")
    /\ UNCHANGED <<fs, manifest, backups, edits, faults, commands, origin>>

\* The directory of the next file cannot be made: init ends, and what it wrote
\* before stays, for a rollback to undo.  A file that is there has its directory;
\* "support" stands for several files.
DirectoryFails(t) ==
    LET me == local[t]  file == Head(me.plan).file IN
    /\ At(t, "write") /\ me.plan # <<>>
    /\ fs[file] = Absent \/ file = "support"
    /\ Fault("write")
    /\ Ends(t, "none")
    /\ UNCHANGED <<fs, manifest, backups, edits, commands, origin>>

\* The next file cannot be written, or the marker that fails init after a write
\* is there.  The credentials may be in place when protecting them fails: the
\* file is then not among the written ones.
WriteFails(t) ==
    LET me == local[t]  change == Head(me.plan) IN
    /\ At(t, "write")
    /\ me.plan # <<>> \/ me.done # <<>>
    /\ Fault("write")
    /\ \/ UNCHANGED fs
       \/ /\ me.plan # <<>> /\ change.file = "accounts"
          /\ fs' = [fs EXCEPT ![change.file] = change.after]
    /\ Goto(t, "undo")
    /\ Quiet
    /\ UNCHANGED <<manifest, backups, edits, commands, origin>>

\* The in-process rollback.  The journal stays.
Undo(t) ==
    LET me == local[t]  last == me.done[Len(me.done)] IN
    /\ At(t, "undo")
    /\ IF me.done = <<>>
       THEN Ends(t, "none") /\ UNCHANGED fs
       ELSE /\ fs' = [fs EXCEPT ![last.file] = last.before]
            /\ Become(t, [me EXCEPT !.done = SubSeq(@, 1, Len(@) - 1)])
            /\ Quiet
    /\ UNCHANGED <<manifest, backups, edits, faults, commands, origin>>

\* What is left of a file whose writing in place failed.
Cut(file) == New(IF file = "support" THEN "none" ELSE "alien")

\* An error of the undo itself is ignored: the file stays as init wrote it, or is
\* left cut, and the undo goes on.  What makes a write fail makes its undo fail
\* too, so this is not counted as one more fault.
UndoFails(t) ==
    LET me == local[t]  last == me.done[Len(me.done)] IN
    /\ At(t, "undo") /\ me.done # <<>>
    /\ "undo" \in FaultAt
    /\ \/ UNCHANGED fs
       \/ last.before # Absent /\ fs' = [fs EXCEPT ![last.file] = Cut(last.file)]
    /\ Become(t, [me EXCEPT !.done = SubSeq(@, 1, Len(@) - 1), !.left = @ \cup {last.file}])
    /\ Quiet
    /\ UNCHANGED <<manifest, backups, edits, faults, commands, origin>>

-----------------------------------------------------------------------------
(* rollback: the journal backwards, then its backups, then itself. *)

ReadManifest(t) ==
    /\ At(t, "idle") /\ Start
    /\ manifest.exists
    /\ Become(t, [Idle EXCEPT !.pc = "restore", !.plan = manifest.action])
    /\ Quiet
    /\ UNCHANGED <<fs, manifest, backups, edits, faults, origin>>

Bug_KeepCreated(entry) == IF entry.kind = "existing" THEN backups[entry.file] ELSE fs[entry.file]
Original(entry) == IF entry.kind = "existing" THEN backups[entry.file] ELSE Absent

Restore(t) ==
    LET me == local[t]  entry == me.plan[Len(me.plan)] IN
    /\ At(t, "restore") /\ me.plan # <<>>
    /\ IF entry.kind = "existing" /\ entry.file \notin DOMAIN backups
       THEN Ends(t, "none") /\ UNCHANGED fs
       ELSE /\ fs' = [fs EXCEPT ![entry.file] = Original(entry)]
            /\ Become(t, [me EXCEPT !.plan = SubSeq(@, 1, Len(@) - 1),
                                    !.done = IF entry.kind = "existing"
                                             THEN Append(@, entry.file) ELSE @])
            /\ Quiet
    /\ UNCHANGED <<manifest, backups, edits, faults, commands, origin>>

RestoreFails(t) ==
    /\ At(t, "restore") /\ local[t].plan # <<>>
    /\ Fault("restore")
    /\ Ends(t, "none")
    /\ UNCHANGED <<fs, manifest, backups, edits, commands, origin>>

Restored(t) ==
    /\ At(t, "restore") /\ local[t].plan = <<>>
    /\ Goto(t, "consume")
    /\ Quiet
    /\ UNCHANGED <<fs, manifest, backups, edits, faults, commands, origin>>

ConsumeBackup(t) ==
    LET me == local[t] IN
    /\ At(t, "consume") /\ me.done # <<>>
    /\ backups' = Without(backups, Head(me.done))
    /\ Become(t, [me EXCEPT !.done = Tail(@)])
    /\ Quiet
    /\ UNCHANGED <<fs, manifest, edits, faults, commands, origin>>

\* Another rollback may have consumed the manifest: then this one fails.
ConsumeManifest(t) ==
    /\ At(t, "consume") /\ local[t].done = <<>>
    /\ IF manifest.exists
       THEN manifest' = NoManifest /\ Goto(t, "routes") /\ Quiet
       ELSE Ends(t, "none") /\ UNCHANGED manifest
    /\ UNCHANGED <<fs, backups, edits, faults, commands, origin>>

RemoveRouteAccess(t) ==
    /\ At(t, "routes")
    /\ fs' = [fs EXCEPT !["routes"] = Absent]
    /\ Ends(t, "rolledback")
    /\ UNCHANGED <<manifest, backups, edits, faults, commands, origin>>

-----------------------------------------------------------------------------
(* cutover and offboard-auth: the status is checked, and then replaced in  *)
(* the text that was read before the checks.                               *)

ReadStatus(t, status, pc) ==
    /\ At(t, "idle") /\ Start
    /\ fs["integration"] # Absent /\ fs["integration"].mark = status
    /\ manifest.exists
    /\ Become(t, [Idle EXCEPT !.pc = pc, !.held = fs["integration"]])
    /\ Quiet
    /\ UNCHANGED <<fs, manifest, backups, edits, faults, origin>>

\* The probes of the running boundary pass: the sign-in needs the accounts.
Cutover(t) == ReadStatus(t, "planned", "probe") /\ fs["entry"].mark = "bridge"
ProbesPass(t) ==
    /\ At(t, "probe") /\ fs["accounts"] # Absent
    /\ fs' = [fs EXCEPT !["integration"] = Marked(local[t].held, "verified")]
    /\ Ends(t, "none")
    /\ UNCHANGED <<manifest, backups, edits, faults, commands, origin>>
ProbeFails(t) ==
    /\ At(t, "probe")
    /\ Ends(t, "none")
    /\ UNCHANGED <<fs, manifest, backups, edits, faults, commands, origin>>

Offboard(t) == ReadStatus(t, "verified", "offboard")
OffboardWrite(t) ==
    /\ At(t, "offboard")
    /\ fs' = [fs EXCEPT !["integration"] = Marked(local[t].held, "offboarded")]
    /\ Ends(t, "none")
    /\ UNCHANGED <<manifest, backups, edits, faults, commands, origin>>

-----------------------------------------------------------------------------
(* attach, dev and detach rewrite the adoption file; an attachment is      *)
(* always standalone, whatever the mode was.                               *)

PlanAttachment(t) ==
    /\ At(t, "idle") /\ Start
    /\ fs["adoption"] # Absent
    /\ Become(t, [Idle EXCEPT !.pc = "attach", !.held = fs["adoption"]])
    /\ Quiet
    /\ UNCHANGED <<fs, manifest, backups, edits, faults, origin>>

\* Refused when the file changed since, or the upstream is not reachable.
ApplyAttachment(t) ==
    /\ At(t, "attach")
    /\ \/ fs["adoption"] = local[t].held /\ fs' = [fs EXCEPT !["adoption"] = New("attached")]
       \/ UNCHANGED fs
    /\ Ends(t, "none")
    /\ UNCHANGED <<manifest, backups, edits, faults, commands, origin>>

DetachedMode(mode) == IF mode = "embedded" THEN "embedded" ELSE "standalone"

Detach(t) ==
    /\ At(t, "idle") /\ Start
    /\ fs["adoption"] # Absent
    /\ fs' = [fs EXCEPT !["adoption"] = New(DetachedMode(@.mark))]
    /\ Quiet
    /\ UNCHANGED <<manifest, backups, local, edits, faults, origin>>

-----------------------------------------------------------------------------
(* The surroundings: the user's editor, Studio's route file, a kill. *)

Calm == \A t \in Terminal : local[t].pc \in {"idle"} \cup EditsAt

\* The user edits the entrypoint, or writes a declaration that may lack
\* options.
Edit(f, mark) ==
    /\ Calm /\ edits < MaxEdits
    /\ edits' = edits + 1
    /\ \/ f = "entry" /\ mark = fs[f].mark
       \/ f = "config" /\ mark \in {"none", "full"}
    /\ fs' = [fs EXCEPT ![f] = [text |-> edits + 2, mark |-> mark]]
    /\ Quiet
    /\ UNCHANGED <<manifest, backups, local, faults, commands, origin>>

SaveRoutes ==
    /\ Calm /\ fs["adoption"] # Absent /\ fs["routes"] = Absent
    /\ fs' = [fs EXCEPT !["routes"] = New("generated")]
    /\ Quiet
    /\ UNCHANGED <<manifest, backups, local, edits, faults, commands, origin>>

Kill(t) ==
    /\ ~At(t, "idle")
    /\ Fault(local[t].pc)
    /\ Ends(t, "none")
    /\ UNCHANGED <<fs, manifest, backups, edits, commands, origin>>

Next ==
    \/ \E t \in Terminal :
         \/ \E mode \in {"standalone", "embedded"}, interactive \in BOOLEAN :
                Plan(t, mode, interactive)
         \/ Confirm(t) \/ Refuse(t)
         \/ KeepJournal(t) \/ WriteBackups(t) \/ CreateManifest(t) \/ FillManifest(t)
         \/ WriteChange(t) \/ Applied(t) \/ DirectoryFails(t) \/ WriteFails(t)
         \/ Undo(t) \/ UndoFails(t)
         \/ ReadManifest(t) \/ Restore(t) \/ RestoreFails(t) \/ Restored(t)
         \/ ConsumeBackup(t) \/ ConsumeManifest(t) \/ RemoveRouteAccess(t)
         \/ Cutover(t) \/ ProbesPass(t) \/ ProbeFails(t) \/ Offboard(t) \/ OffboardWrite(t)
         \/ PlanAttachment(t) \/ ApplyAttachment(t) \/ Detach(t)
         \/ Kill(t)
    \/ \E f \in {"entry", "config"}, mark \in {"none", "full", "bridge"} : Edit(f, mark)
    \/ SaveRoutes

Spec == Init /\ [][Next]_vars
-----------------------------------------------------------------------------
(* Properties *)

\* What init writes replaces exactly what its plan was made from: an edit
\* made while the plan was under review stops it (plan_inputs_unchanged).
AppliesReviewedPlan ==
    \A t \in Terminal :
        local[t].pc \in {"journal", "create", "fill", "write"} =>
            \A i \in DOMAIN local[t].plan : fs[local[t].plan[i].file] = local[t].plan[i].before

\* When a write fails, the changes init had made are undone to the last one:
\* at the end only a file whose own undo failed differs, and the development
\* credentials, which apply_plan does not count when their permissions could
\* not be set.  (A directory that cannot be made undoes nothing: then only
\* `rollback` leads back, see RollbackRestores.)
FailedInitUndone ==
    \A t \in Terminal : At(t, "undo") /\ local[t].done = <<>> =>
        \A f \in File \ ({"accounts"} \cup local[t].left) : fs[f] = local[t].start[f]

\* A rollback that ends well has put back every file of the plan that the
\* journal was begun for, whatever was killed, failed or was run again in
\* between, and leaves no route authority.
RollbackRestores ==
    outcome = "rolledback" =>
        /\ \A f \in DOMAIN origin : fs[f] = origin[f]
        /\ fs["routes"] = Absent

=============================================================================
