---------------------------- MODULE ProjectUpgrade ----------------------------
(***************************************************************************)
(* internal/project: `project init` and `project upgrade`, which put the    *)
(* files of a template into a project directory and keep, in                *)
(* project.lock.json, the hash of each file as they left it, so that a      *)
(* later upgrade can tell a file the user edited from one that is merely    *)
(* old.  Nothing locks the directory: the user edits, the template moves    *)
(* and the process may die between any two file operations.                 *)
(*                                                                         *)
(* A definition Name_Slip is a deliberately wrong variant of Name, used to  *)
(* show that some property depends on that part of the code.                *)
(*                                                                         *)
(* Abstracted: a hash stands for the content it is computed from; the       *)
(* manifest's patterns for the set of files they select (a file the user    *)
(* patterns name is not in Files); file modes; the lock's other fields;     *)
(* which second a backup is filed under.  Files come in any order, not in   *)
(* sorted order.  One command runs at a time; SharedProject has several.    *)
(***************************************************************************)
EXTENDS Naturals

CONSTANTS
  Files,     \* paths the template's managed patterns may select
  Contents,  \* what a file may hold, whoever wrote it
  Missing,   \* no such file, no such lock entry
  NoFile,    \* file, while no file is being processed
  MaxEvents  \* bound on edits, publications, lost locks and failures together

ASSUME ProjectUpgradeAssumption ==
  Missing \notin Contents /\ NoFile \notin Files /\ MaxEvents \in Nat

VARIABLES
  template,  \* template[f]: the file in the template directory
  disk,      \* disk[f]: the file in the project directory
  lock,      \* managedFiles of project.lock.json; all Missing when there is no lock
  saved,     \* saved[f]: the copies of f under upgrade-backups
  pc,        \* where the command stands
  force, dry,        \* its flags
  baseline,  \* managedHashes: what will become the lock
  todo,      \* the managed files it has not come to yet
  file, srcSum, \* the file at hand and the hash of the template's
  conflicts, \* out.Conflicts
  result,    \* how the last command ended
  edited,    \* history: files whose present content the user put there
  late,      \* history: the user wrote the file at hand after the command's look at it
  quiet,     \* history: since the command began nobody else wrote, nothing failed
  events     \* how many edits, publications, lost locks and failures there were

project == <<disk, lock, saved>>
flags   == <<force, dry>>
work    == <<baseline, todo, file, srcSum>>
outcome == <<conflicts, result>>
history == <<quiet, events>>
vars    == <<template, project, pc, flags, work, outcome, edited, late, history>>

Store == [Files -> Contents \cup {Missing}]
Nothing == [f \in Files |-> Missing]

PCs == {"idle", "initcopy", "inithash", "next", "hash", "backup", "copy", "record"}

TypeOK ==
  /\ template \in Store /\ disk \in Store /\ lock \in Store /\ baseline \in Store
  /\ saved \in [Files -> SUBSET Contents]
  /\ pc \in PCs
  /\ force \in BOOLEAN /\ dry \in BOOLEAN /\ late \in BOOLEAN /\ quiet \in BOOLEAN
  /\ todo \subseteq Files /\ conflicts \subseteq Files /\ edited \subseteq Files
  /\ file \in Files \cup {NoFile}
  /\ srcSum \in Contents \cup {Missing}
  /\ result \in {"none", "ok", "conflict", "stopped"}
  /\ events \in 0..MaxEvents
  /\ pc \in {"hash", "backup", "copy", "record"} => file # NoFile /\ srcSum # Missing

\* An empty directory and a template; `init` and `upgrade` both start from here.
Init ==
  /\ template \in Store
  /\ disk = Nothing /\ lock = Nothing /\ baseline = Nothing
  /\ saved = [f \in Files |-> {}]
  /\ pc = "idle" /\ force = FALSE /\ dry = FALSE
  /\ todo = {} /\ file = NoFile /\ srcSum = Missing
  /\ conflicts = {} /\ result = "none"
  /\ edited = {} /\ late = FALSE /\ quiet = FALSE /\ events = 0

-------------------------------------------------------------------------------
(* Helpers *)

At(from) == pc = from
Goto(to) == pc' = to

\* Something interferes with the command, if one is running, or fails.
Event == events < MaxEvents /\ events' = events + 1 /\ quiet' = FALSE

\* expandManagedFiles: the managed files the template has now.
Managed == {f \in Files : template[f] # Missing}

\* A command begins with these flags, this baseline and all managed files to do.
Start(f, d, base) ==
  /\ force' = f /\ dry' = d /\ baseline' = base /\ todo' = Managed
  /\ conflicts' = {} /\ result' = "none" /\ quiet' = TRUE
  /\ UNCHANGED <<template, project, file, srcSum, edited, late, events>>

\* The command returns or dies; what it knew is gone, what it wrote stays.
End(how) ==
  /\ Goto("idle") /\ result' = how
  /\ baseline' = Nothing /\ todo' = {}
  /\ file' = NoFile /\ srcSum' = Missing /\ late' = FALSE
  /\ UNCHANGED <<template, disk, saved, flags, conflicts, edited>>

\* One more file is done with.
NextFile == Goto("next") /\ file' = NoFile /\ srcSum' = Missing /\ late' = FALSE

WriteLock == lock' = baseline

Overwrite(f, c) == disk' = [disk EXCEPT ![f] = c] /\ edited' = edited \ {f}

\* The file differs both from what the lock recorded and from the template.
LocallyModified_IgnoresTemplate(f, src, dst) ==
  dst # Missing /\ baseline[f] \notin {Missing, dst}
LocallyModified(f, src, dst) ==
  baseline[f] # Missing /\ dst # Missing /\ dst \notin {baseline[f], src}

-------------------------------------------------------------------------------
(* project.Init *)

\* Without --force the directory, the lock in it included, has to be empty.
InitBegin(f) ==
  /\ At("idle")
  /\ f \/ (disk = Nothing /\ lock = Nothing)
  /\ Start(f, FALSE, Nothing)
  /\ Goto("initcopy")

\* copyTemplateDir copies over whatever is there and keeps no backup.
InitCopy(f) ==
  /\ At("initcopy")
  /\ f \in todo /\ template[f] # Missing
  /\ Overwrite(f, template[f])
  /\ todo' = todo \ {f}
  /\ UNCHANGED <<template, lock, saved, pc, flags, baseline, file, srcSum, outcome, late,
                 history>>

\* Only when all are copied are they listed again and hashed, one by one.
InitCopied ==
  /\ At("initcopy") /\ todo = {}
  /\ todo' = Managed
  /\ Goto("inithash")
  /\ UNCHANGED <<template, project, flags, baseline, file, srcSum, outcome, edited, late,
                 history>>

InitHash(f) ==
  /\ At("inithash")
  /\ f \in todo
  /\ baseline' = [baseline EXCEPT ![f] = disk[f]]
  /\ todo' = todo \ {f}
  /\ UNCHANGED <<template, project, pc, flags, file, srcSum, outcome, edited, late, history>>

InitFinish ==
  /\ At("inithash") /\ todo = {}
  /\ WriteLock
  /\ End("ok")
  /\ UNCHANGED history

-------------------------------------------------------------------------------
(* project.Upgrade *)

\* The lock is read once; a lock that cannot be read counts as empty.
UpgradeBegin(f, d) ==
  /\ At("idle") /\ Managed # {}
  /\ Start(f, d, lock)
  /\ Goto("next")

HashTemplate(f) ==
  /\ At("next")
  /\ f \in todo /\ template[f] # Missing
  /\ file' = f /\ srcSum' = template[f]
  /\ todo' = todo \ {f}
  /\ Goto("hash")
  /\ UNCHANGED <<template, project, flags, baseline, outcome, edited, late, history>>

Decision_IgnoresDryRun(f, src, dst) ==
  IF LocallyModified(f, src, dst) /\ ~force THEN "conflict"
  ELSE IF LocallyModified(f, src, dst) THEN "backup"
  ELSE IF dst = src THEN "skip" ELSE "copy"

\* What the hashes of a file lead to.
Decision(f, src, dst) ==
  IF LocallyModified(f, src, dst) /\ ~force THEN "conflict"
  ELSE IF LocallyModified(f, src, dst) /\ ~dry THEN "backup"
  ELSE IF dst = src THEN "skip"
  ELSE IF dry THEN "report" ELSE "copy"

\* Hash the project's file and decide.  A file that cannot be read is treated
\* like one that is absent.
HashProject ==
  /\ At("hash")
  /\ \E dst \in {disk[file], Missing} :
       /\ IF dst = disk[file] THEN UNCHANGED history ELSE Event
       /\ LET d == Decision(file, srcSum, dst) IN
            /\ conflicts' = IF d = "conflict" THEN conflicts \cup {file} ELSE conflicts
            /\ baseline' = IF d = "skip" /\ ~dry THEN [baseline EXCEPT ![file] = dst]
                           ELSE baseline
            /\ IF d \in {"backup", "copy"}
                 THEN Goto(d) /\ late' = (dst # disk[file]) /\ UNCHANGED <<file, srcSum>>
                 ELSE NextFile
  /\ UNCHANGED <<template, project, flags, todo, result, edited>>

Backup_Nothing ==
  /\ At("backup")
  /\ Goto("copy")
  /\ UNCHANGED <<template, project, flags, work, outcome, edited, late, history>>

Backup_Unchecked ==
  /\ At("backup")
  /\ saved' = [saved EXCEPT ![file] = @ \cup {disk[file]}]
  /\ Goto("copy")
  /\ UNCHANGED <<template, disk, lock, flags, work, outcome, edited, late, history>>

\* backupFile copies the file as it is by now, if it is still there.
Backup ==
  /\ At("backup")
  /\ saved' = [saved EXCEPT ![file] = @ \cup ({disk[file]} \ {Missing})]
  /\ Goto("copy")
  /\ UNCHANGED <<template, disk, lock, flags, work, outcome, edited, late, history>>

\* copyFilePreserveMode: a temporary file, renamed into place.
Copy ==
  /\ At("copy")
  /\ template[file] # Missing
  /\ Overwrite(file, template[file])
  /\ Goto("record")
  /\ UNCHANGED <<template, lock, saved, flags, work, outcome, late, history>>

Record_Nothing ==
  /\ At("record")
  /\ NextFile
  /\ UNCHANGED <<template, project, flags, baseline, todo, outcome, edited, history>>

\* The hash that goes into the lock is taken from the project's file again.
Record ==
  /\ At("record")
  /\ baseline' = [baseline EXCEPT ![file] = IF disk[file] = Missing THEN srcSum ELSE disk[file]]
  /\ NextFile
  /\ UNCHANGED <<template, project, flags, todo, outcome, edited, history>>

\* A dry run and an upgrade with conflicts leave the lock as it was.
UpgradeFinish ==
  /\ At("next") /\ todo = {}
  /\ \/ dry /\ End("ok") /\ UNCHANGED lock
     \/ ~dry /\ ~force /\ conflicts # {} /\ End("conflict") /\ UNCHANGED lock
     \/ ~dry /\ (force \/ conflicts = {}) /\ End("ok") /\ WriteLock
  /\ UNCHANGED history

-------------------------------------------------------------------------------
(* The world around the command *)

\* An I/O error, a vanished template file or a kill ends the command on the spot.
Stop ==
  /\ ~At("idle")
  /\ Event
  /\ End("stopped")
  /\ UNCHANGED lock

\* The user writes a file (any content: his own, or the template's by hand) or
\* deletes it.
UserEdits(f) ==
  /\ Event
  /\ \E c \in (Contents \cup {Missing}) \ {disk[f]} : disk' = [disk EXCEPT ![f] = c]
  /\ edited' = edited \cup {f}
  /\ late' = (late \/ f = file)
  /\ UNCHANGED <<template, lock, saved, pc, flags, work, outcome>>

\* The template's author changes, adds or drops a file.
Publish(f) ==
  /\ Event
  /\ \E c \in (Contents \cup {Missing}) \ {template[f]} : template' = [template EXCEPT ![f] = c]
  /\ UNCHANGED <<project, pc, flags, work, outcome, edited, late>>

LoseLock ==
  /\ Event
  /\ lock # Nothing /\ lock' = Nothing
  /\ UNCHANGED <<template, disk, saved, pc, flags, work, outcome, edited, late>>

-------------------------------------------------------------------------------

InitStep == (\E f \in Files : InitCopy(f) \/ InitHash(f)) \/ InitCopied \/ InitFinish

UpgradeStep ==
  \/ \E f \in Files : HashTemplate(f)
  \/ HashProject \/ Backup \/ Copy \/ Record \/ UpgradeFinish

World == Stop \/ LoseLock \/ \E f \in Files : UserEdits(f) \/ Publish(f)

Next ==
  \/ \E f \in BOOLEAN : InitBegin(f) \/ \E d \in BOOLEAN : UpgradeBegin(f, d)
  \/ InitStep \/ UpgradeStep \/ World

Spec == Init /\ [][Next]_vars

-------------------------------------------------------------------------------
(* Safety *)

\* An upgrade never destroys what the user wrote into a file the lock knows:
\* the overwritten content has a backup, or it came after the upgrade had
\* looked at the file, or it is the very content the lock recorded.
EditsSurviveUpgrade ==
  [][\A f \in edited : At("copy") /\ f \notin edited' /\ disk[f] # Missing =>
       \/ disk'[f] = disk[f]
       \/ disk[f] \in saved[f]
       \/ late
       \/ baseline[f] \in {Missing, disk[f]}]_vars

\* An upgrade or init nobody disturbed leaves every managed file equal to the
\* template and recorded as such, whatever crashes and aborts came before it.
QuietSuccessConverges ==
  result = "ok" /\ quiet /\ ~dry =>
    \A f \in Managed : disk[f] = template[f] /\ lock[f] = template[f]

\* The conflicts of an undisturbed upgrade without --force are exactly the files
\* that differ from lock and template after it, so the next one, dry or not,
\* finds the same: the copies it made on the way neither hide nor add one.
QuietConflictsExact ==
  pc = "idle" /\ result \in {"ok", "conflict"} /\ quiet /\ ~force =>
    conflicts = {f \in Managed :
      lock[f] # Missing /\ disk[f] \notin {Missing, lock[f], template[f]}}

\* A dry run writes nothing: no file, no backup, no lock.
DryRunWritesNothing ==
  [][dry /\ ~At("idle") /\ UpgradeStep => UNCHANGED <<disk, saved, lock>>]_vars

-------------------------------------------------------------------------------
(* What the repository says and the code does not do *)

\* "overwrite managed files even if locally modified (backs up to
\* .metaclaw/upgrade-backups)": a forced upgrade overwrites no edit of the user
\* that it has seen without a backup.
ForceBacksUp ==
  [][\A f \in edited : At("copy") /\ f \notin edited' /\ disk[f] # Missing /\ force /\ ~late =>
       disk'[f] = disk[f] \/ disk[f] \in saved[f]]_vars
===============================================================================
