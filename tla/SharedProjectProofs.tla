-------------------------- MODULE SharedProjectProofs --------------------------
(***************************************************************************)
(* What several upgrades at once guarantee, for any number of commands,     *)
(* files, versions and edits.  The properties speak of a project nobody is  *)
(* at work in; IInv says what the temporary names, the open files and the   *)
(* paths hold while commands are, and which of that another command can     *)
(* disturb.                                                                *)
(***************************************************************************)
EXTENDS SharedProject, TLAPS

Busy    == {"open", "fill", "rename", "record", "remove"}
Working == {"open", "fill", "rename"}
Writing == {"fill", "rename"}

\* Somebody is about to write the empty file at path, or at its temporary name.
Pending(path, where) ==
  \E q \in Commands : step[q] = "fill" /\ target[q] = path /\ fd[q] = where

\* The tmp of a project's file only ever has what a template had; a lock is a set
\* of hashes unless it is torn.
ShapeInv ==
  /\ \A path \in Paths \ {Lock} :
       store[path] \in Content \cup {Missing} /\ tmp[path] \in Content \cup {Missing}
  /\ \A path \in ProjectFiles : tmp[path] \in Versions \cup {Missing, Empty, Torn}
  /\ store[Lock] \in Hashes \cup {Missing, Empty, Torn}
  /\ tmp[Lock] \in Hashes \cup {Missing, Empty, Torn}

\* Where a command may be, and what it has in its hands there.
Flow(p) ==
  /\ step[p] \in Busy <=> target[p] # NoPath
  /\ target[p] \in ProjectFiles => FileOf(p) \notin todo[p]
  /\ target[p] \in Backups =>
       /\ target[p] = BackupOf(p, FileOf(p)) /\ FileOf(p) \notin todo[p]
       /\ store[File(FileOf(p))] # Missing
  /\ target[p] = Lock => todo[p] = {} /\ ~conflict[p] /\ step[p] \in Working
  /\ step[p] = "record" => target[p] \in ProjectFiles
  /\ conflict[p] => ~force[p] /\ step[p] # "idle"
  /\ fd[p] # "none" <=> step[p] = "fill"
  /\ fd[p] = "tmp" => tmp[target[p]] # Missing
  /\ step[p] = "fill" =>
       /\ target[p] = Lock => data[p] \in Hashes
       /\ target[p] \in ProjectFiles => data[p] \in Versions
       /\ target[p] \in Backups => data[p] \in Content

FlowInv == \A p \in Commands : Flow(p)

\* As long as no two commands had one backup directory, nobody else writes to a
\* backup, and nothing is there before it is taken.
OwnDir(p) ==
  /\ step[p] # "idle" => second[p] <= clock
  /\ step[p] # "idle" => \A f \in todo[p] : store[Backup(second[p], f)] = Missing
  /\ \A q \in Commands \ {p} : step[p] # "idle" /\ step[q] # "idle" => second[p] # second[q]
  /\ target[p] \in Backups /\ step[p] \in Working => store[target[p]] = Missing
  /\ target[p] \in Backups /\ step[p] = "fill" => fd[p] = "tmp" /\ tmp[target[p]] = Empty

DirInv ==
  ~shared =>
    /\ \A p \in Commands : OwnDir(p)
    /\ \A s \in Seconds, f \in Files : s > clock => store[Backup(s, f)] = Missing

\* overlap tells when two have one temporary file open, or one open in place.
ExclusiveInv ==
  /\ overlap => mixed
  /\ ~overlap => \A p \in Commands :
       /\ fd[p] # "there"
       /\ \A q \in Commands \ {p} :
            step[p] \in Writing /\ step[q] \in Writing => target[p] # target[q]

\* What an undisturbed writer of a file or the lock finds where it writes: nothing
\* but what itself and others like it have put there.
Fresh(p) ==
  /\ target[p] \in ProjectFiles =>
       /\ step[p] = "fill" => data[p] = template[FileOf(p)]
       /\ step[p] \in Writing => tmp[target[p]] \in {Missing, Empty, template[FileOf(p)]}
       /\ fd[p] = "there" => store[target[p]] \in {Empty, template[FileOf(p)]}
  /\ target[p] = Lock =>
       /\ step[p] \in Writing => tmp[Lock] # Torn
       /\ fd[p] = "there" => store[Lock] \notin {Missing, Torn}
  /\ target[p] \in ProjectFiles \cup {Lock} /\ step[p] \in Writing /\ tmp[target[p]] = Empty =>
       Pending(target[p], "tmp")

FreshInv == calm \/ quiet => \A p \in Commands : Fresh(p)

\* A truncated file has somebody who is about to write it.
CalmInv ==
  calm => \A path \in ProjectFiles \cup {Lock} :
    store[path] # Torn /\ (store[path] = Empty => Pending(path, "there"))

\* A backup, from its source to its place.
Sound(c) == c # Torn /\ (c = Empty => mixed)

BackupInv ==
  calm /\ ~shared =>
    /\ \A path \in Backups : Sound(store[path])
    /\ \A p \in Commands : target[p] \in Backups =>
         /\ step[p] = "fill" => Sound(data[p])
         /\ step[p] = "rename" => Sound(tmp[target[p]])

\* An edit the command saw is where the next step of the command takes it from.
HasBackup(f, c) == \E s \in Seconds : store[Backup(s, f)] = c

SavedInv ==
  ~shared => \A p \in Commands, f \in Files, c \in Mine :
    store[File(f)] = c /\ ~late[p] =>
      /\ target[p] = File(f) /\ step[p] \in Working =>
           HasBackup(f, c) \/ baseline[p][f] \in {Missing, c}
      /\ target[p] = BackupOf(p, f) =>
           /\ step[p] = "fill" => data[p] = c
           /\ step[p] = "rename" => tmp[target[p]] = c

\* A file some undisturbed command has brought up to date.
Settled(f) ==
  \/ store[File(f)] = template[f]
  \/ store[File(f)] = Empty /\ Pending(File(f), "there")

\* p has come to f and is through with it.
Past(p, f) ==
  step[p] # "idle" /\ f \notin todo[p] /\ target[p] \notin {File(f), BackupOf(p, f)}

Converging(p) ==
  /\ \A f \in Files :
       /\ Past(p, f) \/ (step[p] = "record" /\ target[p] = File(f)) => conflict[p] \/ Settled(f)
       /\ Past(p, f) /\ ~overlap => conflict[p] \/ baseline[p][f] = template[f]
  /\ target[p] = Lock /\ ~overlap =>
       /\ step[p] = "fill" => data[p] = template /\ fd[p] = "tmp" /\ tmp[Lock] = Empty
       /\ step[p] = "rename" => tmp[Lock] = template

ConvergeInv ==
  quiet =>
    /\ \A p \in Commands : Converging(p)
    /\ succeeded => \A f \in Files : Settled(f)
    /\ succeeded /\ ~overlap => store[Lock] = template

IInv ==
  /\ TypeOK /\ ShapeInv /\ FlowInv /\ DirInv /\ ExclusiveInv /\ FreshInv
  /\ CalmInv /\ BackupInv /\ SavedInv /\ ConvergeInv

-------------------------------------------------------------------------------
(* The operators the steps are built from *)

\* No two paths are the same that stand for different things.
LEMMA PathFacts ==
  /\ \A f \in Files : File(f) \in ProjectFiles /\ File(f) \in Paths /\ File(f)[2] = f
  /\ \A f \in Files, s \in Seconds :
       Backup(s, f) \in Backups /\ Backup(s, f) \in Paths /\ Backup(s, f)[2] = f
  /\ Lock \in Paths /\ Lock \notin ProjectFiles /\ Lock \notin Backups
  /\ ProjectFiles \cap Backups = {}
  /\ \A f, g \in Files : File(f) = File(g) => f = g
  /\ \A f, g \in Files, s, t \in Seconds : Backup(s, f) = Backup(t, g) => s = t /\ f = g
  /\ \A path \in ProjectFiles : path[2] \in Files /\ path = File(path[2])
  /\ \A path \in Backups : path[2] \in Files /\ \E s \in Seconds : path = Backup(s, path[2])
<1>1. \A f \in Files, g \in Files, s \in Seconds : File(f) # Backup(s, g)
  BY DEF File, Backup
<1>2. /\ \A f \in Files : File(f) # Lock
      /\ \A f \in Files, s \in Seconds : Backup(s, f) # Lock
  BY DEF File, Backup, Lock
<1>3. \A f \in Files : File(f)[2] = f
  BY DEF File
<1>4. \A f \in Files, s \in Seconds : Backup(s, f)[2] = f /\ Backup(s, f)[3] = s
  BY DEF Backup
<1>5. /\ \A f \in Files : File(f) \in ProjectFiles /\ File(f) \in Paths
      /\ \A f \in Files, s \in Seconds : Backup(s, f) \in Backups /\ Backup(s, f) \in Paths
      /\ Lock \in Paths
  BY DEF ProjectFiles, Backups, Paths
<1>6. Lock \notin ProjectFiles /\ Lock \notin Backups /\ ProjectFiles \cap Backups = {}
  BY <1>1, <1>2 DEF ProjectFiles, Backups
<1>7. /\ \A f, g \in Files : File(f) = File(g) => f = g
      /\ \A f, g \in Files, s, t \in Seconds : Backup(s, f) = Backup(t, g) => s = t /\ f = g
  BY <1>3, <1>4
<1>8. \A path \in ProjectFiles : path[2] \in Files /\ path = File(path[2])
  BY <1>3 DEF ProjectFiles
<1>9. \A path \in Backups : path[2] \in Files /\ \E s \in Seconds : path = Backup(s, path[2])
  BY <1>4 DEF Backups
<1> QED BY <1>3, <1>4, <1>5, <1>6, <1>7, <1>8, <1>9

\* Every path is a file's, a backup's or the lock's.
LEMMA PathKinds == Paths = ProjectFiles \cup Backups \cup {Lock}
BY DEF Paths

\* What is written over a truncated file is what was to be written, or torn.
LEMMA OverFacts ==
  ASSUME NEW old, NEW c, NEW new \in Over(old, c)
  PROVE  /\ new \in {c, Torn}
         /\ old \in {Empty, c} \cup Hashes => new = c
BY DEF Over

\* A project's file's path is not NoPath, and neither is the lock's or a backup's.
LEMMA NoPathFacts ==
  NoPath \notin ProjectFiles /\ NoPath \notin Backups /\ NoPath # Lock
BY SharedProjectAssumption, PathKinds

-------------------------------------------------------------------------------
(* What a step does to the command that takes it, value by value.  Others are *)
(* left alone, but for the files they have open.                             *)

Alone(p) ==
  \A q \in Commands \ {p} :
    /\ step'[q] = step[q] /\ target'[q] = target[q]
    /\ force'[q] = force[q] /\ second'[q] = second[q] /\ baseline'[q] = baseline[q]
    /\ todo'[q] = todo[q] /\ conflict'[q] = conflict[q]
    /\ data'[q] = data[q] /\ late'[q] = late[q]

SameFd(p) == \A q \in Commands \ {p} : fd'[q] = fd[q]

\* Where q's open file is when p has renamed the temporary file of its target.
Moved(p, q) ==
  /\ target[q] # target[p] => fd'[q] = fd[q]
  /\ target[q] = target[p] =>
       /\ fd[q] = "tmp" => fd'[q] = "there"
       /\ fd[q] = "there" => fd'[q] = "gone"
       /\ fd[q] \notin {"tmp", "there"} => fd'[q] = fd[q]

\* An end leaves nothing of the command.
LEMMA EndEffect ==
  ASSUME TypeOK, NEW p \in Commands, End(p)
  PROVE  /\ Alone(p)
         /\ step'[p] = "idle" /\ target'[p] = NoPath /\ todo'[p] = {}
         /\ force'[p] = FALSE /\ conflict'[p] = FALSE /\ second'[p] = 1
         /\ baseline'[p] = NoHashes /\ data'[p] = Missing /\ late'[p] = FALSE
BY DEF TypeOK, End, Goto, Aim, Alone

\* A command starts with all files to come to.
LEMMA BeginEffect ==
  ASSUME TypeOK, NEW p \in Commands, NEW f \in BOOLEAN, NEW s \in Seconds, Begin(p, f, s)
  PROVE  /\ Alone(p)
         /\ step[p] = "idle" /\ step'[p] = "next"
         /\ s \in {clock, clock + 1} /\ clock' = s /\ second'[p] = s /\ force'[p] = f
         /\ baseline'[p] = LoadLock /\ todo'[p] = Files
         /\ shared' = (shared \/ s = clock)
         /\ IF AllIdle THEN quiet' = TRUE /\ overlap' = FALSE /\ succeeded' = FALSE
                       ELSE UNCHANGED <<quiet, overlap, succeeded>>
         /\ UNCHANGED <<template, store, tmp, target, conflict, data, fd, late, mixed, calm, events>>
BY DEF TypeOK, Begin, At, Goto, Alone, files, writing

\* A command looks at one file, and goes on, writes it, or backs it up first.
LEMMA LookEffect ==
  ASSUME TypeOK, NEW p \in Commands, NEW f \in Files, Look(p, f)
  PROVE  /\ Alone(p)
         /\ step[p] = "next" /\ f \in todo[p] /\ todo'[p] = todo[p] \ {f} /\ late'[p] = FALSE
         /\ \/ /\ LocallyModified(p, f) /\ ~force[p] /\ conflict'[p] = TRUE
               /\ step'[p] = "next" /\ target' = target /\ baseline' = baseline
            \/ /\ LocallyModified(p, f) /\ force[p]
               /\ step'[p] = "open" /\ target'[p] = BackupOf(p, f)
               /\ baseline' = baseline /\ conflict' = conflict
            \/ /\ ~LocallyModified(p, f) /\ store[File(f)] = template[f]
               /\ baseline'[p][f] = template[f]
               /\ \A g \in Files \ {f} : baseline'[p][g] = baseline[p][g]
               /\ step'[p] = "next" /\ target' = target /\ conflict' = conflict
            \/ /\ ~LocallyModified(p, f) /\ store[File(f)] # template[f]
               /\ step'[p] = "open" /\ target'[p] = File(f)
               /\ baseline' = baseline /\ conflict' = conflict
         /\ UNCHANGED <<template, store, tmp, force, second, data, fd, clock, past, events>>
<1>1. \A q \in Commands : baseline[q] \in Hashes
  BY DEF TypeOK
<1> QED BY <1>1 DEF TypeOK, Look, At, Goto, Aim, Alone, files, writing, Hashes

\* With all files done the command ends or turns to the lock.
LEMMA FinishEffect ==
  ASSUME TypeOK, NEW p \in Commands, Finish(p)
  PROVE  /\ step[p] = "next" /\ todo[p] = {} /\ Alone(p)
         /\ \/ conflict[p] /\ ~force[p] /\ End(p)
            \/ /\ ~conflict[p] \/ force[p]
               /\ step'[p] = "open" /\ target'[p] = Lock /\ UNCHANGED <<plan, data, late>>
         /\ UNCHANGED <<template, store, tmp, fd, clock, past, events>>
<1>1. CASE conflict[p] /\ ~force[p]
  BY <1>1, EndEffect DEF Finish, At, files
<1>2. CASE ~(conflict[p] /\ ~force[p])
  BY <1>2 DEF TypeOK, Finish, At, Goto, Aim, Alone, files, plan
<1> QED BY <1>1, <1>2

\* The hash of the project's file goes into the command's lock.
LEMMA RecordEffect ==
  ASSUME TypeOK, NEW p \in Commands, FileOf(p) \in Files, Record(p)
  PROVE  /\ Alone(p)
         /\ step[p] = "record" /\ step'[p] = "next" /\ target'[p] = NoPath
         /\ baseline'[p][FileOf(p)] = store[File(FileOf(p))]
         /\ \A g \in Files \ {FileOf(p)} : baseline'[p][g] = baseline[p][g]
         /\ UNCHANGED <<template, store, tmp, force, second, todo, conflict, data, fd, clock, late,
                        past, events>>
<1>1. \A q \in Commands : baseline[q] \in Hashes
  BY DEF TypeOK
<1> QED BY <1>1 DEF TypeOK, Record, At, Goto, Aim, Alone, files, writing, history, Hashes

\* The temporary file is truncated, and what goes there is read.
LEMMA OpenEffect ==
  ASSUME TypeOK, NEW p \in Commands, Open(p), target[p] \in Paths
  PROVE  LET another == \E q \in Commands : step[q] \in Writing /\ target[q] = target[p] IN
         /\ Alone(p) /\ SameFd(p)
         /\ step[p] = "open" /\ step'[p] = "fill" /\ fd'[p] = "tmp" /\ data'[p] = Source(p)
         /\ tmp'[target[p]] = Empty
         /\ \A path \in Paths \ {target[p]} : tmp'[path] = tmp[path]
         /\ mixed' = (mixed \/ another) /\ overlap' = (overlap \/ another)
         /\ UNCHANGED <<template, store, target, plan, clock, late, shared, calm, quiet, succeeded,
                        events>>
BY DEF TypeOK, Open, Truncated, Writing, At, Goto, Alone, SameFd, plan

\* The data goes where the file is by now.
LEMMA FillEffect ==
  ASSUME TypeOK, NEW p \in Commands, Fill(p), target[p] \in Paths
  PROVE  /\ Alone(p) /\ SameFd(p)
         /\ step[p] = "fill" /\ step'[p] = "rename" /\ fd'[p] = "none" /\ data'[p] = Missing
         /\ \/ /\ fd[p] = "tmp" /\ store' = store
               /\ tmp'[target[p]] \in Over(tmp[target[p]], data[p])
               /\ \A path \in Paths \ {target[p]} : tmp'[path] = tmp[path]
            \/ /\ fd[p] = "there" /\ tmp' = tmp
               /\ store'[target[p]] \in Over(store[target[p]], data[p])
               /\ \A path \in Paths \ {target[p]} : store'[path] = store[path]
            \/ fd[p] = "gone" /\ store' = store /\ tmp' = tmp
         /\ UNCHANGED <<template, target, plan, clock, history, events>>
BY DEF TypeOK, Fill, At, Goto, Alone, SameFd, plan, files, history

\* A write fails: the command ends, or has its temporary file to remove.
LEMMA FillFailsEffect ==
  ASSUME TypeOK, NEW p \in Commands, FillFails(p)
  PROVE  /\ Alone(p) /\ SameFd(p)
         /\ step[p] = "fill" /\ fd'[p] = "none" /\ data'[p] = Missing
         /\ \/ target[p] = Lock /\ End(p)
            \/ target[p] # Lock /\ step'[p] = "remove" /\ UNCHANGED <<target, plan, late>>
         /\ quiet' = FALSE /\ calm' = FALSE
         /\ UNCHANGED <<template, store, tmp, clock, shared, mixed, overlap, succeeded>>
<1>1. step[p] = "fill" /\ ~AllIdle
  BY DEF FillFails, At, AllIdle
<1>2. CASE target[p] = Lock
  BY <1>1, <1>2, EndEffect DEF TypeOK, FillFails, Event, SameFd, files
<1>3. CASE target[p] # Lock
  BY <1>1, <1>3 DEF TypeOK, FillFails, Event, Goto, Alone, SameFd, files, plan
<1> QED BY <1>2, <1>3

\* The temporary file takes its place, under everybody who has it open.
LEMMA RenameEffect ==
  ASSUME TypeOK, NEW p \in Commands, Rename(p), target[p] \in Paths, FlowInv
  PROVE  /\ Alone(p)
         /\ step[p] = "rename" /\ tmp[target[p]] # Missing
         /\ store'[target[p]] = tmp[target[p]] /\ tmp'[target[p]] = Missing
         /\ \A path \in Paths \ {target[p]} : store'[path] = store[path] /\ tmp'[path] = tmp[path]
         /\ fd'[p] = "none"
         /\ \A q \in Commands \ {p} : Moved(p, q)
         /\ \/ target[p] = Lock /\ End(p) /\ succeeded' = TRUE
            \/ /\ target[p] \in ProjectFiles /\ step'[p] = "record" /\ target'[p] = target[p]
               /\ UNCHANGED <<plan, data, late, succeeded>>
            \/ /\ target[p] \in Backups
               /\ step'[p] = "open" /\ target'[p] = File(FileOf(p))
               /\ UNCHANGED <<plan, data, late, succeeded>>
         /\ UNCHANGED <<template, clock, shared, mixed, calm, quiet, overlap, events>>
<1>1. step[p] = "rename" /\ tmp[target[p]] # Missing
  BY DEF Rename, At
<1>2. fd[p] = "none"
  BY <1>1 DEF FlowInv, Flow
<1>3. /\ store'[target[p]] = tmp[target[p]] /\ tmp'[target[p]] = Missing
      /\ \A path \in Paths \ {target[p]} : store'[path] = store[path] /\ tmp'[path] = tmp[path]
  BY DEF TypeOK, Rename
<1>4. /\ fd'[p] = "none"
      /\ \A q \in Commands \ {p} : Moved(p, q)
  BY <1>2 DEF Rename, Moved
<1>5. CASE target[p] = Lock
  BY <1>1, <1>3, <1>4, <1>5, EndEffect DEF Rename
<1>6. CASE target[p] \in ProjectFiles
  BY <1>1, <1>3, <1>4, <1>6, PathFacts DEF TypeOK, Rename, Goto, Alone, plan
<1>7. CASE target[p] \in Backups
  BY <1>1, <1>3, <1>4, <1>7, PathFacts DEF TypeOK, Rename, Goto, Aim, Alone, plan
<1> QED BY <1>5, <1>6, <1>7, PathKinds

\* A rename finds nothing to rename.
LEMMA RenameFailsEffect ==
  ASSUME TypeOK, NEW p \in Commands, RenameFails(p)
  PROVE  /\ Alone(p)
         /\ step[p] = "rename" /\ tmp[target[p]] = Missing
         /\ \/ target[p] = Lock /\ End(p)
            \/ /\ target[p] # Lock /\ step'[p] = "remove"
               /\ UNCHANGED <<target, plan, data, late>>
         /\ UNCHANGED <<template, store, tmp, fd, clock, past, events>>
<1>1. CASE target[p] = Lock
  BY <1>1, EndEffect DEF RenameFails, At, files
<1>2. CASE target[p] # Lock
  BY <1>2 DEF TypeOK, RenameFails, At, Goto, Alone, files, plan
<1> QED BY <1>1, <1>2

\* A temporary file is removed, whosever it is.
LEMMA RemoveEffect ==
  ASSUME TypeOK, NEW p \in Commands, Remove(p), target[p] \in Paths, FlowInv
  PROVE  /\ Alone(p) /\ End(p)
         /\ step[p] = "remove" /\ fd'[p] = "none"
         /\ tmp'[target[p]] = Missing
         /\ \A path \in Paths \ {target[p]} : tmp'[path] = tmp[path]
         /\ \A q \in Commands \ {p} :
              fd'[q] = IF target[q] = target[p] /\ fd[q] = "tmp" THEN "gone" ELSE fd[q]
         /\ UNCHANGED <<template, store, clock, past, events>>
<1>1. step[p] = "remove" /\ End(p)
  BY DEF Remove, At
<1>2. fd[p] = "none"
  BY <1>1 DEF FlowInv, Flow
<1> QED BY <1>1, <1>2, EndEffect DEF TypeOK, Remove

\* A command dies, and whatever was calm or quiet is not any more.
LEMMA DiesEffect ==
  ASSUME TypeOK, NEW p \in Commands, Dies(p)
  PROVE  /\ Alone(p) /\ SameFd(p) /\ End(p)
         /\ fd'[p] = "none" /\ quiet' = FALSE /\ calm' = FALSE
         /\ UNCHANGED <<template, store, tmp, clock, shared, mixed, overlap, succeeded>>
<1>1. ~AllIdle /\ End(p)
  BY DEF Dies, AllIdle
<1> QED BY <1>1, EndEffect DEF TypeOK, Dies, Event, SameFd, files

\* The user writes one file; who has it open in place may be left without it.
LEMMA UserEditsEffect ==
  ASSUME TypeOK, NEW f \in Files, NEW c \in Mine, UserEdits(f, c)
  PROVE  /\ store'[File(f)] = c
         /\ \A path \in Paths \ {File(f)} : store'[path] = store[path]
         /\ \A q \in Commands :
              fd'[q] = fd[q] \/ (target[q] = File(f) /\ fd[q] = "there" /\ fd'[q] = "gone")
         /\ \A q \in Commands :
              late'[q] = (late[q] \/ (target[q] \notin {NoPath, Lock} /\ FileOf(q) = f))
         /\ quiet' = FALSE /\ (calm' => calm /\ AllIdle)
         /\ UNCHANGED <<template, tmp, step, target, plan, data, clock, shared, mixed, overlap,
                        succeeded>>
<1>1. File(f) \in Paths
  BY PathFacts
<1>2. /\ store'[File(f)] = c
      /\ \A path \in Paths \ {File(f)} : store'[path] = store[path]
  BY <1>1 DEF UserEdits, TypeOK
<1>3. \A q \in Commands :
        fd'[q] = fd[q] \/ (target[q] = File(f) /\ fd[q] = "there" /\ fd'[q] = "gone")
  BY DEF UserEdits
<1> QED BY <1>2, <1>3 DEF UserEdits, Event, plan

\* The template moves.
LEMMA SyncEffect ==
  ASSUME TypeOK, NEW f \in Files, NEW v \in Versions, Sync(f, v)
  PROVE  /\ quiet' = FALSE /\ (calm' => calm /\ AllIdle)
         /\ UNCHANGED <<store, tmp, step, target, plan, data, fd, clock, late, shared, mixed, overlap,
                        succeeded>>
BY DEF Sync, Event, files, plan, writing

-------------------------------------------------------------------------------
(* Where commands are *)

\* A command that is writing has a path to write to.
LEMMA AimFacts ==
  ASSUME TypeOK, FlowInv, NEW p \in Commands
  PROVE  /\ step[p] \in Busy => target[p] \in Paths
         /\ target[p] \in ProjectFiles => FileOf(p) \in Files /\ target[p] = File(FileOf(p))
         /\ target[p] \in Backups =>
              FileOf(p) \in Files /\ \E s \in Seconds : target[p] = Backup(s, FileOf(p))
         /\ \A f \in Files : target[p] = File(f) => FileOf(p) = f
         /\ \A f \in Files, s \in Seconds : target[p] = Backup(s, f) => FileOf(p) = f
<1>1. step[p] \in Busy => target[p] \in Paths
  BY DEF TypeOK, FlowInv, Flow
<1>2. /\ target[p] \in ProjectFiles => FileOf(p) \in Files /\ target[p] = File(FileOf(p))
      /\ target[p] \in Backups =>
           FileOf(p) \in Files /\ \E s \in Seconds : target[p] = Backup(s, FileOf(p))
  BY PathFacts DEF FileOf
<1>3. /\ \A f \in Files : target[p] = File(f) => FileOf(p) = f
      /\ \A f \in Files, s \in Seconds : target[p] = Backup(s, f) => FileOf(p) = f
  BY PathFacts DEF FileOf
<1> QED BY <1>1, <1>2, <1>3

\* What is copied: hashes to the lock, a template's file to a file, and what the
\* project has to a backup.
LEMMA SourceFacts ==
  ASSUME TypeOK, ShapeInv, FlowInv, NEW p \in Commands, step[p] \in Busy
  PROVE  /\ target[p] = Lock => Source(p) = baseline[p] /\ Source(p) \in Hashes
         /\ target[p] \in ProjectFiles =>
              Source(p) = template[FileOf(p)] /\ Source(p) \in Versions
         /\ target[p] \in Backups =>
              Source(p) = store[File(FileOf(p))] /\ Source(p) \in Content
<1>1. CASE target[p] = Lock
  BY <1>1, PathFacts DEF Source, TypeOK
<1>2. CASE target[p] \in ProjectFiles
  BY <1>2, AimFacts, PathFacts DEF Source, TypeOK
<1>3. CASE target[p] \in Backups
  <2>1. FileOf(p) \in Files /\ Source(p) = store[File(FileOf(p))]
    BY <1>3, AimFacts, PathFacts DEF Source
  <2>2. File(FileOf(p)) \in Paths \ {Lock} /\ store[File(FileOf(p))] # Missing
    BY <1>3, <2>1, PathFacts DEF FlowInv, Flow
  <2> QED BY <1>3, <2>1, <2>2, PathFacts DEF ShapeInv
<1> QED BY <1>1, <1>2, <1>3

\* The parts of Next, with the two kinds of events.
LEMMA NextCases ==
  ASSUME [Next]_vars
  PROVE  \/ \E p \in Commands, f \in BOOLEAN, s \in Seconds : Begin(p, f, s)
         \/ \E p \in Commands, f \in Files : Look(p, f)
         \/ \E p \in Commands : Finish(p) \/ Record(p) \/ Open(p) \/ Fill(p) \/ FillFails(p)
                                \/ Rename(p) \/ RenameFails(p) \/ Remove(p) \/ Dies(p)
         \/ \E f \in Files, c \in Mine : UserEdits(f, c)
         \/ \E f \in Files, v \in Versions : Sync(f, v)
         \/ UNCHANGED vars
BY DEF Next, Command, World

-------------------------------------------------------------------------------
(* Every step keeps every part of the invariant *)

\* What may be at a path.
Fits(path, c) ==
  IF path = Lock THEN c \in Hashes \cup {Missing, Empty, Torn} ELSE c \in Content \cup {Missing}

FitsTmp(path, c) ==
  Fits(path, c) /\ (path \in ProjectFiles => c \in Versions \cup {Missing, Empty, Torn})

\* ShapeInv, path by path.
LEMMA ShapeByPath ==
  ShapeInv <=> \A path \in Paths : Fits(path, store[path]) /\ FitsTmp(path, tmp[path])
BY PathFacts, PathKinds DEF ShapeInv, Fits, FitsTmp

\* What is at the paths keeps its shape.
LEMMA ShapeStep == TypeOK /\ ShapeInv /\ FlowInv /\ [Next]_vars => ShapeInv'
<1> SUFFICES ASSUME TypeOK, ShapeInv, FlowInv, [Next]_vars, NEW path \in Paths
             PROVE  Fits(path, store'[path]) /\ FitsTmp(path, tmp'[path])
  BY ShapeByPath, PathFacts, PathKinds DEF ShapeInv, Fits, FitsTmp
<1>0. Fits(path, store[path]) /\ FitsTmp(path, tmp[path])
  BY ShapeByPath
<1>1. CASE UNCHANGED <<store, tmp>>
  BY <1>0, <1>1
<1>2. \A old \in {Empty, Torn, Missing} : Fits(path, old) /\ FitsTmp(path, old)
  BY DEF Fits, FitsTmp, Content
<1>3. ASSUME NEW p \in Commands, Open(p) PROVE Fits(path, store'[path]) /\ FitsTmp(path, tmp'[path])
  <2>1. target[p] \in Paths
    BY <1>3, AimFacts DEF Open, At, Busy
  <2> QED BY <1>0, <1>2, <1>3, <2>1, OpenEffect
<1>4. ASSUME NEW p \in Commands, Fill(p) PROVE Fits(path, store'[path]) /\ FitsTmp(path, tmp'[path])
  <2>1. step[p] = "fill" /\ target[p] \in Paths
    BY <1>4, AimFacts DEF Fill, At, Busy
  <2>2. FitsTmp(target[p], data[p])
    BY <2>1, PathKinds, PathFacts DEF FlowInv, Flow, Fits, FitsTmp, Content
  <2>3. /\ store'[path] \in {store[path], Torn} \/ (path = target[p] /\ store'[path] = data[p])
        /\ tmp'[path] \in {tmp[path], Torn} \/ (path = target[p] /\ tmp'[path] = data[p])
    BY <1>4, <2>1, FillEffect, OverFacts
  <2> QED BY <1>0, <1>2, <2>2, <2>3 DEF FitsTmp
<1>5. ASSUME NEW p \in Commands, Rename(p) PROVE Fits(path, store'[path]) /\ FitsTmp(path, tmp'[path])
  <2>1. target[p] \in Paths
    BY <1>5, AimFacts DEF Rename, At, Busy
  <2>2. /\ store'[target[p]] = tmp[target[p]] /\ tmp'[target[p]] = Missing
        /\ tmp[target[p]] # Missing
        /\ \A g \in Paths \ {target[p]} : store'[g] = store[g] /\ tmp'[g] = tmp[g]
    BY <1>5, <2>1, RenameEffect
  <2> QED BY <1>0, <1>2, <2>1, <2>2 DEF FitsTmp
<1>6. ASSUME NEW p \in Commands, Remove(p) PROVE Fits(path, store'[path]) /\ FitsTmp(path, tmp'[path])
  <2>1. target[p] \in Paths
    BY <1>6, AimFacts DEF Remove, At, Busy
  <2> QED BY <1>0, <1>2, <1>6, <2>1, RemoveEffect
<1>7. ASSUME NEW f \in Files, NEW c \in Mine, UserEdits(f, c)
      PROVE  Fits(path, store'[path]) /\ FitsTmp(path, tmp'[path])
  <2>1. Fits(File(f), c)
    BY PathFacts DEF Fits, Content
  <2>2. /\ store'[File(f)] = c /\ tmp' = tmp
        /\ \A g \in Paths \ {File(f)} : store'[g] = store[g]
    BY <1>7, UserEditsEffect
  <2>3. CASE path = File(f)
    BY <1>0, <2>1, <2>2, <2>3
  <2>4. CASE path # File(f)
    BY <1>0, <2>2, <2>4
  <2> QED BY <2>3, <2>4
<1>8. CASE \E p \in Commands, f \in BOOLEAN, s \in Seconds : Begin(p, f, s)
  BY <1>1, <1>8, BeginEffect
<1>9. CASE \E p \in Commands, f \in Files : Look(p, f)
  BY <1>1, <1>9, LookEffect
<1>10. CASE \E p \in Commands : Finish(p) \/ Record(p)
  BY <1>1, <1>10 DEF Finish, Record, files
<1>11. CASE \E p \in Commands : FillFails(p) \/ RenameFails(p) \/ Dies(p)
  BY <1>1, <1>11 DEF FillFails, RenameFails, Dies, files
<1>12. CASE \E f \in Files, v \in Versions : Sync(f, v)
  BY <1>1, <1>12, SyncEffect
<1>13. CASE UNCHANGED vars
  BY <1>1, <1>13 DEF vars, files
<1> QED
  BY <1>3, <1>4, <1>5, <1>6, <1>7, <1>8, <1>9, <1>10, <1>11, <1>12, <1>13, NextCases

\* A file that is there stays there.
LEMMA StaysThere ==
  ASSUME TypeOK, ShapeInv, FlowInv, [Next]_vars, NEW path \in Paths, store[path] # Missing
  PROVE  store'[path] # Missing
<1>1. CASE UNCHANGED store
  BY <1>1
<1>2. Torn # Missing /\ Missing \notin Versions /\ Missing \notin Mine /\ Missing \notin Hashes
  BY SharedProjectAssumption DEF Content
<1>3. ASSUME NEW p \in Commands, Fill(p) PROVE store'[path] # Missing
  <2>1. step[p] = "fill" /\ target[p] \in Paths
    BY <1>3, AimFacts DEF Fill, At, Busy
  <2>2. data[p] # Missing
    BY <1>2, <2>1, PathKinds, SharedProjectAssumption DEF FlowInv, Flow
  <2> QED BY <1>2, <1>3, <2>1, <2>2, FillEffect, OverFacts
<1>4. ASSUME NEW p \in Commands, Rename(p) PROVE store'[path] # Missing
  <2>1. target[p] \in Paths
    BY <1>4, AimFacts DEF Rename, At, Busy
  <2>2. /\ store'[target[p]] = tmp[target[p]] /\ tmp'[target[p]] = Missing
        /\ tmp[target[p]] # Missing
        /\ \A g \in Paths \ {target[p]} : store'[g] = store[g] /\ tmp'[g] = tmp[g]
    BY <1>4, <2>1, RenameEffect
  <2> QED BY <2>1, <2>2
<1>5. ASSUME NEW f \in Files, NEW c \in Mine, UserEdits(f, c) PROVE store'[path] # Missing
  <2>1. store'[File(f)] = c /\ \A g \in Paths \ {File(f)} : store'[g] = store[g]
    BY <1>5, UserEditsEffect
  <2>2. CASE path = File(f)
    BY <1>2, <2>1, <2>2
  <2>3. CASE path # File(f)
    BY <2>1, <2>3
  <2> QED BY <2>2, <2>3
<1>6. CASE \E p \in Commands, f \in BOOLEAN, s \in Seconds : Begin(p, f, s)
  BY <1>1, <1>6, BeginEffect
<1>7. CASE \E p \in Commands, f \in Files : Look(p, f)
  BY <1>1, <1>7, LookEffect
<1>8. CASE \E p \in Commands : Finish(p) \/ Record(p) \/ Open(p)
  BY <1>1, <1>8 DEF Finish, Record, Open, files
<1>9. CASE \E p \in Commands : FillFails(p) \/ RenameFails(p) \/ Remove(p) \/ Dies(p)
  BY <1>1, <1>9 DEF FillFails, RenameFails, Remove, Dies, files
<1>10. CASE \E f \in Files, v \in Versions : Sync(f, v)
  BY <1>1, <1>10, SyncEffect
<1>11. CASE UNCHANGED vars
  BY <1>1, <1>11 DEF vars, files
<1> QED BY <1>3, <1>4, <1>5, <1>6, <1>7, <1>8, <1>9, <1>10, <1>11, NextCases

\* What Flow sees of a command that does not move.
LEMMA FlowFrame ==
  ASSUME TypeOK, ShapeInv, FlowInv, [Next]_vars, NEW q \in Commands,
         step'[q] = step[q], target'[q] = target[q], force'[q] = force[q],
         second'[q] = second[q], todo'[q] = todo[q], conflict'[q] = conflict[q],
         data'[q] = data[q],
         fd'[q] = "none" <=> fd[q] = "none",
         fd'[q] = "tmp" => fd[q] = "tmp" /\ tmp'[target[q]] # Missing
  PROVE  Flow(q)'
<1>1. Flow(q)
  BY DEF FlowInv
<1>2. target[q] \in Backups => store'[File(FileOf(q))] # Missing
  BY <1>1, StaysThere, AimFacts, PathFacts DEF Flow
<1> QED BY <1>1, <1>2 DEF Flow, BackupOf, FileOf

\* A command that has ended has nothing open and nothing to write.
LEMMA IdleFlow ==
  ASSUME NEW p \in Commands, step'[p] = "idle", target'[p] = NoPath, conflict'[p] = FALSE,
         fd'[p] = "none"
  PROVE  Flow(p)'
BY NoPathFacts DEF Flow, Busy, Working

\* The command that moves has what its next step needs.
LEMMA FlowOfMover ==
  ASSUME TypeOK, ShapeInv, FlowInv, [Next]_vars, NEW p \in Commands
  PROVE  /\ (\E f \in BOOLEAN, s \in Seconds : Begin(p, f, s)) => Flow(p)'
         /\ (\E f \in Files : Look(p, f)) => Flow(p)'
         /\ Finish(p) \/ Record(p) \/ Open(p) \/ Fill(p) \/ FillFails(p) => Flow(p)'
         /\ Rename(p) \/ RenameFails(p) \/ Remove(p) \/ Dies(p) => Flow(p)'
<1>0. Flow(p)
  BY DEF FlowInv
<1>a. step[p] \in Busy => target[p] \in Paths
  BY AimFacts
<1>1. ASSUME NEW f \in BOOLEAN, NEW s \in Seconds, Begin(p, f, s) PROVE Flow(p)'
  <2>1. /\ step[p] = "idle" /\ step'[p] = "next" /\ target'[p] = target[p]
        /\ conflict'[p] = conflict[p] /\ fd'[p] = fd[p]
    BY <1>1, BeginEffect
  <2>2. target[p] = NoPath /\ ~conflict[p] /\ fd[p] = "none"
    BY <1>0, <2>1 DEF Flow, Busy, TypeOK
  <2> QED BY <2>1, <2>2, NoPathFacts DEF Flow, Busy
<1>2. ASSUME NEW f \in Files, Look(p, f) PROVE Flow(p)'
  <2>0. /\ step[p] = "next" /\ todo'[p] = todo[p] \ {f} /\ second' = second /\ force' = force
        /\ fd' = fd /\ store' = store
    BY <1>2, LookEffect
  <2>1. fd[p] = "none" /\ target[p] = NoPath
    BY <1>0, <2>0 DEF Flow, Busy, TypeOK
  <2>5. conflict[p] => ~force[p]
    BY <1>0 DEF Flow
  <2>2. CASE step'[p] = "next" /\ target'[p] = NoPath /\ (conflict'[p] => ~force[p])
    BY <2>0, <2>1, <2>2, NoPathFacts DEF Flow, Busy
  <2>3. CASE /\ LocallyModified(p, f) /\ step'[p] = "open" /\ target'[p] = BackupOf(p, f)
             /\ conflict' = conflict
    <3>1. target'[p] \in Backups /\ target'[p][2] = f /\ store[File(f)] # Missing
      BY <2>3, PathFacts DEF LocallyModified, BackupOf, TypeOK
    <3> QED BY <2>0, <2>1, <2>3, <2>5, <3>1, PathFacts, NoPathFacts DEF Flow, Busy, BackupOf, FileOf
  <2>4. CASE step'[p] = "open" /\ target'[p] = File(f) /\ conflict' = conflict
    <3>1. target'[p] \in ProjectFiles /\ target'[p][2] = f
      BY <2>4, PathFacts
    <3> QED BY <2>0, <2>1, <2>4, <2>5, <3>1, PathFacts, NoPathFacts DEF Flow, Busy, FileOf
  <2> QED BY <1>2, <2>1, <2>2, <2>3, <2>4, <2>5, LookEffect
<1>3. CASE Finish(p)
  <2>1. step[p] = "next" /\ todo[p] = {} /\ fd' = fd
    BY <1>3, FinishEffect
  <2>2. fd'[p] = "none" /\ (conflict[p] => ~force[p])
    BY <1>0, <2>1 DEF Flow
  <2>3. CASE End(p)
    BY <2>2, <2>3, EndEffect, IdleFlow
  <2>4. CASE /\ ~conflict[p] \/ force[p]
             /\ step'[p] = "open" /\ target'[p] = Lock /\ UNCHANGED plan
    BY <2>1, <2>2, <2>4, PathFacts, NoPathFacts DEF Flow, Busy, Working, plan
  <2> QED BY <1>3, <2>3, <2>4, FinishEffect
<1>4. CASE Record(p)
  <2>1. step[p] = "record" /\ target[p] \in ProjectFiles
    BY <1>0, <1>4 DEF Flow, Record, At
  <2>2. FileOf(p) \in Files
    BY <2>1, AimFacts
  <2>3. step'[p] = "next" /\ target'[p] = NoPath /\ UNCHANGED <<force, conflict, fd>>
    BY <1>4, <2>2, RecordEffect
  <2>4. fd[p] = "none" /\ (conflict[p] => ~force[p])
    BY <1>0, <2>1 DEF Flow
  <2> QED BY <2>3, <2>4, NoPathFacts DEF Flow, Busy
<1>5. CASE Open(p)
  <2>1. step[p] = "open" /\ target[p] \in Paths
    BY <1>5, AimFacts DEF Open, At, Busy
  <2>2. /\ step'[p] = "fill" /\ fd'[p] = "tmp" /\ data'[p] = Source(p)
        /\ tmp'[target[p]] = Empty /\ UNCHANGED <<target, plan, store>>
    BY <1>5, <2>1, OpenEffect
  <2>3. Empty # Missing
    BY SharedProjectAssumption DEF Content
  <2>4. /\ target[p] = Lock => data'[p] \in Hashes
        /\ target[p] \in ProjectFiles => data'[p] \in Versions
        /\ target[p] \in Backups => data'[p] \in Content
    BY <2>1, <2>2, SourceFacts DEF Busy
  <2> QED BY <1>0, <2>1, <2>2, <2>3, <2>4 DEF Flow, Busy, Working, BackupOf, FileOf, plan
<1>6. CASE Fill(p)
  <2>1. step[p] = "fill" /\ target[p] \in Paths
    BY <1>6, AimFacts DEF Fill, At, Busy
  <2>2. /\ step'[p] = "rename" /\ fd'[p] = "none" /\ UNCHANGED <<target, plan>>
    BY <1>6, <2>1, FillEffect
  <2>3. target[p] \in Backups => store'[File(FileOf(p))] # Missing
    BY <1>0, StaysThere, AimFacts, PathFacts DEF Flow
  <2> QED BY <1>0, <2>1, <2>2, <2>3 DEF Flow, Busy, Working, BackupOf, FileOf, plan
<1>7. CASE FillFails(p)
  <2>1. step[p] = "fill" /\ fd'[p] = "none" /\ store' = store
    BY <1>7, FillFailsEffect
  <2>2. CASE End(p)
    BY <2>1, <2>2, EndEffect, IdleFlow
  <2>3. CASE target[p] # Lock /\ step'[p] = "remove" /\ UNCHANGED <<target, plan>>
    BY <1>0, <2>1, <2>3 DEF Flow, Busy, BackupOf, FileOf, plan
  <2> QED BY <1>7, <2>2, <2>3, FillFailsEffect
<1>8. CASE Rename(p)
  <2>1. step[p] = "rename" /\ target[p] \in Paths
    BY <1>8, AimFacts DEF Rename, At, Busy
  <2>2. fd'[p] = "none"
    BY <1>8, <2>1, RenameEffect
  <2>3. CASE End(p)
    BY <2>2, <2>3, EndEffect, IdleFlow
  <2>4. CASE /\ target[p] \in ProjectFiles /\ step'[p] = "record" /\ target'[p] = target[p]
             /\ UNCHANGED plan
    BY <1>0, <2>1, <2>2, <2>4, PathFacts DEF Flow, Busy, BackupOf, FileOf, plan
  <2>5. CASE /\ target[p] \in Backups /\ step'[p] = "open" /\ target'[p] = File(FileOf(p))
             /\ UNCHANGED plan
    <3>1. target'[p] \in ProjectFiles /\ target'[p][2] = FileOf(p)
      BY <2>5, AimFacts, PathFacts
    <3> QED BY <1>0, <2>1, <2>2, <2>5, <3>1, PathFacts, NoPathFacts DEF Flow, Busy, FileOf, plan
  <2> QED BY <1>8, <2>1, <2>3, <2>4, <2>5, RenameEffect
<1>9. CASE RenameFails(p)
  <2>1. step[p] = "rename" /\ fd' = fd /\ store' = store
    BY <1>9, RenameFailsEffect
  <2>2. fd'[p] = "none"
    BY <1>0, <2>1 DEF Flow
  <2>3. CASE End(p)
    BY <2>2, <2>3, EndEffect, IdleFlow
  <2>4. CASE target[p] # Lock /\ step'[p] = "remove" /\ UNCHANGED <<target, plan>>
    BY <1>0, <2>1, <2>2, <2>4 DEF Flow, Busy, BackupOf, FileOf, plan
  <2> QED BY <1>9, <2>3, <2>4, RenameFailsEffect
<1>10. CASE Remove(p)
  <2>1. target[p] \in Paths
    BY <1>10, AimFacts DEF Remove, At, Busy
  <2> QED BY <1>10, <2>1, RemoveEffect, EndEffect, IdleFlow
<1>11. CASE Dies(p)
  BY <1>11, DiesEffect, EndEffect, IdleFlow
<1> QED BY <1>1, <1>2, <1>3, <1>4, <1>5, <1>6, <1>7, <1>8, <1>9, <1>10, <1>11

\* A command that does not move keeps what it has, but its file may be renamed or
\* removed under it.
LEMMA FlowStep == TypeOK /\ ShapeInv /\ FlowInv /\ [Next]_vars => FlowInv'
<1> SUFFICES ASSUME TypeOK, ShapeInv, FlowInv, [Next]_vars, NEW q \in Commands PROVE Flow(q)'
  BY DEF FlowInv
<1>0. fd[q] = "tmp" => step[q] = "fill" /\ tmp[target[q]] # Missing /\ target[q] \in Paths
  BY AimFacts DEF FlowInv, Flow, Busy
<1>a. Empty # Missing /\ Torn # Missing
  BY SharedProjectAssumption DEF Content
<1>1. CASE \E p \in Commands, f \in BOOLEAN, s \in Seconds : Begin(p, f, s)
  <2>1. PICK p \in Commands, f \in BOOLEAN, s \in Seconds : Begin(p, f, s)
    BY <1>1
  <2>2. p # q => Flow(q)'
    BY <1>0, <2>1, BeginEffect, FlowFrame DEF Alone
  <2> QED BY <2>1, <2>2, FlowOfMover
<1>2. CASE \E p \in Commands, f \in Files : Look(p, f)
  <2>1. PICK p \in Commands, f \in Files : Look(p, f)
    BY <1>2
  <2>2. Alone(p) /\ UNCHANGED <<tmp, fd>>
    BY <2>1, LookEffect
  <2>3. p # q => Flow(q)'
    BY <1>0, <2>2, FlowFrame DEF Alone
  <2> QED BY <2>1, <2>3, FlowOfMover
<1>3. ASSUME NEW p \in Commands, Finish(p) \/ Record(p) \/ RenameFails(p) PROVE Flow(q)'
  <2>1. Alone(p) /\ UNCHANGED <<tmp, fd>>
    <3>1. Record(p) => FileOf(p) \in Files
      BY AimFacts DEF FlowInv, Flow, Record, At
    <3> QED BY <1>3, <3>1, FinishEffect, RecordEffect, RenameFailsEffect
  <2>2. p # q => Flow(q)'
    BY <1>0, <2>1, FlowFrame DEF Alone
  <2> QED BY <1>3, <2>2, FlowOfMover
<1>4. ASSUME NEW p \in Commands, Open(p) PROVE Flow(q)'
  <2>1. target[p] \in Paths
    BY <1>4, AimFacts DEF Open, At, Busy
  <2>2. /\ Alone(p) /\ SameFd(p) /\ tmp'[target[p]] = Empty
        /\ \A path \in Paths \ {target[p]} : tmp'[path] = tmp[path]
    BY <1>4, <2>1, OpenEffect
  <2>3. p # q => Flow(q)'
    BY <1>0, <1>a, <2>2, FlowFrame DEF Alone, SameFd
  <2> QED BY <1>4, <2>3, FlowOfMover
<1>5. ASSUME NEW p \in Commands, Fill(p) PROVE Flow(q)'
  <2>1. step[p] = "fill" /\ target[p] \in Paths
    BY <1>5, AimFacts DEF Fill, At, Busy
  <2>2. data[p] # Missing
    BY <1>a, <2>1, PathKinds, SharedProjectAssumption DEF FlowInv, Flow, Content
  <2>3. /\ Alone(p) /\ SameFd(p)
        /\ \A path \in Paths : tmp[path] # Missing => tmp'[path] # Missing
    BY <1>5, <1>a, <2>1, <2>2, FillEffect, OverFacts
  <2>4. p # q => Flow(q)'
    BY <1>0, <2>3, FlowFrame DEF Alone, SameFd
  <2> QED BY <1>5, <2>4, FlowOfMover
<1>6. ASSUME NEW p \in Commands, FillFails(p) \/ Dies(p) PROVE Flow(q)'
  <2>1. Alone(p) /\ SameFd(p) /\ tmp' = tmp
    BY <1>6, FillFailsEffect, DiesEffect
  <2>2. p # q => Flow(q)'
    BY <1>0, <2>1, FlowFrame DEF Alone, SameFd
  <2> QED BY <1>6, <2>2, FlowOfMover
<1>7. ASSUME NEW p \in Commands, Rename(p) PROVE Flow(q)'
  <2>1. target[p] \in Paths
    BY <1>7, AimFacts DEF Rename, At, Busy
  <2>2. /\ Alone(p)
        /\ \A path \in Paths \ {target[p]} : tmp'[path] = tmp[path]
        /\ \A r \in Commands \ {p} : Moved(p, r)
    BY <1>7, <2>1, RenameEffect
  <2>3. p # q => Flow(q)'
    BY <1>0, <2>2, FlowFrame DEF Alone, Moved
  <2> QED BY <1>7, <2>3, FlowOfMover
<1>8. ASSUME NEW p \in Commands, Remove(p) PROVE Flow(q)'
  <2>1. target[p] \in Paths
    BY <1>8, AimFacts DEF Remove, At, Busy
  <2>2. /\ Alone(p)
        /\ \A path \in Paths \ {target[p]} : tmp'[path] = tmp[path]
        /\ p # q => fd'[q] = IF target[q] = target[p] /\ fd[q] = "tmp" THEN "gone" ELSE fd[q]
    BY <1>8, <2>1, RemoveEffect
  <2>3. p # q => Flow(q)'
    BY <1>0, <2>2, FlowFrame DEF Alone
  <2> QED BY <1>8, <2>3, FlowOfMover
<1>9. CASE \E f \in Files, c \in Mine : UserEdits(f, c)
  BY <1>0, <1>9, UserEditsEffect, FlowFrame DEF plan
<1>10. CASE \E f \in Files, v \in Versions : Sync(f, v)
  BY <1>0, <1>10, SyncEffect, FlowFrame DEF plan
<1>11. CASE UNCHANGED vars
  BY <1>0, <1>11, FlowFrame DEF vars, files, plan, writing
<1> QED
  BY <1>1, <1>2, <1>3, <1>4, <1>5, <1>6, <1>7, <1>8, <1>9, <1>10, <1>11, NextCases

\* What a command plans, reads and is at has its type.
LEMMA EndTypes ==
  ASSUME TypeOK, NEW p \in Commands, End(p)
  PROVE  /\ step' \in [Commands -> Steps] /\ target' \in [Commands -> Paths \cup {NoPath}]
         /\ force' \in [Commands -> BOOLEAN] /\ conflict' \in [Commands -> BOOLEAN]
         /\ second' \in [Commands -> Seconds] /\ baseline' \in [Commands -> Hashes]
         /\ todo' \in [Commands -> SUBSET Files]
         /\ data' \in [Commands -> Content \cup {Missing} \cup Hashes]
         /\ late' \in [Commands -> BOOLEAN]
<1>1. NoHashes \in Hashes /\ 1 \in Seconds
  BY SharedProjectAssumption DEF NoHashes, Hashes, Seconds
<1> QED BY <1>1 DEF TypeOK, End, Goto, Aim, Steps

\* Types, from the actions; that a command at work has a target is FlowInv's.
LEMMA TypeStep == TypeOK /\ ShapeInv /\ FlowInv /\ [Next]_vars => TypeOK'
<1> SUFFICES ASSUME TypeOK, ShapeInv, FlowInv, [Next]_vars PROVE TypeOK'
  OBVIOUS
<1> DEFINE Goal ==
      /\ template' \in [Files -> Versions]
      /\ store' \in [Paths -> Content \cup {Missing} \cup Hashes]
      /\ tmp' \in [Paths -> Content \cup {Missing} \cup Hashes]
      /\ step' \in [Commands -> Steps]
      /\ target' \in [Commands -> Paths \cup {NoPath}]
      /\ force' \in [Commands -> BOOLEAN] /\ conflict' \in [Commands -> BOOLEAN]
      /\ second' \in [Commands -> Seconds] /\ clock' \in Seconds \cup {0}
      /\ baseline' \in [Commands -> Hashes]
      /\ todo' \in [Commands -> SUBSET Files]
      /\ data' \in [Commands -> Content \cup {Missing} \cup Hashes]
      /\ fd' \in [Commands -> {"none", "tmp", "there", "gone"}]
      /\ late' \in [Commands -> BOOLEAN]
      /\ {shared', mixed', calm', quiet', overlap', succeeded'} \subseteq BOOLEAN
      /\ events' \in 0..MaxEvents
<1>0. \A p \in Commands : step'[p] \in {"open", "fill", "rename", "remove", "record"} => target'[p] # NoPath
  BY FlowStep DEF FlowInv, Flow, Busy
<1>a. Event => events' \in 0..MaxEvents /\ quiet' = FALSE /\ calm' \in BOOLEAN
  BY SharedProjectAssumption DEF Event, TypeOK
<1>b. LoadLock \in Hashes /\ NoHashes \in Hashes
  BY DEF LoadLock, NoHashes, Hashes
<1>1. ASSUME NEW p \in Commands, NEW f \in BOOLEAN, NEW s \in Seconds, Begin(p, f, s) PROVE Goal
  BY <1>1, <1>b DEF TypeOK, Begin, At, Goto, Steps, files, writing
<1>2. ASSUME NEW p \in Commands, NEW f \in Files, Look(p, f) PROVE Goal
  <2>1. /\ step' \in [Commands -> Steps]
        /\ target' \in [Commands -> Paths \cup {NoPath}]
    <3>1. BackupOf(p, f) \in Paths /\ File(f) \in Paths
      BY PathFacts DEF BackupOf, TypeOK
    <3> QED BY <1>2, <3>1 DEF TypeOK, Look, Goto, Aim, Steps
  <2>2. baseline' \in [Commands -> Hashes]
    <3>1. store[File(f)] = template[f] => [baseline[p] EXCEPT ![f] = store[File(f)]] \in Hashes
      BY DEF TypeOK, Hashes, Content
    <3> QED BY <1>2, <3>1 DEF TypeOK, Look
  <2>3. conflict' \in [Commands -> BOOLEAN] /\ todo' \in [Commands -> SUBSET Files]
        /\ late' \in [Commands -> BOOLEAN]
    BY <1>2 DEF TypeOK, Look
  <2> QED BY <1>2, <2>1, <2>2, <2>3 DEF TypeOK, Look, files, writing, past
<1>3. ASSUME NEW p \in Commands, Finish(p) PROVE Goal
  <2>1. CASE conflict[p] /\ ~force[p]
    BY <1>3, <2>1, EndTypes DEF TypeOK, Finish, files, past
  <2>2. CASE ~(conflict[p] /\ ~force[p])
    <3>1. Goto(p, "open") /\ Aim(p, Lock) /\ UNCHANGED <<plan, data, late>>
      BY <1>3, <2>2 DEF Finish
    <3>2. step' \in [Commands -> Steps] /\ target' \in [Commands -> Paths \cup {NoPath}]
      BY <3>1, PathFacts DEF TypeOK, Goto, Aim, Steps
    <3> QED BY <1>3, <3>1, <3>2 DEF TypeOK, Finish, files, plan, past
  <2> QED BY <2>1, <2>2
<1>4. ASSUME NEW p \in Commands, Record(p) PROVE Goal
  <2>1. target[p] \in ProjectFiles /\ FileOf(p) \in Files
    BY <1>4, AimFacts DEF FlowInv, Flow, Record, At
  <2>2. File(FileOf(p)) \in Paths \ {Lock}
    BY <2>1, PathFacts
  <2>3. store[File(FileOf(p))] \in Content \cup {Missing}
    BY <2>2 DEF ShapeInv
  <2>4. baseline' \in [Commands -> Hashes]
    BY <1>4, <2>1, <2>3 DEF TypeOK, Record, Hashes
  <2> QED BY <1>4, <2>4 DEF TypeOK, Record, Goto, Aim, Steps, files, writing, history, past
<1>5. ASSUME NEW p \in Commands, Open(p) PROVE Goal
  <2>1. step[p] = "open" /\ target[p] \in Paths
    BY <1>5, AimFacts DEF Open, At, Busy
  <2>2. Source(p) \in Content \cup Hashes
    BY <2>1, SourceFacts, PathKinds DEF Busy, Content
  <2>3. tmp' \in [Paths -> Content \cup {Missing} \cup Hashes]
    BY <1>5, <2>1 DEF TypeOK, Open, Truncated, Content
  <2> QED BY <1>5, <2>2, <2>3 DEF TypeOK, Open, Goto, Steps, plan
<1>6. ASSUME NEW p \in Commands, Fill(p) PROVE Goal
  <2>1. step[p] = "fill" /\ target[p] \in Paths
    BY <1>6, AimFacts DEF Fill, At, Busy
  <2>2. \A old : Over(old, data[p]) \subseteq Content \cup {Missing} \cup Hashes
    BY OverFacts DEF TypeOK, Content
  <2>3. /\ tmp' \in [Paths -> Content \cup {Missing} \cup Hashes]
        /\ store' \in [Paths -> Content \cup {Missing} \cup Hashes]
    BY <1>6, <2>1, <2>2 DEF TypeOK, Fill, files
  <2> QED BY <1>6, <2>3 DEF TypeOK, Fill, Goto, Steps, plan, history, past
<1>7. ASSUME NEW p \in Commands, FillFails(p) PROVE Goal
  <2>1. CASE target[p] = Lock
    BY <1>7, <1>a, <2>1, EndTypes DEF TypeOK, FillFails, files
  <2>2. CASE target[p] # Lock
    BY <1>7, <1>a, <2>2 DEF TypeOK, FillFails, Goto, Steps, files, plan
  <2> QED BY <2>1, <2>2
<1>8. ASSUME NEW p \in Commands, Rename(p) PROVE Goal
  <2>1. step[p] = "rename" /\ target[p] \in Paths
    BY <1>8, AimFacts DEF Rename, At, Busy
  <2>2. /\ store' \in [Paths -> Content \cup {Missing} \cup Hashes]
        /\ tmp' \in [Paths -> Content \cup {Missing} \cup Hashes]
    BY <1>8, <2>1 DEF TypeOK, Rename
  <2>3. fd' \in [Commands -> {"none", "tmp", "there", "gone"}]
    BY <1>8 DEF TypeOK, Rename
  <2>4. CASE target[p] = Lock
    BY <1>8, <2>2, <2>3, <2>4, EndTypes DEF TypeOK, Rename
  <2>5. CASE target[p] \in ProjectFiles
    <3>1. Goto(p, "record") /\ UNCHANGED <<target, plan, data, late, succeeded>>
      BY <1>8, <2>5, PathFacts DEF Rename
    <3>2. step' \in [Commands -> Steps]
      BY <3>1 DEF TypeOK, Goto, Steps
    <3> QED BY <1>8, <2>2, <2>3, <3>1, <3>2 DEF TypeOK, Rename, plan
  <2>6. CASE target[p] \in Backups
    <3>1. File(FileOf(p)) \in Paths
      BY <2>6, AimFacts, PathFacts
    <3>2. /\ Goto(p, "open") /\ Aim(p, File(FileOf(p)))
          /\ UNCHANGED <<plan, data, late, succeeded>>
      BY <1>8, <2>6, PathFacts DEF Rename
    <3>3. step' \in [Commands -> Steps] /\ target' \in [Commands -> Paths \cup {NoPath}]
      BY <3>1, <3>2 DEF TypeOK, Goto, Aim, Steps
    <3> QED BY <1>8, <2>2, <2>3, <3>2, <3>3 DEF TypeOK, Rename, plan
  <2> QED BY <2>1, <2>4, <2>5, <2>6, PathKinds
<1>9. ASSUME NEW p \in Commands, RenameFails(p) PROVE Goal
  <2>1. CASE target[p] = Lock
    BY <1>9, <2>1, EndTypes DEF TypeOK, RenameFails, files, past
  <2>2. CASE target[p] # Lock
    BY <1>9, <2>2 DEF TypeOK, RenameFails, Goto, Steps, files, plan, past
  <2> QED BY <2>1, <2>2
<1>10. ASSUME NEW p \in Commands, Remove(p) PROVE Goal
  BY <1>10, EndTypes DEF TypeOK, Remove, past
<1>11. ASSUME NEW p \in Commands, Dies(p) PROVE Goal
  BY <1>11, <1>a, EndTypes DEF TypeOK, Dies, files
<1>12. ASSUME NEW f \in Files, NEW c \in Mine, UserEdits(f, c) PROVE Goal
  <2>1. store' \in [Paths -> Content \cup {Missing} \cup Hashes]
    BY <1>12 DEF TypeOK, UserEdits, Content
  <2>2. fd' \in [Commands -> {"none", "tmp", "there", "gone"}]
    BY <1>12 DEF TypeOK, UserEdits
  <2>3. late' \in [Commands -> BOOLEAN]
    BY <1>12 DEF TypeOK, UserEdits
  <2> QED BY <1>12, <1>a, <2>1, <2>2, <2>3 DEF TypeOK, UserEdits, plan
<1>13. ASSUME NEW f \in Files, NEW v \in Versions, Sync(f, v) PROVE Goal
  BY <1>13, <1>a DEF TypeOK, Sync, files, plan, writing
<1>14. ASSUME UNCHANGED vars PROVE Goal
  BY <1>14 DEF TypeOK, vars, files, plan, writing, history, past
<1> HIDE DEF Goal
<1>15. Goal
  BY <1>1, <1>2, <1>3, <1>4, <1>5, <1>6, <1>7, <1>8, <1>9, <1>10, <1>11, <1>12, <1>13, <1>14, NextCases
<1> QED BY <1>0, <1>15 DEF TypeOK, Goal

\* Only Open makes a command a writer, and only Begin calls off an overlap.
LEMMA WritersFrame ==
  ASSUME TypeOK, ShapeInv, FlowInv, [Next]_vars, ~(\E p \in Commands : Open(p))
  PROVE  /\ \A q \in Commands :
              step'[q] \in Writing => step[q] \in Writing /\ target'[q] = target[q]
         /\ mixed' = mixed
         /\ ~(\E p \in Commands, f \in BOOLEAN, s \in Seconds : Begin(p, f, s)) => overlap' = overlap
<1>1. ASSUME NEW p \in Commands, Alone(p), step'[p] \notin Writing \/
               (step[p] = "fill" /\ step'[p] = "rename" /\ target' = target)
      PROVE  \A q \in Commands :
               step'[q] \in Writing => step[q] \in Writing /\ target'[q] = target[q]
  BY <1>1 DEF Alone, Writing
<1>2. ASSUME NEW p \in Commands,
             \/ \E f \in BOOLEAN, s \in Seconds : Begin(p, f, s)
             \/ \E f \in Files : Look(p, f)
      PROVE  Alone(p) /\ step'[p] \notin Writing /\ mixed' = mixed
  BY <1>2, BeginEffect, LookEffect DEF Writing, past
<1>3. ASSUME NEW p \in Commands, Finish(p) \/ RenameFails(p) \/ FillFails(p) \/ Dies(p)
      PROVE  Alone(p) /\ step'[p] \notin Writing /\ mixed' = mixed /\ overlap' = overlap
  BY <1>3, FinishEffect, RenameFailsEffect, FillFailsEffect, DiesEffect, EndEffect DEF Writing, past
<1>4. ASSUME NEW p \in Commands, Record(p)
      PROVE  Alone(p) /\ step'[p] \notin Writing /\ mixed' = mixed /\ overlap' = overlap
  <2>1. FileOf(p) \in Files
    BY <1>4, AimFacts DEF FlowInv, Flow, Record, At
  <2> QED BY <1>4, <2>1, RecordEffect DEF Writing, past
<1>5. ASSUME NEW p \in Commands, Rename(p) \/ Remove(p)
      PROVE  Alone(p) /\ step'[p] \notin Writing /\ mixed' = mixed /\ overlap' = overlap
  <2>1. target[p] \in Paths
    BY <1>5, AimFacts DEF Rename, Remove, At, Busy
  <2>2. Rename(p) => Alone(p) /\ step'[p] \notin Writing /\ mixed' = mixed /\ overlap' = overlap
    BY <2>1, RenameEffect, EndEffect DEF Writing
  <2>3. Remove(p) => Alone(p) /\ step'[p] \notin Writing /\ mixed' = mixed /\ overlap' = overlap
    BY <2>1, RemoveEffect, EndEffect DEF Writing, past
  <2> QED BY <1>5, <2>2, <2>3
<1>6. ASSUME NEW p \in Commands, Fill(p)
      PROVE  /\ Alone(p) /\ step[p] = "fill" /\ step'[p] = "rename" /\ target' = target
             /\ mixed' = mixed /\ overlap' = overlap
  <2>1. target[p] \in Paths
    BY <1>6, AimFacts DEF Fill, At, Busy
  <2> QED BY <1>6, <2>1, FillEffect DEF history, past
<1>7. CASE \/ \E f \in Files, c \in Mine : UserEdits(f, c)
           \/ \E f \in Files, v \in Versions : Sync(f, v)
           \/ UNCHANGED vars
  BY <1>7, UserEditsEffect, SyncEffect DEF vars, history, past
<1>8. (\E p \in Commands, f \in Files : Look(p, f)) => overlap' = overlap
  BY LookEffect DEF past
<1> QED BY <1>1, <1>2, <1>3, <1>4, <1>5, <1>6, <1>7, <1>8, NextCases

\* A file gets renamed under a writer only by another writer.
LEMMA ThereFrame ==
  ASSUME TypeOK, ShapeInv, FlowInv, [Next]_vars, NEW q \in Commands, fd'[q] = "there"
  PROVE  \/ fd[q] = "there" /\ target'[q] = target[q]
         \/ \E p \in Commands \ {q} :
              Rename(p) /\ step[p] = "rename" /\ step[q] = "fill" /\ target[q] = target[p] /\ fd[q] = "tmp"
<1>0. fd[q] = "none" <=> step[q] # "fill"
  BY DEF FlowInv, Flow
<1>1. step'[q] = "fill"
  BY FlowStep DEF FlowInv, Flow
<1>2. ASSUME NEW p \in Commands, Open(p) PROVE fd[q] = "there" /\ target'[q] = target[q]
  <2>1. target[p] \in Paths
    BY <1>2, AimFacts DEF Open, At, Busy
  <2> QED BY <1>2, <2>1, OpenEffect DEF SameFd
<1>3. CASE ~(\E p \in Commands : Open(p))
  <2>1. target'[q] = target[q]
    BY <1>1, <1>3, WritersFrame DEF Writing
  <2>2. ASSUME NEW p \in Commands, Rename(p), fd[q] # "there"
        PROVE  step[p] = "rename" /\ step[q] = "fill" /\ target[q] = target[p] /\ fd[q] = "tmp" /\ p # q
    <3>1. target[p] \in Paths
      BY <2>2, AimFacts DEF Rename, At, Busy
    <3>2. step[p] = "rename" /\ fd'[p] = "none" /\ \A r \in Commands \ {p} : Moved(p, r)
      BY <2>2, <3>1, RenameEffect
    <3> QED BY <1>0, <2>2, <3>2 DEF Moved
  <2>3. ASSUME NEW p \in Commands, Fill(p) \/ Remove(p) PROVE fd[q] = "there"
    <3>1. target[p] \in Paths
      BY <2>3, AimFacts DEF Fill, Remove, At, Busy
    <3>2. Fill(p) => fd[q] = "there"
      BY <3>1, FillEffect DEF SameFd
    <3>3. Remove(p) => fd[q] = "there"
      BY <3>1, RemoveEffect
    <3> QED BY <2>3, <3>2, <3>3
  <2>4. CASE \/ \E p \in Commands, f \in BOOLEAN, s \in Seconds : Begin(p, f, s)
             \/ \E p \in Commands, f \in Files : Look(p, f)
    BY <2>1, <2>4, BeginEffect, LookEffect
  <2>5. ASSUME NEW p \in Commands, Finish(p) \/ Record(p) \/ RenameFails(p) PROVE fd[q] = "there"
    BY <2>5 DEF Finish, Record, RenameFails, writing
  <2>6. ASSUME NEW p \in Commands, FillFails(p) \/ Dies(p) PROVE fd[q] = "there"
    BY <2>6, FillFailsEffect, DiesEffect DEF SameFd
  <2>7. CASE \/ \E f \in Files, c \in Mine : UserEdits(f, c)
             \/ \E f \in Files, v \in Versions : Sync(f, v)
             \/ UNCHANGED vars
    BY <2>1, <2>7, UserEditsEffect, SyncEffect DEF vars, writing
  <2> QED BY <1>3, <2>1, <2>2, <2>3, <2>4, <2>5, <2>6, <2>7, NextCases
<1> QED BY <1>2, <1>3

\* Two with one file open overlap, and so do two of which one has its own renamed.
LEMMA ExclusiveStep ==
  TypeOK /\ ShapeInv /\ FlowInv /\ ExclusiveInv /\ [Next]_vars => ExclusiveInv'
<1> SUFFICES ASSUME TypeOK, ShapeInv, FlowInv, ExclusiveInv, [Next]_vars PROVE ExclusiveInv'
  OBVIOUS
<1>0. \A p \in Commands : fd[p] # "none" <=> step[p] = "fill"
  BY DEF FlowInv, Flow
<1>1. CASE \E p \in Commands, f \in BOOLEAN, s \in Seconds : Begin(p, f, s) /\ AllIdle
  <2>1. PICK p \in Commands : \E f \in BOOLEAN, s \in Seconds : Begin(p, f, s) /\ AllIdle
    BY <1>1
  <2>2. /\ Alone(p) /\ step'[p] = "next" /\ overlap' = FALSE /\ fd' = fd
        /\ \A q \in Commands : step[q] = "idle"
    BY <2>1, BeginEffect DEF AllIdle, At
  <2>3. \A q \in Commands : step'[q] \notin Writing /\ fd'[q] # "there"
    BY <1>0, <2>2 DEF Alone, Writing
  <2> QED BY <2>2, <2>3 DEF ExclusiveInv
<1>2. ASSUME NEW p \in Commands, Open(p) PROVE ExclusiveInv'
  <2>1. target[p] \in Paths
    BY <1>2, AimFacts DEF Open, At, Busy
  <2>2. /\ Alone(p) /\ SameFd(p) /\ fd'[p] = "tmp" /\ target' = target
        /\ LET another == \E q \in Commands : step[q] \in Writing /\ target[q] = target[p]
           IN mixed' = (mixed \/ another) /\ overlap' = (overlap \/ another)
    BY <1>2, <2>1, OpenEffect
  <2>3. overlap' => mixed'
    BY <2>2 DEF ExclusiveInv
  <2>4. ASSUME ~overlap', NEW q \in Commands, NEW r \in Commands \ {q}, step'[q] \in Writing, step'[r] \in Writing
        PROVE  target'[q] # target'[r]
    BY <2>2, <2>4 DEF ExclusiveInv, Alone
  <2>5. ASSUME ~overlap', NEW q \in Commands PROVE fd'[q] # "there"
    BY <2>2, <2>5 DEF ExclusiveInv, SameFd
  <2> QED BY <2>3, <2>4, <2>5 DEF ExclusiveInv
<1>3. CASE /\ ~(\E p \in Commands : Open(p))
           /\ ~(\E p \in Commands, f \in BOOLEAN, s \in Seconds : Begin(p, f, s) /\ AllIdle)
  <2>1. overlap' = overlap /\ mixed' = mixed
    BY <1>3, WritersFrame, BeginEffect
  <2>2. \A q \in Commands : step'[q] \in Writing => step[q] \in Writing /\ target'[q] = target[q]
    BY <1>3, WritersFrame
  <2>3. ASSUME ~overlap', NEW q \in Commands PROVE fd'[q] # "there"
    BY <2>1, <2>3, ThereFrame DEF ExclusiveInv, Writing
  <2> QED BY <2>1, <2>2, <2>3 DEF ExclusiveInv
<1> QED BY <1>1, <1>2, <1>3

-------------------------------------------------------------------------------
(* Who can change what *)

\* p takes the step.
Moves(p) ==
  \/ \E f \in BOOLEAN, s \in Seconds : Begin(p, f, s)
  \/ \E f \in Files : Look(p, f)
  \/ Finish(p) \/ Record(p) \/ Open(p) \/ Fill(p) \/ FillFails(p)
  \/ Rename(p) \/ RenameFails(p) \/ Remove(p) \/ Dies(p)

Stays(q) ==
  /\ step'[q] = step[q] /\ target'[q] = target[q] /\ force'[q] = force[q]
  /\ second'[q] = second[q] /\ baseline'[q] = baseline[q] /\ todo'[q] = todo[q]
  /\ conflict'[q] = conflict[q] /\ data'[q] = data[q]

\* The file q has open is where it was, or another has moved, replaced or removed it.
FdStays(q) ==
  \/ fd'[q] = fd[q]
  \/ \E p \in Commands \ {q} :
       /\ target[p] = target[q]
       /\ \/ Rename(p) /\ fd[q] = "tmp" /\ fd'[q] = "there"
          \/ Rename(p) /\ fd[q] = "there" /\ fd'[q] = "gone"
          \/ Remove(p) /\ fd[q] = "tmp" /\ fd'[q] = "gone"
  \/ \E f \in Files, c \in Mine :
       UserEdits(f, c) /\ target[q] = File(f) /\ fd[q] = "there" /\ fd'[q] = "gone"

\* A command that does not move is left as it is, but for its open file, and late
\* only becomes true by an edit.
LEMMA Bystanders ==
  ASSUME TypeOK, ShapeInv, FlowInv, [Next]_vars, NEW q \in Commands, ~Moves(q)
  PROVE  /\ Stays(q) /\ FdStays(q)
         /\ late'[q] = late[q] \/ \E f \in Files, c \in Mine : UserEdits(f, c)
<1> DEFINE Goal == /\ Stays(q) /\ FdStays(q)
                   /\ late'[q] = late[q] \/ \E f \in Files, c \in Mine : UserEdits(f, c)
<1>1. ASSUME NEW p \in Commands, p # q, Alone(p), SameFd(p) PROVE Goal
  BY <1>1 DEF Alone, SameFd, Stays, FdStays
<1>2. ASSUME NEW p \in Commands, p # q, Alone(p), fd' = fd PROVE Goal
  BY <1>2 DEF Alone, Stays, FdStays
<1>3. ASSUME NEW p \in Commands, Rename(p), p # q PROVE Goal
  <2>1. target[p] \in Paths
    BY <1>3, AimFacts DEF Rename, At, Busy
  <2>2. Alone(p) /\ \A r \in Commands \ {p} : Moved(p, r)
    BY <1>3, <2>1, RenameEffect
  <2> QED BY <1>3, <2>2 DEF Alone, Stays, FdStays, Moved
<1>4. ASSUME NEW p \in Commands, Remove(p), p # q PROVE Goal
  <2>1. target[p] \in Paths
    BY <1>4, AimFacts DEF Remove, At, Busy
  <2>2. /\ Alone(p)
        /\ fd'[q] = IF target[q] = target[p] /\ fd[q] = "tmp" THEN "gone" ELSE fd[q]
    BY <1>4, <2>1, RemoveEffect
  <2> QED BY <1>4, <2>2 DEF Alone, Stays, FdStays
<1>5. ASSUME NEW f \in Files, NEW c \in Mine, UserEdits(f, c) PROVE Goal
  BY <1>5, UserEditsEffect DEF Stays, FdStays, plan
<1>6. ASSUME (\E f \in Files, v \in Versions : Sync(f, v)) \/ UNCHANGED vars PROVE Goal
  BY <1>6, SyncEffect DEF Stays, FdStays, plan, vars, writing, history
<1>7. ASSUME NEW p \in Commands, NEW f \in BOOLEAN, NEW s \in Seconds, Begin(p, f, s), p # q PROVE Goal
  BY <1>2, <1>7, BeginEffect
<1>8. ASSUME NEW p \in Commands, NEW f \in Files, Look(p, f), p # q PROVE Goal
  BY <1>2, <1>8, LookEffect
<1>9. ASSUME NEW p \in Commands, Finish(p) \/ Record(p) \/ RenameFails(p), p # q PROVE Goal
  <2>1. Record(p) => FileOf(p) \in Files
    BY AimFacts DEF FlowInv, Flow, Record, At
  <2>2. Alone(p) /\ fd' = fd
    BY <1>9, <2>1, FinishEffect, RecordEffect, RenameFailsEffect
  <2> QED BY <1>2, <1>9, <2>2
<1>10. ASSUME NEW p \in Commands, Open(p) \/ Fill(p), p # q PROVE Goal
  <2>1. target[p] \in Paths
    BY <1>10, AimFacts DEF Open, Fill, At, Busy
  <2>2. Open(p) => Alone(p) /\ SameFd(p)
    BY <2>1, OpenEffect
  <2>3. Fill(p) => Alone(p) /\ SameFd(p)
    BY <2>1, FillEffect
  <2> QED BY <1>1, <1>10, <2>2, <2>3
<1>11. ASSUME NEW p \in Commands, FillFails(p) \/ Dies(p), p # q PROVE Goal
  BY <1>1, <1>11, FillFailsEffect, DiesEffect
<1> HIDE DEF Goal
<1>12. Goal
  BY <1>3, <1>4, <1>5, <1>6, <1>7, <1>8, <1>9, <1>10, <1>11, NextCases DEF Moves
<1> QED BY <1>12 DEF Goal

\* A path changes by a rename to it, by a write in place, or by an edit.
LEMMA StoreWrites ==
  ASSUME TypeOK, ShapeInv, FlowInv, [Next]_vars, NEW path \in Paths
  PROVE  \/ store'[path] = store[path]
         \/ \E p \in Commands : Rename(p) /\ target[p] = path /\ store'[path] = tmp[path]
         \/ \E p \in Commands : /\ Fill(p) /\ fd[p] = "there" /\ target[p] = path
                                /\ store'[path] \in Over(store[path], data[p])
         \/ \E f \in Files, c \in Mine : UserEdits(f, c) /\ path = File(f) /\ store'[path] = c
<1>1. ASSUME NEW p \in Commands, Rename(p), store'[path] # store[path]
      PROVE  target[p] = path /\ store'[path] = tmp[path]
  <2>1. target[p] \in Paths
    BY <1>1, AimFacts DEF Rename, At, Busy
  <2> QED BY <1>1, <2>1, RenameEffect
<1>2. ASSUME NEW p \in Commands, Fill(p), store'[path] # store[path]
      PROVE  fd[p] = "there" /\ target[p] = path /\ store'[path] \in Over(store[path], data[p])
  <2>1. target[p] \in Paths
    BY <1>2, AimFacts DEF Fill, At, Busy
  <2> QED BY <1>2, <2>1, FillEffect
<1>3. ASSUME NEW f \in Files, NEW c \in Mine, UserEdits(f, c), store'[path] # store[path]
      PROVE  path = File(f) /\ store'[path] = c
  <2>1. store'[File(f)] = c /\ \A g \in Paths \ {File(f)} : store'[g] = store[g]
    BY <1>3, UserEditsEffect
  <2> QED BY <1>3, <2>1
<1>4. ASSUME NEW p \in Commands,
             \/ \E f \in BOOLEAN, s \in Seconds : Begin(p, f, s)
             \/ \E f \in Files : Look(p, f)
             \/ Finish(p) \/ Record(p) \/ Open(p) \/ FillFails(p)
             \/ RenameFails(p) \/ Remove(p) \/ Dies(p)
      PROVE  store' = store
  BY <1>4 DEF Begin, Look, Finish, Record, Open, FillFails, RenameFails, Remove, Dies, files
<1>5. CASE (\E f \in Files, v \in Versions : Sync(f, v)) \/ UNCHANGED vars
  BY <1>5, SyncEffect DEF vars, files
<1> QED BY <1>1, <1>2, <1>3, <1>4, <1>5, NextCases

\* The temporary file of a path changes by what its writers do.
LEMMA TmpWrites ==
  ASSUME TypeOK, ShapeInv, FlowInv, [Next]_vars, NEW path \in Paths
  PROVE  \/ tmp'[path] = tmp[path]
         \/ \E p \in Commands :
              /\ target[p] = path
              /\ \/ Open(p) /\ tmp'[path] = Empty
                 \/ Fill(p) /\ fd[p] = "tmp" /\ tmp'[path] \in Over(tmp[path], data[p])
                 \/ Rename(p) /\ tmp'[path] = Missing
                 \/ Remove(p) /\ tmp'[path] = Missing
<1>0. ASSUME NEW p \in Commands, Open(p) \/ Fill(p) \/ Rename(p) \/ Remove(p)
      PROVE  target[p] \in Paths
  BY <1>0, AimFacts DEF Open, Fill, Rename, Remove, At, Busy
<1>1. ASSUME NEW p \in Commands, Open(p), tmp'[path] # tmp[path]
      PROVE  target[p] = path /\ tmp'[path] = Empty
  BY <1>0, <1>1, OpenEffect
<1>2. ASSUME NEW p \in Commands, Fill(p), tmp'[path] # tmp[path]
      PROVE  target[p] = path /\ fd[p] = "tmp" /\ tmp'[path] \in Over(tmp[path], data[p])
  BY <1>0, <1>2, FillEffect
<1>3. ASSUME NEW p \in Commands, Rename(p), tmp'[path] # tmp[path]
      PROVE  target[p] = path /\ tmp'[path] = Missing
  BY <1>0, <1>3, RenameEffect
<1>4. ASSUME NEW p \in Commands, Remove(p), tmp'[path] # tmp[path]
      PROVE  target[p] = path /\ tmp'[path] = Missing
  BY <1>0, <1>4, RemoveEffect
<1>5. ASSUME NEW p \in Commands,
             \/ \E f \in BOOLEAN, s \in Seconds : Begin(p, f, s)
             \/ \E f \in Files : Look(p, f)
             \/ Finish(p) \/ Record(p) \/ FillFails(p) \/ RenameFails(p) \/ Dies(p)
      PROVE  tmp' = tmp
  BY <1>5 DEF Begin, Look, Finish, Record, FillFails, RenameFails, Dies, files
<1>6. CASE \/ \E f \in Files, c \in Mine : UserEdits(f, c)
           \/ \E f \in Files, v \in Versions : Sync(f, v)
           \/ UNCHANGED vars
  BY <1>6, UserEditsEffect, SyncEffect DEF vars, files
<1> QED BY <1>1, <1>2, <1>3, <1>4, <1>5, <1>6, NextCases

\* What a command has planned changes when it begins; then files only leave todo.
LEMMA PlanFrame ==
  ASSUME TypeOK, ShapeInv, FlowInv, [Next]_vars, NEW q \in Commands, step'[q] # "idle",
         ~(\E f \in BOOLEAN, s \in Seconds : Begin(q, f, s))
  PROVE  /\ step[q] # "idle" /\ second'[q] = second[q] /\ force'[q] = force[q]
         /\ todo'[q] \subseteq todo[q]
<1>1. CASE ~Moves(q)
  BY <1>1, Bystanders DEF Stays
<1>2. CASE \E f \in Files : Look(q, f)
  BY <1>2, LookEffect
<1>3. CASE Finish(q)
  BY <1>3, FinishEffect, EndEffect DEF plan
<1>4. CASE Record(q)
  BY <1>4 DEF Record, At
<1>5. CASE Open(q)
  BY <1>5 DEF Open, At, plan
<1>6. CASE Fill(q)
  BY <1>6 DEF Fill, At, plan
<1>7. CASE FillFails(q)
  BY <1>7, FillFailsEffect, EndEffect DEF plan
<1>8. CASE Rename(q)
  <2>1. target[q] \in Paths
    BY <1>8, AimFacts DEF Rename, At, Busy
  <2> QED BY <1>8, <2>1, RenameEffect, EndEffect DEF plan
<1>9. CASE RenameFails(q)
  BY <1>9, RenameFailsEffect, EndEffect DEF plan
<1>10. CASE Remove(q) \/ Dies(q)
  BY <1>10, EndEffect DEF Remove, Dies
<1> QED BY <1>1, <1>2, <1>3, <1>4, <1>5, <1>6, <1>7, <1>8, <1>9, <1>10 DEF Moves

\* Only Begin moves the clock and shares a backup directory.
LEMMA ClockFrame ==
  ASSUME TypeOK, ShapeInv, FlowInv, [Next]_vars
  PROVE  \/ clock' = clock /\ shared' = shared
         \/ \E p \in Commands, f \in BOOLEAN, s \in Seconds :
              /\ Begin(p, f, s) /\ store' = store /\ clock' = s /\ s \in {clock, clock + 1}
              /\ shared' = (shared \/ s = clock) /\ second'[p] = s
<1>1. ASSUME NEW p \in Commands, NEW f \in BOOLEAN, NEW s \in Seconds, Begin(p, f, s)
      PROVE  /\ store' = store /\ clock' = s /\ s \in {clock, clock + 1}
             /\ shared' = (shared \/ s = clock) /\ second'[p] = s
  BY <1>1, BeginEffect
<1>2. CASE ~(\E p \in Commands, f \in BOOLEAN, s \in Seconds : Begin(p, f, s))
  BY <1>2, NextCases DEF Look, Finish, Record, Open, Fill, FillFails, Rename, RenameFails, Remove,
        Dies, UserEdits, Sync, vars, history, past
<1> QED BY <1>1, <1>2

\* A command that has a file open has just opened it, or does not move.
LEMMA FillerStays ==
  ASSUME TypeOK, ShapeInv, FlowInv, [Next]_vars, NEW q \in Commands, step'[q] = "fill", ~Open(q)
  PROVE  ~Moves(q)
<1>1. (\E f \in Files : Look(q, f)) => step'[q] # "fill"
  BY LookEffect
<1>2. Rename(q) => step'[q] # "fill"
  <2>1. Rename(q) => target[q] \in Paths
    BY AimFacts DEF Rename, At, Busy
  <2> QED BY <2>1, RenameEffect, EndEffect
<1>3. Record(q) \/ Fill(q) \/ Remove(q) \/ Dies(q) => step'[q] # "fill"
  BY EndEffect DEF Record, Fill, Remove, Dies, TypeOK, Goto
<1> QED
  BY <1>1, <1>2, <1>3, BeginEffect, FinishEffect, EndEffect, RenameFailsEffect, FillFailsEffect
     DEF Moves

\* Nobody else is at work on the backup a command is at work on.
LEMMA OneDir ==
  ASSUME TypeOK, FlowInv, DirInv, ~shared, NEW p \in Commands, NEW q \in Commands,
         NEW f \in Files, target[p] = Backup(second[q], f), step[q] # "idle"
  PROVE  p = q /\ FileOf(q) = f /\ step[p] # "idle"
<1>1. second[q] \in Seconds /\ second[p] \in Seconds
  BY DEF TypeOK
<1>2. target[p] \in Backups /\ FileOf(p) = f
  BY <1>1, AimFacts, PathFacts
<1>3. target[p] = Backup(second[p], f) /\ step[p] # "idle"
  BY <1>2, NoPathFacts DEF FlowInv, Flow, BackupOf, Busy
<1>4. second[p] = second[q]
  BY <1>1, <1>3, PathFacts
<1> QED BY <1>2, <1>3, <1>4 DEF DirInv, OwnDir

\* Backups stay missing until the command whose directory it is gets to them.
LEMMA DirStep ==
  TypeOK /\ ShapeInv /\ FlowInv /\ DirInv /\ [Next]_vars => DirInv'
<1> SUFFICES ASSUME TypeOK, ShapeInv, FlowInv, DirInv, [Next]_vars, ~shared'
             PROVE  /\ \A p \in Commands : OwnDir(p)'
                    /\ \A s \in Seconds, f \in Files : s > clock' => store'[Backup(s, f)] = Missing
  BY DEF DirInv
<1>0. ~shared /\ clock \in Nat /\ clock' \in Nat /\ clock' >= clock /\ \A s \in Seconds : s \in Nat
  BY ClockFrame DEF TypeOK, Seconds
<1>1. ASSUME NEW p \in Commands, NEW f \in BOOLEAN, NEW s \in Seconds, Begin(p, f, s)
      PROVE  s = clock + 1 /\ clock' = s /\ second'[p] = s /\ store' = store /\ Alone(p)
  BY <1>0, <1>1, BeginEffect
<1>2. ASSUME NEW p \in Commands, step[p] # "idle"
      PROVE  /\ second[p] <= clock /\ second[p] \in Seconds
             /\ \A f \in todo[p] : store[Backup(second[p], f)] = Missing
             /\ \A q \in Commands \ {p} : step[q] # "idle" => second[p] # second[q]
  BY <1>0, <1>2 DEF DirInv, OwnDir, TypeOK
<1>3. \A s \in Seconds, f \in Files : s > clock => store[Backup(s, f)] = Missing
  BY <1>0 DEF DirInv
<1>4. ASSUME NEW s \in Seconds, NEW f \in Files, store'[Backup(s, f)] # store[Backup(s, f)]
      PROVE  \E p \in Commands : target[p] = Backup(s, f) /\ step[p] \in {"fill", "rename"} /\ second[p] = s
  <2>1. Backup(s, f) \in Paths /\ \A g \in Files : Backup(s, f) # File(g)
    BY PathFacts
  <2>2. PICK p \in Commands : target[p] = Backup(s, f) /\ (Rename(p) \/ Fill(p))
    BY <1>4, <2>1, StoreWrites
  <2>3. step[p] \in {"fill", "rename"} /\ second[p] \in Seconds
    BY <2>2 DEF Rename, Fill, At, TypeOK
  <2>4. target[p] = Backup(second[p], f)
    BY <2>2, AimFacts, PathFacts DEF FlowInv, Flow, BackupOf
  <2>5. second[p] = s
    BY <2>2, <2>3, <2>4, PathFacts
  <2> QED BY <2>2, <2>3, <2>5
<1>5. ASSUME NEW s \in Seconds, NEW f \in Files, s > clock' PROVE store'[Backup(s, f)] = Missing
  BY <1>0, <1>2, <1>3, <1>4, <1>5
<1>6. ASSUME NEW q \in Commands, step'[q] # "idle" PROVE second'[q] <= clock'
  <2>1. CASE \E f \in BOOLEAN, s \in Seconds : Begin(q, f, s)
    BY <1>0, <1>1, <2>1
  <2>2. CASE ~(\E f \in BOOLEAN, s \in Seconds : Begin(q, f, s))
    BY <1>0, <1>2, <1>6, <2>2, PlanFrame
  <2> QED BY <2>1, <2>2
<1>7. ASSUME NEW q \in Commands, step'[q] # "idle", NEW f \in todo'[q]
      PROVE  store'[Backup(second'[q], f)] = Missing
  <2>0. f \in Files
    BY <1>7, TypeStep DEF TypeOK
  <2>1. CASE \E g \in BOOLEAN, s \in Seconds : Begin(q, g, s)
    BY <1>0, <1>1, <1>3, <2>0, <2>1
  <2>2. CASE ~(\E g \in BOOLEAN, s \in Seconds : Begin(q, g, s))
    <3>1. step[q] # "idle" /\ second'[q] = second[q] /\ f \in todo[q]
      BY <1>7, <2>2, PlanFrame
    <3>2. store[Backup(second[q], f)] = Missing /\ second[q] \in Seconds
      BY <1>2, <3>1
    <3>3. ASSUME NEW p \in Commands, target[p] = Backup(second[q], f) PROVE FALSE
      <4>1. p = q /\ FileOf(q) = f
        BY <1>0, <2>0, <3>1, <3>3, OneDir
      <4>2. target[q] \in Backups
        BY <2>0, <3>2, <3>3, <4>1, PathFacts
      <4> QED BY <3>1, <4>1, <4>2 DEF FlowInv, Flow
    <3> QED BY <1>4, <2>0, <3>1, <3>2, <3>3
  <2> QED BY <2>1, <2>2
<1>8. ASSUME NEW q \in Commands, NEW r \in Commands \ {q}, step'[q] # "idle", step'[r] # "idle"
      PROVE  second'[q] # second'[r]
  <2>1. ASSUME NEW p \in {q, r}, ~(\E f \in BOOLEAN, s \in Seconds : Begin(p, f, s))
        PROVE  step[p] # "idle" /\ second'[p] = second[p] /\ second[p] <= clock /\ second[p] \in Nat
    BY <1>0, <1>2, <1>8, <2>1, PlanFrame
  <2>2. ASSUME NEW p \in {q, r}, \E f \in BOOLEAN, s \in Seconds : Begin(p, f, s)
        PROVE  second'[p] = clock + 1 /\ Alone(p)
    BY <1>1, <2>2
  <2>3. ASSUME NEW f \in BOOLEAN, NEW s \in Seconds, NEW g \in BOOLEAN, NEW t \in Seconds,
               Begin(q, f, s), Begin(r, g, t)
        PROVE  FALSE
    <3>1. step[r] = "idle" /\ step'[r] = "next" /\ Alone(q)
      BY <2>3, BeginEffect
    <3> QED BY <3>1 DEF Alone
  <2> QED BY <1>0, <1>2, <2>1, <2>2, <2>3
<1>9. ASSUME NEW q \in Commands, target'[q] \in Backups, step'[q] \in Working
      PROVE  store'[target'[q]] = Missing
  <2>1. CASE step[q] \in Working /\ target'[q] = target[q]
    <3>1. store[target[q]] = Missing
      BY <1>0, <1>9, <2>1 DEF DirInv, OwnDir
    <3>2. PICK f \in Files : target[q] = Backup(second[q], f)
      BY <1>9, <2>1, AimFacts DEF FlowInv, Flow, BackupOf
    <3>3. target[q] \in Paths /\ \A g \in Files : target[q] # File(g)
      BY <1>9, <2>1, PathFacts, PathKinds
    <3>4. ASSUME NEW p \in Commands, target[p] = target[q] PROVE p = q
      BY <1>0, <2>1, <3>2, <3>4, OneDir DEF Working
    <3>5. ~Rename(q)
      <4>1. FileOf(q) \in Files /\ target[q] # Lock /\ target[q] \notin ProjectFiles
        BY <1>9, <2>1, AimFacts, PathFacts
      <4>2. Rename(q) => target'[q] = File(FileOf(q))
        BY <3>3, <4>1, RenameEffect
      <4> QED BY <2>1, <3>3, <4>1, <4>2
    <3>6. ~(Fill(q) /\ fd[q] = "there")
      BY <1>0, <1>9, <2>1 DEF DirInv, OwnDir, Fill, At
    <3> QED BY <2>1, <3>1, <3>3, <3>4, <3>5, <3>6, StoreWrites
  <2>2. CASE \E f \in Files : Look(q, f)
    <3>1. PICK f \in Files : Look(q, f)
      BY <2>2
    <3>2. /\ step[q] = "next" /\ f \in todo[q] /\ store' = store
          /\ target'[q] \in {target[q], BackupOf(q, f), File(f)}
      BY <3>1, LookEffect
    <3>3. target[q] \notin Backups /\ File(f) \notin Backups
      BY <3>2, PathFacts, NoPathFacts DEF FlowInv, Flow, Busy
    <3> QED BY <1>2, <1>9, <3>2, <3>3 DEF BackupOf
  <2>3. (step[q] \in Working /\ target'[q] = target[q]) \/ \E f \in Files : Look(q, f)
    <3>1. target'[q] # NoPath /\ target'[q] # Lock
      BY <1>9, NoPathFacts, PathFacts
    <3>2. CASE ~Moves(q)
      BY <1>9, <3>2, Bystanders DEF Stays
    <3>3. CASE (\E f \in BOOLEAN, s \in Seconds : Begin(q, f, s)) \/ Finish(q) \/ RenameFails(q) \/ FillFails(q)
      BY <1>9, <3>1, <3>3, BeginEffect, FinishEffect, EndEffect, RenameFailsEffect, FillFailsEffect
         DEF Working
    <3>4. CASE Open(q) \/ Fill(q)
      BY <3>4 DEF Open, Fill, At, Working
    <3>5. CASE Record(q) \/ Remove(q) \/ Dies(q)
      BY <1>9, <3>1, <3>5, EndEffect DEF Record, Remove, Dies, TypeOK, Aim
    <3>6. CASE Rename(q)
      <4>1. target[q] \in Paths
        BY <3>6, AimFacts DEF Rename, At, Busy
      <4>2. target'[q] \in Backups => step'[q] \notin Working
        <5>1. target[q] \in Backups => File(FileOf(q)) \notin Backups
          BY AimFacts, PathFacts
        <5> QED BY <3>6, <4>1, <5>1, RenameEffect, EndEffect, PathFacts DEF Working
      <4> QED BY <1>9, <4>2
    <3> QED BY <3>2, <3>3, <3>4, <3>5, <3>6 DEF Moves
  <2> QED BY <2>1, <2>2, <2>3
<1>10. ASSUME NEW q \in Commands, target'[q] \in Backups, step'[q] = "fill"
       PROVE  fd'[q] = "tmp" /\ tmp'[target'[q]] = Empty
  <2>1. CASE Open(q)
    <3>1. target[q] \in Paths
      BY <2>1, AimFacts DEF Open, At, Busy
    <3> QED BY <2>1, <3>1, OpenEffect
  <2>2. CASE ~Open(q)
    <3>1. ~Moves(q)
      BY <1>10, <2>2, FillerStays
    <3>2. step[q] = "fill" /\ target'[q] = target[q] /\ FdStays(q)
      BY <1>10, <3>1, Bystanders DEF Stays
    <3>3. fd[q] = "tmp" /\ tmp[target[q]] = Empty
      BY <1>0, <1>10, <3>2 DEF DirInv, OwnDir, Working
    <3>4. PICK f \in Files : target[q] = Backup(second[q], f)
      BY <1>10, <3>2, AimFacts DEF FlowInv, Flow, BackupOf
    <3>5. \A p \in Commands : target[p] = target[q] => p = q
      BY <1>0, <3>2, <3>4, OneDir
    <3>6. fd'[q] = "tmp"
      BY <3>2, <3>3, <3>5 DEF FdStays
    <3>7. tmp'[target[q]] = Empty
      BY <1>10, <3>1, <3>2, <3>3, <3>5, TmpWrites, PathKinds DEF Moves
    <3> QED BY <3>2, <3>6, <3>7
  <2> QED BY <2>1, <2>2
<1> QED BY <1>5, <1>6, <1>7, <1>8, <1>9, <1>10 DEF OwnDir

\* A writer has just opened its file, or was one before.
LEMMA WriterFrom ==
  ASSUME TypeOK, ShapeInv, FlowInv, [Next]_vars, NEW q \in Commands, step'[q] \in Writing, ~Open(q)
  PROVE  step[q] \in Writing /\ target'[q] = target[q]
<1>1. ASSUME NEW p \in Commands, Open(p) PROVE step[q] \in Writing /\ target'[q] = target[q]
  <2>1. target[p] \in Paths
    BY <1>1, AimFacts DEF Open, At, Busy
  <2> QED BY <1>1, <2>1, OpenEffect DEF Alone
<1> QED BY <1>1, WritersFrame

\* Nothing disturbed the commands before if nothing has now, or else all are idle or
\* one has just begun alone.
LEMMA QuietFrom ==
  ASSUME TypeOK, ShapeInv, FlowInv, [Next]_vars, calm' \/ quiet'
  PROVE  \/ \A q \in Commands : step'[q] \notin Busy
         \/ /\ (calm \/ quiet) /\ calm' = calm /\ quiet' = quiet /\ template' = template
            /\ ~(\E f \in Files, c \in Mine : UserEdits(f, c))
            /\ ~(\E p \in Commands : FillFails(p) \/ Dies(p))
<1> DEFINE Same == calm' = calm /\ quiet' = quiet /\ template' = template
<1>1. ASSUME NEW p \in Commands, NEW f \in BOOLEAN, NEW s \in Seconds, Begin(p, f, s)
      PROVE  Same \/ \A q \in Commands : step'[q] \notin Busy
  BY <1>1, BeginEffect DEF Alone, AllIdle, At, Busy
<1>2. ASSUME \/ \E f \in Files, c \in Mine : UserEdits(f, c)
             \/ \E f \in Files, v \in Versions : Sync(f, v)
      PROVE  \A q \in Commands : step'[q] \notin Busy
  <2>1. step' = step /\ AllIdle
    BY <1>2, UserEditsEffect, SyncEffect
  <2> QED BY <2>1 DEF AllIdle, At, Busy
<1>3. ~(\E p \in Commands : FillFails(p) \/ Dies(p))
  BY FillFailsEffect, DiesEffect
<1>4. ASSUME NEW p \in Commands, NEW f \in Files, Look(p, f) PROVE Same
  BY <1>4 DEF Look, past
<1>5. ASSUME NEW p \in Commands, \/ Finish(p) \/ Record(p) \/ Open(p) \/ Fill(p)
                                 \/ Rename(p) \/ RenameFails(p) \/ Remove(p)
      PROVE  Same
  BY <1>5 DEF Finish, Record, Open, Fill, Rename, RenameFails, Remove, history, past
<1>6. ASSUME UNCHANGED vars PROVE Same
  BY <1>6 DEF vars, history, past
<1> HIDE DEF Same
<1>7. (\A q \in Commands : step'[q] \notin Busy) \/ Same
  BY <1>1, <1>2, <1>3, <1>4, <1>5, <1>6, NextCases
<1>8. CASE \A q \in Commands : step'[q] \notin Busy
  BY <1>8
<1>9. CASE Same /\ ~(\A q \in Commands : step'[q] \notin Busy)
  BY <1>2, <1>3, <1>9 DEF Same
<1> QED BY <1>7, <1>8, <1>9

\* As long as nothing disturbs the commands, what is written to a temporary file or
\* in place is not mixed with anything.
LEMMA FreshFill ==
  ASSUME TypeOK, ShapeInv, FlowInv, NEW p \in Commands, Fresh(p), Fill(p),
         target[p] \in ProjectFiles \cup {Lock}
  PROVE  /\ fd[p] = "tmp" => Over(tmp[target[p]], data[p]) = {data[p]}
         /\ fd[p] = "there" => Over(store[target[p]], data[p]) = {data[p]}
         /\ target[p] \in ProjectFiles => data[p] = template[FileOf(p)]
         /\ target[p] = Lock => data[p] \in Hashes
         /\ data[p] \notin {Missing, Empty, Torn}
<1>1. step[p] = "fill"
  BY DEF Fill, At
<1>2. Flow(p) /\ step[p] \in Writing
  BY <1>1 DEF FlowInv, Writing
<1>3. data[p] \notin {Missing, Empty, Torn}
  BY <1>1, <1>2, SharedProjectAssumption DEF Flow, Content
<1>4. CASE target[p] \in ProjectFiles
  <2>1. target[p] # Lock /\ data[p] = template[FileOf(p)]
    BY <1>1, <1>4, PathFacts DEF Fresh
  <2>2. fd[p] = "tmp" => tmp[target[p]] \in {Empty, data[p]}
    BY <1>2, <1>4, <2>1 DEF Fresh, Flow
  <2>3. fd[p] = "there" => store[target[p]] \in {Empty, data[p]}
    BY <1>4, <2>1 DEF Fresh
  <2> QED BY <1>3, <2>1, <2>2, <2>3 DEF Over
<1>5. CASE target[p] = Lock
  <2>1. target[p] \notin ProjectFiles /\ data[p] \in Hashes
    BY <1>1, <1>2, <1>5, PathFacts DEF Flow
  <2>2. fd[p] = "tmp" => tmp[Lock] \in {Empty} \cup Hashes
    BY <1>2, <1>5 DEF Fresh, Flow, ShapeInv
  <2>3. fd[p] = "there" => store[Lock] \in {Empty} \cup Hashes
    BY <1>5 DEF Fresh, ShapeInv
  <2> QED BY <1>3, <1>5, <2>1, <2>2, <2>3 DEF Over
<1> QED BY <1>4, <1>5

\* An undisturbed writer finds what it may find.
LEMMA FreshStep ==
  TypeOK /\ ShapeInv /\ FlowInv /\ FreshInv /\ [Next]_vars => FreshInv'
<1> SUFFICES ASSUME TypeOK, ShapeInv, FlowInv, FreshInv, [Next]_vars, calm' \/ quiet',
                    NEW q \in Commands
             PROVE  Fresh(q)'
  BY DEF FreshInv
<1>0. Flow(q)'
  BY FlowStep DEF FlowInv
<1>1. CASE \A p \in Commands : step'[p] \notin Busy
  <2>1. target'[q] = NoPath
    BY <1>0, <1>1 DEF Flow
  <2> QED BY <2>1, NoPathFacts DEF Fresh
<1>2. CASE ~(\A p \in Commands : step'[p] \notin Busy)
  <2>1. /\ \A p \in Commands : Fresh(p)
        /\ template' = template
        /\ ~(\E f \in Files, c \in Mine : UserEdits(f, c))
        /\ ~(\E p \in Commands : FillFails(p) \/ Dies(p))
    BY <1>2, QuietFrom DEF FreshInv
  <2>2. SUFFICES ASSUME NEW path \in ProjectFiles \cup {Lock}, path = target'[q] PROVE Fresh(q)'
    BY DEF Fresh
  <2> USE <2>2
  <2>3. /\ path \in Paths /\ path # NoPath
        /\ path \in ProjectFiles => path # Lock /\ FileOf(q)' \in Files /\ path = File(FileOf(q)')
    BY <2>2, PathFacts, PathKinds, NoPathFacts DEF FileOf
  <2>4. /\ Empty # Torn /\ Missing # Empty /\ Missing # Torn
        /\ \A f \in Files : template[f] \in Versions
        /\ \A c \in Versions \cup Hashes : c \notin {Missing, Empty, Torn}
    BY SharedProjectAssumption DEF Content, TypeOK
  <2>5. step'[q] \in Writing =>
          path = target[q] /\ ((Open(q) /\ tmp'[path] = Empty) \/ step[q] \in Writing)
    <3>1. CASE Open(q)
      <4>1. target[q] \in Paths
        BY <3>1, AimFacts DEF Open, At, Busy
      <4> QED BY <3>1, <4>1, OpenEffect
    <3>2. CASE ~Open(q)
      BY <3>2, WriterFrom
    <3> QED BY <3>1, <3>2
  <2>6. ASSUME NEW p \in Commands, target[p] = path, Fill(p)
        PROVE  /\ fd[p] = "tmp" => Over(tmp[path], data[p]) = {data[p]}
               /\ fd[p] = "there" => Over(store[path], data[p]) = {data[p]}
               /\ path \in ProjectFiles => data[p] = template[FileOf(q)']
               /\ path = Lock => data[p] \in Hashes
               /\ data[p] \notin {Missing, Empty, Torn}
    BY <2>1, <2>2, <2>6, FreshFill DEF FileOf
  <2>7. ASSUME path \in ProjectFiles, step'[q] = "fill" PROVE data'[q] = template'[FileOf(q)']
    <3>1. CASE Open(q)
      <4>1. target[q] \in Paths /\ step[q] = "open"
        BY <3>1, AimFacts DEF Open, At, Busy
      <4>2. data'[q] = Source(q) /\ target'[q] = target[q]
        BY <3>1, <4>1, OpenEffect
      <4> QED BY <2>1, <2>7, <4>1, <4>2, SourceFacts DEF Busy, FileOf
    <3>2. CASE ~Open(q)
      <4>1. step[q] = "fill" /\ target'[q] = target[q] /\ data'[q] = data[q]
        BY <2>7, <3>2, FillerStays, Bystanders DEF Stays
      <4> QED BY <2>1, <2>7, <4>1 DEF Fresh, FileOf
    <3> QED BY <3>1, <3>2
  <2>8. ASSUME path \in ProjectFiles, step'[q] \in Writing
        PROVE  tmp'[path] \in {Missing, Empty, template'[FileOf(q)']}
    <3>1. CASE tmp'[path] = tmp[path] /\ step[q] \in Writing /\ path = target[q]
      BY <2>1, <2>8, <3>1 DEF Fresh, FileOf
    <3> QED BY <2>1, <2>3, <2>5, <2>6, <2>8, <3>1, TmpWrites
  <2>9. ASSUME path = Lock, step'[q] \in Writing PROVE tmp'[Lock] # Torn
    <3>1. CASE tmp'[path] = tmp[path] /\ step[q] \in Writing /\ path = target[q]
      BY <2>1, <2>9, <3>1 DEF Fresh
    <3> QED BY <2>3, <2>4, <2>5, <2>6, <2>9, <3>1, TmpWrites
  <2>10. ASSUME NEW p \in Commands, Rename(p), target[p] = path
         PROVE  /\ store'[path] = tmp[path] /\ tmp[path] # Missing
                /\ path \in ProjectFiles => tmp[path] \in {Empty, template'[FileOf(q)']}
                /\ path = Lock => tmp[path] # Torn
    <3>1. step[p] = "rename" /\ store'[path] = tmp[path] /\ tmp[path] # Missing
      BY <2>3, <2>10, RenameEffect
    <3> QED BY <2>1, <2>10, <3>1 DEF Fresh, Writing, FileOf
  <2>11. ASSUME fd'[q] = "there"
         PROVE  /\ path \in ProjectFiles => store'[path] \in {Empty, template'[FileOf(q)']}
                /\ path = Lock => store'[path] \notin {Missing, Torn}
    <3>1. step'[q] = "fill" /\ ~Open(q)
      <4>1. Open(q) => fd'[q] = "tmp"
        <5>1. Open(q) => target[q] \in Paths
          BY AimFacts DEF Open, At, Busy
        <5> QED BY <5>1, OpenEffect
      <4> QED BY <1>0, <2>11, <4>1 DEF Flow
    <3>2. path = target[q]
      BY <3>1, FillerStays, Bystanders DEF Stays
    <3>3. CASE \E p \in Commands : Rename(p) /\ target[p] = path
      BY <2>10, <3>3
    <3>4. CASE ~(\E p \in Commands : Rename(p) /\ target[p] = path)
      <4>1. fd[q] = "there"
        BY <2>11, <3>2, <3>4, ThereFrame
      <4>2. /\ path \in ProjectFiles => store[path] \in {Empty, template'[FileOf(q)']}
            /\ path = Lock => store[path] \notin {Missing, Torn}
        BY <2>1, <3>2, <4>1 DEF Fresh, FileOf
      <4>3. store'[path] = store[path] \/
              \E p \in Commands : /\ Fill(p) /\ fd[p] = "there" /\ target[p] = path
                                  /\ store'[path] \in Over(store[path], data[p])
        BY <2>1, <2>3, <3>4, StoreWrites
      <4> QED BY <2>1, <2>6, <4>2, <4>3
    <3> QED BY <3>3, <3>4
  <2>12. ASSUME step'[q] \in Writing, tmp'[path] = Empty PROVE Pending(path, "tmp")'
    <3>1. ASSUME NEW p \in Commands, Open(p), target[p] = path PROVE Pending(path, "tmp")'
      BY <2>3, <3>1, OpenEffect DEF Pending
    <3>2. CASE ~(\E p \in Commands : Open(p) /\ target[p] = path)
      <4>1. tmp[path] = Empty
        BY <2>3, <2>4, <2>6, <2>12, <3>2, TmpWrites
      <4>2. step[q] \in Writing /\ path = target[q]
        BY <2>5, <2>12, <3>2
      <4>3. Pending(path, "tmp")
        BY <2>1, <2>2, <4>1, <4>2 DEF Fresh
      <4>4. PICK r \in Commands : step[r] = "fill" /\ target[r] = path /\ fd[r] = "tmp"
        BY <4>3 DEF Pending
      <4>5. ~Fill(r)
        <5>1. Fill(r) => tmp'[path] \in Over(tmp[path], data[r])
          BY <2>3, <4>4, FillEffect
        <5> QED BY <2>6, <2>12, <4>4, <5>1
      <4>6. ~Moves(r)
        BY <2>1, <4>4, <4>5 DEF Moves, Begin, Look, Finish, Record, Open, Rename, RenameFails, Remove, At
      <4>7. ASSUME NEW p \in Commands, Rename(p) \/ Remove(p), target[p] = path PROVE FALSE
        <5>1. CASE Rename(p)
          <6>1. tmp'[target[p]] = Missing
            BY <2>3, <4>7, <5>1, RenameEffect
          <6> QED BY <2>4, <2>12, <4>7, <6>1
        <5>2. Remove(p) => tmp'[path] = Missing
          BY <2>3, <4>7, RemoveEffect
        <5> QED BY <2>4, <2>12, <4>7, <5>1, <5>2
      <4>8. step'[r] = "fill" /\ target'[r] = path /\ fd'[r] = "tmp"
        BY <4>4, <4>6, <4>7, Bystanders DEF Stays, FdStays
      <4> QED BY <4>8 DEF Pending
    <3> QED BY <3>1, <3>2
  <2> QED BY <2>3, <2>7, <2>8, <2>9, <2>11, <2>12, PathFacts DEF Fresh
<1> QED BY <1>1, <1>2

\* A writer that is not disturbed and does not write yet still has its file where it
\* had it, unless that was renamed or removed.
LEMMA PendingStays ==
  ASSUME TypeOK, ShapeInv, FlowInv, [Next]_vars, calm' \/ quiet',
         NEW r \in Commands, step[r] = "fill", ~Fill(r)
  PROVE  step'[r] = "fill" /\ target'[r] = target[r] /\ FdStays(r)
<1>1. ~FillFails(r) /\ ~Dies(r)
  BY FillFailsEffect, DiesEffect
<1>2. ~Moves(r)
  BY <1>1 DEF Moves, Begin, Look, Finish, Record, Open, Rename, RenameFails, Remove, At
<1> QED BY <1>2, Bystanders DEF Stays

\* A file somebody has to write in place stays so until it is written or replaced.
LEMMA ThereStays ==
  ASSUME TypeOK, ShapeInv, FlowInv, [Next]_vars, calm' \/ quiet',
         NEW path \in ProjectFiles \cup {Lock}, Pending(path, "there"),
         ~(\E p \in Commands : Rename(p) /\ target[p] = path),
         ~(\E p \in Commands : Fill(p) /\ fd[p] = "there" /\ target[p] = path),
         ~(\E f \in Files, c \in Mine : UserEdits(f, c) /\ path = File(f))
  PROVE  Pending(path, "there")'
<1>1. PICK r \in Commands : step[r] = "fill" /\ target[r] = path /\ fd[r] = "there"
  BY DEF Pending
<1>2. ~Fill(r)
  BY <1>1
<1>3. step'[r] = "fill" /\ target'[r] = path /\ FdStays(r)
  BY <1>1, <1>2, PendingStays
<1>4. fd'[r] = "there"
  BY <1>1, <1>3 DEF FdStays
<1> QED BY <1>3, <1>4 DEF Pending

\* A renamed file that was just truncated is written in place next.
LEMMA RenamedEmpty ==
  ASSUME TypeOK, ShapeInv, FlowInv, [Next]_vars, NEW p \in Commands, Fresh(p), Rename(p),
         NEW path \in ProjectFiles \cup {Lock}, target[p] = path
  PROVE  /\ store'[path] = tmp[path]
         /\ path \in ProjectFiles => tmp[path] \in {Empty, template[path[2]]}
         /\ path = Lock => tmp[path] \in Hashes \cup {Empty}
         /\ tmp[path] \notin {Missing, Torn}
         /\ tmp[path] = Empty => Pending(path, "there")'
<1>1. step[p] = "rename" /\ target[p] \in Paths
  BY AimFacts DEF Rename, At, Busy
<1>2. /\ Alone(p) /\ tmp[path] # Missing /\ store'[path] = tmp[path]
      /\ \A r \in Commands \ {p} : Moved(p, r)
  BY <1>1, RenameEffect
<1>3. /\ path \in ProjectFiles => tmp[path] \in {Empty, template[path[2]]}
      /\ path = Lock => tmp[path] # Torn
      /\ tmp[path] = Empty => Pending(path, "tmp")
  BY <1>1, <1>2 DEF Fresh, Writing, FileOf
<1>4. path \in ProjectFiles => template[path[2]] \notin {Missing, Torn} /\ Empty # Torn
  BY PathFacts, SharedProjectAssumption DEF TypeOK, Content
<1>5. ASSUME Pending(path, "tmp") PROVE Pending(path, "there")'
  <2>1. PICK r \in Commands : step[r] = "fill" /\ target[r] = path /\ fd[r] = "tmp"
    BY <1>5 DEF Pending
  <2>2. r \in Commands \ {p}
    BY <1>1, <2>1
  <2>3. step'[r] = "fill" /\ target'[r] = path /\ fd'[r] = "there"
    BY <1>2, <2>1, <2>2 DEF Alone, Moved
  <2> QED BY <2>3 DEF Pending
<1> QED BY <1>2, <1>3, <1>4, <1>5 DEF ShapeInv

\* Once disturbed, not calm any more.
LEMMA CalmFrom ==
  ASSUME TypeOK, ShapeInv, FlowInv, [Next]_vars, calm'
  PROVE  calm
<1>1. CASE (\E f \in Files, c \in Mine : UserEdits(f, c)) \/ \E f \in Files, v \in Versions : Sync(f, v)
  BY <1>1, UserEditsEffect, SyncEffect
<1>2. CASE \E p \in Commands, f \in BOOLEAN, s \in Seconds : Begin(p, f, s)
  BY <1>2, BeginEffect
<1>3. CASE /\ ~(\E f \in Files, c \in Mine : UserEdits(f, c))
           /\ ~(\E f \in Files, v \in Versions : Sync(f, v))
           /\ ~(\E p \in Commands, f \in BOOLEAN, s \in Seconds : Begin(p, f, s))
  <2>1. ~(\E p \in Commands : FillFails(p) \/ Dies(p))
    BY FillFailsEffect, DiesEffect
  <2> QED BY <1>3, <2>1, NextCases DEF Look, Finish, Record, Open, Fill, Rename, RenameFails, Remove,
          vars, history, past
<1> QED BY <1>1, <1>2, <1>3

\* What is truncated in place is written next.
LEMMA CalmStep ==
  TypeOK /\ ShapeInv /\ FlowInv /\ FreshInv /\ CalmInv /\ [Next]_vars => CalmInv'
<1> SUFFICES ASSUME TypeOK, ShapeInv, FlowInv, FreshInv, CalmInv, [Next]_vars, calm',
                    NEW path \in ProjectFiles \cup {Lock}
             PROVE  store'[path] # Torn /\ (store'[path] = Empty => Pending(path, "there")')
  BY DEF CalmInv
<1>0. path \in Paths /\ path # NoPath
  BY PathKinds, NoPathFacts
<1>1. calm
  BY CalmFrom
<1>2. \A p \in Commands : Fresh(p)
  BY <1>1 DEF FreshInv
<1>3. /\ Empty # Torn /\ \A c \in Mine : c \notin {Empty, Torn}
  BY SharedProjectAssumption
<1>4. store[path] # Torn /\ (store[path] = Empty => Pending(path, "there"))
  BY <1>1 DEF CalmInv
<1>5. ASSUME NEW p \in Commands, Rename(p), target[p] = path
      PROVE  store'[path] # Torn /\ (store'[path] = Empty => Pending(path, "there")')
  BY <1>2, <1>5, RenamedEmpty
<1>6. ASSUME NEW p \in Commands, Fill(p), fd[p] = "there", target[p] = path
      PROVE  store'[path] \notin {Empty, Torn}
  <2>1. store'[path] \in Over(store[path], data[p])
    BY <1>0, <1>6, FillEffect
  <2> QED BY <1>2, <1>6, <2>1, FreshFill
<1>7. ASSUME NEW f \in Files, NEW c \in Mine, UserEdits(f, c), path = File(f)
      PROVE  store'[path] \notin {Empty, Torn}
  BY <1>3, <1>7, UserEditsEffect
<1>8. CASE /\ ~(\E p \in Commands : Rename(p) /\ target[p] = path)
           /\ ~(\E p \in Commands : Fill(p) /\ fd[p] = "there" /\ target[p] = path)
           /\ ~(\E f \in Files, c \in Mine : UserEdits(f, c) /\ path = File(f))
  <2>1. store'[path] = store[path]
    BY <1>0, <1>8, StoreWrites
  <2>2. store[path] = Empty => Pending(path, "there")'
    BY <1>4, <1>8, ThereStays
  <2> QED BY <1>4, <2>1, <2>2
<1> QED BY <1>5, <1>6, <1>7, <1>8

\* A command that has written its file has just done so, or does not move.
LEMMA RenamerFrom ==
  ASSUME TypeOK, ShapeInv, FlowInv, [Next]_vars, NEW q \in Commands, step'[q] = "rename", ~Fill(q)
  PROVE  ~Moves(q) /\ step[q] = "rename"
<1>1. (\E f \in Files : Look(q, f)) => step'[q] # "rename"
  BY LookEffect
<1>2. Rename(q) => step'[q] # "rename"
  <2>1. Rename(q) => target[q] \in Paths
    BY AimFacts DEF Rename, At, Busy
  <2> QED BY <2>1, RenameEffect, EndEffect
<1>3. Record(q) \/ Open(q) \/ Remove(q) \/ Dies(q) => step'[q] # "rename"
  BY EndEffect DEF Record, Open, Remove, Dies, TypeOK, Goto
<1>4. ~Moves(q)
  BY <1>1, <1>2, <1>3, BeginEffect, FinishEffect, EndEffect, RenameFailsEffect, FillFailsEffect
     DEF Moves
<1> QED BY <1>4, Bystanders DEF Stays

\* A command's backup on its way: as it was read, so it is written, and nobody
\* else touches it.
LEMMA BackupWriting ==
  ASSUME TypeOK, ShapeInv, FlowInv, DirInv, [Next]_vars, ~shared, NEW q \in Commands,
         target'[q] \in Backups, step'[q] \in Writing
  PROVE  /\ target'[q] = target[q]
         /\ step'[q] = "fill" =>
              \/ Open(q) /\ step[q] = "open" /\ data'[q] = store[File(FileOf(q))]
              \/ step[q] = "fill" /\ data'[q] = data[q] /\ ~Moves(q)
         /\ step'[q] = "rename" =>
              \/ Fill(q) /\ step[q] = "fill" /\ tmp'[target[q]] = data[q]
              \/ step[q] = "rename" /\ tmp'[target[q]] = tmp[target[q]] /\ ~Moves(q)
<1>1. CASE Open(q)
  <2>1. step[q] = "open" /\ target[q] \in Paths
    BY <1>1, AimFacts DEF Open, At, Busy
  <2>2. target'[q] = target[q] /\ step'[q] = "fill" /\ data'[q] = Source(q)
    BY <1>1, <2>1, OpenEffect
  <2> QED BY <1>1, <2>1, <2>2, SourceFacts DEF Busy
<1>2. CASE ~Open(q)
  <2>1. target'[q] = target[q] /\ step[q] \in Writing
    BY <1>2, WriterFrom
  <2>2. ASSUME step'[q] = "fill" PROVE step[q] = "fill" /\ data'[q] = data[q] /\ ~Moves(q)
    BY <1>2, <2>2, FillerStays, Bystanders DEF Stays
  <2>3. ASSUME step'[q] = "rename", Fill(q) PROVE step[q] = "fill" /\ tmp'[target[q]] = data[q]
    <3>1. step[q] = "fill" /\ target[q] \in Paths
      BY <2>3, AimFacts DEF Fill, At, Busy
    <3>2. fd[q] = "tmp" /\ tmp[target[q]] = Empty
      BY <2>1, <3>1 DEF DirInv, OwnDir
    <3>3. tmp'[target[q]] \in Over(tmp[target[q]], data[q])
      BY <2>3, <3>1, <3>2, FillEffect
    <3> QED BY <3>1, <3>2, <3>3, OverFacts
  <2>4. ASSUME step'[q] = "rename", ~Fill(q)
        PROVE  step[q] = "rename" /\ tmp'[target[q]] = tmp[target[q]] /\ ~Moves(q)
    <3>1. step[q] = "rename" /\ ~Moves(q)
      BY <2>4, RenamerFrom
    <3>2. PICK f \in Files : target[q] = Backup(second[q], f)
      BY <2>1, AimFacts DEF FlowInv, Flow, BackupOf
    <3>3. \A p \in Commands : target[p] = target[q] => p = q
      BY <3>1, <3>2, OneDir
    <3> QED BY <2>1, <3>1, <3>3, TmpWrites, PathKinds DEF Moves
  <2> QED BY <2>1, <2>2, <2>3, <2>4 DEF Writing
<1> QED BY <1>1, <1>2

\* A backup changes when the command whose directory it is in has written it, and
\* nothing was there before.
LEMMA BackupWritten ==
  ASSUME TypeOK, ShapeInv, FlowInv, DirInv, [Next]_vars, ~shared, NEW path \in Backups,
         store'[path] # store[path]
  PROVE  /\ store[path] = Missing
         /\ \E p \in Commands : /\ Rename(p) /\ step[p] = "rename" /\ target[p] = path
                                /\ store'[path] = tmp[path]
<1>1. path \in Paths /\ \A f \in Files : path # File(f)
  BY PathFacts, PathKinds
<1>2. ASSUME NEW p \in Commands, Fill(p), fd[p] = "there", target[p] = path PROVE FALSE
  BY <1>2 DEF DirInv, OwnDir, Fill, At
<1>3. PICK p \in Commands : Rename(p) /\ target[p] = path /\ store'[path] = tmp[path]
  BY <1>1, <1>2, StoreWrites
<1>4. step[p] = "rename"
  BY <1>3 DEF Rename, At
<1>5. store[path] = Missing
  BY <1>3, <1>4 DEF DirInv, OwnDir, Working
<1> QED BY <1>3, <1>4, <1>5

\* A calm backup is of what was there when it was read.
LEMMA BackupStep ==
  /\ TypeOK /\ ShapeInv /\ FlowInv /\ DirInv /\ ExclusiveInv /\ CalmInv /\ BackupInv
  /\ [Next]_vars
  => BackupInv'
<1> SUFFICES ASSUME TypeOK, ShapeInv, FlowInv, DirInv, ExclusiveInv, CalmInv, BackupInv, [Next]_vars,
                    calm', ~shared'
             PROVE  /\ \A path \in Backups : Sound(store[path])'
                    /\ \A p \in Commands : target'[p] \in Backups =>
                         /\ step'[p] = "fill" => Sound(data[p])'
                         /\ step'[p] = "rename" => Sound(tmp[target[p]])'
  BY DEF BackupInv
<1>1. calm /\ ~shared
  BY CalmFrom, ClockFrame DEF TypeOK
<1>2. mixed => mixed'
  <2>1. ASSUME NEW p \in Commands, Open(p) PROVE mixed => mixed'
    BY <2>1 DEF Open
  <2> QED BY <2>1, WritersFrame
<1>3. \A c : c # Torn /\ (c = Empty => mixed) => c # Torn /\ (c = Empty => mixed')
  BY <1>2
<1>4. /\ \A path \in Backups : Sound(store[path])
      /\ \A p \in Commands : target[p] \in Backups =>
           /\ step[p] = "fill" => Sound(data[p])
           /\ step[p] = "rename" => Sound(tmp[target[p]])
  BY <1>1 DEF BackupInv
<1>5. ASSUME NEW path \in Backups PROVE Sound(store[path])'
  BY <1>1, <1>3, <1>4, BackupWritten DEF Sound
<1>6. ASSUME NEW q \in Commands, target'[q] \in Backups, step'[q] = "fill" PROVE Sound(data[q])'
  <2>1. CASE Open(q) /\ data'[q] = store[File(FileOf(q))] /\ target'[q] = target[q]
    <3>1. File(FileOf(q)) \in ProjectFiles
      BY <1>6, <2>1, AimFacts, PathFacts
    <3>2. /\ store[File(FileOf(q))] # Torn
          /\ store[File(FileOf(q))] = Empty => Pending(File(FileOf(q)), "there")
      BY <1>1, <3>1 DEF CalmInv
    <3>3. Pending(File(FileOf(q)), "there") => mixed
      BY DEF Pending, ExclusiveInv
    <3> QED BY <1>3, <2>1, <3>2, <3>3 DEF Sound
  <2>2. CASE step[q] = "fill" /\ data'[q] = data[q] /\ target'[q] = target[q]
    BY <1>3, <1>4, <1>6, <2>2 DEF Sound
  <2> QED BY <1>1, <1>6, <2>1, <2>2, BackupWriting DEF Writing
<1>7. ASSUME NEW q \in Commands, target'[q] \in Backups, step'[q] = "rename"
      PROVE  Sound(tmp[target[q]])'
  <2>1. /\ target'[q] = target[q]
        /\ \/ step[q] = "fill" /\ tmp'[target[q]] = data[q]
           \/ step[q] = "rename" /\ tmp'[target[q]] = tmp[target[q]]
    BY <1>1, <1>7, BackupWriting DEF Writing
  <2> QED BY <1>3, <1>4, <1>7, <2>1 DEF Sound
<1> QED BY <1>5, <1>6, <1>7

\* What is saved stays saved.
LEMMA SavedStays ==
  ASSUME TypeOK, ShapeInv, FlowInv, DirInv, [Next]_vars, ~shared, NEW f \in Files, NEW c \in Mine,
         HasBackup(f, c)
  PROVE  HasBackup(f, c)'
<1>1. PICK s \in Seconds : store[Backup(s, f)] = c
  BY DEF HasBackup
<1>2. c # Missing /\ Backup(s, f) \in Backups
  BY PathFacts, SharedProjectAssumption DEF Content
<1>3. store'[Backup(s, f)] = c
  BY <1>1, <1>2, BackupWritten
<1> QED BY <1>3 DEF HasBackup

\* No command ever writes what only the user writes into a project's file.
LEMMA OnlyEdits ==
  ASSUME TypeOK, ShapeInv, FlowInv, [Next]_vars, NEW f \in Files, NEW c \in Mine,
         store'[File(f)] = c
  PROVE  store[File(f)] = c \/ UserEdits(f, c)
<1>1. File(f) \in Paths /\ File(f) \in ProjectFiles
  BY PathFacts
<1>2. c \notin Versions \cup {Missing, Empty, Torn}
  BY SharedProjectAssumption DEF Content
<1>3. ASSUME NEW p \in Commands, Rename(p), target[p] = File(f), store'[File(f)] = tmp[File(f)]
      PROVE  FALSE
  BY <1>1, <1>2, <1>3 DEF ShapeInv
<1>4. ASSUME NEW p \in Commands, Fill(p), target[p] = File(f),
             store'[File(f)] \in Over(store[File(f)], data[p])
      PROVE  FALSE
  <2>1. data[p] \in Versions
    BY <1>1, <1>4 DEF FlowInv, Flow, Fill, At
  <2> QED BY <1>2, <1>4, <2>1, OverFacts
<1>5. ASSUME NEW g \in Files, NEW d \in Mine, UserEdits(g, d), File(f) = File(g), store'[File(f)] = d
      PROVE  UserEdits(f, c)
  BY <1>5, PathFacts
<1> QED BY <1>1, <1>3, <1>4, <1>5, StoreWrites

\* late is taken back by a look only, or at the end.
LEMMA LateFrom ==
  ASSUME TypeOK, ShapeInv, FlowInv, [Next]_vars, NEW q \in Commands, ~late'[q], late[q]
  PROVE  (\E f \in Files : Look(q, f)) \/ step'[q] = "idle"
<1>1. ASSUME NEW f \in Files, NEW c \in Mine, UserEdits(f, c) PROVE FALSE
  BY <1>1, UserEditsEffect
<1>2. Moves(q)
  BY <1>1, Bystanders
<1>3. CASE (\E f \in BOOLEAN, s \in Seconds : Begin(q, f, s)) \/ Record(q) \/ Open(q) \/ Fill(q)
  BY <1>3 DEF Begin, Record, Open, Fill, history
<1>4. CASE Finish(q)
  BY <1>4, FinishEffect, EndEffect
<1>5. CASE FillFails(q)
  BY <1>5, FillFailsEffect, EndEffect
<1>6. CASE Rename(q)
  <2>1. target[q] \in Paths
    BY <1>6, AimFacts DEF Rename, At, Busy
  <2> QED BY <1>6, <2>1, RenameEffect, EndEffect
<1>7. CASE RenameFails(q)
  BY <1>7, RenameFailsEffect, EndEffect
<1>8. CASE Remove(q) \/ Dies(q)
  BY <1>8, EndEffect DEF Remove, Dies
<1> QED BY <1>2, <1>3, <1>4, <1>5, <1>6, <1>7, <1>8 DEF Moves

\* A command at work on a file has just looked at it, has just backed it up, or was
\* at work on it before.
LEMMA WorkerFrom ==
  ASSUME TypeOK, ShapeInv, FlowInv, [Next]_vars, NEW q \in Commands, NEW f \in Files,
         target'[q] = File(f), step'[q] \in Working
  PROVE  \/ Look(q, f) /\ ~LocallyModified(q, f) /\ store[File(f)] # template[f]
            /\ UNCHANGED <<store, baseline>>
         \/ Rename(q) /\ step[q] = "rename" /\ target[q] = BackupOf(q, f)
            /\ store'[target[q]] = tmp[target[q]] /\ UNCHANGED plan
         \/ target[q] = File(f) /\ step[q] \in Working /\ baseline'[q] = baseline[q]
<1>0. File(f) # NoPath /\ File(f) # Lock /\ File(f) \in ProjectFiles /\ File(f) \notin Backups
  BY PathFacts, NoPathFacts
<1>1. CASE ~Moves(q)
  BY <1>1, Bystanders DEF Stays
<1>2. ASSUME NEW g \in Files, Look(q, g)
      PROVE  Look(q, f) /\ ~LocallyModified(q, f) /\ store[File(f)] # template[f]
             /\ UNCHANGED <<store, baseline>>
  <2>1. step[q] = "next" /\ store' = store
    BY <1>2, LookEffect
  <2>2. target[q] = NoPath
    BY <2>1 DEF FlowInv, Flow, Busy
  <2>3. BackupOf(q, g) # File(f)
    BY <1>0, PathFacts DEF BackupOf, TypeOK
  <2>4. /\ target'[q] = File(g) /\ ~LocallyModified(q, g) /\ store[File(g)] # template[g]
        /\ baseline' = baseline
    BY <1>0, <1>2, <2>2, <2>3, LookEffect
  <2>5. g = f
    BY <2>4, PathFacts
  <2> QED BY <1>2, <2>1, <2>4, <2>5
<1>3. CASE Rename(q)
  <2>1. target[q] \in Paths
    BY <1>3, AimFacts DEF Rename, At, Busy
  <2>2. /\ step[q] = "rename" /\ store'[target[q]] = tmp[target[q]]
        /\ target[q] \in Backups /\ target'[q] = File(FileOf(q)) /\ UNCHANGED plan
    BY <1>0, <1>3, <2>1, RenameEffect, EndEffect DEF Working
  <2>3. FileOf(q) \in Files /\ target[q] = BackupOf(q, FileOf(q))
    BY <2>2, AimFacts DEF FlowInv, Flow
  <2>4. FileOf(q) = f
    BY <2>2, <2>3, PathFacts
  <2> QED BY <1>3, <2>2, <2>3, <2>4
<1>4. CASE Open(q) \/ Fill(q)
  BY <1>4 DEF Open, Fill, At, Working, plan
<1>5. CASE Finish(q)
  BY <1>0, <1>5, FinishEffect, EndEffect
<1>6. CASE (\E g \in BOOLEAN, s \in Seconds : Begin(q, g, s)) \/ FillFails(q) \/ RenameFails(q)
  BY <1>6, BeginEffect, FillFailsEffect, RenameFailsEffect, EndEffect DEF Working
<1>7. CASE Record(q) \/ Remove(q) \/ Dies(q)
  BY <1>0, <1>7, EndEffect DEF Record, Remove, Dies, TypeOK, Aim
<1> QED BY <1>1, <1>2, <1>3, <1>4, <1>5, <1>6, <1>7 DEF Moves

\* An edit a command has seen goes to a backup before the command gets to the file.
LEMMA SavedStep ==
  TypeOK /\ ShapeInv /\ FlowInv /\ DirInv /\ SavedInv /\ [Next]_vars => SavedInv'
<1> SUFFICES ASSUME TypeOK, ShapeInv, FlowInv, DirInv, SavedInv, [Next]_vars, ~shared',
                    NEW q \in Commands, NEW f \in Files, NEW c \in Mine,
                    store'[File(f)] = c, ~late'[q]
             PROVE  /\ target'[q] = File(f) /\ step'[q] \in Working =>
                         HasBackup(f, c)' \/ baseline'[q][f] \in {Missing, c}
                    /\ target'[q] = BackupOf(q, f)' =>
                         /\ step'[q] = "fill" => data'[q] = c
                         /\ step'[q] = "rename" => tmp'[target'[q]] = c
  BY DEF SavedInv
<1>1. ~shared
  BY ClockFrame DEF TypeOK
<1>2. c \notin Versions \cup {Missing}
  BY SharedProjectAssumption DEF Content
<1>3. /\ File(f) \in ProjectFiles /\ File(f) \notin Backups /\ File(f)[2] = f
      /\ \A s \in Seconds : Backup(s, f) \in Backups /\ Backup(s, f)[2] = f
  BY PathFacts
<1>4. ASSUME target'[q] = File(f) \/ target'[q] \in {Backup(s, f) : s \in Seconds}
      PROVE  store[File(f)] = c
  <2>1. ASSUME UserEdits(f, c) PROVE FALSE
    <3>1. target' = target /\ late'[q] = (late[q] \/ (target[q] \notin {NoPath, Lock} /\ FileOf(q) = f))
      BY <2>1, UserEditsEffect
    <3>2. target[q] \in ProjectFiles \cup Backups /\ FileOf(q) = f
      BY <1>3, <1>4, <3>1 DEF FileOf
    <3>3. target[q] \notin {NoPath, Lock}
      BY <3>2, PathFacts, NoPathFacts
    <3> QED BY <3>1, <3>2, <3>3
  <2> QED BY <2>1, OnlyEdits
<1>5. ASSUME target'[q] = File(f), step'[q] \in Working
      PROVE  HasBackup(f, c)' \/ baseline'[q][f] \in {Missing, c}
  <2>1. store[File(f)] = c
    BY <1>4, <1>5
  <2>2. CASE /\ Look(q, f) /\ ~LocallyModified(q, f) /\ store[File(f)] # template[f]
             /\ UNCHANGED <<store, baseline>>
    BY <1>2, <2>1, <2>2 DEF LocallyModified
  <2>3. CASE ~(\E g \in Files : Look(q, g))
    <3>1. ~late[q]
      BY <1>5, <2>3, LateFrom DEF Working
    <3>2. CASE /\ step[q] = "rename" /\ target[q] = BackupOf(q, f)
               /\ store'[target[q]] = tmp[target[q]]
      <4>1. tmp[target[q]] = c
        BY <1>1, <2>1, <3>1, <3>2 DEF SavedInv
      <4>2. second[q] \in Seconds /\ store'[Backup(second[q], f)] = c
        BY <3>2, <4>1 DEF BackupOf, TypeOK
      <4> QED BY <4>2 DEF HasBackup
    <3>3. CASE target[q] = File(f) /\ step[q] \in Working /\ baseline'[q] = baseline[q]
      <4>1. HasBackup(f, c) \/ baseline[q][f] \in {Missing, c}
        BY <1>1, <2>1, <3>1, <3>3 DEF SavedInv
      <4> QED BY <1>1, <3>3, <4>1, SavedStays
    <3> QED BY <1>5, <2>3, <3>2, <3>3, WorkerFrom
  <2>4. CASE \E g \in Files : Look(q, g)
    <3>1. step[q] = "next"
      BY <2>4 DEF Look, At
    <3> QED BY <1>5, <2>2, <3>1, WorkerFrom DEF Working
  <2> QED BY <2>3, <2>4
<1>6. ASSUME target'[q] = BackupOf(q, f)', step'[q] \in Writing
      PROVE  /\ step'[q] = "fill" => data'[q] = c
             /\ step'[q] = "rename" => tmp'[target'[q]] = c
  <2>1. ~(\E g \in BOOLEAN, s \in Seconds : Begin(q, g, s)) /\ ~(\E g \in Files : Look(q, g))
    BY <1>6, BeginEffect, LookEffect DEF Writing
  <2>2. step'[q] # "idle" /\ second'[q] = second[q] /\ second[q] \in Seconds
    BY <1>6, <2>1, PlanFrame DEF Writing, TypeOK
  <2>3. target'[q] = BackupOf(q, f) /\ target'[q] \in Backups /\ target'[q][2] = f
        /\ target'[q] \in {Backup(s, f) : s \in Seconds}
    BY <1>3, <1>6, <2>2 DEF BackupOf
  <2>4. store[File(f)] = c /\ ~late[q]
    BY <1>4, <2>1, <2>2, <2>3, LateFrom
  <2>5. target'[q] = target[q] /\ FileOf(q) = f
    BY <1>1, <1>6, <2>3, BackupWriting DEF FileOf
  <2>6. /\ step[q] = "fill" => data[q] = c
        /\ step[q] = "rename" => tmp[target[q]] = c
    BY <1>1, <2>3, <2>4, <2>5 DEF SavedInv
  <2> QED BY <1>1, <1>6, <2>3, <2>4, <2>5, <2>6, BackupWriting DEF Writing
<1> QED BY <1>5, <1>6 DEF Writing

\* Quiet is what it was, unless a command has just begun alone.
LEMMA QuietStart ==
  ASSUME TypeOK, ShapeInv, FlowInv, [Next]_vars, quiet'
  PROVE  \/ \E p \in Commands, f \in BOOLEAN, s \in Seconds : Begin(p, f, s) /\ AllIdle
         \/ /\ quiet /\ template' = template
            /\ ~(\E f \in Files, c \in Mine : UserEdits(f, c))
            /\ ~(\E p \in Commands : FillFails(p) \/ Dies(p))
<1>1. /\ ~(\E f \in Files, c \in Mine : UserEdits(f, c))
      /\ ~(\E f \in Files, v \in Versions : Sync(f, v))
      /\ ~(\E p \in Commands : FillFails(p) \/ Dies(p))
  BY UserEditsEffect, SyncEffect, FillFailsEffect, DiesEffect
<1>2. ASSUME NEW p \in Commands, NEW f \in BOOLEAN, NEW s \in Seconds, Begin(p, f, s)
      PROVE  AllIdle \/ (quiet /\ template' = template)
  BY <1>2, BeginEffect
<1>3. CASE ~(\E p \in Commands, f \in BOOLEAN, s \in Seconds : Begin(p, f, s))
  BY <1>1, <1>3, NextCases DEF Look, Finish, Record, Open, Fill, Rename, RenameFails, Remove, vars,
        history, past
<1> QED BY <1>1, <1>2, <1>3

\* A file is up to date as soon as a command has renamed it.
LEMMA RenamedSettles ==
  ASSUME TypeOK, ShapeInv, FlowInv, FreshInv, [Next]_vars, quiet, template' = template,
         NEW f \in Files, NEW p \in Commands, Rename(p), target[p] = File(f)
  PROVE  Settled(f)'
<1>1. Fresh(p) /\ File(f) \in ProjectFiles /\ File(f)[2] = f
  BY PathFacts DEF FreshInv
<1>2. /\ store'[File(f)] \in {Empty, template[f]}
      /\ store'[File(f)] = Empty => Pending(File(f), "there")'
  BY <1>1, RenamedEmpty
<1> QED BY <1>2 DEF Settled

\* A file that is up to date stays so as long as nothing disturbs the commands.
LEMMA SettledStays ==
  ASSUME TypeOK, ShapeInv, FlowInv, FreshInv, [Next]_vars, quiet, quiet', template' = template,
         ~(\E f \in Files, c \in Mine : UserEdits(f, c)), NEW f \in Files, Settled(f)
  PROVE  Settled(f)'
<1>1. File(f) \in ProjectFiles /\ File(f) \in Paths /\ File(f)[2] = f
  BY PathFacts
<1>2. ASSUME NEW p \in Commands, Fill(p), fd[p] = "there", target[p] = File(f)
      PROVE  store'[File(f)] = template[f]
  <2>1. store'[File(f)] \in Over(store[File(f)], data[p])
    BY <1>1, <1>2, FillEffect
  <2> QED BY <1>1, <1>2, <2>1, FreshFill DEF FreshInv, FileOf
<1>3. CASE /\ ~(\E p \in Commands : Rename(p) /\ target[p] = File(f))
           /\ ~(\E p \in Commands : Fill(p) /\ fd[p] = "there" /\ target[p] = File(f))
  <2>1. store'[File(f)] = store[File(f)]
    BY <1>1, <1>3, StoreWrites
  <2>2. Pending(File(f), "there") => Pending(File(f), "there")'
    BY <1>1, <1>3, ThereStays
  <2> QED BY <2>1, <2>2 DEF Settled
<1> QED BY <1>2, <1>3, RenamedSettles DEF Settled

\* A command gets past a file by its look at it, by recording it, or is past it.
LEMMA PastFrom ==
  ASSUME TypeOK, ShapeInv, FlowInv, [Next]_vars, NEW q \in Commands, NEW f \in Files, Past(q, f)',
         ~FillFails(q)
  PROVE  \/ Past(q, f) /\ (conflict[q] => conflict'[q]) /\ baseline'[q][f] = baseline[q][f]
         \/ /\ Look(q, f) /\ store' = store
            /\ conflict'[q] \/ (store[File(f)] = template[f] /\ baseline'[q][f] = template[f])
         \/ /\ Record(q) /\ step[q] = "record" /\ target[q] = File(f) /\ store' = store
            /\ conflict'[q] = conflict[q] /\ baseline'[q][f] = store[File(f)]
<1>0. /\ step'[q] # "idle" /\ f \notin todo'[q] /\ target'[q] # File(f)
      /\ target'[q] # Backup(second'[q], f)
  BY DEF Past, BackupOf
<1>1. CASE ~Moves(q)
  BY <1>0, <1>1, Bystanders DEF Stays, Past, BackupOf
<1>2. CASE \E g \in BOOLEAN, s \in Seconds : Begin(q, g, s)
  BY <1>0, <1>2, BeginEffect
<1>3. ASSUME NEW g \in Files, Look(q, g)
      PROVE  \/ Past(q, f) /\ (conflict[q] => conflict'[q]) /\ baseline'[q][f] = baseline[q][f]
             \/ /\ Look(q, f) /\ store' = store
                /\ conflict'[q] \/ (store[File(f)] = template[f] /\ baseline'[q][f] = template[f])
  <2>1. step[q] = "next" /\ todo'[q] = todo[q] \ {g} /\ UNCHANGED <<store, second>>
    BY <1>3, LookEffect
  <2>2. target[q] = NoPath
    BY <2>1 DEF FlowInv, Flow, Busy
  <2>3. CASE g = f
    BY <1>0, <1>3, <2>1, <2>3, LookEffect DEF BackupOf
  <2>4. CASE g # f
    <3>1. f \notin todo[q] /\ target[q] \notin {File(f), BackupOf(q, f)}
      BY <1>0, <2>1, <2>2, <2>4, PathFacts, NoPathFacts DEF BackupOf, TypeOK
    <3>2. (conflict[q] => conflict'[q]) /\ baseline'[q][f] = baseline[q][f]
      BY <1>3, <2>4, LookEffect
    <3> QED BY <2>1, <3>1, <3>2 DEF Past
  <2> QED BY <2>3, <2>4
<1>4. CASE Finish(q)
  <2>1. step[q] = "next"
    BY <1>4, FinishEffect
  <2>2. target[q] = NoPath
    BY <2>1 DEF FlowInv, Flow, Busy
  <2>3. target[q] \notin {File(f), BackupOf(q, f)}
    BY <2>2, PathFacts, NoPathFacts DEF BackupOf, TypeOK
  <2>4. UNCHANGED plan
    BY <1>0, <1>4, FinishEffect, EndEffect
  <2> QED BY <1>0, <2>1, <2>3, <2>4 DEF Past, plan
<1>5. CASE Record(q)
  <2>1. step[q] = "record" /\ target[q] \in ProjectFiles
    BY <1>5 DEF Record, At, FlowInv, Flow
  <2>2. FileOf(q) \in Files /\ target[q] = File(FileOf(q))
    BY <2>1, AimFacts
  <2>3. /\ baseline'[q][FileOf(q)] = store[File(FileOf(q))]
        /\ \A g \in Files \ {FileOf(q)} : baseline'[q][g] = baseline[q][g]
        /\ UNCHANGED <<store, second, todo, conflict>>
    BY <1>5, <2>2, RecordEffect
  <2>4. CASE FileOf(q) = f
    BY <1>5, <2>1, <2>2, <2>3, <2>4
  <2>5. CASE FileOf(q) # f
    <3>1. target[q] \notin {File(f), BackupOf(q, f)}
      BY <2>1, <2>2, <2>5, PathFacts DEF BackupOf, TypeOK
    <3> QED BY <1>0, <2>1, <2>3, <2>5, <3>1 DEF Past
  <2> QED BY <2>4, <2>5
<1>6. CASE Open(q) \/ Fill(q)
  BY <1>0, <1>6 DEF Open, Fill, At, Past, plan, BackupOf
<1>7. CASE RenameFails(q)
  BY <1>0, <1>7, RenameFailsEffect, EndEffect DEF Past, plan, BackupOf
<1>8. CASE Rename(q)
  <2>1. target[q] \in Paths
    BY <1>8, AimFacts DEF Rename, At, Busy
  <2>2. step[q] = "rename" /\ UNCHANGED plan
    BY <1>0, <1>8, <2>1, RenameEffect, EndEffect
  <2>3. target[q] \notin {File(f), BackupOf(q, f)}
    <3>1. ASSUME target[q] = File(f) PROVE FALSE
      <4>1. target[q] # Lock /\ target[q] \notin Backups
        BY <3>1, PathFacts
      <4>2. target'[q] = target[q]
        BY <1>8, <2>1, <4>1, RenameEffect
      <4> QED BY <1>0, <3>1, <4>2
    <3>2. ASSUME target[q] = BackupOf(q, f) PROVE FALSE
      <4>1. target[q] \in Backups /\ FileOf(q) = f
        BY <3>2, PathFacts, AimFacts DEF BackupOf, TypeOK
      <4>2. target'[q] = File(FileOf(q))
        BY <1>0, <1>8, <2>1, <4>1, RenameEffect, PathFacts
      <4> QED BY <1>0, <4>1, <4>2
    <3> QED BY <3>1, <3>2
  <2> QED BY <1>0, <2>2, <2>3 DEF Past, plan
<1>9. CASE Remove(q) \/ Dies(q)
  BY <1>0, <1>9, EndEffect DEF Remove, Dies
<1> QED BY <1>1, <1>2, <1>3, <1>4, <1>5, <1>6, <1>7, <1>8, <1>9 DEF Moves

\* Only a Begin alone calls off an overlap, so none now is none before.
LEMMA OverlapFrom ==
  ASSUME TypeOK, ShapeInv, FlowInv, [Next]_vars, ~overlap',
         ~(\E p \in Commands, f \in BOOLEAN, s \in Seconds : Begin(p, f, s) /\ AllIdle)
  PROVE  /\ ~overlap
         /\ \A p \in Commands : Open(p) =>
              ~(\E q \in Commands : step[q] \in Writing /\ target[q] = target[p])
<1>1. ASSUME NEW p \in Commands, Open(p)
      PROVE  ~overlap /\ ~(\E q \in Commands : step[q] \in Writing /\ target[q] = target[p])
  <2>1. target[p] \in Paths
    BY <1>1, AimFacts DEF Open, At, Busy
  <2> QED BY <1>1, <2>1, OpenEffect
<1>2. ASSUME NEW p \in Commands, NEW f \in BOOLEAN, NEW s \in Seconds, Begin(p, f, s) PROVE ~overlap
  BY <1>2, BeginEffect
<1>3. CASE /\ ~(\E p \in Commands : Open(p))
           /\ ~(\E p \in Commands, f \in BOOLEAN, s \in Seconds : Begin(p, f, s))
  BY <1>3, WritersFrame
<1> QED BY <1>1, <1>2, <1>3

\* A command that turns to the lock has gone past every file.
LEMMA PastAll ==
  ASSUME TypeOK, FlowInv, NEW p \in Commands, target[p] = Lock
  PROVE  ~conflict[p] /\ \A f \in Files : Past(p, f)
<1>1. todo[p] = {} /\ ~conflict[p] /\ step[p] \in Working
  BY DEF FlowInv, Flow
<1>2. \A f \in Files : target[p] \notin {File(f), BackupOf(p, f)}
  BY PathFacts DEF BackupOf, TypeOK
<1> QED BY <1>1, <1>2 DEF Past, Working

\* An undisturbed, single writer of the lock writes what the templates have.
LEMMA LockStep ==
  ASSUME TypeOK, ShapeInv, FlowInv, ExclusiveInv, ConvergeInv, [Next]_vars, quiet, ~overlap, ~overlap',
         template' = template,
         ~(\E p \in Commands, f \in BOOLEAN, s \in Seconds : Begin(p, f, s) /\ AllIdle),
         NEW q \in Commands, target'[q] = Lock
  PROVE  /\ step'[q] = "fill" => data'[q] = template /\ fd'[q] = "tmp" /\ tmp'[Lock] = Empty
         /\ step'[q] = "rename" => tmp'[Lock] = template
<1>0. Lock \in Paths /\ \A p \in Commands : Converging(p)
  BY PathFacts DEF ConvergeInv
<1>1. CASE Open(q)
  <2>1. step[q] = "open" /\ target[q] \in Paths
    BY <1>1, AimFacts DEF Open, At, Busy
  <2>2. /\ target[q] = Lock /\ step'[q] = "fill" /\ data'[q] = Source(q) /\ fd'[q] = "tmp"
        /\ tmp'[Lock] = Empty
    BY <1>1, <2>1, OpenEffect
  <2>3. Source(q) = baseline[q]
    BY <2>1, <2>2, SourceFacts DEF Busy
  <2>4. \A f \in Files : baseline[q][f] = template[f]
    BY <1>0, <2>2, PastAll DEF Converging
  <2>5. baseline[q] = template
    BY <2>4 DEF TypeOK, Hashes
  <2> QED BY <2>2, <2>3, <2>5
<1>2. CASE ~Open(q)
  <2>1. SUFFICES ASSUME step'[q] \in Writing
                 PROVE  /\ step'[q] = "fill" => data'[q] = template /\ fd'[q] = "tmp" /\ tmp'[Lock] = Empty
                        /\ step'[q] = "rename" => tmp'[Lock] = template
    BY DEF Writing
  <2>2. step[q] \in Writing /\ target[q] = Lock
    BY <1>2, <2>1, WriterFrom
  <2>3. ASSUME NEW p \in Commands \ {q}, target[p] = Lock PROVE ~(Open(p) \/ Fill(p) \/ Rename(p) \/ Remove(p))
    <3>1. step[p] \notin Writing
      BY <2>2, <2>3 DEF ExclusiveInv
    <3>2. ~Open(p)
      BY <2>2, <2>3, OverlapFrom
    <3>3. ~Remove(p)
      BY <2>3 DEF FlowInv, Flow, Working, Remove, At
    <3> QED BY <3>1, <3>2, <3>3 DEF Writing, Fill, Rename, At
  <2>4. /\ step[q] = "fill" => data[q] = template /\ fd[q] = "tmp" /\ tmp[Lock] = Empty
        /\ step[q] = "rename" => tmp[Lock] = template
    BY <1>0, <2>2 DEF Converging
  <2>5. ASSUME ~Moves(q) PROVE step'[q] = step[q] /\ data'[q] = data[q] /\ FdStays(q) /\ tmp'[Lock] = tmp[Lock]
    <3>1. tmp'[Lock] = tmp[Lock]
      BY <1>0, <2>3, <2>5, TmpWrites DEF Moves
    <3> QED BY <2>5, <3>1, Bystanders DEF Stays
  <2>6. CASE step'[q] = "fill"
    <3>1. ~Moves(q)
      BY <1>2, <2>6, FillerStays
    <3>2. /\ step[q] = "fill" /\ data'[q] = data[q] /\ FdStays(q) /\ tmp'[Lock] = tmp[Lock]
      BY <2>5, <2>6, <3>1
    <3>3. fd'[q] = "tmp"
      BY <2>2, <2>3, <2>4, <3>2 DEF FdStays
    <3> QED BY <2>4, <2>6, <3>2, <3>3
  <2>7. CASE step'[q] = "rename" /\ Fill(q)
    <3>1. step[q] = "fill"
      BY <2>7 DEF Fill, At
    <3>2. tmp'[Lock] \in Over(tmp[Lock], data[q])
      BY <1>0, <2>2, <2>4, <2>7, <3>1, FillEffect
    <3> QED BY <2>4, <2>7, <3>1, <3>2, OverFacts
  <2>8. CASE step'[q] = "rename" /\ ~Fill(q)
    BY <2>4, <2>5, <2>8, RenamerFrom
  <2> QED BY <2>1, <2>6, <2>7, <2>8 DEF Writing
<1> QED BY <1>1, <1>2

\* What a successful command leaves stays until something disturbs it.
LEMMA ConvergeStep ==
  /\ TypeOK /\ ShapeInv /\ FlowInv /\ ExclusiveInv /\ FreshInv /\ ConvergeInv
  /\ [Next]_vars
  => ConvergeInv'
<1> SUFFICES ASSUME TypeOK, ShapeInv, FlowInv, ExclusiveInv, FreshInv, ConvergeInv, [Next]_vars, quiet'
             PROVE  /\ \A q \in Commands : Converging(q)'
                    /\ succeeded' => \A f \in Files : Settled(f)'
                    /\ succeeded' /\ ~overlap' => store'[Lock] = template'
  BY DEF ConvergeInv
<1>1. CASE \E p \in Commands, f \in BOOLEAN, s \in Seconds : Begin(p, f, s) /\ AllIdle
  <2>1. PICK p \in Commands : \E f \in BOOLEAN, s \in Seconds : Begin(p, f, s) /\ AllIdle
    BY <1>1
  <2>2. /\ Alone(p) /\ step'[p] = "next" /\ todo'[p] = Files /\ succeeded' = FALSE
        /\ target' = target
        /\ \A q \in Commands : step[q] = "idle"
    BY <2>1, BeginEffect DEF AllIdle, At
  <2>3. ASSUME NEW q \in Commands PROVE Converging(q)'
    <3>1. target'[q] = NoPath /\ step'[q] # "record"
      BY <2>2 DEF FlowInv, Flow, Busy, Alone
    <3>2. \A f \in Files : ~Past(q, f)'
      BY <2>2 DEF Past, Alone
    <3> QED BY <3>1, <3>2, NoPathFacts DEF Converging
  <2> QED BY <2>2, <2>3
<1>2. CASE ~(\E p \in Commands, f \in BOOLEAN, s \in Seconds : Begin(p, f, s) /\ AllIdle)
  <2>1. /\ quiet /\ template' = template
        /\ ~(\E f \in Files, c \in Mine : UserEdits(f, c))
        /\ ~(\E p \in Commands : FillFails(p) \/ Dies(p))
    BY <1>2, QuietStart
  <2>2. /\ \A q \in Commands : Converging(q)
        /\ succeeded => \A f \in Files : Settled(f)
        /\ succeeded /\ ~overlap => store[Lock] = template
    BY <2>1 DEF ConvergeInv
  <2>3. ~overlap' => ~overlap
    BY <1>2, OverlapFrom
  <2>4. ASSUME NEW f \in Files, Settled(f) PROVE Settled(f)'
    BY <2>1, <2>4, SettledStays
  <2>5. ASSUME NEW q \in Commands, NEW f \in Files, Past(q, f)'
        PROVE  /\ conflict'[q] \/ Settled(f)'
               /\ ~overlap' => conflict'[q] \/ baseline'[q][f] = template'[f]
    <3>1. CASE Past(q, f) /\ (conflict[q] => conflict'[q]) /\ baseline'[q][f] = baseline[q][f]
      BY <2>1, <2>2, <2>3, <2>4, <3>1 DEF Converging
    <3>2. CASE /\ store' = store
               /\ conflict'[q] \/ (store[File(f)] = template[f] /\ baseline'[q][f] = template[f])
      BY <2>1, <3>2 DEF Settled
    <3>3. CASE /\ step[q] = "record" /\ target[q] = File(f) /\ store' = store
               /\ conflict'[q] = conflict[q] /\ baseline'[q][f] = store[File(f)]
      <4>1. conflict[q] \/ Settled(f)
        BY <2>2, <3>3 DEF Converging
      <4>2. ~overlap /\ Settled(f) => store[File(f)] = template[f]
        BY DEF Settled, Pending, ExclusiveInv
      <4> QED BY <2>1, <2>3, <2>4, <3>3, <4>1, <4>2
    <3> QED BY <2>1, <2>5, <3>1, <3>2, <3>3, PastFrom
  <2>6. ASSUME NEW q \in Commands, NEW f \in Files, step'[q] = "record", target'[q] = File(f)
        PROVE  conflict'[q] \/ Settled(f)'
    <3>1. CASE ~Moves(q)
      BY <2>2, <2>4, <2>6, <3>1, Bystanders DEF Stays, Converging
    <3>2. CASE Rename(q)
      <4>1. target[q] \in Paths
        BY <3>2, AimFacts DEF Rename, At, Busy
      <4>2. target[q] = File(f)
        BY <2>6, <3>2, <4>1, RenameEffect, EndEffect
      <4> QED BY <2>1, <3>2, <4>2, RenamedSettles
    <3>3. CASE Moves(q) /\ ~Rename(q)
      <4>1. (\E g \in Files : Look(q, g)) => step'[q] # "record"
        BY LookEffect
      <4>2. Record(q) \/ Open(q) \/ Fill(q) \/ Remove(q) \/ Dies(q) => step'[q] # "record"
        BY EndEffect DEF Record, Open, Fill, Remove, Dies, TypeOK, Goto
      <4> QED
        BY <2>6, <3>3, <4>1, <4>2, BeginEffect, FinishEffect, EndEffect, RenameFailsEffect,
           FillFailsEffect DEF Moves
    <3> QED BY <3>1, <3>2, <3>3
  <2>7. ASSUME NEW q \in Commands PROVE Converging(q)'
    <3>1. target'[q] = Lock /\ ~overlap' =>
            /\ step'[q] = "fill" => data'[q] = template /\ fd'[q] = "tmp" /\ tmp'[Lock] = Empty
            /\ step'[q] = "rename" => tmp'[Lock] = template
      BY <1>2, <2>1, <2>3, LockStep
    <3> QED BY <2>1, <2>5, <2>6, <3>1 DEF Converging
  <2>8. ASSUME NEW p \in Commands, Rename(p), target[p] = Lock
        PROVE  /\ \A f \in Files : Settled(f)
               /\ ~overlap => store'[Lock] = template
    <3>1. step[p] = "rename" /\ store'[Lock] = tmp[Lock]
      BY <2>8, PathFacts, RenameEffect
    <3> QED BY <2>2, <2>8, <3>1, PastAll DEF Converging
  <2>9. succeeded' => succeeded \/ \E p \in Commands : Rename(p) /\ target[p] = Lock
    <3>1. ASSUME NEW p \in Commands, Rename(p), target[p] # Lock PROVE succeeded' = succeeded
      <4>1. target[p] \in Paths
        BY <3>1, AimFacts DEF Rename, At, Busy
      <4> QED BY <3>1, <4>1, RenameEffect
    <3>2. CASE \E p \in Commands, f \in BOOLEAN, s \in Seconds : Begin(p, f, s)
      BY <1>2, <3>2, BeginEffect
    <3>3. CASE /\ ~(\E p \in Commands, f \in BOOLEAN, s \in Seconds : Begin(p, f, s))
               /\ ~(\E p \in Commands : Rename(p))
      BY <2>1, <3>3, NextCases DEF Look, Finish, Record, Open, Fill, RenameFails, Remove, Sync, vars,
            history, past
    <3> QED BY <3>1, <3>2, <3>3
  <2>10. ASSUME succeeded', NEW f \in Files PROVE Settled(f)'
    BY <2>2, <2>4, <2>8, <2>9, <2>10
  <2>11. ASSUME succeeded', ~overlap' PROVE store'[Lock] = template'
    <3>1. CASE \E p \in Commands : Rename(p) /\ target[p] = Lock
      BY <2>1, <2>3, <2>8, <2>11, <3>1
    <3>2. CASE ~(\E p \in Commands : Rename(p) /\ target[p] = Lock)
      <4>1. store[Lock] = template
        BY <2>2, <2>3, <2>9, <2>11, <3>2
      <4>2. ~(\E p \in Commands : fd[p] = "there")
        BY <2>3, <2>11 DEF ExclusiveInv
      <4> QED BY <2>1, <3>2, <4>1, <4>2, StoreWrites, PathFacts
    <3> QED BY <3>1, <3>2
  <2> QED BY <2>7, <2>10, <2>11
<1> QED BY <1>1, <1>2

-------------------------------------------------------------------------------
(* The invariant, and the properties it implies *)

\* At the start nobody is at work, and the files are of versions or missing.
LEMMA InitInv == Init => IInv
<1> SUFFICES ASSUME Init PROVE IInv
  OBVIOUS
<1>1. PICK old \in [Files -> Versions \cup {Missing}], locked \in BOOLEAN :
        store = [path \in Paths |-> CASE path = Lock -> IF locked THEN old ELSE Missing
                                      [] path \in ProjectFiles -> old[path[2]]
                                      [] OTHER -> Missing]
  BY DEF Init
<1>2. old \in Hashes
  BY DEF Hashes, Content
<1>3. /\ store[Lock] \in {old, Missing}
      /\ \A path \in ProjectFiles : store[path] \in Versions \cup {Missing}
      /\ \A path \in Backups : store[path] = Missing
  <2>1. store[Lock] \in {old, Missing}
    BY <1>1, PathFacts
  <2>2. ASSUME NEW path \in ProjectFiles PROVE store[path] \in Versions \cup {Missing}
    <3>1. store[path] = old[path[2]]
      BY <1>1, PathFacts, PathKinds
    <3> QED BY <3>1, PathFacts
  <2>3. ASSUME NEW path \in Backups PROVE store[path] = Missing
    <3>1. path # Lock /\ path \notin ProjectFiles /\ path \in Paths
      BY PathFacts, PathKinds
    <3> QED BY <1>1, <3>1
  <2> QED BY <2>1, <2>2, <2>3
<1>4. store \in [Paths -> Content \cup {Missing} \cup Hashes]
  <2>1. \A path \in Paths : store[path] \in Content \cup {Missing} \cup Hashes
    BY <1>2, <1>3, PathKinds DEF Content
  <2>2. store = [path \in Paths |-> store[path]]
    BY <1>1
  <2> QED BY <2>1, <2>2
<1>5. Missing \notin {Empty, Torn} /\ Missing \notin Versions /\ old \notin {Empty, Torn}
  BY <1>2, SharedProjectAssumption DEF Content
<1>6. \A c \in Versions \cup {Missing} : c \notin {Empty, Torn} /\ c \notin Mine
  BY SharedProjectAssumption DEF Content
<1>7. NoHashes \in Hashes /\ 1 \in Seconds
  BY SharedProjectAssumption DEF NoHashes, Hashes, Seconds
<1>8. TypeOK
  <2>1. /\ template \in [Files -> Versions] /\ tmp \in [Paths -> Content \cup {Missing} \cup Hashes]
        /\ step \in [Commands -> Steps] /\ target \in [Commands -> Paths \cup {NoPath}]
        /\ force \in [Commands -> BOOLEAN] /\ conflict \in [Commands -> BOOLEAN]
        /\ todo \in [Commands -> SUBSET Files] /\ late \in [Commands -> BOOLEAN]
        /\ data \in [Commands -> Content \cup {Missing} \cup Hashes]
        /\ fd \in [Commands -> {"none", "tmp", "there", "gone"}]
    BY DEF Init, Steps
  <2>2. second \in [Commands -> Seconds] /\ baseline \in [Commands -> Hashes]
    BY <1>7 DEF Init
  <2>3. clock \in Seconds \cup {0} /\ events \in 0..MaxEvents
    BY SharedProjectAssumption DEF Init
  <2>4. {shared, mixed, calm, quiet, overlap, succeeded} \subseteq BOOLEAN
    BY DEF Init
  <2>5. \A p \in Commands : step[p] = "idle"
    BY DEF Init
  <2> QED BY <1>4, <2>1, <2>2, <2>3, <2>4, <2>5 DEF TypeOK
<1>9. /\ \A p \in Commands : /\ step[p] = "idle" /\ target[p] = NoPath /\ fd[p] = "none"
                             /\ conflict[p] = FALSE
      /\ \A path \in Paths : tmp[path] = Missing
  BY DEF Init
<1>10. ShapeInv
  BY <1>2, <1>3, <1>9, PathKinds, PathFacts DEF ShapeInv, Content
<1>11. FlowInv
  BY <1>9, NoPathFacts DEF FlowInv, Flow, Busy
<1>12. DirInv
  BY <1>3, <1>9, PathFacts, NoPathFacts DEF DirInv, OwnDir
<1>13. ExclusiveInv
  BY <1>9 DEF ExclusiveInv, Writing, Init
<1>14. FreshInv
  BY <1>9, NoPathFacts DEF FreshInv, Fresh
<1>15. CalmInv
  BY <1>3, <1>5, <1>6 DEF CalmInv
<1>16. BackupInv
  BY <1>3, <1>5, <1>9, NoPathFacts DEF BackupInv, Sound
<1>17. SavedInv
  BY <1>3, <1>6, PathFacts DEF SavedInv
<1>18. ConvergeInv
  BY DEF ConvergeInv, Init
<1> QED
  BY <1>8, <1>10, <1>11, <1>12, <1>13, <1>14, <1>15, <1>16, <1>17, <1>18 DEF IInv

\* The invariant of any number of upgrades in one project.
THEOREM Inductive == Spec => []IInv
<1>1. IInv /\ [Next]_vars => IInv'
  BY ShapeStep, FlowStep, TypeStep, DirStep, ExclusiveStep, FreshStep, CalmStep, BackupStep, SavedStep,
     ConvergeStep DEF IInv
<1> QED BY InitInv, <1>1, PTL DEF Spec

\* Paths hold contents, the lock hashes, and a command at work has a path it writes.
THEOREM TypeCorrect == Spec => []TypeOK
<1>1. IInv => TypeOK
  BY DEF IInv
<1> QED BY Inductive, <1>1, PTL

\* Commands that nothing disturbed leave no file and no lock truncated or torn, and
\* no backup torn, or truncated if nobody wrote in place.
THEOREM NothingStaysTorn == Spec => []NothingTorn
<1>1. IInv => NothingTorn
  <2> SUFFICES ASSUME CalmInv, BackupInv, AllIdle, calm
               PROVE  /\ \A path \in ProjectFiles \cup {Lock} : store[path] \notin {Empty, Torn}
                      /\ ~shared => \A path \in Backups :
                           store[path] # Torn /\ (store[path] = Empty => mixed)
    BY DEF IInv, NothingTorn
  <2>1. \A path : ~Pending(path, "there")
    BY DEF Pending, AllIdle, At
  <2> QED BY <2>1 DEF CalmInv, BackupInv, Sound
<1> QED BY Inductive, <1>1, PTL

\* A success among undisturbed commands means that the files are the template's,
\* and the lock's hashes too if no two wrote the same file at once.
THEOREM SuccessesConverge == Spec => []SuccessConverges
<1>1. IInv => SuccessConverges
  <2> SUFFICES ASSUME ConvergeInv, AllIdle, quiet, succeeded, NEW f \in Files
               PROVE  /\ store[File(f)] = template[f]
                      /\ store[Lock][f] = template[f] \/ overlap
    BY DEF IInv, SuccessConverges
  <2>1. ~Pending(File(f), "there")
    BY DEF Pending, AllIdle, At
  <2> QED BY <2>1 DEF ConvergeInv, Settled
<1> QED BY Inductive, <1>1, PTL

\* What a command overwrites of the user's is in a backup, as long as no two commands
\* had one backup directory.
THEOREM EditsAreSafe == Spec => EditsSurvive
<1>1. IInv /\ [Next]_vars =>
        [~shared' => \A f \in Files, c \in Mine :
           LET Saved == \E s \in Seconds : store[Backup(s, f)] = c
               StillSaved == \E s \in Seconds : store'[Backup(s, f)] = c
           IN /\ Saved => StillSaved
              /\ \A p \in Commands :
                   step'[p] # step[p] /\ store[File(f)] = c /\ store'[File(f)] # c =>
                     Saved \/ late[p] \/ baseline[p][f] \in {Missing, c}]_vars
  <2> SUFFICES ASSUME IInv, Next, ~shared', NEW f \in Files, NEW c \in Mine
               PROVE  /\ HasBackup(f, c) => HasBackup(f, c)'
                      /\ \A p \in Commands :
                           step'[p] # step[p] /\ store[File(f)] = c /\ store'[File(f)] # c =>
                             HasBackup(f, c) \/ late[p] \/ baseline[p][f] \in {Missing, c}
    BY DEF HasBackup
  <2>1. /\ TypeOK /\ ShapeInv /\ FlowInv /\ DirInv /\ SavedInv /\ [Next]_vars
    BY DEF IInv
  <2>2. ~shared
    BY <2>1, ClockFrame DEF TypeOK
  <2>3. HasBackup(f, c) => HasBackup(f, c)'
    BY <2>1, <2>2, SavedStays
  <2>4. ASSUME NEW p \in Commands, step'[p] # step[p], store[File(f)] = c, store'[File(f)] # c
        PROVE  HasBackup(f, c) \/ late[p] \/ baseline[p][f] \in {Missing, c}
    <3>1. File(f) \in Paths
      BY PathFacts
    <3>2. ASSUME NEW g \in Files, NEW d \in Mine, UserEdits(g, d) PROVE FALSE
      BY <2>1, <2>4, <3>2, UserEditsEffect
    <3>3. PICK r \in Commands : target[r] = File(f) /\ (Rename(r) \/ Fill(r))
      BY <2>1, <2>4, <3>1, <3>2, StoreWrites
    <3>4. Alone(r) /\ step[r] \in Working
      BY <2>1, <3>1, <3>3, RenameEffect, FillEffect DEF Working
    <3>5. p = r
      BY <2>4, <3>4 DEF Alone
    <3> QED BY <2>1, <2>2, <2>4, <3>3, <3>4, <3>5 DEF SavedInv
  <2> QED BY <2>3, <2>4
<1> QED BY Inductive, <1>1, PTL DEF Spec, EditsSurvive
===============================================================================
