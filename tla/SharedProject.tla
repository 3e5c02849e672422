----------------------------- MODULE SharedProject -----------------------------
(***************************************************************************)
(* internal/project: several `project upgrade` commands at work in one      *)
(* project.  Nothing keeps them apart.  Each reads the lock once, and puts   *)
(* every file it writes (managed files, backups, the lock) under its own     *)
(* name with ".tmp" appended, to be renamed when it is complete; but that    *)
(* name is the same for all of them.  Two that write the same file at the    *)
(* same time write into one inode, and the first to finish renames it away   *)
(* from under the other, which goes on writing into the file in place.       *)
(*                                                                         *)
(* A definition Name_Slip is a deliberately wrong variant of Name, used to  *)
(* show that some property depends on that part of the code.                *)
(*                                                                         *)
(* Abstracted: as in ProjectUpgrade.  A file is read, and written, at once,  *)
(* but truncating, writing and renaming it are three steps.  Dry runs, which *)
(* write nothing, and `project init` are left out; managed files neither     *)
(* come nor go while the commands run, the user writes files and does not    *)
(* delete them.                                                             *)
(***************************************************************************)
EXTENDS Naturals

CONSTANTS
  Commands,   \* processes that run one `project upgrade` after the other
  Files,      \* the managed files
  Versions,   \* contents of template files
  Mine,       \* contents the user writes, none of them a template's
  Missing,    \* no such file, no such lock entry
  Empty,      \* a file that was truncated and not written to yet
  Torn,       \* a mixture of contents
  NoPath,     \* target of a command that is not writing
  MaxSeconds, \* bound on the seconds backups are filed under
  MaxEvents   \* bound on edits, template moves, deaths and failed writes together

Content == Versions \cup Mine \cup {Empty, Torn}

Seconds == 1..MaxSeconds

File(f) == <<"file", f>>
Backup(s, f) == <<"backup", f, s>>
Lock == <<"lock">>
ProjectFiles == {File(f) : f \in Files}
Backups == {Backup(s, f) : s \in Seconds, f \in Files}
Paths == ProjectFiles \cup Backups \cup {Lock}

Hashes == [Files -> Content \cup {Missing}]
NoHashes == [f \in Files |-> Missing]

ASSUME SharedProjectAssumption ==
  /\ Missing \notin Content /\ Empty # Torn
  /\ Versions \cap Mine = {} /\ {Empty, Torn} \cap (Versions \cup Mine) = {}
  /\ Hashes \cap (Content \cup {Missing}) = {} /\ NoPath \notin Paths
  /\ MaxSeconds \in Nat \ {0} /\ MaxEvents \in Nat

VARIABLES
  template, \* template[f]: the file in the template directory
  store,    \* store[path]: what is there
  tmp,      \* tmp[path]: what is at path.tmp
  step, target, \* what a command is at, and the path it is writing to
  force,    \* its flag
  second,   \* its backupRoot
  baseline, \* its managedHashes
  todo,     \* the files it has not come to yet
  conflict, \* has it met a conflict?
  data,     \* what it has read and is going to write
  fd,       \* where the file it has open is by now: at the "tmp" it was opened as, renamed
            \* "there", to the path itself, or "gone" from every name
  clock,    \* the second of the latest command
  late,     \* history: the user wrote the file the command is at after its look at it
  shared,   \* history: two commands had the same backupRoot
  mixed,    \* history: one truncated what another was about to rename
  calm,     \* history: no event came while a command was at work
  quiet,    \* history: none since the last time a command began alone,
  overlap,  \* history: since then that has happened again,
  succeeded,\* history: and one succeeded
  events    \* how many edits, template moves, deaths and failed writes there were

files   == <<store, tmp>>
plan    == <<force, second, baseline, todo, conflict>>
writing == <<data, fd>>
past    == <<shared, mixed, calm, quiet, overlap, succeeded>>
history == <<late, past>>
vars == <<template, files, step, target, plan, writing, clock, history, events>>

Steps == {"idle", "next", "open", "fill", "rename", "remove", "record"}

TypeOK ==
  /\ template \in [Files -> Versions]
  /\ store \in [Paths -> Content \cup {Missing} \cup Hashes]
  /\ tmp \in [Paths -> Content \cup {Missing} \cup Hashes]
  /\ step \in [Commands -> Steps]
  /\ target \in [Commands -> Paths \cup {NoPath}]
  /\ force \in [Commands -> BOOLEAN] /\ conflict \in [Commands -> BOOLEAN]
  /\ second \in [Commands -> Seconds] /\ clock \in Seconds \cup {0}
  /\ baseline \in [Commands -> Hashes]
  /\ todo \in [Commands -> SUBSET Files]
  /\ data \in [Commands -> Content \cup {Missing} \cup Hashes]
  /\ fd \in [Commands -> {"none", "tmp", "there", "gone"}]
  /\ late \in [Commands -> BOOLEAN]
  /\ {shared, mixed, calm, quiet, overlap, succeeded} \subseteq BOOLEAN
  /\ events \in 0..MaxEvents
  /\ \A p \in Commands : step[p] \in {"open", "fill", "rename", "remove", "record"} =>
       target[p] # NoPath

\* A project as an earlier init or upgrade may have left it: each file absent or of
\* some version, and the lock there or not.
Init ==
  /\ template \in [Files -> Versions]
  /\ \E old \in [Files -> Versions \cup {Missing}], locked \in BOOLEAN :
       store = [path \in Paths |-> CASE path = Lock -> IF locked THEN old ELSE Missing
                                     [] path \in ProjectFiles -> old[path[2]]
                                     [] OTHER -> Missing]
  /\ tmp = [path \in Paths |-> Missing]
  /\ step = [p \in Commands |-> "idle"] /\ target = [p \in Commands |-> NoPath]
  /\ force = [p \in Commands |-> FALSE] /\ conflict = [p \in Commands |-> FALSE]
  /\ second = [p \in Commands |-> 1] /\ clock = 0
  /\ baseline = [p \in Commands |-> NoHashes] /\ todo = [p \in Commands |-> {}]
  /\ data = [p \in Commands |-> Missing] /\ fd = [p \in Commands |-> "none"]
  /\ late = [p \in Commands |-> FALSE]
  /\ shared = FALSE /\ mixed = FALSE /\ calm = TRUE
  /\ quiet = FALSE /\ overlap = FALSE /\ succeeded = FALSE
  /\ events = 0

-------------------------------------------------------------------------------
(* Helpers *)

At(p, from) == step[p] = from
Goto(p, to) == step' = [step EXCEPT ![p] = to]
Aim(p, path) == target' = [target EXCEPT ![p] = path]
AllIdle == \A p \in Commands : At(p, "idle")

Event ==
  /\ events < MaxEvents /\ events' = events + 1
  /\ quiet' = FALSE /\ calm' = (calm /\ AllIdle)

FileOf(p) == target[p][2]

\* LoadLock: a lock that does not parse counts as none.
LoadLock_Unparsed == store[Lock]
LoadLock == IF store[Lock] \in Hashes THEN store[Lock] ELSE NoHashes

\* os.O_TRUNC.
Truncated_Not(old) == IF old = Missing THEN Empty ELSE old
Truncated(old) == Empty

\* Writing c over what has been written since the file was truncated: the tail of
\* something longer stays.  All locks of one template are of one length.
Over(old, c) == IF old \in {Empty, c} \cup Hashes THEN {c} ELSE {c, Torn}

\* The command returns or dies.
End(p) ==
  /\ Goto(p, "idle") /\ Aim(p, NoPath)
  /\ force' = [force EXCEPT ![p] = FALSE] /\ second' = [second EXCEPT ![p] = 1]
  /\ baseline' = [baseline EXCEPT ![p] = NoHashes] /\ todo' = [todo EXCEPT ![p] = {}]
  /\ conflict' = [conflict EXCEPT ![p] = FALSE]
  /\ data' = [data EXCEPT ![p] = Missing] /\ late' = [late EXCEPT ![p] = FALSE]

-------------------------------------------------------------------------------
(* project.Upgrade *)

\* A command that begins when no other is at work begins a new history.
Begin(p, f, s) ==
  /\ At(p, "idle")
  /\ s \in {clock, clock + 1} \cap Seconds /\ clock' = s
  /\ force' = [force EXCEPT ![p] = f] /\ second' = [second EXCEPT ![p] = s]
  /\ baseline' = [baseline EXCEPT ![p] = LoadLock]
  /\ todo' = [todo EXCEPT ![p] = Files]
  /\ Goto(p, "next")
  /\ shared' = (shared \/ s = clock)
  /\ IF AllIdle THEN quiet' = TRUE /\ overlap' = FALSE /\ succeeded' = FALSE
                ELSE UNCHANGED <<quiet, overlap, succeeded>>
  /\ UNCHANGED <<template, files, target, conflict, writing, late, mixed, calm, events>>

LocallyModified(p, f) ==
  /\ baseline[p][f] # Missing /\ store[File(f)] # Missing
  /\ store[File(f)] \notin {baseline[p][f], template[f]}

BackupOf_OneDir(p, f) == Backup(1, f)
BackupOf(p, f) == Backup(second[p], f)

\* The hashes of both files, and what they lead to.
Look(p, f) ==
  /\ At(p, "next") /\ f \in todo[p]
  /\ todo' = [todo EXCEPT ![p] = @ \ {f}]
  /\ \/ /\ LocallyModified(p, f) /\ ~force[p]
        /\ conflict' = [conflict EXCEPT ![p] = TRUE]
        /\ UNCHANGED <<step, target, baseline>>
     \/ /\ LocallyModified(p, f) /\ force[p]
        /\ Goto(p, "open") /\ Aim(p, BackupOf(p, f))
        /\ UNCHANGED <<baseline, conflict>>
     \/ /\ ~LocallyModified(p, f) /\ store[File(f)] = template[f]
        /\ baseline' = [baseline EXCEPT ![p][f] = store[File(f)]]
        /\ UNCHANGED <<step, target, conflict>>
     \/ /\ ~LocallyModified(p, f) /\ store[File(f)] # template[f]
        /\ Goto(p, "open") /\ Aim(p, File(f))
        /\ UNCHANGED <<baseline, conflict>>
  /\ late' = [late EXCEPT ![p] = FALSE]
  /\ UNCHANGED <<template, files, force, second, writing, clock, past, events>>

\* With conflicts and without --force the lock stays as it was.
Finish(p) ==
  /\ At(p, "next") /\ todo[p] = {}
  /\ IF conflict[p] /\ ~force[p]
     THEN End(p)
     ELSE /\ Goto(p, "open") /\ Aim(p, Lock)
          /\ UNCHANGED <<plan, data, late>>
  /\ UNCHANGED <<template, files, fd, clock, past, events>>

\* The hash that goes into the lock is that of the project's file, whoever wrote it.
Record(p) ==
  /\ At(p, "record")
  /\ baseline' = [baseline EXCEPT ![p][FileOf(p)] = store[File(FileOf(p))]]
  /\ Goto(p, "next") /\ Aim(p, NoPath)
  /\ UNCHANGED <<template, files, force, second, todo, conflict, writing, clock, history, events>>

-------------------------------------------------------------------------------
(* copyFilePreserveMode and WriteLock, step by step *)

\* What is copied to a path: a template file, the project's file, the hashes.
Source(p) ==
  CASE target[p] = Lock -> baseline[p]
    [] target[p] \in ProjectFiles -> template[FileOf(p)]
    [] OTHER -> store[File(FileOf(p))]

\* Looks whether another is writing, too late.
Open_LooksAfter(p) ==
  /\ At(p, "open")
  /\ tmp' = [tmp EXCEPT ![target[p]] = Truncated(@)]
  /\ IF tmp[target[p]] = Missing
     THEN /\ data' = [data EXCEPT ![p] = Source(p)] /\ fd' = [fd EXCEPT ![p] = "tmp"]
          /\ Goto(p, "fill") /\ UNCHANGED <<target, plan, late>>
     ELSE End(p) /\ UNCHANGED fd
  /\ UNCHANGED <<template, store, clock, past, events>>

\* The temporary file is opened and truncated, another's with it.
Open(p) ==
  /\ At(p, "open")
  /\ tmp' = [tmp EXCEPT ![target[p]] = Truncated(@)]
  /\ data' = [data EXCEPT ![p] = Source(p)]
  /\ fd' = [fd EXCEPT ![p] = "tmp"]
  /\ LET another == \E q \in Commands :
                       step[q] \in {"fill", "rename"} /\ target[q] = target[p]
     IN mixed' = (mixed \/ another) /\ overlap' = (overlap \/ another)
  /\ Goto(p, "fill")
  /\ UNCHANGED <<template, store, target, plan, clock, late, shared, calm, quiet,
                 succeeded, events>>

\* It is written and closed, wherever it is by now.
Fill(p) ==
  /\ At(p, "fill")
  /\ \/ /\ fd[p] = "tmp"
        /\ \E c \in Over(tmp[target[p]], data[p]) : tmp' = [tmp EXCEPT ![target[p]] = c]
        /\ UNCHANGED store
     \/ /\ fd[p] = "there"
        /\ \E c \in Over(store[target[p]], data[p]) : store' = [store EXCEPT ![target[p]] = c]
        /\ UNCHANGED tmp
     \/ fd[p] = "gone" /\ UNCHANGED files
  /\ data' = [data EXCEPT ![p] = Missing]
  /\ fd' = [fd EXCEPT ![p] = "none"]
  /\ Goto(p, "rename")
  /\ UNCHANGED <<template, target, plan, clock, history, events>>

\* The disk is full: what was truncated stays so.
FillFails(p) ==
  /\ At(p, "fill") /\ Event
  /\ fd' = [fd EXCEPT ![p] = "none"]
  /\ IF target[p] = Lock THEN End(p)
     ELSE /\ Goto(p, "remove") /\ data' = [data EXCEPT ![p] = Missing]
          /\ UNCHANGED <<target, plan, late>>
  /\ UNCHANGED <<template, files, clock, shared, mixed, overlap, succeeded>>

\* Whatever is at the temporary name moves to the path; the other's file there,
\* written in place so far, has no name any more.
Rename(p) ==
  /\ At(p, "rename") /\ tmp[target[p]] # Missing
  /\ LET path == target[p] IN
       /\ store' = [store EXCEPT ![path] = tmp[path]]
       /\ tmp' = [tmp EXCEPT ![path] = Missing]
       /\ fd' = [q \in Commands |-> IF q = p \/ target[q] # path THEN fd[q]
                                    ELSE CASE fd[q] = "tmp" -> "there"
                                           [] fd[q] = "there" -> "gone"
                                           [] OTHER -> fd[q]]
       /\ IF path = Lock THEN End(p) /\ succeeded' = TRUE
          ELSE /\ IF path \in ProjectFiles THEN Goto(p, "record") /\ UNCHANGED target
                                           ELSE Goto(p, "open") /\ Aim(p, File(FileOf(p)))
               /\ UNCHANGED <<plan, data, late, succeeded>>
  /\ UNCHANGED <<template, clock, shared, mixed, calm, quiet, overlap, events>>

\* Another has renamed it: the command fails.
RenameFails(p) ==
  /\ At(p, "rename") /\ tmp[target[p]] = Missing
  /\ IF target[p] = Lock THEN End(p)
     ELSE Goto(p, "remove") /\ UNCHANGED <<target, plan, data, late>>
  /\ UNCHANGED <<template, files, fd, clock, past, events>>

\* It removes the temporary file, by now perhaps a third one's.
Remove(p) ==
  /\ At(p, "remove")
  /\ tmp' = [tmp EXCEPT ![target[p]] = Missing]
  /\ fd' = [q \in Commands |-> IF target[q] = target[p] /\ fd[q] = "tmp" THEN "gone" ELSE fd[q]]
  /\ End(p)
  /\ UNCHANGED <<template, store, clock, past, events>>

-------------------------------------------------------------------------------
(* The world around the commands *)

Dies(p) ==
  /\ ~At(p, "idle") /\ Event
  /\ End(p)
  /\ fd' = [fd EXCEPT ![p] = "none"]
  /\ UNCHANGED <<template, files, clock, shared, mixed, overlap, succeeded>>

\* The user's editor writes the file in place or puts a new one there.
UserEdits(f, c) ==
  /\ Event
  /\ store[File(f)] # c /\ store' = [store EXCEPT ![File(f)] = c]
  /\ fd' \in {fd, [q \in Commands |->
                     IF target[q] = File(f) /\ fd[q] = "there" THEN "gone" ELSE fd[q]]}
  /\ late' = [q \in Commands |-> late[q] \/ (target[q] \notin {NoPath, Lock} /\ FileOf(q) = f)]
  /\ UNCHANGED <<template, tmp, step, target, plan, data, clock, shared, mixed, overlap,
                 succeeded>>

\* syncGitRepo, run by an upgrade of this or another project, moves the template
\* cache all of them share.
Sync(f, v) ==
  /\ Event
  /\ template[f] # v /\ template' = [template EXCEPT ![f] = v]
  /\ UNCHANGED <<files, step, target, plan, writing, clock, late, shared, mixed, overlap,
                 succeeded>>

-------------------------------------------------------------------------------

Command(p) ==
  \/ \E f \in Files : Look(p, f)
  \/ Finish(p) \/ Open(p) \/ Fill(p) \/ FillFails(p)
  \/ Rename(p) \/ RenameFails(p) \/ Remove(p) \/ Record(p)

World ==
  \/ \E p \in Commands : Dies(p)
  \/ \E f \in Files : (\E c \in Mine : UserEdits(f, c)) \/ \E v \in Versions : Sync(f, v)

Next ==
  \/ \E p \in Commands : Command(p) \/ \E f \in BOOLEAN, s \in Seconds : Begin(p, f, s)
  \/ World

Spec == Init /\ [][Next]_vars

-------------------------------------------------------------------------------
(* Safety *)

\* If no command ever died or was disturbed, then when all have ended no file and no
\* lock is left truncated or torn, although they wrote into each other's temporary
\* files and in place.  No backup is a mixture if each had its own directory, but one
\* may be truncated: of a file others were writing in place when it was taken.
NothingTorn ==
  AllIdle /\ calm =>
    /\ \A path \in ProjectFiles \cup {Lock} : store[path] \notin {Empty, Torn}
    /\ ~shared => \A path \in Backups :
         store[path] # Torn /\ (store[path] = Empty => mixed)

\* If of commands nothing disturbed one succeeded, the project is as if that one had
\* run alone, whatever happened before: each file is the template's, and so is its
\* hash in the lock, unless another command had the file truncated meanwhile.
SuccessConverges ==
  AllIdle /\ quiet /\ succeeded =>
    \A f \in Files :
      /\ store[File(f)] = template[f]
      /\ store[Lock][f] = template[f] \/ overlap

\* What a command overwrites of the user's is in a backup, and stays there, unless
\* the user wrote it after the command's look at the file, or the command's lock
\* does not know the file or knows it like that.  Two commands that share a
\* backup directory are the exception: the second one backs up what the first
\* one has put there.
EditsSurvive ==
  [][~shared' => \A f \in Files, c \in Mine :
       LET Saved == \E s \in Seconds : store[Backup(s, f)] = c
           StillSaved == \E s \in Seconds : store'[Backup(s, f)] = c
       IN /\ Saved => StillSaved
          /\ \A p \in Commands :
               step'[p] # step[p] /\ store[File(f)] = c /\ store'[File(f)] # c =>
                 Saved \/ late[p] \/ baseline[p][f] \in {Missing, c}]_vars
===============================================================================
