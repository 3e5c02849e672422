------------------------------- MODULE Quickstart -------------------------------
(***************************************************************************)
(* internal/cli: `quickstart` and `onboard`, which copy the chat bot's      *)
(* template into a project, fit agent.claw and chat.sh to it, record the      *)
(* lock a later `project upgrade` goes by, build the bot's image with one   *)
(* runtime or another, save the keys and start the chat.  The parts meet    *)
(* in files only: chat.sh has to name the runtime that has the image   *)
(* agent.claw is pinned to, and the variable the key is in.                 *)
(*                                                                         *)
(* A definition Name_Slip is a deliberately wrong variant of Name, used to  *)
(* show that some property depends on that part of the code.                *)
(*                                                                         *)
(* Abstracted: a file's content is who wrote it and the two defaults        *)
(* chat.sh carries; of .env it is the name of the key's variable, other     *)
(* settings a user may keep there are left out, and a key that was there    *)
(* before the command counts as another than the one it was given; "bot"    *)
(* stands for all the template's files but agent.claw and chat.sh, "extra"  *)
(* for a file the manifest manages and quickstart does not copy; an image   *)
(* is the runtime it was built with and the "bot" it was built from; a      *)
(* directory .metaclaw without a lock counts as empty.  What the doctor and *)
(* the flag checks refuse changes nothing and is no step; which runtime is  *)
(* the first that answers may differ from command to command; --skip-build, *)
(* --save-env and --no-run are chosen where they are read.  An upgrade is   *)
(* one step here; ProjectUpgrade has its steps.                             *)
(***************************************************************************)
EXTENDS Naturals

CONSTANTS
  Runtimes,       \* the container runtimes
  ProbeRank,      \* ProbeRank[r]: the place of r in runtimeProbeOrder
  KeyNames,       \* names of variables an LLM key can be in
  NoKey,          \* no such name: what an empty file has
  DefaultRuntime, \* the defaults the template's chat.sh has of its own
  DefaultKey,
  Manifests,      \* what its manifest may manage: subsets of {"chat", "bot", "extra"}
  AutoRuntime,    \* --runtime=auto
  NoImage,        \* no image of that tag; not an image that was built
  Outside,        \* the vault is not in one of the template's directories
  MaxEvents       \* bound on edits and removed images together

ASSUME QuickstartAssumption ==
  /\ DefaultRuntime \in Runtimes /\ DefaultKey \in KeyNames /\ NoKey \notin KeyNames
  /\ ProbeRank \in [Runtimes -> Nat]
  /\ \A r, q \in Runtimes : ProbeRank[r] = ProbeRank[q] => r = q
  /\ Manifests \subseteq SUBSET {"chat", "bot", "extra"}
  /\ AutoRuntime \notin Runtimes /\ MaxEvents \in Nat

Files == {"agent", "chat", "bot", "extra", "env", "ignore"}

Content ==
  [by: {"nobody", "template", "quickstart", "user"}, runtime: Runtimes,
   key: KeyNames \cup {NoKey}]

\* A file as `who` wrote it, with the template's defaults.
Written(who) == [by |-> who, runtime |-> DefaultRuntime, key |-> DefaultKey]
Absent == Written("nobody")

\* A file of size zero, as a write that was cut short leaves it.
Empty == [Absent EXCEPT !.key = NoKey]

Images == [on: Runtimes, of: Content]

ASSUME NoImageAssumption == NoImage \notin Images

Options == [cmd: {"quickstart", "onboard"}, runtime: Runtimes \cup {AutoRuntime}, key: KeyNames,
            force: BOOLEAN]
NoOptions == [cmd |-> "quickstart", runtime |-> AutoRuntime, key |-> DefaultKey, force |-> FALSE]

VARIABLES
  own,      \* the template's chat.sh sets BOT_HOST_DATA_DIR, and the defaults with it, itself
  manages,  \* the files its manifest manages; none if it has no manifest
  disk,     \* disk[f]: the project's files
  lock,     \* managedFiles of project.lock.json; all Absent when there is no lock
  pinned,   \* runtime.image of agent.claw
  tagged,   \* tagged[r]: the content the image with the bot's tag in r was built from
  pc, opts, \* where the command stands, and its flags
  copied,   \* how many entries it has copied
  selected, \* report.SelectedRuntime
  effective,\* effectiveRuntime
  tried,    \* the runtimes it has tried to build with
  current,  \* the key in .env is the one this command was given
  built,    \* history: it has got through with a build, and nobody removed the image
  fellBack, \* history: with another runtime than the selected one
  recorded, \* history: it wrote the lock
  touched,  \* history: files others wrote since the command looked or copied, or may
            \* have written: the vault's, and a .env that was there before
  events    \* how many edits and removed images there were

theTemplate == <<own, manages>>
project     == <<disk, lock, pinned>>
choice      == <<opts, selected>>
progress    == <<copied, effective, tried, current>>
history     == <<built, fellBack, recorded>>
vars == <<theTemplate, project, tagged, pc, choice, progress, history, touched, events>>

PCs == {"idle", "copy", "agent", "chat", "ignore", "lock", "build", "default", "env", "launch"}

TypeOK ==
  /\ own \in BOOLEAN /\ manages \in Manifests
  /\ disk \in [Files -> Content] /\ lock \in [Files -> Content]
  /\ pinned \in Images \cup {NoImage}
  /\ tagged \in [Runtimes -> Content \cup {NoImage}]
  /\ pc \in PCs /\ opts \in Options
  /\ copied \in 0..3 /\ tried \subseteq Runtimes /\ current \in BOOLEAN
  /\ selected \in Runtimes /\ effective \in Runtimes
  /\ built \in BOOLEAN /\ fellBack \in BOOLEAN /\ recorded \in BOOLEAN
  /\ touched \subseteq Files
  /\ events \in 0..MaxEvents

Init ==
  /\ own \in BOOLEAN /\ manages \in Manifests
  /\ disk = [f \in Files |-> Absent] /\ lock = [f \in Files |-> Absent]
  /\ pinned = NoImage
  /\ tagged = [r \in Runtimes |-> NoImage]
  /\ pc = "idle" /\ opts = NoOptions
  /\ copied = 0 /\ tried = {} /\ current = FALSE
  /\ selected = DefaultRuntime /\ effective = DefaultRuntime
  /\ built = FALSE /\ fellBack = FALSE /\ recorded = FALSE
  /\ touched = {} /\ events = 0

-------------------------------------------------------------------------------
(* Helpers *)

At(from) == pc = from
Goto(to) == pc' = to
Event == events < MaxEvents /\ events' = events + 1

First(S) == CHOOSE r \in S : \A q \in S : ProbeRank[r] <= ProbeRank[q]

\* resolveRequestedRuntime: the one asked for, or the first that answers.
CanSelect(r, requested) == requested \in {AutoRuntime, r}

\* buildQuickstartRuntimeCandidates, those not tried yet, in order.
Candidates == IF opts.runtime = AutoRuntime THEN Runtimes \ tried ELSE {selected} \ tried
NextCandidate == IF selected \in Candidates THEN selected ELSE First(Candidates)

CopyOrder == <<"agent", "chat", "bot">>

Put(f, c) == disk' = [disk EXCEPT ![f] = c]

\* What a rewrite makes of a file: still the user's if the user was faster.
Rewritten(c) == [c EXCEPT !.by = IF @ = "user" THEN "user" ELSE "quickstart"]

Customised_KeepsDefaults(c) == Rewritten(c)
Customised(c) ==
  IF own THEN Rewritten(c) ELSE [Rewritten(c) EXCEPT !.runtime = selected, !.key = opts.key]

\* The runtime and the key variable chat.sh goes by when it is launched: its
\* environment first, then its own defaults.
LaunchRuntime == IF opts.cmd = "quickstart" THEN effective ELSE disk["chat"].runtime
LaunchKey     == IF opts.cmd = "quickstart" THEN opts.key ELSE disk["chat"].key

\* Has the file something in it?
Holds(f) == disk[f].by # "nobody"

\* The key the chat finds in that variable: chat.sh sources .env, which goes before
\* the environment onboard leaves it, where the given key is under its own name.
FoundKey ==
  IF Holds("env") /\ disk["env"].key = LaunchKey THEN IF current THEN "given" ELSE "old"
  ELSE IF LaunchKey = opts.key THEN "given" ELSE "none"

\* Everything but pc, events and what the step is about.
Still == UNCHANGED <<theTemplate, lock, choice, tried, touched>>

\* The files whose write the step at hand can leave off after truncating them; an
\* empty .gitignore is kept like a full one and counts as written.
InWriting ==
  CASE At("copy") -> {CopyOrder[copied + 1]}
    [] pc \in {"agent", "chat"} -> {pc} \ {f \in Files : disk[f] = Absent}
    [] At("default") -> {"chat"} \ {f \in Files : disk[f] = Absent}
    [] At("env") -> IF opts.cmd = "onboard" /\ ~Holds("env") THEN {"env"} ELSE {}
    [] OTHER -> {}

-------------------------------------------------------------------------------
(* scaffoldObsidianProject *)

\* Without --force the directory has to be empty but for the vault's.
MayBegin_ChecksLockOnly(o, vault) == o.force \/ \A f \in Files : lock[f] = Absent
MayBegin(o, vault) ==
  \/ o.force
  \/ \A f \in Files : lock[f] = Absent /\ (f = vault \/ disk[f] = Absent)

Begin(o, vault) ==
  /\ At("idle") /\ MayBegin(o, vault)
  /\ \E r \in Runtimes : CanSelect(r, o.runtime) /\ selected' = r /\ effective' = r
  /\ opts' = o /\ copied' = 0 /\ tried' = {} /\ current' = FALSE
  /\ touched' = ({vault} \cap Files) \cup (IF Holds("env") THEN {"env"} ELSE {})
  /\ built' = FALSE /\ fellBack' = FALSE /\ recorded' = FALSE
  /\ Goto("copy")
  /\ UNCHANGED <<theTemplate, project, tagged, events>>

\* copyTemplateFile truncates whatever is there and fills it again.
CopyEntry ==
  /\ At("copy")
  /\ LET f == CopyOrder[copied + 1] IN
       /\ Put(f, Written("template"))
       /\ touched' = touched \ {f}
       /\ pinned' = IF f = "agent" THEN NoImage ELSE pinned
  /\ copied' = copied + 1
  /\ IF copied' = 3 THEN Goto("agent") ELSE Goto("copy")
  /\ UNCHANGED <<theTemplate, lock, tagged, choice, effective, tried, current, history, events>>

\* rewriteObsidianAgentFile fails if the file is gone by now.
RewriteAgent ==
  /\ At("agent") /\ disk["agent"] # Absent
  /\ Put("agent", Rewritten(disk["agent"]))
  /\ Goto("chat")
  /\ Still /\ UNCHANGED <<pinned, tagged, copied, effective, current, history, events>>

RewriteChat ==
  /\ At("chat") /\ disk["chat"] # Absent
  /\ Put("chat", Customised(disk["chat"]))
  /\ Goto("ignore")
  /\ Still /\ UNCHANGED <<pinned, tagged, copied, effective, current, history, events>>

\* writeQuickstartGitignore leaves one that is there alone.
WriteIgnore ==
  /\ At("ignore")
  /\ IF disk["ignore"] = Absent THEN Put("ignore", Written("quickstart")) ELSE UNCHANGED disk
  /\ Goto("lock")
  /\ Still /\ UNCHANGED <<pinned, tagged, copied, effective, current, history, events>>

-------------------------------------------------------------------------------
(* The rest of runQuickstart *)

HashManagedFiles_Template ==
  [f \in Files |-> IF f \in manages THEN Written("template") ELSE Absent]
HashManagedFiles == [f \in Files |-> IF f \in manages THEN disk[f] ELSE Absent]

\* LoadManifest, HashManagedFiles, WriteLock: no manifest, a managed file that is
\* missing or a failing write is a warning, and the lock stays as it was.
WriteLock ==
  /\ At("lock")
  /\ \/ /\ manages # {} /\ \A f \in manages : disk[f] # Absent
        /\ lock' = HashManagedFiles
        /\ recorded' = TRUE
     \/ UNCHANGED <<lock, recorded>>
  /\ Goto("build") \/ Goto("env")
  /\ UNCHANGED <<theTemplate, disk, pinned, tagged, choice, progress, built, fellBack,
                 touched, events>>

\* After a build with another runtime than the selected one chat.sh is rewritten.
AfterBuild_Ready(r) == "env"
AfterBuild(r) == IF r = selected THEN "env" ELSE "default"

\* recoverQuickstartPinnedImage: an image with the tag can be inspected.
Recoverable_Unchecked(r) == TRUE
Recoverable(r) == tagged[r] # NoImage

\* buildQuickstartImage: the script builds, tags and pins, or it has failed and
\* what carries the tag, from now or from before, is pinned instead.
Build ==
  /\ At("build") /\ Candidates # {} /\ disk["agent"] # Absent
  /\ LET r == NextCandidate IN
       /\ \/ tagged' = [tagged EXCEPT ![r] = disk["bot"]]
          \/ Recoverable(r) /\ UNCHANGED tagged
       /\ pinned' = [on |-> r, of |-> tagged'[r]]
       /\ effective' = r /\ tried' = {}
       /\ Goto(AfterBuild(r))
       /\ built' = TRUE /\ fellBack' = (r # selected)
  /\ UNCHANGED <<theTemplate, disk, lock, choice, copied, current, recorded, touched,
                 events>>

\* Neither: the script got as far as it got, or the runtime is not even installed.
\* --runtime=auto goes on with the next one.
BuildFails ==
  /\ At("build") /\ Candidates # {}
  /\ LET r == NextCandidate IN
       /\ \/ UNCHANGED <<tagged, pinned>>
          \/ /\ tagged' = [tagged EXCEPT ![r] = disk["bot"]]
             /\ pinned' \in {pinned, [on |-> r, of |-> tagged'[r]]}
       /\ tried' = tried \cup {r}
  /\ UNCHANGED <<theTemplate, disk, lock, pc, choice, copied, effective, current, history,
                 touched, events>>

\* rewriteQuickstartRuntimeDefault, after the lock has been written.
RewriteDefault ==
  /\ At("default") /\ disk["chat"] # Absent
  /\ Put("chat", [Rewritten(disk["chat"]) EXCEPT !.runtime = effective])
  /\ Goto("env")
  /\ Still /\ UNCHANGED <<pinned, tagged, copied, effective, current, history, events>>

-------------------------------------------------------------------------------
(* runOnboard after runQuickstart *)

\* writeDotEnvFile: a file with something in it is kept; without --save-env, or if
\* it cannot be written, there is none.
SaveEnv ==
  /\ At("env")
  /\ \/ /\ opts.cmd = "onboard" /\ ~Holds("env")
        /\ Put("env", [Written("quickstart") EXCEPT !.key = opts.key])
        /\ current' = TRUE
     \/ UNCHANGED <<disk, current>>
  /\ Goto("launch")
  /\ Still /\ UNCHANGED <<pinned, tagged, copied, effective, history, events>>

\* The command returns or dies.
End ==
  /\ Goto("idle")
  /\ opts' = NoOptions /\ copied' = 0 /\ tried' = {} /\ current' = FALSE
  /\ selected' = DefaultRuntime /\ effective' = DefaultRuntime
  /\ touched' = touched \ {"env", "ignore"}
  /\ UNCHANGED <<theTemplate, lock, tagged>>

\* Unless --no-run, the chat runs until it is left; its failure is the command's.
Launch ==
  /\ At("launch") /\ End
  /\ UNCHANGED <<disk, pinned, history, events>>

\* A file is gone, the disk is full, no runtime is left to build with, a kill: the
\* file that was being written may be left empty.
Fails ==
  /\ ~At("idle")
  /\ End
  /\ \/ UNCHANGED <<disk, pinned>>
     \/ \E f \in InWriting :
          Put(f, Empty) /\ pinned' = IF f = "agent" THEN NoImage ELSE pinned
  /\ built' = (built /\ ~At("default"))
  /\ UNCHANGED <<fellBack, recorded, events>>

-------------------------------------------------------------------------------
(* The world around the command *)

\* `project upgrade`: conflicts stop the lock, not the other files.
Conflicts ==
  {f \in manages : /\ lock[f] # Absent
                   /\ disk[f] \notin {Absent, lock[f], Written("template")}}

Upgrade(force) ==
  /\ At("idle") /\ manages # {}
  /\ LET done == IF force THEN manages ELSE manages \ Conflicts
     IN /\ disk' = [f \in Files |-> IF f \in done THEN Written("template") ELSE disk[f]]
        /\ lock' = IF done = manages
                   THEN [f \in Files |-> IF f \in manages THEN disk'[f] ELSE Absent] ELSE lock
        /\ touched' = touched \cup done
  /\ UNCHANGED <<theTemplate, pinned, tagged, pc, choice, progress, history, events>>

\* What a user may make of a file: .env may get any key.
UserContents(f) ==
  {Absent} \cup
  (IF f = "env" THEN {Empty} \cup {[Written("user") EXCEPT !.key = k] : k \in KeyNames}
   ELSE {Written("user")})

\* The user writes or deletes a file; with agent.claw goes what it was pinned to.
UserEdits(f) ==
  /\ Event
  /\ \E c \in UserContents(f) \ {disk[f]} : Put(f, c)
  /\ pinned' = IF f = "agent" THEN NoImage ELSE pinned
  /\ current' = (current /\ f # "env")
  /\ touched' = touched \cup {f}
  /\ UNCHANGED <<theTemplate, lock, tagged, pc, choice, copied, effective, tried, history>>

PruneImage(r) ==
  /\ Event
  /\ tagged[r] # NoImage /\ tagged' = [tagged EXCEPT ![r] = NoImage]
  /\ built' = FALSE
  /\ UNCHANGED <<theTemplate, project, pc, choice, progress, fellBack, recorded,
                 touched>>

-------------------------------------------------------------------------------

Command ==
  \/ CopyEntry \/ RewriteAgent \/ RewriteChat \/ WriteIgnore \/ WriteLock
  \/ Build \/ BuildFails \/ RewriteDefault \/ SaveEnv \/ Launch \/ Fails

World ==
  \/ \E f \in Files : UserEdits(f)
  \/ \E r \in Runtimes : PruneImage(r)
  \/ \E force \in BOOLEAN : Upgrade(force)

Next == (\E o \in Options, vault \in {Outside, "bot"} : Begin(o, vault)) \/ Command \/ World

Spec == Init /\ [][Next]_vars

-------------------------------------------------------------------------------
(* Safety *)

\* The chat runs on the runtime that has the image agent.claw names, whichever
\* candidate built it, when quickstart hands the runtime over and when chat.sh
\* goes by its default: under `onboard`, or by hand ever after.  Exempt is a template
\* whose chat.sh brings its own defaults, unless the build fell back: that chat.sh
\* keeps the template's runtime where quickstart does not hand one over.
ChatFindsImage ==
  built /\ ~At("default") /\ touched \cap {"agent", "chat"} = {} =>
    /\ pinned # NoImage /\ tagged[pinned.on] = pinned.of
    /\ pc = "launch" /\ opts.cmd = "quickstart" => LaunchRuntime = pinned.on
    /\ (own /\ ~fellBack) \/ disk["chat"].runtime = pinned.on

\* `onboard` has asked for a key under a name of the user's choice: the chat it then
\* launches finds a key, and the one that was given, unless a .env with something in
\* it was there before (or was edited meanwhile): its key under that name goes first,
\* however old.  Exempt is a template whose chat.sh brings its own defaults, as soon
\* as the name is not the template's: chat.sh goes on to look for the template's.
OnboardedChatFindsKey ==
  pc = "launch" /\ opts.cmd = "onboard" /\ "chat" \notin touched
  /\ (~own \/ opts.key = DefaultKey) =>
    FoundKey # "none" /\ ("env" \notin touched => FoundKey = "given")

\* A project as quickstart left it has no conflicts with its own lock, unless the
\* runtime fell back after the lock was written.
NoFalseConflicts ==
  recorded /\ ~fellBack =>
    \A f \in manages \ touched : lock[f] = disk[f]

\* Without --force no step of the command overwrites what the user wrote, unless
\* the user wrote it while the command ran or keeps the vault in that directory.
\* .env and .gitignore are not even overwritten with --force.
UserFilesSurvive ==
  [][Command => \A f \in Files : disk[f].by = "user" /\ disk'[f] # disk[f] =>
       /\ f \notin {"env", "ignore"}
       /\ opts.force \/ f \in touched]_vars
===============================================================================
