# RafikiClaw in TLA+

RafikiClaw compiles an agent description (a *clawfile*) into a content-addressed
*capsule*, signs capsules into *releases*, runs agents in containers and keeps a ledger
of the runs, installs and upgrades projects from templates, and sends and receives
webhooks. It is a set of short-lived commands that share directories, a sqlite file and
a container runtime, and that hardly ever lock anything. What can go wrong is therefore
what happens *between* two steps: another command, the user's editor, a crash, a full
disk, a lost answer. The modules here have one action for each step that another
process can see, and let all of these happen in between.

Everything is translated from the Go code; paths below are relative to the repository,
which the files of this directory name `src/`.

## The system

| component | state | operations | hard parts |
|---|---|---|---|
| run manager `internal/manager`, store `internal/store/sqlite`, log `internal/logs`, adapters `internal/runtime/*` | rows of table `runs`, `runs/<id>/events.jsonl`, the containers | `Run` (foreground, debug, detached), `ListRuns`, `GetRun`, `refreshRunStatus` | several processes write a row; refreshers work on stale copies; dropped store and log errors; crashes; runtimes without exit codes |
| projects `internal/project` | project files, `project.lock.json`, backups, temporary files, the template cache all projects share | `Init`, `Upgrade` (with `--force`, `--dry-run`) | the user edits and the template moves while an upgrade hashes and copies; the lock is written only at the end; two upgrades at once use the same temporary names |
| quickstart and onboard `internal/cli/quickstart_commands.go`, `onboard_commands.go` | the chat bot's files, the defaults in `chat.sh`, the image pinned in `agent.claw`, the images' tags, `.env` | `quickstart`, `onboard`; later `project upgrade` and a launch of `chat.sh` by hand | four files have to agree on runtime, image and key, and are written at different times; builds fall back to another runtime, or to an older image; every failure to write the lock is a warning |
| compiler, locks, capsules `internal/compiler`, `locks`, `capsule` | `cap_<id>` directories | `Compile`, `Write`, `Load` | files are rewritten in place; the sources change between parsing and hashing |
| releases `internal/release` | release directories, the signing key | `Create`, `Verify` | load, check and copy are separate; two commands create the key; death half way |
| webhooks `pkg/webhook` | audit file, handlers | `Send`, `SendWithRetry`; `handleEvents`, `handleEventByID` | timeouts racing late answers, retries of what was done, exit with requests in flight |
| wizard, validation, policy, capability contracts, llm, runtime resolver `internal/claw`, `policy`, `capability`, `llm`, `runtime`, `cli/wizard_commands.go`; the start of `Run` | what a compile put into the capsule: clawfile with defaults, allowlist | `wizard`, `NormalizeAndValidate`, `ValidateAgainstAgent`, `policy.Compile`, `llm.Resolve`, `Resolve`, environment merge and filter | checks in one command, use in another, later and on another host; the same list of variables, and the same defaults, in two places; three sources for one variable |
| dashboard, proxy, keygen, `capsule list` and `diff` | none of their own | displays, forwarding, a key pair | I/O |

How they interact: `run` and `release` call the compiler for a clawfile and `Load` for a
capsule directory; every command of the run manager opens the same `state.db`; observers
(`ps`, `inspect`, `logs`) are the only ones who ever conclude a detached run; the
dashboard reads the same rows; `release`, `compile` and `run` write to the same capsule
directories and share the key file; `quickstart` writes the lock a later `project upgrade`
goes by, and `onboard` runs `quickstart` first and `chat.sh` last; the webhook client and
server meet only on the network.

What makes each correct: a container gets exactly the environment its policy names, with
the right keys, and everything a skill was promised at compile time; a run's row leaves
"running" once and tells the truth about its container, and a run that ended is recorded
in the end; an upgrade destroys nothing the user wrote, and converges; a chat finds its
image and its key; what the wizard writes compiles and runs; a capsule that was compiled
loads, a release that was reported verifies, and nothing else does; a delivery that is
reported as a success was one, and every delivery is reported.

`PROJECT.json` lists the components, the hazards at the lines where they bite, and which
property watches each.

## Modules

| module | what it is |
|---|---|
| `RunLifecycle` | abstract specification of the run ledger: recorded once, concluded at most once, audit log and ledger never contradict the container or each other |
| `RunManager` | the detailed one: one process per `run`, any number of observers, rows, events, containers, faults |
| `ProjectUpgrade` | `project init` and `project upgrade`, one file operation per action, against a user, an author and failures |
| `CapsuleRelease` | `compile` and `release` as processes sharing sources, capsules and key; `verify` as a predicate |
| `SharedProject` | several `project upgrade`s at once in one project, with temporary files, renames and open files |
| `Quickstart` | `quickstart` and `onboard` against edits, upgrades and removed images |
| `AgentLaunch` | from a clawfile, the wizard's or an author's, and contracts to a container's flags: validation, policy, and `run` up to the row |
| `Webhook` | clients with retries, the network, the server's goroutines, exit and restart |
| `MC*` | model values and symmetry for TLC |
| `*Proofs` | theorems about the module of that name, for every value of its constants |

A definition `Name_Slip` is a deliberately wrong variant of `Name` (a dropped guard, a
missing reset, a swapped order). With it in the place of `Name` the property named beside
it in `PROJECT.json` fails, so each property is known to depend on some piece of the code.

### RunManager

`rec`, `newest` and `events` are the `runs` table, its `ORDER BY started_at DESC` and the
JSONL files; `ctr` is the container as the runtime sees it; `pc`, `todo`, `cur` and
`verdict` are the local state of each process: where it stands, the rows it has read and
not yet refreshed, the run it is completing and with what. `Run` is cut at each store
statement, event append and runtime command (`InsertRun`, `LogResolve`, `Launch`, ...,
`LogExit`); `refreshRunStatus` into `InspectAlive` or `InspectExited`, `CompleteRun`,
`AuditExit`; a detached `Run` ends with a refresh of its own. `StoreFails`, a lost event,
a failing runtime command and `Crash` each use up one of `MaxFaults`. What happens before
the row is inserted (preparing the capsule, choosing a runtime, building the environment)
is `AgentLaunch`; here `InsertRun` may happen or not. A detached `docker run -d` may fail
after the container has started: then the row says "failed", with the client's exit code,
of a container that lives on and that nobody will ever ask about (`StartFailed`, which
`ExitCodeTruthful` exempts: that row's code was never the container's).

The instances of `RunLifecycle` in `RunManager` map the status column, the container's
exit and the set of exit verdicts in the log.

### AgentLaunch

`claw` and `contract` are what the author wrote, `capsule` what a successful compile keeps
of it (the clawfile with its defaults, and the allowlist), `container` what `run` hands to
the adapter. The pure functions are operators under the names they have in the code;
`Compile` and `Run` put them in the order of the code, and `Verdict` is the first check of
`Run` that fails. The two commands share nothing but the capsule: `Run` may happen on any
host with any flags, and neither contracts nor clawfile are looked at again. `promised`
and `asked` are history: what the compile had checked, and what the last `run` was given.
`run x.claw` is `Compile` followed by `Run`. `Wizard` writes the clawfile when there is
none (`NoClawfile`); `wizard` remembers what it was asked for. `StrictChecks` are those
`release --strict` makes of a capsule. An environment is a total function with `Unset` for
the variables that are not there.

### ProjectUpgrade

`template`, `disk`, `lock` and `saved` are the template directory, the project, the lock's
hashes and the backups; a hash is the content it is computed from. Each hash, backup, copy
and read-back is an action, so that `UserEdits` and `Publish` fall between any two. `late`
remembers that the user wrote the file at hand after the command's look at it: no code
without file locking can protect that edit, and the properties say so. One command runs at
a time here; `SharedProject` has several.

### SharedProject

`store` maps every path of the project (managed files, backups, the lock) to what is there,
`tmp` to what is at the same path with `.tmp` appended: one name for all commands. A command
has a `step`, the path it writes to (`target`), and `fd`, which says where the file it has
open is by now, for another's rename may have put it in place or taken its last name away.
`Begin` loads the lock; `Look` hashes a file and decides; `Open`, `Fill` and `Rename` are
`copyFilePreserveMode` and `WriteLock`, `FillFails`, `RenameFails` and `Remove` their error
paths, `Record` the hash read back after the copy. `Sync` is another upgrade's
`syncGitRepo`, which moves the template cache.

Three exemptions in the properties are things the code really does: two forced upgrades in one
second share a backup directory, and the second one's backup of what the first has put in
place replaces the backup of the user's edit; a command that hashes a file another has
truncated records that hash in the lock; and a forced upgrade that backs up a file which
another has truncated in place gets an empty backup. The last one takes two files, so that one
command can back a file up after others had it open together (`mixed`): it is beyond the
bounds of the run and was found because the proof did not go through without it.

### Quickstart

`disk`, `lock`, `pinned` and `tagged` are the project's files, the lock's hashes, the image
`agent.claw` names and what the bot's tag stands for in each runtime. The command goes
through the files in the code's order: the copies (`CopyEntry`), `RewriteAgent`,
`RewriteChat`, `WriteIgnore`, `WriteLock`, `Build` or `BuildFails` for each candidate,
`RewriteDefault` after a fallback, `SaveEnv` and `Launch`; `Fails` is every error that ends
it, and death, which may leave the file being written truncated (`Empty`). `Upgrade` is one
step. `own` and `manages` are the template's: whether its `chat.sh` sets its defaults
itself, and what its manifest lists. `FoundKey` is the key the launched `chat.sh` ends up
with, from its `.env` or from the environment: the one `given`, an older one or none.

Exempt, because the code does it:

- A template whose `chat.sh` sets its own defaults (`own`) is not rewritten. Where
  quickstart does not hand over a runtime (under `onboard`, or when `chat.sh` is run by
  hand) it uses the template's, unless a build fell back; and it looks for the key under the
  template's name, so `onboard --llm-key-env` with any other name saves the key where that
  chat never looks.
- A `.env` with something in it is kept, and goes before the key just given, however old
  its key is (`OnboardedChatFindsKey` then promises a key, not the new one). An empty one is
  overwritten.
- After a fallback `chat.sh` differs from the lock, so the next upgrade reports a conflict
  nobody caused.
- A vault inside one of the template's directories is overwritten by it without `--force`.
- After a failed build an image of an earlier one may be pinned (the properties ask that the
  chat finds *that* image, not that it is new).

### CapsuleRelease

A file is absent, torn, ok or altered. `Write` is a `Truncate` and a `Fill` for each file,
in the code's order, over whatever is there; `copyDir` copies file by file, each file
created (`OpenCopy`) and then filled (`CopyDoc`); the key is truncated and then written;
the artifacts of a release are created and written one by one (`CreateArtifact`,
`Publish`), the signature last. "ir" stands for the documents derived from the clawfile,
"source" for the source lock, "portable" for `compat/portable-run-spec.json`. A capsule's
id is the record of what it is computed from, including, with `StateInTree`, the release
directories that happen to lie in the source tree.

Two things `verify` never sees, so that a release altered in them passes (`Unseen`): the
portable run spec is written and copied like the rest, but no digest covers it
(`Digested`), and fields `attestation.json` does not have, which are dropped before the
signature is checked ("padding"). `VerifiedIsWhole` says that nothing else passes.
`CreatedVerifies` holds for every mix of commands with one exception, which it names: the
capsule was rewritten by another command after its digests were checked (`raced`), and the
copy took a file along while it was truncated. `verify` then rejects what `Create` had
reported as made.

### Webhook

`req[c][n]` follows the request of attempt `n` of client `c` through the network and the
server's goroutine; a timed-out request lives on, and one in transit when the server exits
may reach the next server. `id[c][n]` is the id `Send` gave that attempt's event: the
caller's name for it, which other callers may use as well, or the reading of a nanosecond
clock, which differs from the client's own earlier ones and may coincide with another
client's. `reported[c]` is the id in the report. `FindEventByID` scans the audit file from
its start as the code does, so with a shared id it may find somebody else's event:
`ReportedIDFindsEvent` says when it does not.
There is no wildcard handler: `RegisterHandler("*", ...)` registers a type named `*`.

## Runs

| run | bounds | shows |
|---|---|---|
| `run_safety` | 2 runs, 2 observers, 1 fault, `ps --limit 1` | all safety properties and the refinement; about 776,000 states |
| `run_liveness` | 1 run, 2 observers, 2 faults, no exit codes in `inspect` | a reported detached run that ended is concluded; `run` comes back |
| `launch_safety` | 1 skill with any of 240 contracts or none, two families of clawfiles (26 LLM sections × environments × images; networks × up to 2 mounts × runtimes), 2 hosts × 2 sets of runtimes, 32 combinations of flags; the wizard with every combination of provider, key, network and image | the environment is the policy's, keys and secrets arrive, contracts hold in the container, the wizard's clawfiles do what it says; about 689,000 states |
| `upgrade_safety` | 2 files, 3 contents, 4 disturbances | edits survive, success converges, conflicts are exact, dry runs write nothing; about 970,000 states |
| `shared_safety` | 2 commands at a time, 1 file and the lock, 2 versions, 1 content of the user's, 2 seconds, 2 events | nothing is torn, success converges, edits survive; about 6,000,000 states |
| `quickstart_safety` | 2 runtimes, 2 keys, 1 manifest, 1 edit or removed image per behaviour | chat, image, key and lock agree, the user's files survive; about 4,170,000 states |
| `capsule_safety` | 2 commands, 2 versions, 2 disturbances | compiled capsules load, releases verify, nothing else verifies; about 3,140,000 states |
| `webhook_safety` | 2 clients of 3 sorts, 1 retry, 1 fault, 1 name, 2 clock readings | reports, audit file and handlers agree, and every delivery is reported; about 1,245,000 states |

Why the bounds are enough: two runs let `ps` read a stale row while it refreshes another,
and the limit of 1 leaves one of them out; two observers and the run's own refresh are the
three writers a row can have; one fault is every single crash or lost write at every
point, and two in the liveness run are a fault and one during the recovery. Three contents
are the least that lets a file differ from both lock and template; four disturbances allow
an abort, a publication, an edit and one more. Two commands suffice for capsules because
each property speaks of one command and another that interferes; two disturbances are a
death or an edit, and an alteration or a second one. For a launch one skill is enough,
since every clause of a contract is compared on its own, and the two families of clawfiles
are kept apart because the network, mounts and runtime never meet the LLM section; the
second family carries the environment too, which contracts ask for. Two mounts are the
least that can share a target. Two upgrades are enough to write into one temporary file
and to rename it away from under each other, one after the other as often as they like; a
file and the lock are copied and renamed one after the other by the same steps, so each
further file adds only independent copies, and two events are a death or an edit on either
side of the overlap. Two runtimes are a selected one and a fallback; `quickstart` may run
again and again, with and without upgrades in between, and one event puts an edit, a
deletion or a removed image at any point; a manifest that leaves `chat.sh` or the bot out
has fewer files to agree about. With one retry and two clients an event can be duplicated,
overtaken and mixed with another's; a client needs as many clock readings as it has
attempts (with fewer it could not go on), and two clients can have the same ones, or the
one name there is.

`MaxFaults` and `MaxEvents` bound how many faults or disturbances happen in a behaviour;
`MaxSeconds` how many seconds the backup directories of `SharedProject` are spread over,
`Instants` the readings of `Webhook`'s clock; nothing else is bounded. Symmetry is used in
safety runs only. Deadlock is checked where a finished system can still stutter explicitly
(`Rest` in `CapsuleRelease`) or a command can always begin again (`SharedProject`); the
other configurations switch it off because all commands may have ended, or cannot begin
again, with the budget spent.

### Disagreements

Four runs check one sentence of the repository each, and TLC finds it violated:

- `upgrade_force_backs_up`: `--force` "backs up to .metaclaw/upgrade-backups", but a file
  the lock does not know (`upgrade.go:121`) is overwritten without a copy.
- `capsule_loadable_forever`: "compile once, verify always", but a recompile rewrites an
  existing capsule in place.
- `capsule_same_source`: "reproducible", "deterministic manifest even with in-tree output",
  but only `.git`, `.metaclaw` and the capsules are left out of the source lock, and the
  state directory is `.rafikiclaw` by now.
- `webhook_errors_reject`: a handler may return "an error to reject with an HTTP error
  response", but the answer is always 202.

Smaller things met on the way, some of them exempted by name above, the others not
modelled: `keygen` and `release` have different default key paths; `webhook server`
registers its default handler for a type `*` that no event has; a contract's `access` may
have white space around it, which `Validate` trims and `ValidateAgainstAgent` does not;
`--runtime` goes before the runtimes a contract supports, and nothing checks it; an
`apiKeyEnv` that names one of the `METACLAW_LLM_*` settings replaces the key by the
setting; a run that crashed before it recorded its container stays "running" for good; an
upgrade that ends before the lock is written leaves files nobody edited, which a later one
reports as conflicts; `run --detach` whose start is reported as failed leaves a container
running that the ledger calls failed; `onboard` with a template that has its own defaults,
or with an old `.env`, launches a chat that does not use the key just given; nothing
checks a release's portable run spec. The flags of `wizard` have Gemini's endpoint and key
variable as defaults, so `--provider=openai_compatible` alone keeps both, and the
interactive default for that provider is never reached; the wizard accepts `anthropic`,
which the text of its error does not name, overwrites an existing clawfile without asking,
and writes an image that is not pinned, which only `compile` refuses. The proxy's comment
says it "enforces capability contracts" (`proxy/server.go:2`), but `Start` loads them and
nothing asks them.

## Fairness

Only `RunManager!FairSpec` and `Webhook!Spec` state any. `RunManager!FairSpec` assumes weak
fairness of each process's next step (an operating system runs what is runnable) and strong
fairness of somebody asking for each run (`inspect`, `logs`): nothing else concludes a
detached run. Containers need not exit, nobody need start a run, and nothing forces or
forbids a fault. `Webhook!Spec` assumes weak fairness of each client, which is a goroutine
with a timer behind every wait, and nothing of server and network.

## Proofs

All theorems hold for every value of the constants, under the named assumptions of the
modules (the sets are disjoint, the bounds are natural numbers); `NoRun`, `NoFile` and the
like are only assumed to be outside the sets they complement. Each proof module has an
inductive invariant `IInv`, one lemma for each of its parts with a step for each action, the
theorem `Inductive` (`Spec => []IInv`), and the properties as consequences.

- `RunManagerProofs`: `TypeOK`, `RefreshOnlyDetached`, `DebugEvidenceKept`,
  `ExitCodeTruthful`, `DetachedExitRecorded`, `QuietRunIsReconcilable`,
  `ForegroundLeavesNothing`, `ExitEventsLast` and `ImplementsLifecycle`. None is inductive:
  that two stale refreshers never write different verdicts, or that no refresher meets a
  foreground run, follows from who may hold which row when. `ContainerInv` ties the
  container to the process that owns it, `OwnerInv` says what that process is about to
  record, `RowInv` that a row is fresh until then and afterwards what the container
  dictates, `HolderInv` that only rows of detached runs whose container has started are
  ever held and with the verdict every other holder has, `AuditInv` that the log's
  verdicts are backed by row and container. `QuietInv` says, for a behaviour without a fault,
  what each command's row and container are at each of its steps; it needs that every failure
  shows in `faults`. `ExitEventsLast` is about sequences that several processes append to: an
  event is only ever appended when `AuditInv` admits it after what is there. The refinement
  is a step-by-step argument from `IInv`: each action is a step of `RunLifecycle` or changes nothing it sees.
- `AgentLaunchProofs`: `TypeOK`, `LLMEnvAllowlisted`, `AllowlistIsFilled`, `KeysArrive`,
  `SkillsGetWhatTheyRequire` and `WizardKeepsItsWord`. The first five come from two facts
  about operators: `ResolveMatchesAllowlist` (the two lists of LLM variables are one), and
  that a merge holds the variables of its parts. `WizardKeepsItsWord` follows from a
  third, that the wizard's copy of the defaults and of the checks agrees with validation's
  (`WizardClawfile`, `WizardValid`), and `WizardInv`, which says that a clawfile the
  wizard wrote, and the capsule made of it, are still those of its flags. `CapsuleInv`
  carries what validation established from the compile to the run, `LaunchInv` says a
  container is the one the capsule, the flags and the host make.
- `ProjectUpgradeProofs`: `TypeOK`, `EditsSurviveUpgrade`, `QuietSuccessConverges`,
  `QuietConflictsExact` and `DryRunWritesNothing`.
  `CopyInv` says why a file about to be overwritten may be; `ProgressInv` what an
  undisturbed command has achieved so far; `OutcomeInv` that `--force` has no conflicts;
  `ConflictInv` that the conflicts met so far are those of the files already passed.
- `SharedProjectProofs`: `TypeOK`, `NothingTorn`, `SuccessConverges` and `EditsSurvive`, for
  any number of commands, files and seconds. The properties speak of a project nobody is at
  work in, so nearly all of the argument is about what holds meanwhile. `FlowInv` says what
  each command has in its hands at each step, `ShapeInv` what kind of thing is at each path.
  `ExclusiveInv` says that until `overlap` no two commands have one temporary file and none
  has its file renamed under it; `DirInv` that a backup directory of its own is nobody else's
  and each backup is missing until it is taken. `FreshInv` is the heart of it: as long as
  nothing disturbs the commands, whoever writes finds nothing but a truncated file or what he
  is going to write himself, and a truncated temporary file has somebody about to write it.
  From it `CalmInv` (a file truncated in place has one too), `BackupInv` (a backup is of such
  a file or whole) and `ConvergeInv` (a file a command is past is, or is about to be, the
  template's, and the lock of a single writer is the template) follow. `SavedInv` carries an
  edit from the look at it through the backup to the overwriting. Two lemmas carry most
  steps: `StoreWrites` and `TmpWrites` say who can change a path, `Bystanders` that a command
  which does not move keeps everything but its open file.
- `QuickstartProofs`: `TypeOK`, `ChatFindsImage`, `OnboardedChatFindsKey`, `NoFalseConflicts`
  and `UserFilesSurvive`. `ProgressInv` says which files the command has written at each of
  its steps, `EnvInv` that `.env` then holds nothing or the key just given, unless it was
  there before or somebody else wrote it, `UserInv` which of them are still the user's,
  `ChatInv` what is in `chat.sh` until somebody else writes it, `ImageInv` that the pinned
  image carries the tag on the runtime it is pinned for.
- `WebhookProofs`: `TypeOK`, `SuccessIsDelivered`, `OneLinePerAttempt` and
  `ReportedIDFindsEvent`. `IDInv` says which id an attempt may have, and that two attempts of
  one client share none but the caller's name; that the first line with the reported id is
  the client's own needs, beside it, an attempt to have written a line (`FirstLineFound`).
  The rest of the invariant follows each attempt through network and server: what
  has been written, called and answered at each state of its request, also after the client
  has given it up.
- `CapsuleReleaseProofs`: `TypeOK`, `FinishedCompileLoads`, `CreatedVerifies` and
  `VerifiedIsWhole`. `PhaseInv` says what each command knows at each point, `CleanInv`
  that what it wrote is ok while nobody else writes there, `LoadedInv` that the files it
  found whole are so until its copy is done, or are being rewritten by a command that raced
  it, `CopyInv` the same for the copy, `ArtifactInv` that what it published is its own and
  the signature is last.

Every safety and action property of the passing runs has a proof. Only model-checked are the
liveness properties, `DetachedReconciled`, `RunReturns` and `EveryoneReports`, since fairness
and `ENABLED` are out of the prover's reach.

Assumptions the proofs made explicit: in `Quickstart`, that `NoImage` is not an image; in
`SharedProject`, that contents of templates, contents of users, `Empty`, `Torn` and `Missing`
are all different, and that a set of hashes is not a content; in `Webhook`, that `NoID` is
neither a name nor a reading of the clock.

## Plan

Done, in this order: `RunManager` with `RunLifecycle`, `ProjectUpgrade`, `CapsuleRelease`,
`Webhook`, `AgentLaunch`, the proofs of all but `Webhook`, then `Quickstart`,
`SharedProject`, the wizard and the strict checks of a release, and the proofs of all that
were left. Next: abstract specifications for projects (a store that never loses an edit) and
releases (a set of published capsules), with the detailed modules shown to implement them.

## Not modelled

- Cryptography: signatures and digests are perfect, `keygen` writes one pair and exits.
- git, YAML and JSON, the text of prompts, templates and tables; the doctor's checks,
  which change nothing.
- The proxy: each request is on its own, and what they share is loaded before serving.
- The dashboard, which displays the rows `RunManager` has.
- `capsule list` and `capsule diff`: readers. A capsule they load while it is rewritten
  does not parse, and one that loads is what its id says.
- Time, except where two commands meet in one second (`SharedProject`): elsewhere run ids
  and backup directories never collide.
