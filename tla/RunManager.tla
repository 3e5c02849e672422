------------------------------ MODULE RunManager ------------------------------
(***************************************************************************)
(* internal/manager with the sqlite run store, the JSONL event log and the  *)
(* container runtime it drives.  Every command is a short-lived process:    *)
(* one `run` process per run, and any number of observers (`ps`, `inspect`, *)
(* `logs`) that refresh the rows they read.  They share only the state      *)
(* directory, so every store statement, event append and runtime command    *)
(* is a step of its own and a process may die between any two.              *)
(*                                                                         *)
(* A definition Name_Slip is a deliberately wrong variant of Name: with it  *)
(* in Name's place some property below has to fail, which shows that the    *)
(* property depends on that part of the code.                               *)
(*                                                                         *)
(* Abstracted: capsule preparation, runtime choice and the environment (no  *)
(* run row exists yet), the captured stdout/stderr files, time stamps and   *)
(* error texts.  A container id and the container name stand for the same   *)
(* container, so a row only says whether it has one.                        *)
(***************************************************************************)
EXTENDS Naturals, Sequences, FiniteSets, SequencesExt

CONSTANTS
  Runs,            \* runs, each started by a `run` process of its own
  Observers,       \* processes running ps, inspect or logs, one after another
  NoRun,           \* "no run": cur of a process that is completing nothing
  PsLimit,         \* ps --limit: how many of the newest rows ListRuns reads
  ReportsExitCode, \* does the runtime's inspect payload carry an exit code?
  MaxFaults        \* bound on crashes, busy stores, lost appends, failed commands

ASSUME RunManagerAssumption ==
  /\ Runs \cap Observers = {}
  /\ NoRun \notin Runs
  /\ PsLimit \in Nat \ {0}
  /\ ReportsExitCode \in BOOLEAN
  /\ MaxFaults \in Nat

VARIABLES
  rec,     \* rec[r]: the row of r in table runs
  newest,  \* the run ids in ORDER BY started_at DESC
  events,  \* events[r]: runs/<r>/events.jsonl
  ctr,     \* ctr[r]: r's container as the runtime knows it
  mode,    \* mode[r]: how `run` treats r, fixed by --detach and the lifecycle
  pc,      \* pc[p]: where process p stands
  todo,    \* todo[p]: rows p has read and still has to refresh (a stale copy)
  cur,     \* cur[p]: the run whose completion p is writing
  verdict, \* verdict[p]: the final status p is about to write
  faults   \* faults so far

vars == <<rec, newest, events, ctr, mode, pc, todo, cur, verdict, faults>>

Procs == Runs \cup Observers

Codes  == {"none", "zero", "nonzero"}
Final  == {"succeeded", "failed", "failed_paused"}
Row    == [status : {"absent", "running"} \cup Final, cid : BOOLEAN, exit : Codes]
\* "created": docker created it but could not start it; "gone": removed by the user.
CtrState == {"absent", "created", "running", "exited", "removed", "gone"}
Phases == {"resolve", "start", "startfailed", "pause", "cleanup", "succeeded", "failed"}

\* "foreground": ephemeral lifecycle; "debug": lifecycle debug in the foreground;
\* "detached": --detach or lifecycle daemon, whatever else is set.
Modes == {"foreground", "debug", "detached"}

RunPCs == {"idle", "resolve", "launch", "attached", "startfailed", "failwrite", "started",
           "setstatus", "cleanup", "record", "exitlog",
           "refresh", "complete", "auditexit", "done", "crashed"}
ObsPCs == {"idle", "refresh", "complete", "auditexit"}

TypeOK ==
  /\ rec \in [Runs -> Row]
  /\ newest \in Seq(Runs)
  /\ events \in [Runs -> Seq(Phases)]
  /\ ctr \in [Runs -> [st : CtrState, code : Codes]]
  /\ mode \in [Runs -> Modes \cup {"unset"}]
  /\ pc \in [Procs -> RunPCs]
  /\ \A o \in Observers : pc[o] \in ObsPCs
  /\ todo \in [Procs -> SUBSET Runs]
  /\ cur \in [Procs -> Runs \cup {NoRun}]
  /\ verdict \in [Procs -> Final \cup {"none"}]
  /\ faults \in 0..MaxFaults

Init ==
  /\ rec = [r \in Runs |-> [status |-> "absent", cid |-> FALSE, exit |-> "none"]]
  /\ newest = <<>>
  /\ events = [r \in Runs |-> <<>>]
  /\ ctr = [r \in Runs |-> [st |-> "absent", code |-> "none"]]
  /\ mode = [r \in Runs |-> "unset"]
  /\ pc = [p \in Procs |-> "idle"]
  /\ todo = [p \in Procs |-> {}]
  /\ cur = [p \in Procs |-> NoRun]
  /\ verdict = [p \in Procs |-> "none"]
  /\ faults = 0

-------------------------------------------------------------------------------
(* Helpers *)

At(p, from) == pc[p] = from
Goto(p, to) == pc' = [pc EXCEPT ![p] = to]

Fault == faults < MaxFaults /\ faults' = faults + 1

\* AppendEvent writes one line or none; every caller drops its error.
AppendEvent(r, phase) ==
  \/ events' = [events EXCEPT ![r] = Append(@, phase)] /\ UNCHANGED faults
  \/ Fault /\ UNCHANGED events

\* The row a refresh acts on: running, and with a container to ask about.
Refreshable(r) == rec[r].status = "running" /\ rec[r].cid

\* mapContainerStatus of a terminal container.
VerdictOf_IgnoresCode(code) == "succeeded"
VerdictOf(code) == IF ReportsExitCode /\ code = "zero" THEN "succeeded" ELSE "failed"
InspectedCode(code) == IF ReportsExitCode THEN code ELSE "none"

\* The status of a foreground run that went wrong.
FailedStatus_IgnoresLifecycle(r) == "failed"
FailedStatus(r) == IF mode[r] = "debug" THEN "failed_paused" ELSE "failed"

\* The container id is not known yet, so the new row has none.
InsertRow_NamesContainer(r) ==
  rec' = [rec EXCEPT ![r] = [status |-> "running", cid |-> TRUE, exit |-> "none"]]
InsertRow(r) ==
  rec' = [rec EXCEPT ![r] = [status |-> "running", cid |-> FALSE, exit |-> "none"]]

\* The statement leaves exit_code alone, and asks nothing about the old status.
UpdateRunStatus_NoContainer(r) ==
  rec' = [rec EXCEPT ![r] = [status |-> "running", cid |-> rec[r].cid, exit |-> rec[r].exit]]
UpdateRunStatus(r) ==
  rec' = [rec EXCEPT ![r] = [status |-> "running", cid |-> TRUE, exit |-> rec[r].exit]]

UpdateRunCompletion(r, s, code) ==
  rec' = [rec EXCEPT ![r] = [status |-> s, cid |-> TRUE, exit |-> code]]

\* The store refuses the statement (SQLITE_BUSY, disk): the row stays as it was.
StoreFails == Fault /\ UNCHANGED rec

-------------------------------------------------------------------------------
(* manager.Run: the part every mode shares *)

\* The row goes in before anything runs; if the store refuses it, Run returns.
InsertRun(r) ==
  /\ At(r, "idle")
  /\ \E m \in Modes : mode' = [mode EXCEPT ![r] = m]
  /\ \/ InsertRow(r) /\ newest' = <<r>> \o newest /\ Goto(r, "resolve") /\ UNCHANGED faults
     \/ StoreFails /\ Goto(r, "done") /\ UNCHANGED newest
  /\ UNCHANGED <<events, ctr, todo, cur, verdict>>

LogResolve(r) ==
  /\ At(r, "resolve")
  /\ AppendEvent(r, "resolve")
  /\ Goto(r, "launch")
  /\ UNCHANGED <<rec, newest, ctr, mode, todo, cur, verdict>>

\* adapter.Run: `docker run`, which starts the container or fails first; with -d it
\* may also report a failure of a container that has started.
Launch(r) ==
  /\ At(r, "launch")
  /\ \/ /\ ctr' = [ctr EXCEPT ![r].st = "running"]
        /\ Goto(r, IF mode[r] = "detached" THEN "started" ELSE "attached")
        /\ UNCHANGED <<verdict, faults>>
     \/ /\ Fault
        /\ \E st \in {"absent", "created"}
                      \cup (IF mode[r] = "detached" THEN {"running"} ELSE {}) :
             ctr' = [ctr EXCEPT ![r].st = st]
        /\ Goto(r, IF mode[r] = "detached" THEN "startfailed" ELSE "cleanup")
        /\ verdict' = [verdict EXCEPT ![r] = FailedStatus(r)]
  /\ UNCHANGED <<rec, newest, events, mode, todo, cur>>

-------------------------------------------------------------------------------
(* manager.Run, foreground: wait, clean up or preserve, record, log *)

\* The runtime command returns: with the container's exit, because the user
\* removed the container, or because the client lost a container still running.
AttachReturns(r) ==
  /\ At(r, "attached")
  /\ \/ ctr[r].st \in {"exited", "gone"} /\ UNCHANGED faults
     \/ ctr[r].st = "running" /\ Fault
  /\ verdict' = [verdict EXCEPT ![r] =
       IF ctr[r].st = "exited" /\ ctr[r].code = "zero" THEN "succeeded"
       ELSE FailedStatus(r)]
  /\ Goto(r, "cleanup")
  /\ UNCHANGED <<rec, newest, events, ctr, mode, todo, cur>>

PreserveContainer(r) ==
  /\ At(r, "cleanup")
  /\ verdict[r] = "failed_paused"
  /\ AppendEvent(r, "pause")
  /\ Goto(r, "record")
  /\ UNCHANGED <<rec, newest, ctr, mode, todo, cur, verdict>>

RemoveContainer_KeepsFailed(r) ==
  /\ At(r, "cleanup")
  /\ verdict[r] # "failed_paused"
  /\ IF verdict[r] = "failed" THEN UNCHANGED ctr ELSE ctr' = [ctr EXCEPT ![r].st = "removed"]
  /\ AppendEvent(r, "cleanup")
  /\ Goto(r, "record")
  /\ UNCHANGED <<rec, newest, mode, todo, cur, verdict>>

\* `docker rm -f`; the event only follows a removal that worked.
RemoveContainer(r) ==
  /\ At(r, "cleanup")
  /\ verdict[r] # "failed_paused"
  /\ \/ /\ ctr' = [ctr EXCEPT ![r].st = IF @ \in {"absent", "gone"} THEN @ ELSE "removed"]
        /\ AppendEvent(r, "cleanup")
     \/ /\ IF ctr[r].st \in {"absent", "gone"} THEN UNCHANGED faults ELSE Fault
        /\ UNCHANGED <<ctr, events>>
  /\ Goto(r, "record")
  /\ UNCHANGED <<rec, newest, mode, todo, cur, verdict>>

RecordCompletion(r) ==
  /\ At(r, "record")
  /\ \/ /\ UpdateRunCompletion(r, verdict[r],
                               IF verdict[r] = "succeeded" THEN "zero" ELSE "nonzero")
        /\ UNCHANGED faults
     \/ StoreFails                       \* ignored by the code
  /\ Goto(r, "exitlog")
  /\ UNCHANGED <<newest, events, ctr, mode, todo, cur, verdict>>

LogExit(r) ==
  /\ At(r, "exitlog")
  /\ AppendEvent(r, IF verdict[r] = "succeeded" THEN "succeeded" ELSE "failed")
  /\ Goto(r, "done")
  /\ UNCHANGED <<rec, newest, ctr, mode, todo, cur, verdict>>

-------------------------------------------------------------------------------
(* manager.Run, detached: report the container, then look at it once *)

LogStartFailed(r) ==
  /\ At(r, "startfailed")
  /\ AppendEvent(r, "startfailed")
  /\ Goto(r, "failwrite")
  /\ UNCHANGED <<rec, newest, ctr, mode, todo, cur, verdict>>

RecordStartFailed(r) ==
  /\ At(r, "failwrite")
  /\ \/ UpdateRunCompletion(r, "failed", "nonzero") /\ UNCHANGED faults
     \/ StoreFails                       \* ignored by the code
  /\ Goto(r, "done")
  /\ UNCHANGED <<newest, events, ctr, mode, todo, cur, verdict>>

LogStarted_AfterReport(r) ==
  /\ At(r, "started")
  /\ UpdateRunStatus(r)
  /\ AppendEvent(r, "start")
  /\ Goto(r, "setstatus")
  /\ UNCHANGED <<newest, ctr, mode, todo, cur, verdict>>

LogStarted(r) ==
  /\ At(r, "started")
  /\ AppendEvent(r, "start")
  /\ Goto(r, "setstatus")
  /\ UNCHANGED <<rec, newest, ctr, mode, todo, cur, verdict>>

\* Run goes on with its own copy of the record, which has the container id
\* whether or not the row got it.
ReportContainer(r) ==
  /\ At(r, "setstatus")
  /\ \/ UpdateRunStatus(r) /\ UNCHANGED faults
     \/ StoreFails                       \* ignored by the code
  /\ todo' = [todo EXCEPT ![r] = {r}]
  /\ Goto(r, "refresh")
  /\ UNCHANGED <<newest, events, ctr, mode, cur, verdict>>

-------------------------------------------------------------------------------
(* refreshRunStatus, run by every observer and once by a detached run *)

Return_AlwaysDone(p) == "done"
Return(p) == IF p \in Runs THEN "done" ELSE "idle"

\* Where p goes when it has nothing more to do for one run but still has `left`.
Continue_NoReturn(p, left) == "refresh"
Continue(p, left) == IF left = {} THEN Return(p) ELSE "refresh"

\* ListRuns and GetRun: read rows now, refresh them later.  A read that finds
\* nothing to refresh changes nothing and is left out.
BeginRefresh(o, rows) ==
  /\ At(o, "idle")
  /\ LET stale == {r \in rows : Refreshable(r)} IN
       stale # {} /\ todo' = [todo EXCEPT ![o] = stale]
  /\ Goto(o, "refresh")
  /\ UNCHANGED <<rec, newest, events, ctr, mode, cur, verdict, faults>>

ListRuns(o) ==
  BeginRefresh(o, {newest[i] : i \in {j \in DOMAIN newest : j <= PsLimit}})

GetRun(o, r) == BeginRefresh(o, {r})

\* Inspect, then a decision: an error or a container still alive ends the matter.
InspectAlive(p, r) ==
  /\ At(p, "refresh")
  /\ r \in todo[p]
  /\ IF ctr[r].st = "exited" THEN Fault ELSE UNCHANGED faults
  /\ todo' = [todo EXCEPT ![p] = @ \ {r}]
  /\ Goto(p, Continue(p, todo[p] \ {r}))
  /\ UNCHANGED <<rec, newest, events, ctr, mode, cur, verdict>>

InspectExited_CleanExitsOnly(p, r) ==
  /\ At(p, "refresh")
  /\ r \in todo[p]
  /\ ctr[r].st = "exited" /\ ctr[r].code = "zero"
  /\ todo' = [todo EXCEPT ![p] = @ \ {r}]
  /\ cur' = [cur EXCEPT ![p] = r]
  /\ verdict' = [verdict EXCEPT ![p] = "succeeded"]
  /\ Goto(p, "complete")
  /\ UNCHANGED <<rec, newest, events, ctr, mode, faults>>

InspectExited(p, r) ==
  /\ At(p, "refresh")
  /\ r \in todo[p]
  /\ ctr[r].st = "exited"
  /\ todo' = [todo EXCEPT ![p] = @ \ {r}]
  /\ cur' = [cur EXCEPT ![p] = r]
  /\ verdict' = [verdict EXCEPT ![p] = VerdictOf(ctr[r].code)]
  /\ Goto(p, "complete")
  /\ UNCHANGED <<rec, newest, events, ctr, mode, faults>>

CompleteRun_IgnoresError(p) ==
  LET r == cur[p] IN
  /\ At(p, "complete")
  /\ \/ UpdateRunCompletion(r, verdict[p], InspectedCode(ctr[r].code)) /\ UNCHANGED faults
     \/ StoreFails
  /\ Goto(p, "auditexit")
  /\ UNCHANGED <<newest, events, ctr, mode, todo, cur, verdict>>

\* The write is unconditional: nothing asks whether the row still says "running".
CompleteRun(p) ==
  LET r == cur[p] IN
  /\ At(p, "complete")
  /\ \/ /\ UpdateRunCompletion(r, verdict[p], InspectedCode(ctr[r].code))
        /\ Goto(p, "auditexit")
        /\ UNCHANGED <<cur, verdict, faults>>
     \/ /\ StoreFails                    \* the refresh gives up: no event
        /\ Goto(p, Continue(p, todo[p]))
        /\ cur' = [cur EXCEPT ![p] = NoRun]
        /\ verdict' = [verdict EXCEPT ![p] = "none"]
  /\ UNCHANGED <<newest, events, ctr, mode, todo>>

AuditExit(p) ==
  /\ At(p, "auditexit")
  /\ AppendEvent(cur[p], verdict[p])
  /\ Goto(p, Continue(p, todo[p]))
  /\ cur' = [cur EXCEPT ![p] = NoRun]
  /\ verdict' = [verdict EXCEPT ![p] = "none"]
  /\ UNCHANGED <<rec, newest, ctr, mode, todo>>

-------------------------------------------------------------------------------
(* The environment *)

ContainerExits(r) ==
  /\ ctr[r].st = "running"
  /\ \E c \in {"zero", "nonzero"} : ctr' = [ctr EXCEPT ![r] = [st |-> "exited", code |-> c]]
  /\ UNCHANGED <<rec, newest, events, mode, pc, todo, cur, verdict, faults>>

\* The user removes a container with the runtime's own command.
UserRemoves(r) ==
  /\ ctr[r].st \in {"created", "running", "exited"}
  /\ ctr' = [ctr EXCEPT ![r].st = "gone"]
  /\ UNCHANGED <<rec, newest, events, mode, pc, todo, cur, verdict, faults>>

\* A process is killed.  A dead `run` never comes back; the observer's slot is free.
Crash(p) ==
  /\ pc[p] \notin {"idle", "done", "crashed"}
  /\ Fault
  /\ Goto(p, IF p \in Runs THEN "crashed" ELSE "idle")
  /\ todo' = [todo EXCEPT ![p] = {}]
  /\ cur' = [cur EXCEPT ![p] = NoRun]
  /\ verdict' = [verdict EXCEPT ![p] = "none"]
  /\ UNCHANGED <<rec, newest, events, ctr, mode>>

-------------------------------------------------------------------------------

RunStep(r) ==
  \/ LogResolve(r) \/ Launch(r)
  \/ AttachReturns(r) \/ PreserveContainer(r) \/ RemoveContainer(r)
  \/ RecordCompletion(r) \/ LogExit(r)
  \/ LogStartFailed(r) \/ RecordStartFailed(r) \/ LogStarted(r) \/ ReportContainer(r)

RefreshStep(p) ==
  \/ \E r \in Runs : InspectAlive(p, r) \/ InspectExited(p, r)
  \/ CompleteRun(p) \/ AuditExit(p)

Next ==
  \/ \E r \in Runs : InsertRun(r) \/ RunStep(r) \/ ContainerExits(r) \/ UserRemoves(r)
  \/ \E o \in Observers : ListRuns(o) \/ (\E r \in Runs : GetRun(o, r))
  \/ \E p \in Procs : RefreshStep(p) \/ Crash(p)

Spec == Init /\ [][Next]_vars

-------------------------------------------------------------------------------
(* Safety *)

ExitEvents == {"succeeded", "failed"}
Logged(r) == {events[r][i] : i \in DOMAIN events[r]}

\* Only a detached run that reported its started container is ever refreshed:
\* no observer, however stale its copy, races the foreground process for a row
\* or completes a row whose container has not started (refreshRunStatus's test
\* of ContainerID against the one place that stores it while "running").
RefreshOnlyDetached ==
  \A p \in Procs : \A r \in todo[p] \cup ({cur[p]} \ {NoRun}) :
    mode[r] = "detached" /\ ctr[r].st \notin {"absent", "created"}

\* Without a fault no returned `run` leaves a row that says "running" forever:
\* the row is final, or it names the container a later refresh can ask about.
QuietRunIsReconcilable ==
  faults = 0 => \A r \in Runs :
    pc[r] = "done" => rec[r].status \in Final \/ Refreshable(r)

\* Without a fault a foreground run leaves no container behind, a debug run
\* only one that failed (the cleanup the end-to-end tests look for).
ForegroundLeavesNothing ==
  faults = 0 => \A r \in Runs :
    /\ pc[r] = "done"
    /\ \/ mode[r] = "foreground"
       \/ mode[r] = "debug" /\ rec[r].status = "succeeded"
    => ctr[r].st \in {"removed", "gone"}

\* The manager never destroys the container of a debug run that did not end
\* with code zero, whatever crashed, got lost or failed on the way.
DebugEvidenceKept ==
  \A r \in Runs : mode[r] = "debug" /\ ctr[r].st = "removed" => ctr[r].code = "zero"

\* `docker run -d` failed for r: the row's code is then the client's own.
StartFailed(r) ==
  /\ mode[r] = "detached" /\ verdict[r] = "failed"
  /\ pc[r] \in {"startfailed", "failwrite", "done"}

\* Status, exit code and container agree: "succeeded" goes with code zero and a
\* container that ended so, in any mode, and a detached run that was started and
\* whose container ended has its code, no matter which process recorded it.
ExitCodeTruthful ==
  \A r \in Runs :
    /\ rec[r].status = "succeeded" <=> rec[r].exit = "zero"
    /\ rec[r].exit = "zero" => ctr[r].code = "zero"
    /\ /\ mode[r] = "detached" /\ ~StartFailed(r)
       /\ rec[r].exit # "none" /\ ctr[r].code # "none"
       => rec[r].exit = ctr[r].code

\* Nothing but a repetition of the same verdict follows an exit event in a
\* run's log, although several processes append to it without coordination.
ExitEventsLast ==
  \A r \in Runs : \A i, j \in DOMAIN events[r] :
    i < j /\ events[r][i] \in ExitEvents => events[r][j] = events[r][i]

\* A refresh logs an exit only after the row has it: an auditor who reads a
\* detached run's exit event finds a final row.
DetachedExitRecorded ==
  \A r \in Runs : mode[r] = "detached" /\ Logged(r) \cap ExitEvents # {}
    => rec[r].status \in Final

\* The ledger and the audit log keep the promise of RunLifecycle.
Lifecycle == INSTANCE RunLifecycle WITH
  status  <- [r \in Runs |-> rec[r].status],
  outcome <- [r \in Runs |-> ctr[r].code],
  audit   <- [r \in Runs |-> Logged(r) \cap ExitEvents]

ImplementsLifecycle == Lifecycle!Spec

-------------------------------------------------------------------------------
(* Liveness: a process that has started goes on (the operating system runs  *)
(* it), and users keep asking about runs.  Containers need not exit, users  *)
(* need not start runs, and nothing forces or forbids a fault.              *)

Fairness ==
  /\ \A r \in Runs : WF_vars(RunStep(r))
  /\ \A p \in Procs : WF_vars(RefreshStep(p))
  /\ \A r \in Runs : SF_vars(\E o \in Observers : GetRun(o, r))

FairSpec == Spec /\ Fairness

\* A detached run whose container exited after being reported is eventually
\* recorded, unless the user removes the container before anyone looks: neither
\* crashed refreshers nor lost writes can leave it "running" for good.
DetachedReconciled ==
  \A r \in Runs :
    (Refreshable(r) /\ ctr[r].st = "exited")
      ~> (rec[r].status \in Final \/ ctr[r].st = "gone")

\* `run` comes back: at once when detached, else once its container has ended.
RunReturns ==
  \A r \in Runs :
    (pc[r] # "idle" /\ (mode[r] = "detached" \/ ctr[r].st \in {"exited", "gone"}))
      ~> pc[r] \in {"done", "crashed"}
===============================================================================
