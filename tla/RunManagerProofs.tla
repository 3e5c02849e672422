--------------------------- MODULE RunManagerProofs ---------------------------
(***************************************************************************)
(* What the run manager guarantees for any number of runs, observers and    *)
(* faults.  The safety properties are not inductive: that a refresher never *)
(* meets a foreground run, or that two stale refreshers write the same row, *)
(* follows only from who may hold which row at which point.  IInv says it.  *)
(***************************************************************************)
EXTENDS RunManager, SequenceTheorems, TLAPS

NewRow == [status |-> "running", cid |-> FALSE, exit |-> "none"]

\* Where a `run` process may stand once it has reported its container.
Reported == {"refresh", "complete", "auditexit", "done", "crashed"}

\* r is detached, past its report, and its container has started.
Live(r) ==
  /\ mode[r] = "detached"
  /\ pc[r] \in Reported
  /\ ctr[r].st \in {"running", "exited", "gone"}
  /\ ~StartFailed(r)

\* The container follows the process that owns it.
ContainerOK(r) ==
  /\ ctr[r].st \in {"absent", "created", "running"} => ctr[r].code = "none"
  /\ ctr[r].st = "exited" => ctr[r].code # "none"
  /\ pc[r] \in {"idle", "resolve", "launch"} => ctr[r].st = "absent"
  /\ pc[r] \in {"attached", "started", "setstatus"} =>
       ctr[r].st \in {"running", "exited", "gone"}
  /\ mode[r] = "debug" /\ ctr[r].st = "removed" => ctr[r].code = "zero"
  /\ rec[r].status = "absent" => ctr[r].st = "absent"

\* What the owning process knows and is about to record.
OwnerOK(r) ==
  /\ pc[r] = "idle" <=> mode[r] = "unset"
  /\ pc[r] \in {"started", "setstatus", "startfailed", "failwrite",
                "refresh", "complete", "auditexit"} => mode[r] = "detached"
  /\ pc[r] \in {"attached", "cleanup", "record", "exitlog"} => mode[r] # "detached"
  /\ pc[r] \in {"idle", "resolve", "launch", "attached", "started", "setstatus", "refresh"} =>
       verdict[r] = "none"
  /\ pc[r] \in {"startfailed", "failwrite"} => verdict[r] = "failed"
  /\ pc[r] \in {"cleanup", "record", "exitlog"} =>
       /\ verdict[r] \in Final
       /\ verdict[r] = "succeeded" => ctr[r].code = "zero"
       /\ mode[r] = "debug" => verdict[r] # "failed"

\* The row: fresh until the owner has something to say.
RowOK(r) ==
  /\ pc[r] = "idle" => rec[r].status = "absent"
  /\ rec[r].status = "absent" =>
       pc[r] \in {"idle", "done"} /\ rec[r].exit = "none" /\ ~rec[r].cid
  /\ pc[r] \in {"resolve", "launch", "attached", "startfailed", "failwrite", "started",
                "setstatus", "cleanup", "record"} => rec[r] = NewRow
  /\ pc[r] = "exitlog" => rec[r] = NewRow \/ rec[r].status = verdict[r]
  /\ rec[r].status = "running" => rec[r].exit = "none"
  /\ Refreshable(r) => Live(r)
  /\ rec[r].status = "succeeded" => ctr[r].code = "zero"
  /\ rec[r].status = "succeeded" <=> rec[r].exit = "zero"
  /\ Live(r) /\ rec[r].status \in Final =>
       \/ /\ ctr[r].code # "none"
          /\ rec[r].status = VerdictOf(ctr[r].code)
          /\ rec[r].exit = InspectedCode(ctr[r].code)
       \/ ctr[r].st = "gone" /\ ctr[r].code = "none"
  /\ mode[r] = "detached" /\ rec[r].status \in Final /\ ~Live(r) => StartFailed(r)

\* Who holds a row: only rows of live runs are held, and a verdict about to be
\* written is the one the container's end dictates to every other holder.
HolderOK(p) ==
  /\ \A r \in todo[p] : Live(r)
  /\ pc[p] \notin {"refresh", "complete", "auditexit"} => todo[p] = {}
  /\ pc[p] \notin {"complete", "auditexit"} => cur[p] = NoRun
  /\ pc[p] \in {"complete", "auditexit"} =>
       /\ cur[p] \in Runs
       /\ Live(cur[p])
       /\ ctr[cur[p]].code # "none"
       /\ verdict[p] = VerdictOf(ctr[cur[p]].code)
  /\ pc[p] = "auditexit" => rec[cur[p]].status \in Final

\* The audit log never runs ahead of the row, except when the row's last write
\* was lost, and then nobody is left to write it.
ExitLog(r) == Logged(r) \cap ExitEvents
Word(s) == IF s = "succeeded" THEN "succeeded" ELSE "failed"

AuditOK(r) ==
  \A e \in ExitLog(r) :
    /\ rec[r].status # "absent"
    /\ e = "succeeded" => ctr[r].code = "zero"
    /\ rec[r].status \in Final => e = Word(rec[r].status)
    /\ mode[r] = "detached" => rec[r].status \in Final
    /\ pc[r] \in Reported
    /\ \A f \in ExitLog(r) : e = f

ContainerInv == \A r \in Runs : ContainerOK(r)
OwnerInv     == \A r \in Runs : OwnerOK(r)
RowInv       == \A r \in Runs : RowOK(r)
HolderInv    == \A p \in Procs : HolderOK(p)
AuditInv     == \A r \in Runs : AuditOK(r)

IInv == TypeOK /\ ContainerInv /\ OwnerInv /\ RowInv /\ HolderInv /\ AuditInv

\* While nothing has gone wrong, a row past its last write is one a reader can
\* do something with, and a foreground run gets rid of its container before it
\* records what became of it.
QuietOK(r) ==
  /\ pc[r] \in {"exitlog", "refresh", "complete", "auditexit", "done"} =>
       rec[r].status \in Final \/ Refreshable(r)
  /\ pc[r] = "cleanup" => ctr[r].st \in {"exited", "gone"}
  /\ pc[r] \in {"cleanup", "record", "exitlog"} /\ mode[r] = "foreground" =>
       verdict[r] # "failed_paused"
  /\ pc[r] \in {"record", "exitlog"} /\ verdict[r] # "failed_paused" =>
       ctr[r].st \in {"removed", "gone"}
  /\ pc[r] = "done" /\ mode[r] = "foreground" => ctr[r].st \in {"removed", "gone"}
  /\ pc[r] = "done" /\ mode[r] = "debug" /\ rec[r].status = "succeeded" =>
       ctr[r].st \in {"removed", "gone"}

QuietInv == faults = 0 => \A r \in Runs : QuietOK(r)

-------------------------------------------------------------------------------
(* What the shared statements do, cited wherever an action uses them *)

\* An append adds its phase to the run's log or leaves the log as it was.
LEMMA AppendEventFacts ==
  ASSUME TypeOK, NEW r \in Runs, NEW phase \in Phases, AppendEvent(r, phase)
  PROVE  /\ events' \in [Runs -> Seq(Phases)]
         /\ faults' \in 0..MaxFaults
         /\ \A q \in Runs : q # r => Logged(q)' = Logged(q)
         /\ Logged(r)' \in {Logged(r), Logged(r) \cup {phase}}
<1> USE DEF TypeOK, AppendEvent, Fault
<1>1. faults' \in 0..MaxFaults
  BY RunManagerAssumption
<1>2. CASE UNCHANGED events
  BY <1>1, <1>2 DEF Logged
<1>3. CASE events' = [events EXCEPT ![r] = Append(@, phase)]
  <2>1. events'[r] = Append(events[r], phase) /\ events[r] \in Seq(Phases)
    BY <1>3
  <2>2. \A q \in Runs : q # r => events'[q] = events[q]
    BY <1>3
  <2>3. events'[r] \in Seq(Phases)
    BY <2>1
  <2>4. events' \in [Runs -> Seq(Phases)]
    BY <2>3
  <2>5. /\ DOMAIN events'[r] = 1..(Len(events[r]) + 1) /\ DOMAIN events[r] = 1..Len(events[r])
        /\ Len(events[r]) \in Nat
        /\ events'[r][Len(events[r]) + 1] = phase
        /\ \A i \in 1..Len(events[r]) : events'[r][i] = events[r][i]
    BY <2>1
  <2>6. 1..(Len(events[r]) + 1) = 1..Len(events[r]) \cup {Len(events[r]) + 1}
    BY <2>5
  <2>7. Logged(r)' = Logged(r) \cup {phase}
    <3>1. ASSUME NEW i \in DOMAIN events'[r] PROVE events'[r][i] \in Logged(r) \cup {phase}
      BY <2>5 DEF Logged
    <3>2. ASSUME NEW i \in DOMAIN events[r] PROVE events[r][i] \in Logged(r)'
      BY <2>5, <2>6 DEF Logged
    <3>3. phase \in Logged(r)'
      BY <2>5, <2>6 DEF Logged
    <3>4. Logged(r)' = {events'[r][i] : i \in DOMAIN events'[r]}
      BY DEF Logged
    <3>5. Logged(r) = {events[r][i] : i \in DOMAIN events[r]}
      BY DEF Logged
    <3> QED BY <3>1, <3>2, <3>3, <3>4, <3>5
  <2>8. \A q \in Runs : q # r => Logged(q)' = Logged(q)
    BY DEF Logged
  <2> QED BY <1>1, <2>4, <2>7, <2>8
<1> QED BY <1>2, <1>3

\* A store statement that works rewrites one row and no other.
LEMMA RowWriteFacts ==
  ASSUME TypeOK, NEW r \in Runs, NEW s \in {"running"} \cup Final, NEW b \in BOOLEAN,
         NEW c \in Codes, rec' = [rec EXCEPT ![r] = [status |-> s, cid |-> b, exit |-> c]]
  PROVE  /\ rec' \in [Runs -> Row]
         /\ rec'[r] = [status |-> s, cid |-> b, exit |-> c]
         /\ rec'[r].status = s /\ rec'[r].cid = b /\ rec'[r].exit = c
         /\ \A q \in Runs : q # r => rec'[q] = rec[q]
<1> DEFINE row == [status |-> s, cid |-> b, exit |-> c]
<1>1. row \in Row
  BY DEF Row
<1>2. rec \in [Runs -> Row] /\ rec' = [rec EXCEPT ![r] = row]
  BY DEF TypeOK
<1>3. row.status = s /\ row.cid = b /\ row.exit = c
  OBVIOUS
<1> HIDE DEF row
<1>4. rec' \in [Runs -> Row] /\ rec'[r] = row /\ \A q \in Runs : q # r => rec'[q] = rec[q]
  BY <1>1, <1>2
<1> QED BY <1>4

\* The statement that concludes a run.
LEMMA UpdateRunCompletionFacts ==
  ASSUME TypeOK, NEW r \in Runs, NEW s \in Final, NEW c \in Codes,
         UpdateRunCompletion(r, s, c)
  PROVE  /\ rec' \in [Runs -> Row]
         /\ rec'[r].status = s /\ rec'[r].cid = TRUE /\ rec'[r].exit = c
         /\ \A q \in Runs : q # r => rec'[q] = rec[q]
BY RowWriteFacts DEF UpdateRunCompletion

\* The statement that stores the container id.
LEMMA UpdateRunStatusFacts ==
  ASSUME TypeOK, NEW r \in Runs, UpdateRunStatus(r)
  PROVE  /\ rec' \in [Runs -> Row]
         /\ rec'[r].status = "running" /\ rec'[r].cid = TRUE /\ rec'[r].exit = rec[r].exit
         /\ \A q \in Runs : q # r => rec'[q] = rec[q]
<1>1. rec[r].exit \in Codes
  BY DEF TypeOK, Row
<1> QED BY <1>1, RowWriteFacts DEF UpdateRunStatus

\* The statement that creates the row.
LEMMA InsertRowFacts ==
  ASSUME TypeOK, NEW r \in Runs, InsertRow(r)
  PROVE  /\ rec' \in [Runs -> Row]
         /\ rec'[r] = NewRow
         /\ \A q \in Runs : q # r => rec'[q] = rec[q]
BY RowWriteFacts DEF InsertRow, NewRow, Codes

\* A refused statement costs a fault and changes nothing.
LEMMA StoreFailsFacts ==
  ASSUME TypeOK, StoreFails PROVE faults' \in 0..MaxFaults /\ rec' = rec
BY RunManagerAssumption DEF TypeOK, StoreFails, Fault

\* A crash, a refused statement or a failed command uses up one fault.
LEMMA FaultFacts ==
  ASSUME TypeOK, Fault PROVE faults' \in 0..MaxFaults
BY RunManagerAssumption DEF TypeOK, Fault

\* A runtime command changes the state of one container and no exit code.
LEMMA ContainerFacts ==
  ASSUME TypeOK, NEW r \in Runs, NEW st \in CtrState, ctr' = [ctr EXCEPT ![r].st = st]
  PROVE  /\ ctr' \in [Runs -> [st : CtrState, code : Codes]]
         /\ ctr'[r].st = st /\ ctr'[r].code = ctr[r].code
         /\ \A q \in Runs : q # r => ctr'[q] = ctr[q]
BY DEF TypeOK

\* A process moves alone.
LEMMA GotoFacts ==
  ASSUME TypeOK, NEW p \in Procs, NEW to \in RunPCs, p \in Observers => to \in ObsPCs,
         Goto(p, to)
  PROVE  /\ pc' \in [Procs -> RunPCs]
         /\ \A o \in Observers : pc'[o] \in ObsPCs
         /\ pc'[p] = to
         /\ \A q \in Procs : q # p => pc'[q] = pc[q]
BY DEF TypeOK, Goto

\* What an append, or none, does to the exit events of a log.
LEMMA ExitLogFacts ==
  ASSUME TypeOK, NEW r \in Runs, NEW phase \in Phases, AppendEvent(r, phase)
  PROVE  /\ \A q \in Runs : q # r => ExitLog(q)' = ExitLog(q)
         /\ ExitLog(r)' \in {ExitLog(r), ExitLog(r) \cup {phase}}
         /\ phase \notin ExitEvents => ExitLog(r)' = ExitLog(r)
BY AppendEventFacts DEF ExitLog

\* A step that appends nothing leaves the exit events alone.
LEMMA ExitLogUnchanged ==
  ASSUME UNCHANGED events PROVE \A q \in Runs : ExitLog(q)' = ExitLog(q)
BY DEF ExitLog, Logged
-------------------------------------------------------------------------------
(* The effect of the steps that write a row, start a run or a container,     *)
(* spelled out value by value.                                               *)

\* The first step of a run: its row, or nothing.
LEMMA InsertRunEffect ==
  ASSUME TypeOK, NEW r \in Runs, InsertRun(r)
  PROVE  /\ pc[r] = "idle" /\ mode'[r] \in Modes
         /\ \/ pc'[r] = "resolve" /\ rec'[r] = NewRow
            \/ pc'[r] = "done" /\ rec'[r] = rec[r]
         /\ \A q \in Runs : q # r => rec'[q] = rec[q] /\ mode'[q] = mode[q]
         /\ \A q \in Procs : q # r => pc'[q] = pc[q]
         /\ UNCHANGED <<events, ctr, todo, cur, verdict>>
<1>1. PICK to \in {"resolve", "done"} :
        /\ Goto(r, to)
        /\ (InsertRow(r) /\ to = "resolve") \/ (StoreFails /\ to = "done")
  BY DEF InsertRun
<1>2. /\ pc'[r] = to
      /\ \A q \in Procs : q # r => pc'[q] = pc[q]
  BY <1>1, GotoFacts, RunManagerAssumption DEF Procs, RunPCs
<1>3. PICK m \in Modes : mode' = [mode EXCEPT ![r] = m]
  BY DEF InsertRun
<1>4. mode'[r] \in Modes /\ \A q \in Runs : q # r => mode'[q] = mode[q]
  BY <1>3 DEF TypeOK
<1>5. /\ rec'[r] = IF to = "resolve" THEN NewRow ELSE rec[r]
      /\ \A q \in Runs : q # r => rec'[q] = rec[q]
  BY <1>1, InsertRowFacts, StoreFailsFacts
<1> QED BY <1>2, <1>4, <1>5 DEF InsertRun, At

\* The container starts, or the runtime fails before it does.
LEMMA LaunchEffect ==
  ASSUME TypeOK, NEW r \in Runs, Launch(r)
  PROVE  /\ pc[r] = "launch"
         /\ ctr'[r].code = ctr[r].code
         /\ \/ /\ ctr'[r].st = "running"
               /\ pc'[r] = IF mode[r] = "detached" THEN "started" ELSE "attached"
               /\ verdict'[r] = verdict[r]
            \/ /\ \/ ctr'[r].st \in {"absent", "created"}
                  \/ mode[r] = "detached" /\ ctr'[r].st = "running"
               /\ pc'[r] = IF mode[r] = "detached" THEN "startfailed" ELSE "cleanup"
               /\ verdict'[r] = FailedStatus(r)
         /\ \A q \in Runs : q # r => ctr'[q] = ctr[q]
         /\ \A q \in Procs : q # r => pc'[q] = pc[q] /\ verdict'[q] = verdict[q]
         /\ UNCHANGED <<rec, newest, events, mode, todo, cur>>
<1> DEFINE Sts == {"absent", "created"} \cup (IF mode[r] = "detached" THEN {"running"} ELSE {})
<1>1. ASSUME NEW st \in {"absent", "created", "running"}, ctr' = [ctr EXCEPT ![r].st = st]
      PROVE  /\ ctr'[r].st = st /\ ctr'[r].code = ctr[r].code
             /\ \A q \in Runs : q # r => ctr'[q] = ctr[q]
  BY <1>1, ContainerFacts DEF CtrState
<1>2. CASE /\ ctr' = [ctr EXCEPT ![r].st = "running"]
           /\ Goto(r, IF mode[r] = "detached" THEN "started" ELSE "attached")
           /\ UNCHANGED <<verdict, faults>>
  <2>1. /\ pc'[r] = IF mode[r] = "detached" THEN "started" ELSE "attached"
        /\ \A q \in Procs : q # r => pc'[q] = pc[q]
    BY <1>2, GotoFacts, RunManagerAssumption DEF Procs, RunPCs
  <2> QED BY <1>1, <1>2, <2>1 DEF Launch, At
<1>3. CASE /\ \E st \in Sts : ctr' = [ctr EXCEPT ![r].st = st]
           /\ Goto(r, IF mode[r] = "detached" THEN "startfailed" ELSE "cleanup")
           /\ verdict' = [verdict EXCEPT ![r] = FailedStatus(r)]
  <2>1. /\ pc'[r] = IF mode[r] = "detached" THEN "startfailed" ELSE "cleanup"
        /\ \A q \in Procs : q # r => pc'[q] = pc[q]
    BY <1>3, GotoFacts, RunManagerAssumption DEF Procs, RunPCs
  <2>2. verdict'[r] = FailedStatus(r) /\ \A q \in Procs : q # r => verdict'[q] = verdict[q]
    BY <1>3 DEF TypeOK, Procs
  <2>3. PICK st \in Sts : ctr' = [ctr EXCEPT ![r].st = st]
    BY <1>3
  <2>4. /\ ctr'[r].st \in Sts /\ ctr'[r].code = ctr[r].code
        /\ \A q \in Runs : q # r => ctr'[q] = ctr[q]
    BY <1>1, <2>3
  <2> QED BY <2>1, <2>2, <2>4 DEF Launch, At
<1> QED BY <1>2, <1>3 DEF Launch

\* The foreground run writes its verdict, or loses it.
LEMMA RecordCompletionEffect ==
  ASSUME TypeOK, OwnerInv, NEW r \in Runs, RecordCompletion(r)
  PROVE  /\ pc[r] = "record" /\ pc'[r] = "exitlog"
         /\ \/ rec' = rec
            \/ /\ rec'[r].status = verdict[r] /\ rec'[r].cid
               /\ rec'[r].exit = IF verdict[r] = "succeeded" THEN "zero" ELSE "nonzero"
               /\ \A q \in Runs : q # r => rec'[q] = rec[q]
         /\ \A q \in Procs : q # r => pc'[q] = pc[q]
         /\ UNCHANGED <<newest, events, ctr, mode, todo, cur, verdict>>
<1>1. verdict[r] \in Final
  BY DEF RecordCompletion, At, OwnerInv, OwnerOK
<1>2. pc'[r] = "exitlog" /\ \A q \in Procs : q # r => pc'[q] = pc[q]
  BY GotoFacts, RunManagerAssumption DEF RecordCompletion, Procs, RunPCs
<1>3. CASE StoreFails
  BY <1>2, <1>3, StoreFailsFacts DEF RecordCompletion, At
<1>4. CASE UpdateRunCompletion(r, verdict[r],
                               IF verdict[r] = "succeeded" THEN "zero" ELSE "nonzero")
  <2>1. (IF verdict[r] = "succeeded" THEN "zero" ELSE "nonzero") \in Codes
    BY DEF Codes
  <2> QED BY <1>1, <1>2, <1>4, <2>1, UpdateRunCompletionFacts DEF RecordCompletion, At
<1> QED BY <1>3, <1>4 DEF RecordCompletion

\* A detached run that never started writes its failure, or loses it.
LEMMA RecordStartFailedEffect ==
  ASSUME TypeOK, NEW r \in Runs, RecordStartFailed(r)
  PROVE  /\ pc[r] = "failwrite" /\ pc'[r] = "done"
         /\ \/ rec' = rec
            \/ /\ rec'[r].status = "failed" /\ rec'[r].cid /\ rec'[r].exit = "nonzero"
               /\ \A q \in Runs : q # r => rec'[q] = rec[q]
         /\ \A q \in Procs : q # r => pc'[q] = pc[q]
         /\ UNCHANGED <<newest, events, ctr, mode, todo, cur, verdict>>
<1>1. pc'[r] = "done" /\ \A q \in Procs : q # r => pc'[q] = pc[q]
  BY GotoFacts, RunManagerAssumption DEF RecordStartFailed, Procs, RunPCs
<1>2. CASE StoreFails
  BY <1>1, <1>2, StoreFailsFacts DEF RecordStartFailed, At
<1>3. CASE UpdateRunCompletion(r, "failed", "nonzero")
  <2>1. "failed" \in Final /\ "nonzero" \in Codes
    BY DEF Final, Codes
  <2> QED BY <1>1, <1>3, <2>1, UpdateRunCompletionFacts DEF RecordStartFailed, At
<1> QED BY <1>2, <1>3 DEF RecordStartFailed

\* A detached run names its container and takes the row to refresh it.
LEMMA ReportContainerEffect ==
  ASSUME TypeOK, NEW r \in Runs, ReportContainer(r)
  PROVE  /\ pc[r] = "setstatus" /\ pc'[r] = "refresh"
         /\ \/ rec' = rec
            \/ /\ rec'[r].status = "running" /\ rec'[r].cid /\ rec'[r].exit = rec[r].exit
               /\ \A q \in Runs : q # r => rec'[q] = rec[q]
         /\ todo'[r] = {r}
         /\ \A q \in Procs : q # r => pc'[q] = pc[q] /\ todo'[q] = todo[q]
         /\ UNCHANGED <<newest, events, ctr, mode, cur, verdict>>
<1>1. pc'[r] = "refresh" /\ \A q \in Procs : q # r => pc'[q] = pc[q]
  BY GotoFacts, RunManagerAssumption DEF ReportContainer, Procs, RunPCs
<1>2. todo'[r] = {r} /\ \A q \in Procs : q # r => todo'[q] = todo[q]
  BY DEF ReportContainer, TypeOK, Procs
<1>3. CASE StoreFails
  BY <1>1, <1>2, <1>3, StoreFailsFacts DEF ReportContainer, At
<1>4. CASE UpdateRunStatus(r)
  BY <1>1, <1>2, <1>4, UpdateRunStatusFacts DEF ReportContainer, At
<1> QED BY <1>3, <1>4 DEF ReportContainer

\* A refresher writes its verdict and goes on to log it, or gives the row up.
LEMMA CompleteRunEffect ==
  ASSUME TypeOK, HolderInv, NEW p \in Procs, CompleteRun(p)
  PROVE  /\ pc[p] = "complete"
         /\ \/ /\ rec'[cur[p]].status = verdict[p] /\ rec'[cur[p]].cid
               /\ rec'[cur[p]].exit = InspectedCode(ctr[cur[p]].code)
               /\ \A q \in Runs : q # cur[p] => rec'[q] = rec[q]
               /\ pc'[p] = "auditexit"
               /\ cur' = cur /\ verdict' = verdict
            \/ /\ rec' = rec
               /\ pc'[p] = Continue(p, todo[p])
               /\ cur'[p] = NoRun /\ verdict'[p] = "none"
               /\ \A q \in Procs : q # p => cur'[q] = cur[q] /\ verdict'[q] = verdict[q]
         /\ \A q \in Procs : q # p => pc'[q] = pc[q]
         /\ UNCHANGED <<newest, events, ctr, mode, todo>>
<1>1. /\ pc[p] = "complete" /\ cur[p] \in Runs /\ verdict[p] \in Final
      /\ InspectedCode(ctr[cur[p]].code) \in Codes
  BY DEF CompleteRun, At, HolderInv, HolderOK, VerdictOf, InspectedCode, TypeOK, Codes
<1>2. CASE /\ UpdateRunCompletion(cur[p], verdict[p], InspectedCode(ctr[cur[p]].code))
           /\ Goto(p, "auditexit")
           /\ UNCHANGED <<cur, verdict, faults>>
  <2>1. pc'[p] = "auditexit" /\ \A q \in Procs : q # p => pc'[q] = pc[q]
    BY <1>2, GotoFacts DEF RunPCs, ObsPCs
  <2> QED BY <1>1, <1>2, <2>1, UpdateRunCompletionFacts DEF CompleteRun
<1>3. CASE /\ StoreFails
           /\ Goto(p, Continue(p, todo[p]))
           /\ cur' = [cur EXCEPT ![p] = NoRun]
           /\ verdict' = [verdict EXCEPT ![p] = "none"]
  <2>1. Continue(p, todo[p]) \in RunPCs /\ (p \in Observers => Continue(p, todo[p]) \in ObsPCs)
    BY RunManagerAssumption DEF Continue, Return, RunPCs, ObsPCs
  <2>2. pc'[p] = Continue(p, todo[p]) /\ \A q \in Procs : q # p => pc'[q] = pc[q]
    BY <1>3, <2>1, GotoFacts
  <2>3. /\ cur'[p] = NoRun /\ verdict'[p] = "none"
        /\ \A q \in Procs : q # p => cur'[q] = cur[q] /\ verdict'[q] = verdict[q]
    BY <1>3 DEF TypeOK
  <2> QED BY <1>1, <1>3, <2>2, <2>3, StoreFailsFacts DEF CompleteRun
<1> QED BY <1>2, <1>3 DEF CompleteRun

-------------------------------------------------------------------------------
(* Every step keeps every part of the invariant *)
(* Type correctness is inductive only together with what the processes hold: *)
(* a row can get only a final status because a verdict is ready by then.     *)
\* Every variable keeps its type.
LEMMA TypeStep == TypeOK /\ OwnerInv /\ HolderInv /\ [Next]_vars => TypeOK'
<1> SUFFICES ASSUME TypeOK, OwnerInv, HolderInv, [Next]_vars PROVE TypeOK'
  OBVIOUS
<1> USE RunManagerAssumption
    DEF TypeOK, Procs, CtrState, Codes, Final, Modes, Phases, RunPCs, ObsPCs, At, Goto
<1>1. ASSUME NEW r \in Runs, InsertRun(r) PROVE TypeOK'
  <2>1. <<r>> \o newest \in Seq(Runs)
    BY ConcatProperties
  <2>2. newest' \in Seq(Runs)
    BY <1>1, <2>1 DEF InsertRun
  <2>3. rec' \in [Runs -> Row] /\ faults' \in 0..MaxFaults
    BY <1>1, StoreFailsFacts, InsertRowFacts DEF InsertRun
  <2>4. PICK m \in Modes : mode' = [mode EXCEPT ![r] = m]
    BY <1>1 DEF InsertRun
  <2>5. pc' \in [Procs -> RunPCs] /\ \A o \in Observers : pc'[o] \in ObsPCs
    <3>1. PICK to \in {"resolve", "done"} : Goto(r, to)
      BY <1>1 DEF InsertRun
    <3> HIDE DEF Goto
    <3> QED BY <3>1, GotoFacts
  <2> QED BY <1>1, <2>2, <2>3, <2>4, <2>5 DEF InsertRun
<1>2. ASSUME NEW r \in Runs, LogResolve(r) PROVE TypeOK'
  BY <1>2, AppendEventFacts DEF LogResolve
<1>3. ASSUME NEW r \in Runs, Launch(r) PROVE TypeOK'
  <2>1. PICK st \in CtrState : ctr' = [ctr EXCEPT ![r].st = st]
    BY <1>3 DEF Launch
  <2>2. ctr' \in [Runs -> [st : CtrState, code : Codes]]
    BY <2>1, ContainerFacts
  <2>3. verdict' \in [Procs -> Final \cup {"none"}] /\ faults' \in 0..MaxFaults
    <3>1. FailedStatus(r) \in Final
      BY DEF FailedStatus
    <3>2. \/ UNCHANGED <<verdict, faults>>
          \/ Fault /\ verdict' = [verdict EXCEPT ![r] = FailedStatus(r)]
      BY <1>3 DEF Launch
    <3>3. faults' \in 0..MaxFaults
      BY <3>2, FaultFacts
    <3>4. verdict' \in [Procs -> Final \cup {"none"}]
      BY <3>1, <3>2
    <3> QED BY <3>3, <3>4
  <2>4. pc' \in [Procs -> RunPCs] /\ \A o \in Observers : pc'[o] \in ObsPCs
    <3>1. PICK to \in {"started", "attached", "startfailed", "cleanup"} : Goto(r, to)
      BY <1>3 DEF Launch
    <3> HIDE DEF Goto
    <3> QED BY <3>1, GotoFacts
  <2> QED BY <1>3, <2>2, <2>3, <2>4 DEF Launch
<1>4. ASSUME NEW r \in Runs, AttachReturns(r) PROVE TypeOK'
  BY <1>4, FaultFacts DEF AttachReturns, FailedStatus
<1>5. ASSUME NEW r \in Runs, PreserveContainer(r) PROVE TypeOK'
  BY <1>5, AppendEventFacts DEF PreserveContainer
<1>6. ASSUME NEW r \in Runs, RemoveContainer(r) PROVE TypeOK'
  <2>1. faults' \in 0..MaxFaults /\ events' \in [Runs -> Seq(Phases)]
    BY <1>6, AppendEventFacts, FaultFacts DEF RemoveContainer
  <2>2. ctr' \in [Runs -> [st : CtrState, code : Codes]]
    <3>1. CASE UNCHANGED ctr
      BY <3>1
    <3>2. ASSUME NEW st \in CtrState, ctr' = [ctr EXCEPT ![r].st = st]
          PROVE  ctr' \in [Runs -> [st : CtrState, code : Codes]]
      BY <3>2, ContainerFacts
    <3>3. (IF ctr[r].st \in {"absent", "gone"} THEN ctr[r].st ELSE "removed") \in CtrState
      OBVIOUS
    <3> QED BY <1>6, <3>2 DEF RemoveContainer
  <2> QED BY <1>6, <2>1, <2>2 DEF RemoveContainer
<1>7. ASSUME NEW r \in Runs, RecordCompletion(r) PROVE TypeOK'
  <2>1. verdict[r] \in Final
    BY <1>7 DEF RecordCompletion, OwnerInv, OwnerOK
  <2> QED BY <1>7, <2>1, StoreFailsFacts, UpdateRunCompletionFacts DEF RecordCompletion
<1>8. ASSUME NEW r \in Runs, LogExit(r) PROVE TypeOK'
  BY <1>8, AppendEventFacts DEF LogExit
<1>9. ASSUME NEW r \in Runs, LogStartFailed(r) PROVE TypeOK'
  BY <1>9, AppendEventFacts DEF LogStartFailed
<1>10. ASSUME NEW r \in Runs, RecordStartFailed(r) PROVE TypeOK'
  BY <1>10, StoreFailsFacts, UpdateRunCompletionFacts DEF RecordStartFailed
<1>11. ASSUME NEW r \in Runs, LogStarted(r) PROVE TypeOK'
  BY <1>11, AppendEventFacts DEF LogStarted
<1>12. ASSUME NEW r \in Runs, ReportContainer(r) PROVE TypeOK'
  <2>1. rec' \in [Runs -> Row] /\ faults' \in 0..MaxFaults
    BY <1>12, StoreFailsFacts, UpdateRunStatusFacts DEF ReportContainer
  <2> QED BY <1>12, <2>1 DEF ReportContainer
<1>13. ASSUME NEW r \in Runs, ContainerExits(r) PROVE TypeOK'
  BY <1>13 DEF ContainerExits
<1>14. ASSUME NEW r \in Runs, UserRemoves(r) PROVE TypeOK'
  BY <1>14 DEF UserRemoves
<1>15. ASSUME NEW o \in Observers, NEW rows \in SUBSET Runs, BeginRefresh(o, rows) PROVE TypeOK'
  BY <1>15 DEF BeginRefresh
<1>16. ASSUME NEW p \in Procs, NEW r \in Runs, InspectAlive(p, r) PROVE TypeOK'
  BY <1>16, FaultFacts DEF InspectAlive, Continue, Return
<1>17. ASSUME NEW p \in Procs, NEW r \in Runs, InspectExited(p, r) PROVE TypeOK'
  BY <1>17 DEF InspectExited, VerdictOf
<1>18. ASSUME NEW p \in Procs, CompleteRun(p) PROVE TypeOK'
  <2>1. /\ cur[p] \in Runs /\ verdict[p] \in Final
        /\ InspectedCode(ctr[cur[p]].code) \in Codes
    BY <1>18 DEF CompleteRun, HolderInv, HolderOK, VerdictOf, InspectedCode
  <2>2. rec' \in [Runs -> Row]
    <3> HIDE DEF TypeOK, Final, Codes
    <3>1. CASE UpdateRunCompletion(cur[p], verdict[p], InspectedCode(ctr[cur[p]].code))
      BY <2>1, <3>1, UpdateRunCompletionFacts
    <3>2. CASE StoreFails
      BY <3>2, StoreFailsFacts DEF TypeOK
    <3> QED BY <1>18, <3>1, <3>2 DEF CompleteRun
  <2>3. faults' \in 0..MaxFaults
    BY <1>18, StoreFailsFacts DEF CompleteRun
  <2>4. pc' \in [Procs -> RunPCs] /\ \A o \in Observers : pc'[o] \in ObsPCs
    <3>1. PICK to \in {"auditexit", Continue(p, todo[p])} : Goto(p, to)
      BY <1>18 DEF CompleteRun
    <3>2. to \in RunPCs /\ (p \in Observers => to \in ObsPCs)
      BY DEF Continue, Return
    <3> HIDE DEF Goto
    <3> QED BY <3>1, <3>2, GotoFacts
  <2>5. /\ cur' \in [Procs -> Runs \cup {NoRun}]
        /\ verdict' \in [Procs -> Final \cup {"none"}]
    BY <1>18 DEF CompleteRun
  <2> QED BY <1>18, <2>2, <2>3, <2>4, <2>5 DEF CompleteRun
<1>19. ASSUME NEW p \in Procs, AuditExit(p) PROVE TypeOK'
  <2>1. cur[p] \in Runs /\ verdict[p] \in Phases
    BY <1>19 DEF AuditExit, HolderInv, HolderOK, VerdictOf
  <2>2. events' \in [Runs -> Seq(Phases)] /\ faults' \in 0..MaxFaults
    BY <1>19, <2>1, AppendEventFacts DEF AuditExit
  <2> QED BY <1>19, <2>2 DEF AuditExit, Continue, Return
<1>20. ASSUME NEW p \in Procs, Crash(p) PROVE TypeOK'
  BY <1>20, FaultFacts DEF Crash
<1>21. CASE UNCHANGED vars
  BY <1>21 DEF vars
<1>22. {newest[i] : i \in {j \in DOMAIN newest : j <= PsLimit}} \in SUBSET Runs
  OBVIOUS
<1> QED
  BY <1>1, <1>2, <1>3, <1>4, <1>5, <1>6, <1>7, <1>8, <1>9, <1>10, <1>11, <1>12, <1>13, <1>14,
     <1>15, <1>16, <1>17, <1>18, <1>19, <1>20, <1>21, <1>22
     DEF Next, RunStep, RefreshStep, ListRuns, GetRun

\* Containers keep following their owners.
LEMMA ContainerStep == IInv /\ [Next]_vars => ContainerInv'
<1> SUFFICES ASSUME IInv, [Next]_vars, NEW q \in Runs PROVE ContainerOK(q)'
  BY DEF ContainerInv
<1> USE RunManagerAssumption
<1>1. TypeOK /\ ContainerInv /\ OwnerInv /\ RowInv /\ HolderInv /\ AuditInv
  BY DEF IInv
<1>2. ContainerOK(q) /\ OwnerOK(q) /\ RowOK(q)
  BY <1>1 DEF ContainerInv, OwnerInv, RowInv
<1>3. ASSUME NEW r \in Runs, InsertRun(r) PROVE ContainerOK(q)'
  BY <1>1, <1>2, <1>3, InsertRunEffect DEF Procs, ContainerOK
<1>4. ASSUME NEW r \in Runs, LogResolve(r) PROVE ContainerOK(q)'
  BY <1>2, <1>4 DEF LogResolve, At, Goto, ContainerOK
<1>5. ASSUME NEW r \in Runs, Launch(r) PROVE ContainerOK(q)'
  BY <1>1, <1>2, <1>5, LaunchEffect DEF Procs, ContainerOK, RowOK
<1>6. ASSUME NEW r \in Runs, AttachReturns(r) PROVE ContainerOK(q)'
  BY <1>2, <1>6 DEF AttachReturns, Goto, ContainerOK
<1>7. ASSUME NEW r \in Runs, PreserveContainer(r) PROVE ContainerOK(q)'
  BY <1>2, <1>7 DEF PreserveContainer, Goto, ContainerOK
<1>8. ASSUME NEW r \in Runs, RemoveContainer(r) PROVE ContainerOK(q)'
  BY <1>1, <1>2, <1>8 DEF RemoveContainer, At, Goto, Final, TypeOK, ContainerOK, OwnerOK
<1>9. ASSUME NEW r \in Runs, RecordCompletion(r) PROVE ContainerOK(q)'
  BY <1>1, <1>2, <1>9, RecordCompletionEffect DEF Procs, Final, ContainerOK, OwnerOK
<1>10. ASSUME NEW r \in Runs, LogExit(r) PROVE ContainerOK(q)'
  BY <1>2, <1>10 DEF LogExit, Goto, ContainerOK
<1>11. ASSUME NEW r \in Runs, LogStartFailed(r) PROVE ContainerOK(q)'
  BY <1>2, <1>11 DEF LogStartFailed, At, Goto, ContainerOK
<1>12. ASSUME NEW r \in Runs, RecordStartFailed(r) PROVE ContainerOK(q)'
  BY <1>1, <1>2, <1>12, RecordStartFailedEffect DEF Procs, ContainerOK
<1>13. ASSUME NEW r \in Runs, LogStarted(r) PROVE ContainerOK(q)'
  BY <1>2, <1>13 DEF LogStarted, At, Goto, ContainerOK
<1>14. ASSUME NEW r \in Runs, ReportContainer(r) PROVE ContainerOK(q)'
  BY <1>1, <1>2, <1>14, ReportContainerEffect DEF Procs, ContainerOK
<1>15. ASSUME NEW r \in Runs, ContainerExits(r) PROVE ContainerOK(q)'
  BY <1>2, <1>15 DEF ContainerExits, ContainerOK
<1>16. ASSUME NEW r \in Runs, UserRemoves(r) PROVE ContainerOK(q)'
  BY <1>2, <1>16 DEF UserRemoves, ContainerOK
<1>17. ASSUME NEW o \in Observers, ListRuns(o) PROVE ContainerOK(q)'
  BY <1>2, <1>17 DEF ListRuns, BeginRefresh, Goto, ContainerOK
<1>18. ASSUME NEW o \in Observers, NEW r \in Runs, GetRun(o, r) PROVE ContainerOK(q)'
  BY <1>2, <1>18 DEF GetRun, BeginRefresh, Goto, ContainerOK
<1>19. ASSUME NEW p \in Procs, NEW r \in Runs, InspectAlive(p, r) PROVE ContainerOK(q)'
  BY <1>2, <1>19 DEF InspectAlive, Goto, Continue, Return, ContainerOK
<1>20. ASSUME NEW p \in Procs, NEW r \in Runs, InspectExited(p, r) PROVE ContainerOK(q)'
  BY <1>2, <1>20 DEF InspectExited, Goto, ContainerOK
<1>21. ASSUME NEW p \in Procs, CompleteRun(p) PROVE ContainerOK(q)'
  BY <1>1, <1>2, <1>21, CompleteRunEffect
     DEF ContainerOK, HolderInv, HolderOK, VerdictOf, Continue, Return, Procs
<1>22. ASSUME NEW p \in Procs, AuditExit(p) PROVE ContainerOK(q)'
  BY <1>2, <1>22 DEF AuditExit, Goto, Continue, Return, ContainerOK
<1>23. ASSUME NEW p \in Procs, Crash(p) PROVE ContainerOK(q)'
  BY <1>2, <1>23 DEF Crash, Goto, ContainerOK
<1>24. CASE UNCHANGED vars
  BY <1>2, <1>24 DEF vars, ContainerOK
<1> QED
  BY <1>3, <1>4, <1>5, <1>6, <1>7, <1>8, <1>9, <1>10, <1>11, <1>12, <1>13, <1>14, <1>15, <1>16,
     <1>17, <1>18, <1>19, <1>20, <1>21, <1>22, <1>23, <1>24
     DEF Next, RunStep, RefreshStep

\* Owners keep knowing what they record.
LEMMA OwnerStep == IInv /\ [Next]_vars => OwnerInv'
<1> SUFFICES ASSUME IInv, [Next]_vars, NEW q \in Runs PROVE OwnerOK(q)'
  BY DEF OwnerInv
<1> USE RunManagerAssumption
<1>1. TypeOK /\ ContainerInv /\ OwnerInv /\ RowInv /\ HolderInv /\ AuditInv
  BY DEF IInv
<1>2. ContainerOK(q) /\ OwnerOK(q) /\ RowOK(q)
  BY <1>1 DEF ContainerInv, OwnerInv, RowInv
<1>3. ASSUME NEW r \in Runs, InsertRun(r) PROVE OwnerOK(q)'
  BY <1>1, <1>2, <1>3, InsertRunEffect DEF Procs, Modes, OwnerOK
<1>4. ASSUME NEW r \in Runs, LogResolve(r) PROVE OwnerOK(q)'
  BY <1>2, <1>4 DEF LogResolve, At, Goto, OwnerOK
<1>5. ASSUME NEW r \in Runs, Launch(r) PROVE OwnerOK(q)'
  BY <1>1, <1>2, <1>5, LaunchEffect DEF Procs, Final, FailedStatus, OwnerOK
<1>6. ASSUME NEW r \in Runs, AttachReturns(r) PROVE OwnerOK(q)'
  BY <1>1, <1>2, <1>6 DEF AttachReturns, At, Goto, FailedStatus, TypeOK, Final, OwnerOK
<1>7. ASSUME NEW r \in Runs, PreserveContainer(r) PROVE OwnerOK(q)'
  BY <1>2, <1>7 DEF PreserveContainer, At, Goto, OwnerOK
<1>8. ASSUME NEW r \in Runs, RemoveContainer(r) PROVE OwnerOK(q)'
  BY <1>1, <1>2, <1>8 DEF RemoveContainer, At, Goto, TypeOK, OwnerOK
<1>9. ASSUME NEW r \in Runs, RecordCompletion(r) PROVE OwnerOK(q)'
  BY <1>1, <1>2, <1>9, RecordCompletionEffect DEF Procs, OwnerOK
<1>10. ASSUME NEW r \in Runs, LogExit(r) PROVE OwnerOK(q)'
  BY <1>2, <1>10 DEF LogExit, At, Goto, OwnerOK
<1>11. ASSUME NEW r \in Runs, LogStartFailed(r) PROVE OwnerOK(q)'
  BY <1>2, <1>11 DEF LogStartFailed, At, Goto, OwnerOK
<1>12. ASSUME NEW r \in Runs, RecordStartFailed(r) PROVE OwnerOK(q)'
  BY <1>1, <1>2, <1>12, RecordStartFailedEffect DEF Procs, OwnerOK
<1>13. ASSUME NEW r \in Runs, LogStarted(r) PROVE OwnerOK(q)'
  BY <1>2, <1>13 DEF LogStarted, At, Goto, OwnerOK
<1>14. ASSUME NEW r \in Runs, ReportContainer(r) PROVE OwnerOK(q)'
  BY <1>1, <1>2, <1>14, ReportContainerEffect DEF Procs, OwnerOK
<1>15. ASSUME NEW r \in Runs, ContainerExits(r) PROVE OwnerOK(q)'
  BY <1>2, <1>15 DEF ContainerExits, OwnerOK, ContainerOK
<1>16. ASSUME NEW r \in Runs, UserRemoves(r) PROVE OwnerOK(q)'
  BY <1>2, <1>16 DEF UserRemoves, OwnerOK
<1>17. ASSUME NEW o \in Observers, ListRuns(o) PROVE OwnerOK(q)'
  BY <1>2, <1>17 DEF ListRuns, BeginRefresh, Goto, OwnerOK
<1>18. ASSUME NEW o \in Observers, NEW r \in Runs, GetRun(o, r) PROVE OwnerOK(q)'
  BY <1>2, <1>18 DEF GetRun, BeginRefresh, Goto, OwnerOK
<1>19. ASSUME NEW p \in Procs, NEW r \in Runs, InspectAlive(p, r) PROVE OwnerOK(q)'
  BY <1>2, <1>19 DEF InspectAlive, At, Goto, Continue, Return, OwnerOK
<1>20. ASSUME NEW p \in Procs, NEW r \in Runs, InspectExited(p, r) PROVE OwnerOK(q)'
  BY <1>1, <1>2, <1>20 DEF InspectExited, At, Goto, TypeOK, Procs, OwnerOK
<1>21. ASSUME NEW p \in Procs, CompleteRun(p) PROVE OwnerOK(q)'
  BY <1>1, <1>2, <1>21, CompleteRunEffect DEF Procs, Continue, Return, OwnerOK
<1>22. ASSUME NEW p \in Procs, AuditExit(p) PROVE OwnerOK(q)'
  BY <1>1, <1>2, <1>22 DEF AuditExit, At, Goto, Continue, Return, TypeOK, Procs, OwnerOK
<1>23. ASSUME NEW p \in Procs, Crash(p) PROVE OwnerOK(q)'
  BY <1>1, <1>2, <1>23 DEF Crash, Goto, TypeOK, OwnerOK
<1>24. CASE UNCHANGED vars
  BY <1>2, <1>24 DEF vars, OwnerOK
<1> QED
  BY <1>3, <1>4, <1>5, <1>6, <1>7, <1>8, <1>9, <1>10, <1>11, <1>12, <1>13, <1>14, <1>15, <1>16,
     <1>17, <1>18, <1>19, <1>20, <1>21, <1>22, <1>23, <1>24
     DEF Next, RunStep, RefreshStep

\* Rows keep agreeing with containers.
LEMMA RowStep == IInv /\ [Next]_vars => RowInv'
<1> SUFFICES ASSUME IInv, [Next]_vars, NEW q \in Runs PROVE RowOK(q)'
  BY DEF RowInv
<1> USE RunManagerAssumption
<1>1. TypeOK /\ ContainerInv /\ OwnerInv /\ RowInv /\ HolderInv /\ AuditInv
  BY DEF IInv
<1>2. ContainerOK(q) /\ OwnerOK(q) /\ RowOK(q)
  BY <1>1 DEF ContainerInv, OwnerInv, RowInv
<1>3. ASSUME NEW r \in Runs, InsertRun(r) PROVE RowOK(q)'
  BY <1>1, <1>2, <1>3, InsertRunEffect
     DEF Procs, Final, RowOK, ContainerOK, Refreshable, Live, StartFailed, NewRow
<1>4. ASSUME NEW r \in Runs, LogResolve(r) PROVE RowOK(q)'
  BY <1>2, <1>4 DEF LogResolve, At, Goto, RowOK, Refreshable, Live, StartFailed, Reported
<1>5. ASSUME NEW r \in Runs, Launch(r) PROVE RowOK(q)'
  BY <1>1, <1>2, <1>5, LaunchEffect DEF Procs, RowOK, Refreshable, Live, StartFailed, Reported
<1>6. ASSUME NEW r \in Runs, AttachReturns(r) PROVE RowOK(q)'
  BY <1>2, <1>6 DEF AttachReturns, At, Goto, RowOK, Refreshable, Live, StartFailed, Reported
<1>7. ASSUME NEW r \in Runs, PreserveContainer(r) PROVE RowOK(q)'
  BY <1>2, <1>7 DEF PreserveContainer, At, Goto, RowOK, Refreshable, Live, StartFailed, Reported
<1>8. ASSUME NEW r \in Runs, RemoveContainer(r) PROVE RowOK(q)'
  BY <1>1, <1>2, <1>8
     DEF RemoveContainer, At, Goto, TypeOK, RowOK, Refreshable, Live, StartFailed, Reported
<1>9. ASSUME NEW r \in Runs, RecordCompletion(r) PROVE RowOK(q)'
  BY <1>1, <1>2, <1>9, RecordCompletionEffect
     DEF Procs, Final, RowOK, OwnerOK, Refreshable, Live, StartFailed
<1>10. ASSUME NEW r \in Runs, LogExit(r) PROVE RowOK(q)'
  BY <1>2, <1>10 DEF LogExit, At, Goto, RowOK, OwnerOK, Refreshable, Live, StartFailed
<1>11. ASSUME NEW r \in Runs, LogStartFailed(r) PROVE RowOK(q)'
  BY <1>2, <1>11 DEF LogStartFailed, At, Goto, RowOK, Refreshable, Live, StartFailed, Reported
<1>12. ASSUME NEW r \in Runs, RecordStartFailed(r) PROVE RowOK(q)'
  BY <1>1, <1>2, <1>12, RecordStartFailedEffect
     DEF Procs, Final, RowOK, OwnerOK, ContainerOK, Refreshable, Live, StartFailed, NewRow
<1>13. ASSUME NEW r \in Runs, LogStarted(r) PROVE RowOK(q)'
  BY <1>2, <1>13 DEF LogStarted, At, Goto, RowOK, Refreshable, Live, StartFailed, Reported
<1>14. ASSUME NEW r \in Runs, ReportContainer(r) PROVE RowOK(q)'
  BY <1>1, <1>2, <1>14, ReportContainerEffect
     DEF Procs, Final, RowOK, OwnerOK, ContainerOK, Refreshable, Live, StartFailed, Reported, NewRow
<1>15. ASSUME NEW r \in Runs, ContainerExits(r) PROVE RowOK(q)'
  BY <1>1, <1>2, <1>15
     DEF ContainerExits, RunPCs, TypeOK, Procs, Final, RowOK, OwnerOK, ContainerOK, Refreshable,
         Live, StartFailed, Reported, NewRow
<1>16. ASSUME NEW r \in Runs, UserRemoves(r) PROVE RowOK(q)'
  BY <1>2, <1>16 DEF UserRemoves, RowOK, Refreshable, Live, StartFailed
<1>17. ASSUME NEW o \in Observers, ListRuns(o) PROVE RowOK(q)'
  BY <1>2, <1>17 DEF ListRuns, BeginRefresh, Goto, Refreshable, RowOK, Live, StartFailed
<1>18. ASSUME NEW o \in Observers, NEW r \in Runs, GetRun(o, r) PROVE RowOK(q)'
  BY <1>2, <1>18 DEF GetRun, BeginRefresh, Goto, Refreshable, RowOK, Live, StartFailed
<1>19. ASSUME NEW p \in Procs, NEW r \in Runs, InspectAlive(p, r) PROVE RowOK(q)'
  BY <1>2, <1>19
     DEF InspectAlive, At, Goto, Continue, Return, OwnerOK, RowOK, Refreshable, Live, StartFailed,
         Reported
<1>20. ASSUME NEW p \in Procs, NEW r \in Runs, InspectExited(p, r) PROVE RowOK(q)'
  BY <1>2, <1>20 DEF InspectExited, At, Goto, RowOK, Refreshable, Live, StartFailed, Reported
<1>21. ASSUME NEW p \in Procs, CompleteRun(p) PROVE RowOK(q)'
  <2>1. /\ cur[p] \in Runs /\ Live(cur[p]) /\ ctr[cur[p]].code # "none"
        /\ verdict[p] = VerdictOf(ctr[cur[p]].code)
    BY <1>1, <1>21, CompleteRunEffect DEF HolderInv, HolderOK
  <2>2. pc[p] = "complete" /\ (p = q => pc'[q] \in Reported)
    BY <1>1, <1>21, CompleteRunEffect DEF Continue, Return, Reported
  <2>3. CASE rec' = rec
    BY <1>1, <1>2, <1>21, <2>2, <2>3, CompleteRunEffect
       DEF Procs, RowOK, Refreshable, Live, StartFailed, Reported
  <2>4. CASE /\ rec'[cur[p]].status = verdict[p] /\ rec'[cur[p]].cid
             /\ rec'[cur[p]].exit = InspectedCode(ctr[cur[p]].code)
             /\ \A s \in Runs : s # cur[p] => rec'[s] = rec[s]
             /\ pc'[p] = "auditexit"
    <3>1. CASE q = cur[p]
      BY <1>1, <1>21, <2>1, <2>4, <3>1, CompleteRunEffect
         DEF Procs, RowOK, Live, StartFailed, Reported, VerdictOf, InspectedCode
    <3>2. CASE q # cur[p]
      BY <1>1, <1>2, <1>21, <2>4, <3>2, CompleteRunEffect
         DEF Procs, RowOK, Refreshable, Live, StartFailed, Reported
    <3> QED BY <3>1, <3>2
  <2> QED BY <1>1, <1>21, <2>3, <2>4, CompleteRunEffect
<1>22. ASSUME NEW p \in Procs, AuditExit(p) PROVE RowOK(q)'
  BY <1>1, <1>2, <1>22
     DEF AuditExit, At, Goto, Continue, Return, TypeOK, Procs, RowOK, Refreshable, Live, StartFailed,
         Reported
<1>23. ASSUME NEW p \in Procs, Crash(p) PROVE RowOK(q)'
  BY <1>1, <1>2, <1>23
     DEF Crash, Goto, RunPCs, TypeOK, Final, RowOK, OwnerOK, Refreshable, Live, StartFailed,
         Reported, NewRow
<1>24. CASE UNCHANGED vars
  BY <1>2, <1>24 DEF vars, RowOK, Refreshable, Live, StartFailed, NewRow
<1> QED
  BY <1>3, <1>4, <1>5, <1>6, <1>7, <1>8, <1>9, <1>10, <1>11, <1>12, <1>13, <1>14, <1>15, <1>16,
     <1>17, <1>18, <1>19, <1>20, <1>21, <1>22, <1>23, <1>24
     DEF Next, RunStep, RefreshStep

\* Holders keep holding rows of live runs.
LEMMA HolderStep == IInv /\ [Next]_vars => HolderInv'
<1> SUFFICES ASSUME IInv, [Next]_vars, NEW h \in Procs PROVE HolderOK(h)'
  BY DEF HolderInv
<1> USE RunManagerAssumption
<1>1. TypeOK /\ ContainerInv /\ OwnerInv /\ RowInv /\ HolderInv /\ AuditInv
  BY DEF IInv
<1>2. HolderOK(h)
  BY <1>1 DEF HolderInv
<1>3. ASSUME NEW r \in Runs, InsertRun(r) PROVE HolderOK(h)'
  <2>1. ~Live(r) /\ \A s \in Runs : Live(s) => Live(s)'
    BY <1>1, <1>3, InsertRunEffect DEF Live, StartFailed, Reported, Procs
  <2>2. h = r => todo'[h] = {} /\ cur'[h] = NoRun /\ pc'[h] \notin {"refresh", "complete", "auditexit"}
    BY <1>1, <1>2, <1>3, InsertRunEffect DEF HolderOK
  <2>3. todo[h] \subseteq Runs
    BY <1>1 DEF TypeOK
  <2>4. CASE h = r
    BY <2>2, <2>4 DEF HolderOK
  <2>5. CASE h # r
    BY <1>2, <1>3, <1>1, <2>1, <2>3, InsertRunEffect DEF HolderOK
  <2> QED BY <2>4, <2>5
<1>4. ASSUME NEW r \in Runs, LogResolve(r) PROVE HolderOK(h)'
  BY <1>2, <1>4 DEF LogResolve, At, Goto, VerdictOf, HolderOK, Live, StartFailed, Reported
<1>5. ASSUME NEW r \in Runs, Launch(r) PROVE HolderOK(h)'
  <2>1. ~Live(r) /\ \A s \in Runs : Live(s) => Live(s)'
    BY <1>1, <1>5, LaunchEffect DEF Live, StartFailed, Reported, Procs
  <2>2. h = r => todo'[h] = {} /\ cur'[h] = NoRun /\ pc'[h] \notin {"refresh", "complete", "auditexit"}
    BY <1>1, <1>2, <1>5, LaunchEffect DEF HolderOK
  <2>3. todo[h] \subseteq Runs
    BY <1>1 DEF TypeOK
  <2>4. CASE h = r
    BY <2>2, <2>4 DEF HolderOK
  <2>5. CASE h # r
    BY <1>2, <1>5, <1>1, <2>1, <2>3, LaunchEffect DEF HolderOK
  <2> QED BY <2>4, <2>5
<1>6. ASSUME NEW r \in Runs, AttachReturns(r) PROVE HolderOK(h)'
  BY <1>2, <1>6 DEF AttachReturns, At, Goto, HolderOK, Live, StartFailed, Reported
<1>7. ASSUME NEW r \in Runs, PreserveContainer(r) PROVE HolderOK(h)'
  BY <1>2, <1>7 DEF PreserveContainer, At, Goto, HolderOK, Live, StartFailed, Reported
<1>8. ASSUME NEW r \in Runs, RemoveContainer(r) PROVE HolderOK(h)'
  BY <1>1, <1>2, <1>8 DEF RemoveContainer, At, Goto, TypeOK, OwnerInv, HolderOK, Live, StartFailed, Reported
<1>9. ASSUME NEW r \in Runs, RecordCompletion(r) PROVE HolderOK(h)'
  <2>1. ~Live(r) /\ \A s \in Runs : Live(s) => Live(s)'
    BY <1>1, <1>9, RecordCompletionEffect DEF Live, StartFailed, Reported, Procs
  <2>2. h = r => todo'[h] = {} /\ cur'[h] = NoRun /\ pc'[h] \notin {"refresh", "complete", "auditexit"}
    BY <1>1, <1>2, <1>9, RecordCompletionEffect DEF HolderOK
  <2>3. todo[h] \subseteq Runs
    BY <1>1 DEF TypeOK
  <2>4. CASE h = r
    BY <2>2, <2>4 DEF HolderOK
  <2>5. CASE h # r
    BY <1>2, <1>9, <1>1, <2>1, <2>3, RecordCompletionEffect DEF HolderOK
  <2> QED BY <2>4, <2>5
<1>10. ASSUME NEW r \in Runs, LogExit(r) PROVE HolderOK(h)'
  BY <1>2, <1>10 DEF LogExit, At, Goto, HolderOK, Live, StartFailed, Reported
<1>11. ASSUME NEW r \in Runs, LogStartFailed(r) PROVE HolderOK(h)'
  BY <1>2, <1>11 DEF LogStartFailed, At, Goto, HolderOK, Live, StartFailed, Reported
<1>12. ASSUME NEW r \in Runs, RecordStartFailed(r) PROVE HolderOK(h)'
  <2>1. ~Live(r) /\ \A s \in Runs : Live(s) => Live(s)'
    BY <1>1, <1>12, RecordStartFailedEffect DEF Live, StartFailed, Reported, Procs
  <2>2. h = r => todo'[h] = {} /\ cur'[h] = NoRun /\ pc'[h] \notin {"refresh", "complete", "auditexit"}
    BY <1>1, <1>2, <1>12, RecordStartFailedEffect DEF HolderOK
  <2>3. todo[h] \subseteq Runs
    BY <1>1 DEF TypeOK
  <2>4. CASE h = r
    BY <2>2, <2>4 DEF HolderOK
  <2>5. CASE h # r
    BY <1>2, <1>12, <1>1, <2>1, <2>3, RecordStartFailedEffect DEF HolderOK
  <2> QED BY <2>4, <2>5
<1>13. ASSUME NEW r \in Runs, LogStarted(r) PROVE HolderOK(h)'
  BY <1>2, <1>13 DEF LogStarted, At, Goto, HolderOK, Live, StartFailed, Reported
<1>14. ASSUME NEW r \in Runs, ReportContainer(r) PROVE HolderOK(h)'
  <2>1. ~Live(r) /\ Live(r)' /\ \A s \in Runs : Live(s) => Live(s)'
    BY <1>1, <1>14, ReportContainerEffect
       DEF Live, StartFailed, Reported, Procs, OwnerInv, OwnerOK, ContainerInv, ContainerOK
  <2>2. CASE h = r
    BY <1>1, <1>2, <1>14, <2>1, <2>2, ReportContainerEffect DEF HolderOK
  <2>3. todo[h] \subseteq Runs
    BY <1>1 DEF TypeOK
  <2>4. CASE h # r
    BY <1>1, <1>2, <1>14, <2>1, <2>3, ReportContainerEffect DEF HolderOK
  <2> QED BY <2>2, <2>4
<1>15. ASSUME NEW r \in Runs, ContainerExits(r) PROVE HolderOK(h)'
  BY <1>1, <1>2, <1>15 DEF ContainerExits, ContainerInv, ContainerOK, HolderOK, Live, StartFailed
<1>16. ASSUME NEW r \in Runs, UserRemoves(r) PROVE HolderOK(h)'
  BY <1>2, <1>16 DEF UserRemoves, HolderOK, Live, StartFailed
<1>17. ASSUME NEW o \in Observers, ListRuns(o) PROVE HolderOK(h)'
  BY <1>1, <1>2, <1>17
     DEF ListRuns, BeginRefresh, At, Goto, TypeOK, RowInv, RowOK, HolderOK, Live, StartFailed
<1>18. ASSUME NEW o \in Observers, NEW r \in Runs, GetRun(o, r) PROVE HolderOK(h)'
  BY <1>1, <1>2, <1>18
     DEF GetRun, BeginRefresh, At, Goto, TypeOK, RowInv, RowOK, HolderOK, Live, StartFailed
<1>19. ASSUME NEW p \in Procs, NEW r \in Runs, InspectAlive(p, r) PROVE HolderOK(h)'
  BY <1>1, <1>2, <1>19
     DEF InspectAlive, At, Goto, Continue, Return, TypeOK, OwnerInv, OwnerOK, HolderOK, Live,
         StartFailed, Reported
<1>20. ASSUME NEW p \in Procs, NEW r \in Runs, InspectExited(p, r) PROVE HolderOK(h)'
  BY <1>1, <1>2, <1>20
     DEF InspectExited, Goto, TypeOK, ContainerInv, ContainerOK, HolderOK, Live, StartFailed, Reported
<1>21. ASSUME NEW p \in Procs, CompleteRun(p) PROVE HolderOK(h)'
  <2>1. /\ cur[p] \in Runs /\ verdict[p] \in Final /\ Live(cur[p])
        /\ ctr[cur[p]].code # "none" /\ verdict[p] = VerdictOf(ctr[cur[p]].code)
    BY <1>1, <1>21, CompleteRunEffect DEF HolderInv, HolderOK, VerdictOf, Final
  <2>2. \A s \in Runs : Live(s) => Live(s)'
    BY <1>1, <1>21, CompleteRunEffect DEF Live, StartFailed, Reported, Procs, Continue, Return
  <2>3. CASE h = p
    BY <1>1, <1>2, <1>21, <2>1, <2>2, <2>3, CompleteRunEffect
       DEF HolderOK, TypeOK, Continue, Return
  <2>4. todo[h] \subseteq Runs
    BY <1>1 DEF TypeOK
  <2>5. CASE h # p
    BY <1>1, <1>2, <1>21, <2>1, <2>2, <2>4, <2>5, CompleteRunEffect DEF HolderOK
  <2> QED BY <2>3, <2>5
<1>22. ASSUME NEW p \in Procs, AuditExit(p) PROVE HolderOK(h)'
  BY <1>1, <1>2, <1>22
     DEF AuditExit, Goto, Continue, Return, TypeOK, HolderOK, Live, StartFailed, Reported
<1>23. ASSUME NEW p \in Procs, Crash(p) PROVE HolderOK(h)'
  BY <1>1, <1>2, <1>23 DEF Crash, Goto, TypeOK, HolderOK, Live, StartFailed, Reported
<1>24. CASE UNCHANGED vars
  BY <1>2, <1>24 DEF vars, HolderOK, Live, StartFailed
<1> QED
  BY <1>3, <1>4, <1>5, <1>6, <1>7, <1>8, <1>9, <1>10, <1>11, <1>12, <1>13, <1>14, <1>15, <1>16,
     <1>17, <1>18, <1>19, <1>20, <1>21, <1>22, <1>23, <1>24
     DEF Next, RunStep, RefreshStep

\* The audit log keeps behind the ledger.
LEMMA AuditStep == IInv /\ [Next]_vars => AuditInv'
<1> SUFFICES ASSUME IInv, [Next]_vars, NEW q \in Runs PROVE AuditOK(q)'
  BY DEF AuditInv
<1> USE RunManagerAssumption
<1>1. TypeOK /\ ContainerInv /\ OwnerInv /\ RowInv /\ HolderInv /\ AuditInv
  BY DEF IInv
<1>2. AuditOK(q) /\ RowOK(q) /\ OwnerOK(q) /\ ContainerOK(q)
  BY <1>1 DEF ContainerInv, OwnerInv, RowInv, AuditInv
<1>3. ASSUME NEW r \in Runs, InsertRun(r) PROVE AuditOK(q)'
  <2>1. ExitLog(q)' = ExitLog(q)
    BY <1>1, <1>3, InsertRunEffect, ExitLogUnchanged
  <2> QED BY <1>1, <1>2, <1>3, <2>1, InsertRunEffect DEF AuditOK, Procs, Reported
<1>4. ASSUME NEW r \in Runs, LogResolve(r) PROVE AuditOK(q)'
  <2>1. ExitLog(q)' \subseteq ExitLog(q)
    BY <1>1, <1>4, ExitLogFacts DEF LogResolve, Phases, ExitEvents
  <2> QED BY <1>2, <1>4, <2>1 DEF LogResolve, At, Goto, AuditOK, Reported
<1>5. ASSUME NEW r \in Runs, Launch(r) PROVE AuditOK(q)'
  <2>1. ExitLog(q)' = ExitLog(q)
    BY <1>1, <1>5, LaunchEffect, ExitLogUnchanged
  <2> QED BY <1>1, <1>2, <1>5, <2>1, LaunchEffect DEF AuditOK, Procs, Reported
<1>6. ASSUME NEW r \in Runs, AttachReturns(r) PROVE AuditOK(q)'
  <2>1. ExitLog(q)' = ExitLog(q)
    BY <1>6, ExitLogUnchanged DEF AttachReturns
  <2> QED BY <1>2, <1>6, <2>1 DEF AttachReturns, At, Goto, AuditOK, Reported
<1>7. ASSUME NEW r \in Runs, PreserveContainer(r) PROVE AuditOK(q)'
  <2>1. ExitLog(q)' \subseteq ExitLog(q)
    BY <1>1, <1>7, ExitLogFacts DEF PreserveContainer, Phases, ExitEvents
  <2> QED BY <1>2, <1>7, <2>1 DEF PreserveContainer, At, Goto, AuditOK, Reported
<1>8. ASSUME NEW r \in Runs, RemoveContainer(r) PROVE AuditOK(q)'
  <2>1. ExitLog(q)' \subseteq ExitLog(q)
    BY <1>1, <1>8, ExitLogFacts, ExitLogUnchanged DEF RemoveContainer, Phases, ExitEvents
  <2> QED BY <1>1, <1>2, <1>8, <2>1 DEF RemoveContainer, At, Goto, AuditOK, TypeOK, Reported
<1>9. ASSUME NEW r \in Runs, RecordCompletion(r) PROVE AuditOK(q)'
  <2>1. ExitLog(q)' = ExitLog(q)
    BY <1>1, <1>9, RecordCompletionEffect, ExitLogUnchanged
  <2> QED BY <1>1, <1>2, <1>9, <2>1, RecordCompletionEffect DEF AuditOK, Procs, Reported
<1>10. ASSUME NEW r \in Runs, LogExit(r) PROVE AuditOK(q)'
  <2>1. CASE q # r
    <3>1. ExitLog(q)' = ExitLog(q)
      BY <1>1, <1>10, <2>1, ExitLogFacts DEF LogExit, Phases
    <3> QED BY <1>2, <1>10, <2>1, <3>1 DEF LogExit, Goto, AuditOK
  <2>2. CASE q = r
    <3>1. ExitLog(q) = {}
      BY <1>2, <1>10, <2>2 DEF LogExit, At, AuditOK, Reported
    <3>2. ExitLog(q)' \subseteq {Word(verdict[q])}
      BY <1>1, <1>10, <3>1, ExitLogFacts DEF LogExit, Phases, Word
    <3> QED BY <1>1, <1>2, <1>10, <2>2, <3>2
               DEF LogExit, At, Goto, AuditOK, OwnerOK, RowOK, NewRow, Word, Final, Reported,
                   TypeOK, Procs
  <2> QED BY <2>1, <2>2
<1>11. ASSUME NEW r \in Runs, LogStartFailed(r) PROVE AuditOK(q)'
  <2>1. ExitLog(q)' \subseteq ExitLog(q)
    BY <1>1, <1>11, ExitLogFacts DEF LogStartFailed, Phases, ExitEvents
  <2> QED BY <1>2, <1>11, <2>1 DEF LogStartFailed, At, Goto, AuditOK, Reported
<1>12. ASSUME NEW r \in Runs, RecordStartFailed(r) PROVE AuditOK(q)'
  <2>1. ExitLog(q)' = ExitLog(q)
    BY <1>1, <1>12, RecordStartFailedEffect, ExitLogUnchanged
  <2> QED BY <1>1, <1>2, <1>12, <2>1, RecordStartFailedEffect DEF AuditOK, Procs, Reported
<1>13. ASSUME NEW r \in Runs, LogStarted(r) PROVE AuditOK(q)'
  <2>1. ExitLog(q)' \subseteq ExitLog(q)
    BY <1>1, <1>13, ExitLogFacts DEF LogStarted, Phases, ExitEvents
  <2> QED BY <1>2, <1>13, <2>1 DEF LogStarted, At, Goto, AuditOK, Reported
<1>14. ASSUME NEW r \in Runs, ReportContainer(r) PROVE AuditOK(q)'
  <2>1. ExitLog(q)' = ExitLog(q)
    BY <1>1, <1>14, ReportContainerEffect, ExitLogUnchanged
  <2> QED BY <1>1, <1>2, <1>14, <2>1, ReportContainerEffect DEF AuditOK, Procs, Reported
<1>15. ASSUME NEW r \in Runs, ContainerExits(r) PROVE AuditOK(q)'
  <2>1. ExitLog(q)' = ExitLog(q)
    BY <1>15, ExitLogUnchanged DEF ContainerExits
  <2> QED BY <1>2, <1>15, <2>1 DEF ContainerExits, AuditOK, ContainerOK
<1>16. ASSUME NEW r \in Runs, UserRemoves(r) PROVE AuditOK(q)'
  <2>1. ExitLog(q)' = ExitLog(q)
    BY <1>16, ExitLogUnchanged DEF UserRemoves
  <2> QED BY <1>2, <1>16, <2>1 DEF UserRemoves, AuditOK
<1>17. ASSUME NEW o \in Observers, ListRuns(o) PROVE AuditOK(q)'
  <2>1. ExitLog(q)' = ExitLog(q)
    BY <1>17, ExitLogUnchanged DEF ListRuns, BeginRefresh
  <2> QED BY <1>2, <1>17, <2>1 DEF ListRuns, BeginRefresh, Goto, AuditOK
<1>18. ASSUME NEW o \in Observers, NEW r \in Runs, GetRun(o, r) PROVE AuditOK(q)'
  <2>1. ExitLog(q)' = ExitLog(q)
    BY <1>18, ExitLogUnchanged DEF GetRun, BeginRefresh
  <2> QED BY <1>2, <1>18, <2>1 DEF GetRun, BeginRefresh, Goto, AuditOK
<1>19. ASSUME NEW p \in Procs, NEW r \in Runs, InspectAlive(p, r) PROVE AuditOK(q)'
  <2>1. ExitLog(q)' = ExitLog(q)
    BY <1>19, ExitLogUnchanged DEF InspectAlive
  <2> QED BY <1>2, <1>19, <2>1 DEF InspectAlive, Goto, Continue, Return, AuditOK, Reported
<1>20. ASSUME NEW p \in Procs, NEW r \in Runs, InspectExited(p, r) PROVE AuditOK(q)'
  <2>1. ExitLog(q)' = ExitLog(q)
    BY <1>20, ExitLogUnchanged DEF InspectExited
  <2> QED BY <1>2, <1>20, <2>1 DEF InspectExited, Goto, AuditOK, Reported
<1>21. ASSUME NEW p \in Procs, CompleteRun(p) PROVE AuditOK(q)'
  <2>1. ExitLog(q)' = ExitLog(q) /\ (q = p => pc[q] \in Reported /\ pc'[q] \in Reported)
    BY <1>1, <1>21, CompleteRunEffect, ExitLogUnchanged DEF Continue, Return, Reported
  <2>2. CASE rec' = rec \/ q # cur[p]
    BY <1>1, <1>2, <1>21, <2>1, <2>2, CompleteRunEffect DEF AuditOK, Procs
  <2>3. CASE q = cur[p] /\ rec'[q].status = verdict[p]
    <3>1. Live(q) /\ ctr[q].code # "none" /\ verdict[p] = VerdictOf(ctr[q].code)
      BY <1>1, <2>3 DEF HolderInv, HolderOK
    <3>2. rec[q].status \in Final => rec[q].status = verdict[p]
      BY <1>2, <3>1 DEF RowOK
    <3>3. rec'[q].status \in Final /\ rec'[q].status # "absent"
      BY <2>3, <3>1 DEF VerdictOf, Final
    <3> QED BY <1>1, <1>2, <1>21, <2>1, <3>1, <3>2, CompleteRunEffect DEF AuditOK, Live, StartFailed, Procs
  <2> QED BY <1>1, <1>21, <2>2, <2>3, CompleteRunEffect
<1>22. ASSUME NEW p \in Procs, AuditExit(p) PROVE AuditOK(q)'
  <2>1. /\ cur[p] \in Runs /\ Live(cur[p]) /\ ctr[cur[p]].code # "none"
        /\ verdict[p] = VerdictOf(ctr[cur[p]].code) /\ rec[cur[p]].status \in Final
    BY <1>1, <1>22 DEF AuditExit, At, HolderInv, HolderOK
  <2>2. verdict[p] \in Phases
    BY <2>1 DEF VerdictOf, Phases
  <2>3. q = p \/ pc'[q] = pc[q]
    BY <1>22 DEF AuditExit, Goto
  <2>4. q = p => pc'[q] \in Reported
    BY <1>1, <1>22 DEF AuditExit, Goto, TypeOK, Continue, Return, Reported
  <2>5. CASE q # cur[p]
    <3>1. ExitLog(q)' = ExitLog(q)
      BY <1>1, <1>22, <2>1, <2>2, <2>5, ExitLogFacts DEF AuditExit
    <3> QED BY <1>2, <1>22, <2>3, <2>4, <3>1 DEF AuditExit, AuditOK
  <2>6. CASE q = cur[p]
    <3>1. rec[q].status = verdict[p] /\ verdict[p] = Word(verdict[p])
      BY <1>2, <2>1, <2>6 DEF RowOK, Word, VerdictOf
    <3>2. ExitLog(q)' \subseteq {verdict[p]}
      BY <1>1, <1>2, <1>22, <2>1, <2>2, <2>6, <3>1, ExitLogFacts DEF AuditExit, AuditOK
    <3>3. verdict[p] = "succeeded" => ctr[q].code = "zero"
      BY <1>2, <3>1 DEF RowOK
    <3> QED BY <1>22, <2>1, <2>3, <2>4, <2>6, <3>1, <3>2, <3>3
               DEF AuditExit, AuditOK, Live, StartFailed, Final
  <2> QED BY <2>5, <2>6
<1>23. ASSUME NEW p \in Procs, Crash(p) PROVE AuditOK(q)'
  <2>1. ExitLog(q)' = ExitLog(q)
    BY <1>23, ExitLogUnchanged DEF Crash
  <2> QED BY <1>2, <1>23, <2>1 DEF Crash, Goto, AuditOK, Reported
<1>24. CASE UNCHANGED vars
  BY <1>2, <1>24, ExitLogUnchanged DEF vars, AuditOK
<1> QED
  BY <1>3, <1>4, <1>5, <1>6, <1>7, <1>8, <1>9, <1>10, <1>11, <1>12, <1>13, <1>14, <1>15, <1>16,
     <1>17, <1>18, <1>19, <1>20, <1>21, <1>22, <1>23, <1>24
     DEF Next, RunStep, RefreshStep

-------------------------------------------------------------------------------
(* The theorems *)

\* The invariant holds before anything runs.
LEMMA InitInv == Init => IInv
<1> SUFFICES ASSUME Init PROVE IInv
  OBVIOUS
<1> USE RunManagerAssumption DEF Init
<1>1. TypeOK
  BY DEF TypeOK, Row, CtrState, Codes, RunPCs, ObsPCs, Procs
<1>2. ContainerInv /\ OwnerInv
  BY DEF ContainerInv, ContainerOK, OwnerInv, OwnerOK, Procs
<1>3. RowInv
  BY DEF RowInv, RowOK, Refreshable, Final, Procs
<1>4. HolderInv
  BY DEF HolderInv, HolderOK
<1>5. AuditInv
  BY DEF AuditInv, AuditOK, ExitLog, Logged
<1> QED BY <1>1, <1>2, <1>3, <1>4, <1>5 DEF IInv

\* The state of the system is well-typed for any set of runs and observers, and
\* the invariant about owners, rows, holders and the audit log is inductive.
THEOREM Inductive == Spec => []IInv
<1>1. IInv /\ [Next]_vars => IInv'
  BY TypeStep, ContainerStep, OwnerStep, RowStep, HolderStep, AuditStep DEF IInv
<1> QED BY InitInv, <1>1, PTL DEF Spec

\* Every variable keeps its type, whatever crashes or gets lost.
THEOREM TypeCorrect == Spec => []TypeOK
<1>1. IInv => TypeOK
  BY DEF IInv
<1> QED BY Inductive, <1>1, PTL

\* A refresh, however stale its copy of the rows, only ever deals with a
\* detached run whose container was started: refreshRunStatus never races the
\* foreground part of manager.Run for a row.
THEOREM OnlyDetachedRefreshed == Spec => []RefreshOnlyDetached
<1>1. IInv => RefreshOnlyDetached
  <2> SUFFICES ASSUME IInv, NEW p \in Procs, NEW r \in todo[p] \cup ({cur[p]} \ {NoRun})
               PROVE  mode[r] = "detached" /\ ctr[r].st \notin {"absent", "created"}
    BY DEF RefreshOnlyDetached
  <2>1. Live(r)
    BY DEF IInv, HolderInv, HolderOK
  <2> QED BY <2>1 DEF Live, StartFailed
<1> QED BY Inductive, <1>1, PTL

\* The container of a debug run that did not end with code zero is never removed
\* by the manager.
THEOREM EvidenceKept == Spec => []DebugEvidenceKept
<1>1. IInv => DebugEvidenceKept
  BY DEF IInv, ContainerInv, ContainerOK, DebugEvidenceKept
<1> QED BY Inductive, <1>1, PTL

\* Recorded exit codes are the containers', whichever process wrote them and
\* however many stale refreshers wrote the same row, save where a detached start
\* failed.
THEOREM ExitCodesTruthful == Spec => []ExitCodeTruthful
<1>1. IInv => ExitCodeTruthful
  <2> SUFFICES ASSUME IInv, NEW r \in Runs
               PROVE  /\ rec[r].status = "succeeded" <=> rec[r].exit = "zero"
                      /\ rec[r].exit = "zero" => ctr[r].code = "zero"
                      /\ /\ mode[r] = "detached" /\ ~StartFailed(r)
                         /\ rec[r].exit # "none" /\ ctr[r].code # "none"
                         => rec[r].exit = ctr[r].code
    BY DEF ExitCodeTruthful
  <2>1. RowOK(r)
    BY DEF IInv, RowInv
  <2>2. rec[r].status \in {"absent", "running"} \cup Final
    BY DEF IInv, TypeOK, Row
  <2>3. /\ rec[r].status = "succeeded" <=> rec[r].exit = "zero"
        /\ rec[r].exit = "zero" => ctr[r].code = "zero"
    BY <2>1 DEF RowOK
  <2>4. ASSUME mode[r] = "detached", ~StartFailed(r),
               rec[r].exit # "none", ctr[r].code # "none"
        PROVE  rec[r].exit = ctr[r].code
    BY <2>1, <2>2, <2>4 DEF RowOK, InspectedCode
  <2> QED BY <2>3, <2>4
<1> QED BY Inductive, <1>1, PTL

\* Whoever reads an exit event of a detached run finds the run concluded.
THEOREM DetachedExitsRecorded == Spec => []DetachedExitRecorded
<1>1. IInv => DetachedExitRecorded
  BY DEF IInv, AuditInv, AuditOK, ExitLog, DetachedExitRecorded
<1> QED BY Inductive, <1>1, PTL

-------------------------------------------------------------------------------
(* What holds while nothing has gone wrong.  A fault is never taken back, so   *)
(* a step into a state without one starts in one and takes no faulty branch.   *)

\* A fault leaves its mark.
LEMMA FaultShows ==
  ASSUME TypeOK, faults' = 0 PROVE ~Fault
BY DEF TypeOK, Fault

\* What a quiet step does to the runs it is not about: nothing.
LEMMA QuietFrame ==
  ASSUME NEW q \in Runs, QuietOK(q),
         pc'[q] = pc[q], mode'[q] = mode[q], verdict'[q] = verdict[q],
         rec'[q] = rec[q], ctr'[q] = ctr[q]
  PROVE  QuietOK(q)'
BY DEF QuietOK, Refreshable

\* A step that takes no faulty branch leaves the quiet part of every run in order.
LEMMA QuietStep == IInv /\ QuietInv /\ [Next]_vars => QuietInv'
<1> SUFFICES ASSUME IInv, QuietInv, [Next]_vars, faults' = 0, NEW q \in Runs
             PROVE  QuietOK(q)'
  BY DEF QuietInv
<1> USE RunManagerAssumption DEF Procs
<1>1. TypeOK /\ ContainerInv /\ OwnerInv /\ RowInv /\ HolderInv
  BY DEF IInv
<1>2. ~Fault /\ ~StoreFails
  BY <1>1, FaultShows DEF StoreFails
<1>0. ASSUME faults' = faults PROVE \A r \in Runs : QuietOK(r)
  BY <1>0 DEF QuietInv
<1>3. ASSUME NEW r \in Runs, InsertRun(r) PROVE QuietOK(q)'
  <2>1. QuietOK(q)
    BY <1>0, <1>2, <1>3 DEF InsertRun
  <2>2. CASE q = r
    <3>1. pc'[r] = "resolve"
      BY <1>1, <1>2, <1>3, GotoFacts DEF InsertRun, RunPCs
    <3> QED BY <2>2, <3>1 DEF QuietOK
  <2>3. CASE q # r
    BY <1>1, <1>3, <2>1, <2>3, InsertRunEffect, QuietFrame
  <2> QED BY <2>2, <2>3
<1>4. ASSUME NEW r \in Runs, LogResolve(r) PROVE QuietOK(q)'
  <2>1. QuietOK(q)
    BY <1>0, <1>2, <1>4 DEF LogResolve, AppendEvent
  <2>2. pc'[r] = "launch" /\ \A p \in Procs : p # r => pc'[p] = pc[p]
    BY <1>1, <1>4, GotoFacts DEF LogResolve, RunPCs
  <2> QED BY <1>4, <2>1, <2>2, QuietFrame DEF LogResolve, QuietOK
<1>5. ASSUME NEW r \in Runs, Launch(r) PROVE QuietOK(q)'
  <2>1. QuietOK(q)
    BY <1>0, <1>2, <1>5 DEF Launch
  <2>2. CASE q = r
    <3>1. pc'[r] \in {"started", "attached"}
      BY <1>1, <1>2, <1>5, GotoFacts DEF Launch, RunPCs
    <3> QED BY <2>2, <3>1 DEF QuietOK
  <2>3. CASE q # r
    BY <1>1, <1>5, <2>1, <2>3, LaunchEffect, QuietFrame
  <2> QED BY <2>2, <2>3
<1>6. ASSUME NEW r \in Runs, AttachReturns(r) PROVE QuietOK(q)'
  <2>1. QuietOK(q) /\ ctr[r].st \in {"exited", "gone"}
    BY <1>0, <1>2, <1>6 DEF AttachReturns
  <2>2. /\ pc'[r] = "cleanup" /\ \A p \in Procs : p # r => pc'[p] = pc[p]
        /\ verdict'[r] \in {"succeeded", FailedStatus(r)}
        /\ \A p \in Procs : p # r => verdict'[p] = verdict[p]
    BY <1>1, <1>6, GotoFacts DEF AttachReturns, RunPCs, TypeOK
  <2>3. mode[r] = "foreground" => verdict'[r] # "failed_paused"
    BY <2>2 DEF FailedStatus
  <2> QED BY <1>6, <2>1, <2>2, <2>3, QuietFrame DEF AttachReturns, QuietOK
<1>7. ASSUME NEW r \in Runs, PreserveContainer(r) PROVE QuietOK(q)'
  <2>1. QuietOK(q)
    BY <1>0, <1>2, <1>7 DEF PreserveContainer, AppendEvent
  <2>2. pc'[r] = "record" /\ \A p \in Procs : p # r => pc'[p] = pc[p]
    BY <1>1, <1>7, GotoFacts DEF PreserveContainer, RunPCs
  <2> QED BY <1>7, <2>1, <2>2, QuietFrame DEF PreserveContainer, At, QuietOK
<1>8. ASSUME NEW r \in Runs, RemoveContainer(r) PROVE QuietOK(q)'
  <2>1. QuietOK(q) /\ QuietOK(r)
    BY <1>0, <1>2, <1>8 DEF RemoveContainer, AppendEvent
  <2>2. pc'[r] = "record" /\ \A p \in Procs : p # r => pc'[p] = pc[p]
    BY <1>1, <1>8, GotoFacts DEF RemoveContainer, RunPCs
  <2>3. ctr[r].st \in {"exited", "gone"} /\ verdict[r] # "failed_paused"
    BY <1>8, <2>1 DEF RemoveContainer, At, QuietOK
  <2>4. ctr'[r].st \in {"removed", "gone"} /\ \A p \in Runs : p # r => ctr'[p] = ctr[p]
    <3>1. CASE ctr[r].st = "gone" /\ UNCHANGED ctr
      BY <3>1
    <3>2. CASE ctr' = [ctr EXCEPT ![r].st = IF @ \in {"absent", "gone"} THEN @ ELSE "removed"]
      BY <1>1, <2>3, <3>2 DEF TypeOK
    <3> QED BY <1>2, <1>8, <2>3, <3>1, <3>2 DEF RemoveContainer
  <2> QED BY <1>8, <2>1, <2>2, <2>3, <2>4, QuietFrame DEF RemoveContainer, At, QuietOK
<1>9. ASSUME NEW r \in Runs, RecordCompletion(r) PROVE QuietOK(q)'
  <2>1. QuietOK(q) /\ QuietOK(r)
    BY <1>0, <1>2, <1>9 DEF RecordCompletion
  <2>2. verdict[r] \in Final
    BY <1>1, <1>9 DEF RecordCompletion, At, OwnerInv, OwnerOK
  <2>3. /\ rec'[r].status = verdict[r]
        /\ \A p \in Runs : p # r => rec'[p] = rec[p]
    BY <1>1, <1>2, <1>9, <2>2, UpdateRunCompletionFacts DEF RecordCompletion, Codes
  <2>4. CASE q = r
    BY <1>1, <1>9, <2>1, <2>2, <2>3, <2>4, RecordCompletionEffect DEF QuietOK
  <2>5. CASE q # r
    BY <1>1, <1>9, <2>1, <2>3, <2>5, RecordCompletionEffect, QuietFrame
  <2> QED BY <2>4, <2>5
<1>10. ASSUME NEW r \in Runs, LogExit(r) PROVE QuietOK(q)'
  <2>1. QuietOK(q) /\ QuietOK(r)
    BY <1>0, <1>2, <1>10 DEF LogExit, AppendEvent
  <2>2. pc'[r] = "done" /\ \A p \in Procs : p # r => pc'[p] = pc[p]
    BY <1>1, <1>10, GotoFacts DEF LogExit, RunPCs
  <2>3. rec[r].status = "succeeded" => verdict[r] = "succeeded"
    BY <1>1, <1>10 DEF LogExit, At, RowInv, RowOK, NewRow
  <2> QED BY <1>10, <2>1, <2>2, <2>3, QuietFrame DEF LogExit, At, QuietOK, Refreshable
<1>11. ASSUME NEW r \in Runs, LogStartFailed(r) PROVE QuietOK(q)'
  <2>1. QuietOK(q)
    BY <1>0, <1>2, <1>11 DEF LogStartFailed, AppendEvent
  <2>2. pc'[r] = "failwrite" /\ \A p \in Procs : p # r => pc'[p] = pc[p]
    BY <1>1, <1>11, GotoFacts DEF LogStartFailed, RunPCs
  <2> QED BY <1>11, <2>1, <2>2, QuietFrame DEF LogStartFailed, QuietOK
<1>12. ASSUME NEW r \in Runs, RecordStartFailed(r) PROVE QuietOK(q)'
  <2>1. QuietOK(q) /\ mode[r] = "detached"
    BY <1>0, <1>1, <1>2, <1>12 DEF RecordStartFailed, At, OwnerInv, OwnerOK
  <2>2. /\ rec'[r].status \in Final
        /\ \A p \in Runs : p # r => rec'[p] = rec[p]
    BY <1>1, <1>2, <1>12, UpdateRunCompletionFacts DEF RecordStartFailed, Codes, Final
  <2>3. CASE q = r
    BY <1>1, <1>12, <2>1, <2>2, <2>3, RecordStartFailedEffect DEF QuietOK
  <2>4. CASE q # r
    BY <1>1, <1>12, <2>1, <2>2, <2>4, RecordStartFailedEffect, QuietFrame
  <2> QED BY <2>3, <2>4
<1>13. ASSUME NEW r \in Runs, LogStarted(r) PROVE QuietOK(q)'
  <2>1. QuietOK(q)
    BY <1>0, <1>2, <1>13 DEF LogStarted, AppendEvent
  <2>2. pc'[r] = "setstatus" /\ \A p \in Procs : p # r => pc'[p] = pc[p]
    BY <1>1, <1>13, GotoFacts DEF LogStarted, RunPCs
  <2> QED BY <1>13, <2>1, <2>2, QuietFrame DEF LogStarted, QuietOK
<1>14. ASSUME NEW r \in Runs, ReportContainer(r) PROVE QuietOK(q)'
  <2>1. QuietOK(q)
    BY <1>0, <1>2, <1>14 DEF ReportContainer
  <2>2. /\ rec'[r].status = "running" /\ rec'[r].cid
        /\ \A p \in Runs : p # r => rec'[p] = rec[p]
    BY <1>1, <1>2, <1>14, UpdateRunStatusFacts DEF ReportContainer
  <2>3. CASE q = r
    BY <1>1, <1>14, <2>2, <2>3, ReportContainerEffect DEF QuietOK, Refreshable
  <2>4. CASE q # r
    BY <1>1, <1>14, <2>1, <2>2, <2>4, ReportContainerEffect, QuietFrame
  <2> QED BY <2>3, <2>4
<1>15. ASSUME NEW r \in Runs, ContainerExits(r) PROVE QuietOK(q)'
  <2>1. QuietOK(q)
    BY <1>0, <1>15 DEF ContainerExits
  <2>2. ctr[r].st = "running" /\ ctr'[r].st = "exited" /\ \A p \in Runs : p # r => ctr'[p] = ctr[p]
    BY <1>1, <1>15 DEF ContainerExits, TypeOK
  <2> QED BY <1>15, <2>1, <2>2 DEF ContainerExits, QuietOK, Refreshable
<1>16. ASSUME NEW r \in Runs, UserRemoves(r) PROVE QuietOK(q)'
  <2>1. QuietOK(q)
    BY <1>0, <1>16 DEF UserRemoves
  <2>2. ctr'[r].st = "gone" /\ \A p \in Runs : p # r => ctr'[p] = ctr[p]
    BY <1>1, <1>16 DEF UserRemoves, TypeOK
  <2> QED BY <1>16, <2>1, <2>2 DEF UserRemoves, QuietOK, Refreshable
<1>17. ASSUME NEW o \in Observers, NEW rows, BeginRefresh(o, rows) PROVE QuietOK(q)'
  <2>1. QuietOK(q)
    BY <1>0, <1>17 DEF BeginRefresh
  <2>2. pc'[q] = pc[q]
    BY <1>1, <1>17, GotoFacts DEF BeginRefresh, RunPCs, ObsPCs
  <2> QED BY <1>17, <2>1, <2>2, QuietFrame DEF BeginRefresh
<1>18. ASSUME NEW p \in Procs, NEW to \in {"refresh", "done"}, p = q, p \in Runs,
              pc[p] \in {"refresh", "complete", "auditexit"}, pc'[p] = to, mode' = mode, ctr' = ctr,
              QuietOK(q), rec'[q] = rec[q] \/ rec'[q].status \in Final
       PROVE  QuietOK(q)'
  <2>1. mode[q] = "detached"
    BY <1>1, <1>18 DEF OwnerInv, OwnerOK
  <2> QED BY <1>18, <2>1 DEF QuietOK, Refreshable
<1>19. ASSUME NEW p \in Procs, NEW r \in Runs, InspectAlive(p, r) PROVE QuietOK(q)'
  <2>1. QuietOK(q)
    BY <1>0, <1>2, <1>19 DEF InspectAlive
  <2> DEFINE to == Continue(p, todo[p] \ {r})
  <2>2. /\ p \in Runs => to \in {"refresh", "done"}
        /\ to \in RunPCs /\ (p \in Observers => to \in ObsPCs)
    BY DEF Continue, Return, RunPCs, ObsPCs
  <2>3. Goto(p, to) /\ pc[p] = "refresh" /\ UNCHANGED <<rec, ctr, mode, verdict>>
    BY <1>19 DEF InspectAlive, At
  <2> HIDE DEF to
  <2>4. pc'[p] = to /\ \A s \in Procs : s # p => pc'[s] = pc[s]
    BY <1>1, <2>2, <2>3, GotoFacts
  <2> QED BY <1>18, <2>1, <2>2, <2>3, <2>4, QuietFrame
<1>20. ASSUME NEW p \in Procs, NEW r \in Runs, InspectExited(p, r) PROVE QuietOK(q)'
  <2>1. QuietOK(q)
    BY <1>0, <1>20 DEF InspectExited
  <2>2. pc'[p] = "complete" /\ \A s \in Procs : s # p => pc'[s] = pc[s]
    BY <1>1, <1>20, GotoFacts DEF InspectExited, RunPCs, ObsPCs
  <2>3. pc[p] = "refresh" /\ \A s \in Procs : s # p => verdict'[s] = verdict[s]
    BY <1>1, <1>20 DEF InspectExited, At, TypeOK
  <2> QED BY <1>20, <2>1, <2>2, <2>3, QuietFrame DEF InspectExited, QuietOK, Refreshable
<1>21. ASSUME NEW p \in Procs, CompleteRun(p) PROVE QuietOK(q)'
  <2>1. QuietOK(q)
    BY <1>0, <1>2, <1>21 DEF CompleteRun
  <2>2. PICK c \in Runs : c = cur[p] /\ Live(c) /\ verdict[p] \in Final
    BY <1>1, <1>21 DEF CompleteRun, At, HolderInv, HolderOK, VerdictOf, Final
  <2>3. /\ UpdateRunCompletion(c, verdict[p], InspectedCode(ctr[c].code))
        /\ Goto(p, "auditexit") /\ pc[p] = "complete"
        /\ UNCHANGED <<ctr, mode, verdict>>
    BY <1>2, <1>21, <2>2 DEF CompleteRun, At
  <2>4. rec'[c].status \in Final /\ \A s \in Runs : s # c => rec'[s] = rec[s]
    <3>1. InspectedCode(ctr[c].code) \in Codes
      BY <1>1 DEF InspectedCode, Codes, TypeOK
    <3> QED BY <1>1, <2>2, <2>3, <3>1, UpdateRunCompletionFacts
  <2>5. pc'[p] = "auditexit" /\ \A s \in Procs : s # p => pc'[s] = pc[s]
    BY <1>1, <2>3, GotoFacts DEF RunPCs, ObsPCs
  <2>6. CASE q = c
    BY <1>1, <2>1, <2>2, <2>3, <2>4, <2>5, <2>6 DEF QuietOK, Live, StartFailed
  <2>7. CASE q # c
    BY <2>1, <2>3, <2>4, <2>5, <2>7 DEF QuietOK, Refreshable
  <2> QED BY <2>6, <2>7
<1>22. ASSUME NEW p \in Procs, AuditExit(p) PROVE QuietOK(q)'
  <2>1. QuietOK(q)
    BY <1>0, <1>2, <1>22 DEF AuditExit, AppendEvent
  <2> DEFINE to == Continue(p, todo[p])
  <2>2. /\ p \in Runs => to \in {"refresh", "done"}
        /\ to \in RunPCs /\ (p \in Observers => to \in ObsPCs)
    BY DEF Continue, Return, RunPCs, ObsPCs
  <2>3. /\ Goto(p, to) /\ pc[p] = "auditexit" /\ UNCHANGED <<rec, ctr, mode>>
        /\ \A s \in Procs : s # p => verdict'[s] = verdict[s]
    BY <1>1, <1>22 DEF AuditExit, At, TypeOK
  <2> HIDE DEF to
  <2>4. pc'[p] = to /\ \A s \in Procs : s # p => pc'[s] = pc[s]
    BY <1>1, <2>2, <2>3, GotoFacts
  <2> QED BY <1>18, <2>1, <2>2, <2>3, <2>4, QuietFrame
<1>23. ASSUME NEW p \in Procs, Crash(p) PROVE QuietOK(q)'
  BY <1>2, <1>23 DEF Crash
<1>24. CASE UNCHANGED vars
  BY <1>0, <1>24, QuietFrame DEF vars
<1> QED
  BY <1>3, <1>4, <1>5, <1>6, <1>7, <1>8, <1>9, <1>10, <1>11, <1>12, <1>13, <1>14, <1>15, <1>16,
     <1>17, <1>19, <1>20, <1>21, <1>22, <1>23, <1>24
     DEF Next, RunStep, RefreshStep, ListRuns, GetRun

\* In every reachable state without a fault, QuietOK holds of every run.
LEMMA QuietInvariant == Spec => []QuietInv
<1>1. Init => QuietInv
  BY DEF Init, QuietInv, QuietOK, Procs
<1> QED BY <1>1, QuietStep, Inductive, PTL DEF Spec

\* A run that returned without anything going wrong left a row that is final or
\* that a later refresh can bring up to date.
THEOREM QuietRunsReconcilable == Spec => []QuietRunIsReconcilable
<1>1. QuietInv => QuietRunIsReconcilable
  BY DEF QuietInv, QuietOK, QuietRunIsReconcilable
<1> QED BY <1>1, QuietInvariant, PTL

\* Without a fault a foreground run leaves no container behind, and a debug run
\* only one that failed.
THEOREM ForegroundCleansUp == Spec => []ForegroundLeavesNothing
<1>1. QuietInv => ForegroundLeavesNothing
  BY DEF QuietInv, QuietOK, ForegroundLeavesNothing
<1> QED BY <1>1, QuietInvariant, PTL

-------------------------------------------------------------------------------
(* The order of a log.  AuditInv says which exit events a log may hold; that   *)
(* nothing follows them but themselves is a fact about two states.             *)

\* An append keeps the order if no other phase is appended behind an exit event.
LEMMA AppendInOrder ==
  ASSUME TypeOK, ExitEventsLast, AuditInv', NEW r \in Runs, NEW phase \in Phases,
         AppendEvent(r, phase), phase \notin ExitEvents => ExitLog(r) = {}
  PROVE  ExitEventsLast'
<1>1. CASE UNCHANGED events
  BY <1>1 DEF ExitEventsLast
<1>2. CASE events' = [events EXCEPT ![r] = Append(@, phase)]
  <2> DEFINE n == Len(events[r])
  <2>1. /\ events'[r] = Append(events[r], phase) /\ events[r] \in Seq(Phases)
        /\ \A q \in Runs : q # r => events'[q] = events[q]
    BY <1>2 DEF TypeOK
  <2>2. /\ n \in Nat /\ DOMAIN events[r] = 1..n /\ DOMAIN events'[r] = 1..(n + 1)
        /\ events'[r][n + 1] = phase
        /\ \A i \in 1..n : events'[r][i] = events[r][i]
    BY <2>1
  <2> HIDE DEF n
  <2>3. ASSUME NEW i \in DOMAIN events'[r], NEW j \in DOMAIN events'[r],
               i < j, events'[r][i] \in ExitEvents
        PROVE  events'[r][j] = events'[r][i]
    <3>1. i \in 1..n /\ events'[r][i] = events[r][i]
      BY <2>2, <2>3
    <3>2. CASE j \in 1..n
      BY <2>2, <2>3, <3>1, <3>2 DEF ExitEventsLast
    <3>3. CASE j = n + 1
      <4>1. events[r][i] \in ExitLog(r)
        BY <2>2, <2>3, <3>1 DEF ExitLog, Logged
      <4>2. phase \in ExitEvents
        BY <4>1
      <4>3. events'[r][i] \in ExitLog(r)' /\ events'[r][j] \in ExitLog(r)'
        BY <2>2, <2>3, <3>3, <4>2 DEF ExitLog, Logged
      <4> QED BY <4>3 DEF AuditInv, AuditOK
    <3> QED BY <2>2, <2>3, <3>2, <3>3
  <2>4. ASSUME NEW q \in Runs, NEW i \in DOMAIN events'[q], NEW j \in DOMAIN events'[q],
               i < j, events'[q][i] \in ExitEvents
        PROVE  events'[q][j] = events'[q][i]
    <3>1. CASE q = r
      BY <2>3, <2>4, <3>1
    <3>2. CASE q # r
      <4>1. events'[q] = events[q]
        BY <2>1, <3>2
      <4> QED BY <2>4, <4>1 DEF ExitEventsLast
    <3> QED BY <3>1, <3>2
  <2> QED BY <2>4 DEF ExitEventsLast
<1> QED BY <1>1, <1>2 DEF AppendEvent

\* Every append is in order: a `run` that still has something else to say has
\* nobody who logs its exit, and whoever logs one repeats what the log has.
LEMMA OrderStep == IInv /\ IInv' /\ ExitEventsLast /\ [Next]_vars => ExitEventsLast'
<1> SUFFICES ASSUME IInv, IInv', ExitEventsLast, [Next]_vars PROVE ExitEventsLast'
  OBVIOUS
<1>1. TypeOK /\ AuditInv /\ AuditInv' /\ OwnerInv /\ HolderInv
  BY DEF IInv
<1>2. ASSUME NEW r \in Runs, pc[r] \notin Reported PROVE ExitLog(r) = {}
  BY <1>1, <1>2 DEF AuditInv, AuditOK
<1>3. CASE UNCHANGED events
  BY <1>3 DEF ExitEventsLast
<1>4. ASSUME NEW r \in Runs, LogResolve(r) PROVE ExitEventsLast'
  BY <1>1, <1>2, <1>4, AppendInOrder DEF LogResolve, At, Reported, Phases
<1>5. ASSUME NEW r \in Runs, PreserveContainer(r) PROVE ExitEventsLast'
  BY <1>1, <1>2, <1>5, AppendInOrder DEF PreserveContainer, At, Reported, Phases
<1>6. ASSUME NEW r \in Runs, RemoveContainer(r) PROVE ExitEventsLast'
  <2>1. CASE AppendEvent(r, "cleanup")
    BY <1>1, <1>2, <1>6, <2>1, AppendInOrder DEF RemoveContainer, At, Reported, Phases
  <2> QED BY <1>3, <1>6, <2>1 DEF RemoveContainer
<1>7. ASSUME NEW r \in Runs, LogExit(r) PROVE ExitEventsLast'
  <2>1. (IF verdict[r] = "succeeded" THEN "succeeded" ELSE "failed") \in ExitEvents \cap Phases
    BY DEF ExitEvents, Phases
  <2> QED BY <1>1, <1>7, <2>1, AppendInOrder DEF LogExit
<1>8. ASSUME NEW r \in Runs, LogStartFailed(r) PROVE ExitEventsLast'
  BY <1>1, <1>2, <1>8, AppendInOrder DEF LogStartFailed, At, Reported, Phases
<1>9. ASSUME NEW r \in Runs, LogStarted(r) PROVE ExitEventsLast'
  BY <1>1, <1>2, <1>9, AppendInOrder DEF LogStarted, At, Reported, Phases
<1>10. ASSUME NEW p \in Procs, AuditExit(p) PROVE ExitEventsLast'
  <2>1. cur[p] \in Runs /\ verdict[p] \in ExitEvents \cap Phases
    <3>1. cur[p] \in Runs /\ verdict[p] = VerdictOf(ctr[cur[p]].code)
      BY <1>1, <1>10 DEF AuditExit, At, HolderInv, HolderOK
    <3> QED BY <3>1 DEF VerdictOf, ExitEvents, Phases
  <2>2. AppendEvent(cur[p], verdict[p])
    BY <1>10 DEF AuditExit
  <2> QED BY <1>1, <2>1, <2>2, AppendInOrder
<1> QED
  BY <1>3, <1>4, <1>5, <1>6, <1>7, <1>8, <1>9, <1>10
     DEF Next, RunStep, RefreshStep, vars, InsertRun, Launch, AttachReturns, RecordCompletion,
         RecordStartFailed, ReportContainer, ContainerExits, UserRemoves, ListRuns, GetRun,
         BeginRefresh, InspectAlive, InspectExited, CompleteRun, Crash

\* Whatever processes append to a run's log, and in whatever order, nothing but
\* the same verdict follows an exit event.
THEOREM ExitEventsAreLast == Spec => []ExitEventsLast
<1>1. Init => ExitEventsLast
  BY DEF Init, ExitEventsLast
<1> QED BY <1>1, OrderStep, Inductive, PTL DEF Spec

-------------------------------------------------------------------------------
(* The manager implements RunLifecycle.  Four lemmas build the abstract step *)
(* from what a concrete step does to one run; the rest picks the step.       *)

\* What the abstract state sees of run q, and that it is left alone.
Same(q) ==
  rec'[q].status = rec[q].status /\ ctr'[q].code = ctr[q].code /\ ExitLog(q)' = ExitLog(q)

LifecycleStep == [Lifecycle!Next]_(Lifecycle!vars)

\* A step readers cannot see.
LEMMA AbstractStutter ==
  ASSUME \A q \in Runs : Same(q) PROVE LifecycleStep
BY DEF Same, LifecycleStep, Lifecycle!vars, ExitLog

\* A step that inserts a row.
LEMMA AbstractRecord ==
  ASSUME NEW r \in Runs, \A q \in Runs : q # r => Same(q),
         rec[r].status = "absent", rec'[r].status = "running",
         ctr'[r].code = ctr[r].code, ExitLog(r)' = ExitLog(r)
  PROVE  LifecycleStep
<1>1. Lifecycle!Record(r)
  BY DEF Same, Lifecycle!Record, ExitLog
<1> QED BY <1>1 DEF LifecycleStep, Lifecycle!Next

\* A step that ends a container.
LEMMA AbstractContainerEnds ==
  ASSUME NEW r \in Runs, \A q \in Runs : q # r => Same(q),
         rec[r].status # "absent", rec'[r].status = rec[r].status,
         ctr[r].code = "none", ctr'[r].code \in {"zero", "nonzero"}, ExitLog(r)' = ExitLog(r)
  PROVE  LifecycleStep
<1>1. Lifecycle!ContainerEnds(r)
  BY DEF Same, Lifecycle!ContainerEnds, ExitLog
<1> QED BY <1>1 DEF LifecycleStep, Lifecycle!Next

\* A step that concludes a run.
LEMMA AbstractConclude ==
  ASSUME NEW r \in Runs, \A q \in Runs : q # r => Same(q),
         rec[r].status = "running", rec'[r].status \in Final,
         rec'[r].status = "succeeded" => ctr[r].code = "zero",
         ExitLog(r) \subseteq {Word(rec'[r].status)},
         ctr'[r].code = ctr[r].code, ExitLog(r)' = ExitLog(r)
  PROVE  LifecycleStep
<1>1. Lifecycle!Conclude(r)
  BY DEF Same, Lifecycle!Conclude, Lifecycle!Justified, Lifecycle!Word, Lifecycle!Final, Final,
         Word, ExitLog
<1> QED BY <1>1 DEF LifecycleStep, Lifecycle!Next

\* A step that logs an exit.
LEMMA AbstractAudit ==
  ASSUME NEW r \in Runs, NEW v \in ExitEvents, \A q \in Runs : q # r => Same(q),
         rec[r].status # "absent", rec'[r].status = rec[r].status,
         v = "succeeded" => ctr[r].code = "zero",
         rec[r].status # "running" => v = Word(rec[r].status),
         ExitLog(r) \subseteq {v}, ExitLog(r)' = {v}, ctr'[r].code = ctr[r].code
  PROVE  LifecycleStep
<1>1. Lifecycle!Audit(r)
  BY DEF Same, Lifecycle!Audit, Lifecycle!Justified, Lifecycle!Word, Lifecycle!Verdicts,
         ExitEvents, Word, ExitLog
<1> QED BY <1>1 DEF LifecycleStep, Lifecycle!Next

\* Every step of the manager is a step of the ledger or leaves it alone.
LEMMA StepRefines == IInv /\ [Next]_vars => LifecycleStep
<1> SUFFICES ASSUME IInv, [Next]_vars PROVE LifecycleStep
  OBVIOUS
<1> USE RunManagerAssumption
<1>1. TypeOK /\ ContainerInv /\ OwnerInv /\ RowInv /\ HolderInv /\ AuditInv
  BY DEF IInv
<1>2. ASSUME NEW r \in Runs, InsertRun(r) PROVE LifecycleStep
  <2>1. \A q \in Runs : ctr'[q].code = ctr[q].code /\ ExitLog(q)' = ExitLog(q)
    BY <1>1, <1>2, InsertRunEffect, ExitLogUnchanged
  <2>2. \A q \in Runs : q # r => Same(q)
    BY <1>1, <1>2, <2>1, InsertRunEffect DEF Same
  <2>3. CASE rec'[r] = rec[r]
    BY <2>1, <2>2, <2>3, AbstractStutter DEF Same
  <2>4. CASE rec'[r] = NewRow
    <3>1. rec[r].status = "absent"
      BY <1>1, <1>2, InsertRunEffect DEF RowInv, RowOK
    <3> QED BY <2>1, <2>2, <2>4, <3>1, AbstractRecord DEF NewRow
  <2> QED BY <1>1, <1>2, <2>3, <2>4, InsertRunEffect
<1>3. ASSUME NEW r \in Runs, LogResolve(r) PROVE LifecycleStep
  <2>1. \A q \in Runs : ExitLog(q)' = ExitLog(q)
    BY <1>1, <1>3, ExitLogFacts DEF LogResolve, Phases, ExitEvents
  <2>2. \A q \in Runs : Same(q)
    BY <1>3, <2>1 DEF LogResolve, Same
  <2> QED BY <2>2, AbstractStutter
<1>4. ASSUME NEW r \in Runs, Launch(r) PROVE LifecycleStep
  <2>1. \A q \in Runs : Same(q)
    BY <1>1, <1>4, LaunchEffect, ExitLogUnchanged DEF Same
  <2> QED BY <2>1, AbstractStutter
<1>5. ASSUME NEW r \in Runs, AttachReturns(r) PROVE LifecycleStep
  <2>1. \A q \in Runs : Same(q)
    BY <1>5, ExitLogUnchanged DEF AttachReturns, Same
  <2> QED BY <2>1, AbstractStutter
<1>6. ASSUME NEW r \in Runs, PreserveContainer(r) PROVE LifecycleStep
  <2>1. \A q \in Runs : ExitLog(q)' = ExitLog(q)
    BY <1>1, <1>6, ExitLogFacts DEF PreserveContainer, Phases, ExitEvents
  <2>2. \A q \in Runs : Same(q)
    BY <1>6, <2>1 DEF PreserveContainer, Same
  <2> QED BY <2>2, AbstractStutter
<1>7. ASSUME NEW r \in Runs, RemoveContainer(r) PROVE LifecycleStep
  <2>1. \A q \in Runs : ExitLog(q)' = ExitLog(q)
    BY <1>1, <1>7, ExitLogFacts, ExitLogUnchanged DEF RemoveContainer, Phases, ExitEvents
  <2>2. \A q \in Runs : ctr'[q].code = ctr[q].code
    <3>1. ctr' = ctr \/ \E st \in CtrState : ctr' = [ctr EXCEPT ![r].st = st]
      BY <1>7 DEF RemoveContainer, CtrState
    <3> QED BY <1>1, <3>1, ContainerFacts
  <2>3. rec' = rec
    BY <1>7 DEF RemoveContainer
  <2>4. \A q \in Runs : Same(q)
    BY <2>1, <2>2, <2>3 DEF Same
  <2> QED BY <2>4, AbstractStutter
<1>8. ASSUME NEW r \in Runs, RecordCompletion(r) PROVE LifecycleStep
  <2>1. \A q \in Runs : ctr'[q].code = ctr[q].code /\ ExitLog(q)' = ExitLog(q)
    BY <1>1, <1>8, RecordCompletionEffect, ExitLogUnchanged
  <2>2. CASE rec' = rec
    BY <2>1, <2>2, AbstractStutter DEF Same
  <2>3. CASE rec' # rec
    <3>1. \A q \in Runs : q # r => Same(q)
      BY <1>1, <1>8, <2>1, RecordCompletionEffect DEF Same
    <3>2. rec[r].status = "running" /\ rec'[r].status = verdict[r] /\ ExitLog(r) = {}
      BY <1>1, <1>8, <2>3, RecordCompletionEffect
         DEF RowInv, RowOK, NewRow, AuditInv, AuditOK, Reported
    <3>3. verdict[r] \in Final /\ (verdict[r] = "succeeded" => ctr[r].code = "zero")
      BY <1>1, <1>8, RecordCompletionEffect DEF OwnerInv, OwnerOK
    <3> QED BY <2>1, <3>1, <3>2, <3>3, AbstractConclude
  <2> QED BY <2>2, <2>3
<1>9. ASSUME NEW r \in Runs, LogExit(r) PROVE LifecycleStep
  <2> DEFINE v == IF verdict[r] = "succeeded" THEN "succeeded" ELSE "failed"
  <2>1. /\ verdict[r] \in Final /\ (verdict[r] = "succeeded" => ctr[r].code = "zero")
        /\ rec[r] = NewRow \/ rec[r].status = verdict[r]
        /\ ExitLog(r) = {}
    BY <1>1, <1>9 DEF LogExit, At, OwnerInv, OwnerOK, RowInv, RowOK, AuditInv, AuditOK, Reported
  <2>2. /\ v \in ExitEvents /\ v = Word(verdict[r])
        /\ rec[r].status # "absent" /\ (rec[r].status # "running" => v = Word(rec[r].status))
    BY <2>1 DEF ExitEvents, Word, NewRow, Final
  <2>3. AppendEvent(r, v) /\ v \in Phases /\ rec' = rec /\ ctr' = ctr
    BY <1>9 DEF LogExit, Phases
  <2> HIDE DEF v
  <2>4. /\ \A q \in Runs : q # r => ExitLog(q)' = ExitLog(q)
        /\ ExitLog(r)' \in {{}, {v}}
    BY <1>1, <2>1, <2>3, ExitLogFacts
  <2>5. \A q \in Runs : q # r => Same(q)
    BY <2>3, <2>4 DEF Same
  <2>6. CASE ExitLog(r)' = {}
    BY <2>1, <2>3, <2>5, <2>6, AbstractStutter DEF Same
  <2>7. CASE ExitLog(r)' = {v}
    <3>1. v = "succeeded" => ctr[r].code = "zero"
      BY <2>1, <2>2 DEF Word
    <3> QED BY <2>1, <2>2, <2>3, <2>5, <2>7, <3>1, AbstractAudit
  <2> QED BY <2>4, <2>6, <2>7
<1>10. ASSUME NEW r \in Runs, LogStartFailed(r) PROVE LifecycleStep
  <2>1. \A q \in Runs : ExitLog(q)' = ExitLog(q)
    BY <1>1, <1>10, ExitLogFacts DEF LogStartFailed, Phases, ExitEvents
  <2>2. \A q \in Runs : Same(q)
    BY <1>10, <2>1 DEF LogStartFailed, Same
  <2> QED BY <2>2, AbstractStutter
<1>11. ASSUME NEW r \in Runs, RecordStartFailed(r) PROVE LifecycleStep
  <2>1. \A q \in Runs : ctr'[q].code = ctr[q].code /\ ExitLog(q)' = ExitLog(q)
    BY <1>1, <1>11, RecordStartFailedEffect, ExitLogUnchanged
  <2>2. CASE rec' = rec
    BY <2>1, <2>2, AbstractStutter DEF Same
  <2>3. CASE rec' # rec
    <3>1. \A q \in Runs : q # r => Same(q)
      BY <1>1, <1>11, <2>1, RecordStartFailedEffect DEF Same
    <3>2. rec[r].status = "running" /\ rec'[r].status = "failed" /\ ExitLog(r) = {}
      BY <1>1, <1>11, <2>3, RecordStartFailedEffect
         DEF RowInv, RowOK, NewRow, AuditInv, AuditOK, Reported
    <3> QED BY <2>1, <3>1, <3>2, AbstractConclude DEF Final
  <2> QED BY <2>2, <2>3
<1>12. ASSUME NEW r \in Runs, LogStarted(r) PROVE LifecycleStep
  <2>1. \A q \in Runs : ExitLog(q)' = ExitLog(q)
    BY <1>1, <1>12, ExitLogFacts DEF LogStarted, Phases, ExitEvents
  <2>2. \A q \in Runs : Same(q)
    BY <1>12, <2>1 DEF LogStarted, Same
  <2> QED BY <2>2, AbstractStutter
<1>13. ASSUME NEW r \in Runs, ReportContainer(r) PROVE LifecycleStep
  <2>1. rec[r].status = "running"
    BY <1>1, <1>13, ReportContainerEffect DEF RowInv, RowOK, NewRow
  <2>2. \A q \in Runs : Same(q)
    BY <1>1, <1>13, <2>1, ReportContainerEffect, ExitLogUnchanged DEF Same
  <2> QED BY <2>2, AbstractStutter
<1>14. ASSUME NEW r \in Runs, ContainerExits(r) PROVE LifecycleStep
  <2>1. \A q \in Runs : ExitLog(q)' = ExitLog(q) /\ rec'[q] = rec[q]
    BY <1>14, ExitLogUnchanged DEF ContainerExits
  <2>2. \A q \in Runs : q # r => Same(q)
    BY <1>14, <2>1 DEF ContainerExits, Same
  <2>3. ctr[r].code = "none" /\ rec[r].status # "absent"
    BY <1>1, <1>14 DEF ContainerExits, ContainerInv, ContainerOK
  <2>4. ctr'[r].code \in {"zero", "nonzero"}
    BY <1>1, <1>14 DEF ContainerExits, TypeOK
  <2> QED BY <2>1, <2>2, <2>3, <2>4, AbstractContainerEnds
<1>15. ASSUME NEW r \in Runs, UserRemoves(r) PROVE LifecycleStep
  <2>1. \A q \in Runs : Same(q)
    BY <1>15, ExitLogUnchanged DEF UserRemoves, Same
  <2> QED BY <2>1, AbstractStutter
<1>16. ASSUME NEW o \in Observers, ListRuns(o) PROVE LifecycleStep
  <2>1. \A q \in Runs : Same(q)
    BY <1>16, ExitLogUnchanged DEF ListRuns, BeginRefresh, Same
  <2> QED BY <2>1, AbstractStutter
<1>17. ASSUME NEW o \in Observers, NEW r \in Runs, GetRun(o, r) PROVE LifecycleStep
  <2>1. \A q \in Runs : Same(q)
    BY <1>17, ExitLogUnchanged DEF GetRun, BeginRefresh, Same
  <2> QED BY <2>1, AbstractStutter
<1>18. ASSUME NEW p \in Procs, NEW r \in Runs, InspectAlive(p, r) PROVE LifecycleStep
  <2>1. \A q \in Runs : Same(q)
    BY <1>18, ExitLogUnchanged DEF InspectAlive, Same
  <2> QED BY <2>1, AbstractStutter
<1>19. ASSUME NEW p \in Procs, NEW r \in Runs, InspectExited(p, r) PROVE LifecycleStep
  <2>1. \A q \in Runs : Same(q)
    BY <1>19, ExitLogUnchanged DEF InspectExited, Same
  <2> QED BY <2>1, AbstractStutter
<1>20. ASSUME NEW p \in Procs, CompleteRun(p) PROVE LifecycleStep
  <2>1. /\ cur[p] \in Runs /\ Live(cur[p]) /\ ctr[cur[p]].code # "none"
        /\ verdict[p] = VerdictOf(ctr[cur[p]].code)
    BY <1>1, <1>20 DEF CompleteRun, At, HolderInv, HolderOK
  <2>2. /\ verdict[p] \in Final \cap ExitEvents /\ Word(verdict[p]) = verdict[p]
        /\ verdict[p] = "succeeded" => ctr[cur[p]].code = "zero"
    BY <2>1 DEF VerdictOf, Final, ExitEvents, Word
  <2>3. /\ rec[cur[p]].status # "absent"
        /\ rec[cur[p]].status \in Final => rec[cur[p]].status = verdict[p]
        /\ rec[cur[p]].status \notin Final => ExitLog(cur[p]) = {}
        /\ ExitLog(cur[p]) \subseteq {verdict[p]}
    BY <1>1, <2>1, <2>2 DEF RowInv, RowOK, ContainerInv, ContainerOK, AuditInv, AuditOK, Live, StartFailed
  <2>4. \A q \in Runs : ctr'[q].code = ctr[q].code /\ ExitLog(q)' = ExitLog(q)
    BY <1>1, <1>20, CompleteRunEffect, ExitLogUnchanged
  <2>5. CASE rec' = rec
    BY <2>4, <2>5, AbstractStutter DEF Same
  <2>6. CASE rec' # rec
    <3>1. rec'[cur[p]].status = verdict[p] /\ \A q \in Runs : q # cur[p] => Same(q)
      BY <1>1, <1>20, <2>4, <2>6, CompleteRunEffect DEF Same
    <3>2. CASE rec[cur[p]].status \in Final
      BY <2>3, <2>4, <3>1, <3>2, AbstractStutter DEF Same
    <3>3. CASE rec[cur[p]].status \notin Final
      <4>1. rec[cur[p]].status = "running"
        BY <1>1, <2>1, <2>3, <3>3 DEF TypeOK, Row
      <4> QED BY <2>1, <2>2, <2>3, <2>4, <3>1, <4>1, AbstractConclude
    <3> QED BY <3>2, <3>3
  <2> QED BY <2>5, <2>6
<1>21. ASSUME NEW p \in Procs, AuditExit(p) PROVE LifecycleStep
  <2>1. PICK c \in Runs : c = cur[p]
    BY <1>1, <1>21 DEF AuditExit, At, HolderInv, HolderOK
  <2>2. /\ Live(c) /\ ctr[c].code # "none"
        /\ verdict[p] = VerdictOf(ctr[c].code) /\ rec[c].status \in Final
    BY <1>1, <1>21, <2>1 DEF AuditExit, At, HolderInv, HolderOK
  <2>3. /\ verdict[p] \in Final \cap ExitEvents /\ Word(verdict[p]) = verdict[p]
        /\ verdict[p] = "succeeded" => ctr[c].code = "zero"
    BY <2>2 DEF VerdictOf, Final, ExitEvents, Word
  <2>4. rec[c].status = verdict[p] /\ rec[c].status # "absent"
    BY <1>1, <2>2 DEF RowInv, RowOK, ContainerInv, ContainerOK
  <2>5. ExitLog(c) \subseteq {verdict[p]}
    BY <1>1, <2>3, <2>4 DEF AuditInv, AuditOK
  <2>6. AppendEvent(c, verdict[p]) /\ verdict[p] \in Phases /\ rec' = rec /\ ctr' = ctr
    BY <1>21, <2>1, <2>3 DEF AuditExit, Phases, ExitEvents
  <2>7. /\ \A q \in Runs : q # c => ExitLog(q)' = ExitLog(q)
        /\ ExitLog(c)' \in {ExitLog(c), ExitLog(c) \cup {verdict[p]}}
    BY <1>1, <2>6, ExitLogFacts
  <2>8. \A q \in Runs : q # c => Same(q)
    BY <2>6, <2>7 DEF Same
  <2>9. CASE ExitLog(c)' = ExitLog(c)
    BY <2>6, <2>8, <2>9, AbstractStutter DEF Same
  <2>10. CASE ExitLog(c)' = ExitLog(c) \cup {verdict[p]}
    <3>1. ExitLog(c)' = {verdict[p]}
      BY <2>5, <2>10
    <3> QED BY <2>3, <2>4, <2>5, <2>6, <2>8, <3>1, AbstractAudit
  <2> QED BY <2>7, <2>9, <2>10
<1>22. ASSUME NEW p \in Procs, Crash(p) PROVE LifecycleStep
  <2>1. \A q \in Runs : Same(q)
    BY <1>22, ExitLogUnchanged DEF Crash, Same
  <2> QED BY <2>1, AbstractStutter
<1>23. CASE UNCHANGED vars
  BY <1>23, ExitLogUnchanged, AbstractStutter DEF vars, Same
<1> QED
  BY <1>2, <1>3, <1>4, <1>5, <1>6, <1>7, <1>8, <1>9, <1>10, <1>11, <1>12, <1>13, <1>14, <1>15,
     <1>16, <1>17, <1>18, <1>19, <1>20, <1>21, <1>22, <1>23
     DEF Next, RunStep, RefreshStep

\* The ledger readers see, RunLifecycle, is what the processes, with all their
\* interleavings, crashes and lost writes, implement.
THEOREM Refinement == Spec => ImplementsLifecycle
<1>1. Init => Lifecycle!Init
  BY DEF Init, Lifecycle!Init, Logged
<1>2. IInv /\ [Next]_vars => [Lifecycle!Next]_(Lifecycle!vars)
  BY StepRefines DEF LifecycleStep
<1> QED BY <1>1, <1>2, Inductive, PTL DEF Spec, ImplementsLifecycle, Lifecycle!Spec
===============================================================================
