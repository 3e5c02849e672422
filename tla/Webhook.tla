-------------------------------- MODULE Webhook --------------------------------
(***************************************************************************)
(* pkg/webhook: clients that deliver one event each with SendWithRetry, and *)
(* the server that appends every accepted event to the audit file and calls *)
(* the handler registered for its type, one goroutine per request.  The     *)
(* network loses requests and answers, a client gives up after a timeout    *)
(* while its request lives on, and `webhook server` exits on a signal       *)
(* without waiting for the requests it is handling.                         *)
(*                                                                         *)
(* A definition Name_Slip is a deliberately wrong variant of Name, used to  *)
(* show that some property depends on that part of the code.                *)
(*                                                                         *)
(* Abstracted: bodies, time stamps, the wait between attempts, malformed    *)
(* requests (Client sends none).  An audit line is written at once or not   *)
(* at all.  The server has an audit file.                                   *)
(***************************************************************************)
EXTENDS Naturals, Sequences, SequencesExt

CONSTANTS
  Clients,     \* each sends one event
  Names,       \* ids a caller gives its event
  Instants,    \* what time.Now().UnixNano() reads where Send makes an id up
  NoID,        \* an event's id before it has one
  Kinds,       \* what sorts of client and event there are (Kind)
  MaxRetries,  \* SendWithRetry's maxRetries
  MaxFaults    \* bound on server exits and lost audit lines

\* keyed: the client has the server's key; name: the id the caller gave the event, if
\* any; handled: a handler is registered for its type ("*" is a type like others).
Kind == [keyed : BOOLEAN, name : Names \cup {NoID}, handled : BOOLEAN]

ASSUME WebhookAssumption ==
  /\ MaxRetries \in Nat /\ MaxFaults \in Nat
  /\ NoID \notin Names \cup Instants
  /\ Kinds \subseteq Kind

VARIABLES
  kind,     \* kind[c]: what sort of client and event this is, fixed at the start
  pc,       \* pc[c]: where SendWithRetry stands
  attempt,  \* attempt[c]: the attempt it is at, from 0
  report,   \* report[c]: the DeliveryReport it returned ...
  reported, \* ... and the EventID in it
  id,       \* id[c][n]: the id of the event that attempt n sent
  req,      \* req[c][n]: the request of attempt n
  up,       \* is the server running?
  audit,    \* the events file: whose event each line holds
  called,   \* the attempts a handler was called for ...
  rejected, \* ... and those for which it returned an error
  faults    \* server exits and lost audit lines so far

client == <<pc, attempt, report, reported, id>>
server == <<up, audit, called, rejected>>
vars   == <<kind, client, req, server, faults>>

Attempts == 0..MaxRetries

ReqState == {"unsent", "sent", "append", "dispatch", "accepted", "unauthorized", "closed"}

TypeOK ==
  /\ kind \in [Clients -> Kinds]
  /\ pc \in [Clients -> {"ready", "waiting", "backoff", "done"}]
  /\ attempt \in [Clients -> Attempts]
  /\ report \in [Clients -> {"none", "success", "failure", "cancelled"}]
  /\ reported \in [Clients -> Names \cup Instants \cup {NoID}]
  /\ id \in [Clients -> [Attempts -> Names \cup Instants \cup {NoID}]]
  /\ req \in [Clients -> [Attempts -> ReqState]]
  /\ up \in BOOLEAN
  /\ audit \in Seq(Clients \X Attempts)
  /\ called \subseteq Clients \X Attempts /\ rejected \subseteq called
  /\ faults \in 0..MaxFaults

Init ==
  /\ kind \in [Clients -> Kinds]
  /\ pc = [c \in Clients |-> "ready"]
  /\ attempt = [c \in Clients |-> 0]
  /\ report = [c \in Clients |-> "none"] /\ reported = [c \in Clients |-> NoID]
  /\ id = [c \in Clients |-> [n \in Attempts |-> NoID]]
  /\ req = [c \in Clients |-> [n \in Attempts |-> "unsent"]]
  /\ up = TRUE
  /\ audit = <<>> /\ called = {} /\ rejected = {}
  /\ faults = 0

-------------------------------------------------------------------------------
(* Helpers *)

Fault == faults < MaxFaults /\ faults' = faults + 1

\* findEventByID: the first line with that id.
FindEventByID(evid) == SelectInSeq(audit, LAMBDA line : id[line[1]][line[2]] = evid)

Move(c, n, from, to) == req[c][n] = from /\ req' = [req EXCEPT ![c][n] = to]

\* The report SendWithRetry returns is the one Send made of its last attempt.
Return_FirstID(c, result) ==
  /\ pc' = [pc EXCEPT ![c] = "done"]
  /\ report' = [report EXCEPT ![c] = result]
  /\ reported' = [reported EXCEPT ![c] = id[c][0]]
Return(c, result) ==
  /\ pc' = [pc EXCEPT ![c] = "done"]
  /\ report' = [report EXCEPT ![c] = result]
  /\ reported' = [reported EXCEPT ![c] = id[c][attempt[c]]]

\* The attempt failed: wait for the next one, or report the failure of the last.
Backoff(c) == pc' = [pc EXCEPT ![c] = "backoff"] /\ UNCHANGED <<report, reported>>

Fail_OneMore(c) ==
  /\ IF attempt[c] <= MaxRetries THEN Backoff(c) ELSE Return(c, "failure")
  /\ UNCHANGED <<attempt, id>>
Fail(c) ==
  /\ IF attempt[c] < MaxRetries THEN Backoff(c) ELSE Return(c, "failure")
  /\ UNCHANGED <<attempt, id>>

-------------------------------------------------------------------------------
(* The client *)

\* The id of an attempt: the caller's own, or the clock's reading.  The wait since
\* the client's last attempt keeps its own readings apart; another client may read
\* the same.
NewID(c) ==
  IF kind[c].name # NoID THEN {kind[c].name} ELSE Instants \ {id[c][m] : m \in Attempts}

Send(c) ==
  /\ pc[c] = "ready"
  /\ Move(c, attempt[c], "unsent", "sent")
  /\ \E e \in NewID(c) : id' = [id EXCEPT ![c][attempt[c]] = e]
  /\ pc' = [pc EXCEPT ![c] = "waiting"]
  /\ UNCHANGED <<kind, attempt, report, reported, server, faults>>

\* An answer arrives on the attempt's own connection.
Receive_AnyAttempt(c) ==
  /\ pc[c] = "waiting"
  /\ \E n \in Attempts : req[c][n] = "accepted"
  /\ Return(c, "success")
  /\ UNCHANGED <<kind, attempt, id, req, server, faults>>
Receive(c) ==
  /\ pc[c] = "waiting"
  /\ \/ req[c][attempt[c]] = "accepted" /\ Return(c, "success") /\ UNCHANGED <<attempt, id>>
     \/ req[c][attempt[c]] = "unauthorized" /\ Fail(c)
  /\ UNCHANGED <<kind, req, server, faults>>

\* The client's timeout, a refused connection, a lost request or answer.
Timeout(c) ==
  /\ pc[c] = "waiting"
  /\ Fail(c)
  /\ UNCHANGED <<kind, req, server, faults>>

Retry_SameAttempt(c) ==
  /\ pc[c] = "backoff"
  /\ pc' = [pc EXCEPT ![c] = "waiting"]
  /\ UNCHANGED <<kind, attempt, report, reported, id, req, server, faults>>
Retry(c) ==
  /\ pc[c] = "backoff"
  /\ attempt' = [attempt EXCEPT ![c] = @ + 1]
  /\ pc' = [pc EXCEPT ![c] = "ready"]
  /\ UNCHANGED <<kind, report, reported, id, req, server, faults>>

\* The caller's context ends while the client waits to retry.
Cancel(c) ==
  /\ pc[c] = "backoff"
  /\ Return(c, "cancelled")
  /\ UNCHANGED <<kind, attempt, id, req, server, faults>>

-------------------------------------------------------------------------------
(* The server: one goroutine for each request *)

\* handleEvents up to dispatchEvent.
Accept(c, n) ==
  /\ up
  /\ Move(c, n, "sent", IF kind[c].keyed THEN "append" ELSE "unauthorized")
  /\ UNCHANGED <<kind, client, server, faults>>

\* appendEvent; dispatchEvent drops its error.
AppendEvent_Repeats(c, n) ==
  /\ req[c][n] = "append"
  /\ Len(audit) < 4 /\ audit' = Append(audit, <<c, n>>)
  /\ req' \in {req, [req EXCEPT ![c][n] = "dispatch"]}
  /\ UNCHANGED <<kind, client, up, called, rejected, faults>>
AppendEvent(c, n) ==
  /\ Move(c, n, "append", "dispatch")
  /\ \/ audit' = Append(audit, <<c, n>>) /\ UNCHANGED faults
     \/ Fault /\ UNCHANGED audit
  /\ UNCHANGED <<kind, client, up, called, rejected>>

\* The handler, if there is one for the type, may fail; the answer is 202 in any
\* case and is sent when it has returned.
Dispatch(c, n) ==
  /\ Move(c, n, "dispatch", "accepted")
  /\ IF kind[c].handled
     THEN called' = called \cup {<<c, n>>} /\ rejected' \in {rejected, rejected \cup {<<c, n>>}}
     ELSE UNCHANGED <<called, rejected>>
  /\ UNCHANGED <<kind, client, up, audit, faults>>

\* A signal: Start returns at once and the process ends with its goroutines.  What is
\* still on its way may reach the next server, or nobody.
Exit ==
  /\ up /\ Fault
  /\ up' = FALSE
  /\ req' = [c \in Clients |-> [n \in Attempts |->
               IF req[c][n] \in {"append", "dispatch"} THEN "closed" ELSE req[c][n]]]
  /\ UNCHANGED <<kind, client, audit, called, rejected>>

Restart ==
  /\ ~up /\ up' = TRUE
  /\ UNCHANGED <<kind, client, req, audit, called, rejected, faults>>

-------------------------------------------------------------------------------

Client(c) == Send(c) \/ Receive(c) \/ Timeout(c) \/ Retry(c) \/ Cancel(c)
Handle(c, n) == Accept(c, n) \/ AppendEvent(c, n) \/ Dispatch(c, n)

Next ==
  \/ \E c \in Clients : Client(c) \/ \E n \in Attempts : Handle(c, n)
  \/ Exit \/ Restart

\* A client is a running goroutine with a timer for each wait, so it goes on; the
\* server and the network owe it nothing.
Spec == Init /\ [][Next]_vars /\ \A c \in Clients : WF_vars(Client(c))

-------------------------------------------------------------------------------
(* Safety and liveness *)

Lost(c, n) == ~\E i \in 1..Len(audit) : audit[i] = <<c, n>>

\* A success is about this very attempt: the server took it, wrote it down unless
\* the write failed, and ran its handler; an answer to an attempt the client had
\* given up never counts.
SuccessIsDelivered ==
  \A c \in Clients : report[c] = "success" =>
    /\ kind[c].keyed
    /\ kind[c].handled => <<c, attempt[c]>> \in called
    /\ Lost(c, attempt[c]) => faults > 0

\* The id in a success report finds a line of the audit file unless its own was lost:
\* a line of that event when no other client sent one with that id, and the line of
\* the very attempt when the id was made up, though earlier attempts left theirs.
ReportedIDFindsEvent ==
  \A c \in Clients : report[c] = "success" /\ ~Lost(c, attempt[c]) =>
    LET i == FindEventByID(reported[c])
    IN  /\ i # 0
        /\ (\A d \in Clients \ {c}, m \in Attempts : id[d][m] # reported[c]) =>
             /\ audit[i][1] = c
             /\ kind[c].name = NoID => audit[i][2] = attempt[c]

\* Retries duplicate an event at most once per attempt made, and only attempts
\* that were accepted leave a line or reach a handler.
OneLinePerAttempt ==
  /\ \A i, j \in 1..Len(audit) : audit[i] = audit[j] => i = j
  /\ \A i \in 1..Len(audit) :
       LET c == audit[i][1] IN kind[c].keyed /\ audit[i][2] <= attempt[c]
  /\ \A c \in Clients, n \in Attempts : <<c, n>> \in called /\ Lost(c, n) => faults > 0

\* Every delivery ends with a report, whatever the server and the network do.
EveryoneReports == \A c \in Clients : <>(report[c] # "none")

-------------------------------------------------------------------------------
(* What the repository says and the code does not do *)

\* "return ... an error to reject with an HTTP error response": an event its
\* handler rejected is not reported as delivered.
ErrorsReject ==
  \A c \in Clients : report[c] = "success" => <<c, attempt[c]>> \notin rejected
===============================================================================
