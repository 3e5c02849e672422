----------------------------- MODULE WebhookProofs -----------------------------
(***************************************************************************)
(* What a webhook delivery report is worth, for any number of clients,      *)
(* retries, server exits and lost audit lines: a success is about the very  *)
(* attempt the client was waiting for, and its id finds that event's line   *)
(* where no other client sent an event with the same id.                    *)
(***************************************************************************)
EXTENDS Webhook, SequenceTheorems, WellFoundedInduction, TLAPS

Lines == Clients \X Attempts

\* The request of an attempt, the audit file and the handlers agree: an attempt that
\* got past appendEvent has its line or a fault to blame, and one that was accepted
\* has been handled.
RequestOK(c, n) ==
  /\ req[c][n] # "unsent" => n <= attempt[c]
  /\ req[c][n] \in {"append", "dispatch", "accepted"} => kind[c].keyed
  /\ req[c][n] \in {"dispatch", "accepted"} => ~Lost(c, n) \/ faults > 0
  /\ req[c][n] = "accepted" /\ kind[c].handled => <<c, n>> \in called
  /\ <<c, n>> \in called => req[c][n] = "accepted"

RequestInv == \A c \in Clients, n \in Attempts : RequestOK(c, n)

\* A line is there once, and its attempt is past the step that writes it.
LineInv ==
  /\ \A i, j \in 1..Len(audit) : audit[i] = audit[j] => i = j
  /\ \A i \in 1..Len(audit) :
       /\ kind[audit[i][1]].keyed
       /\ req[audit[i][1]][audit[i][2]] \in {"dispatch", "accepted", "closed"}

\* What a client knows: another attempt is left when it waits for one, and a success
\* is the answer to its last attempt.
ReportInv ==
  \A c \in Clients :
    /\ pc[c] = "backoff" => attempt[c] < MaxRetries
    /\ report[c] = "success" => pc[c] = "done" /\ req[c][attempt[c]] = "accepted"

\* Ids: a request on its way has one, a client makes up none twice, and a success
\* carries the id of the attempt it is about.
IDInv ==
  \A c \in Clients :
    /\ \A n \in Attempts : req[c][n] # "unsent" => id[c][n] # NoID
    /\ \A n, m \in Attempts :
         kind[c].name = NoID /\ id[c][n] = id[c][m] /\ id[c][n] # NoID => n = m
    /\ report[c] = "success" => reported[c] = id[c][attempt[c]]

IInv == TypeOK /\ RequestInv /\ LineInv /\ ReportInv /\ IDInv

-------------------------------------------------------------------------------
(* Sequences and minima *)

\* A non-empty set of natural numbers has a least element, and Min is one.
LEMMA MinIsLeast ==
  ASSUME NEW S \in SUBSET Nat, S # {}
  PROVE  Min(S) \in S /\ \A y \in S : Min(S) <= y
<1> DEFINE R == {ss \in Nat \X Nat : ss[1] < ss[2]}
<1>1. IsWellFoundedOn(R, Nat)
  BY NatLessThanWellFounded DEF OpToRel
<1>2. PICK x \in S : \A y \in S : <<y, x>> \notin R
  <2> HIDE DEF R
  <2> QED BY <1>1, WFMin
<1>3. \A y \in S : x <= y
  <2> SUFFICES ASSUME NEW y \in S PROVE x <= y
    OBVIOUS
  <2>1. <<y, x>> \notin R /\ x \in Nat /\ y \in Nat
    BY <1>2
  <2> QED BY <2>1
<1> QED BY <1>3 DEF Min

\* What an appended line changes.
LEMMA AppendLine ==
  ASSUME TypeOK, NEW c \in Clients, NEW n \in Attempts, audit' = Append(audit, <<c, n>>)
  PROVE  /\ audit' \in Seq(Lines) /\ Len(audit) \in Nat /\ Len(audit') = Len(audit) + 1
         /\ \A i \in 1..Len(audit) : audit'[i] = audit[i]
         /\ audit'[Len(audit) + 1] = <<c, n>>
         /\ ~Lost(c, n)'
         /\ \A d \in Clients, m \in Attempts : ~Lost(d, m) => ~Lost(d, m)'
<1>1. audit \in Seq(Lines) /\ <<c, n>> \in Lines
  BY DEF TypeOK, Lines
<1>2. /\ audit' \in Seq(Lines) /\ Len(audit') = Len(audit) + 1
      /\ \A i \in 1..Len(audit) : audit'[i] = audit[i]
      /\ audit'[Len(audit) + 1] = <<c, n>>
  BY <1>1, AppendProperties
<1>3. Len(audit) \in Nat
  BY <1>1, LenProperties
<1>4. Len(audit) + 1 \in 1..Len(audit')
  BY <1>2, <1>3
<1>5. ~Lost(c, n)'
  BY <1>2, <1>4 DEF Lost
<1>6. ASSUME NEW d \in Clients, NEW m \in Attempts, ~Lost(d, m) PROVE ~Lost(d, m)'
  <2>1. PICK i \in 1..Len(audit) : audit[i] = <<d, m>>
    BY <1>6 DEF Lost
  <2>2. i \in 1..Len(audit') /\ audit'[i] = <<d, m>>
    BY <2>1, <1>2, <1>3
  <2> QED BY <2>2 DEF Lost
<1> QED BY <1>2, <1>3, <1>5, <1>6

\* A line is one of an attempt of a client.
LEMMA LineType ==
  ASSUME TypeOK, NEW i \in 1..Len(audit)
  PROVE  /\ audit[i][1] \in Clients /\ audit[i][2] \in Attempts
         /\ audit[i] = <<audit[i][1], audit[i][2]>>
<1>1. audit[i] \in Clients \X Attempts
  BY ElementOfSeq DEF TypeOK
<1> QED BY <1>1

-------------------------------------------------------------------------------
(* Each part of the invariant, step by step *)

LEMMA FaultType == TypeOK /\ Fault => faults' \in 0..MaxFaults /\ faults' > 0
  BY WebhookAssumption DEF TypeOK, Fault

\* A failed attempt leaves the client waiting for the next or reporting the failure.
LEMMA FailType ==
  ASSUME TypeOK, NEW c \in Clients, Fail(c)
  PROVE  /\ pc' \in [Clients -> {"ready", "waiting", "backoff", "done"}]
         /\ report' \in [Clients -> {"none", "success", "failure", "cancelled"}]
         /\ reported' \in [Clients -> Names \cup Instants \cup {NoID}]
         /\ UNCHANGED <<attempt, id>>
<1>1. CASE Backoff(c)
  BY <1>1 DEF Fail, Backoff, TypeOK
<1>2. CASE Return(c, "failure")
  BY <1>2 DEF Fail, Return, TypeOK
<1> QED BY <1>1, <1>2 DEF Fail

LEMMA TypeStep == TypeOK /\ ReportInv /\ [Next]_vars => TypeOK'
<1> SUFFICES ASSUME TypeOK, ReportInv, [Next]_vars PROVE TypeOK'
  OBVIOUS
<1> USE WebhookAssumption DEF TypeOK, client, server
<1>1. ASSUME NEW c \in Clients, Send(c) PROVE TypeOK'
  <2>1. kind[c].name \in Names \cup {NoID}
    BY DEF Kind
  <2>2. NewID(c) \subseteq Names \cup Instants
    BY <2>1 DEF NewID
  <2>3. id' \in [Clients -> [Attempts -> Names \cup Instants \cup {NoID}]]
    BY <1>1, <2>2 DEF Send
  <2> QED BY <1>1, <2>3 DEF Send, Move, ReqState
<1>2. ASSUME NEW c \in Clients, Receive(c) PROVE TypeOK'
  <2>1. CASE Return(c, "success") /\ UNCHANGED <<attempt, id>>
    BY <1>2, <2>1 DEF Receive, Return
  <2>2. CASE Fail(c)
    BY <1>2, <2>2, FailType DEF Receive
  <2> QED BY <1>2, <2>1, <2>2 DEF Receive
<1>3. ASSUME NEW c \in Clients, Timeout(c) PROVE TypeOK'
  BY <1>3, FailType DEF Timeout
<1>4. ASSUME NEW c \in Clients, Retry(c) PROVE TypeOK'
  <2>1. attempt[c] + 1 \in Attempts
    BY <1>4 DEF Retry, ReportInv, Attempts
  <2> QED BY <2>1, <1>4 DEF Retry
<1>5. ASSUME NEW c \in Clients, Cancel(c) PROVE TypeOK'
  BY <1>5 DEF Cancel, Return
<1>6. ASSUME NEW c \in Clients, NEW n \in Attempts, Accept(c, n) PROVE TypeOK'
  BY <1>6 DEF Accept, Move, ReqState
<1>7. ASSUME NEW c \in Clients, NEW n \in Attempts, AppendEvent(c, n) PROVE TypeOK'
  <2>1. audit' \in Seq(Lines) /\ faults' \in 0..MaxFaults
    <3>1. CASE audit' = Append(audit, <<c, n>>) /\ UNCHANGED faults
      BY <3>1, AppendLine
    <3>2. CASE Fault /\ UNCHANGED audit
      BY <3>2, FaultType DEF Lines
    <3> QED BY <1>7, <3>1, <3>2 DEF AppendEvent
  <2> QED BY <1>7, <2>1 DEF AppendEvent, Move, ReqState, Lines
<1>8. ASSUME NEW c \in Clients, NEW n \in Attempts, Dispatch(c, n) PROVE TypeOK'
  <2>1. called' \subseteq Clients \X Attempts /\ rejected' \subseteq called'
    BY <1>8 DEF Dispatch
  <2> QED BY <1>8, <2>1 DEF Dispatch, Move, ReqState
<1>9. CASE Exit
  BY <1>9, FaultType DEF Exit, ReqState
<1>10. CASE Restart
  BY <1>10 DEF Restart
<1>11. CASE UNCHANGED vars
  BY <1>11 DEF vars
<1> QED
  BY <1>1, <1>2, <1>3, <1>4, <1>5, <1>6, <1>7, <1>8, <1>9, <1>10, <1>11
     DEF Next, Client, Handle

\* The server's side: each step moves one request one step on, or closes some.
LEMMA RequestStep == TypeOK /\ RequestInv /\ [Next]_vars => RequestInv'
<1> SUFFICES ASSUME TypeOK, RequestInv, [Next]_vars,
                    NEW d \in Clients, NEW m \in Attempts
             PROVE  RequestOK(d, m)'
  BY DEF RequestInv
<1>0. RequestOK(d, m) /\ attempt[d] \in Nat /\ m \in Nat /\ faults \in Nat
  BY WebhookAssumption DEF RequestInv, TypeOK, Attempts
<1> USE <1>0 DEF TypeOK, RequestOK, client, server
<1>1. ASSUME NEW c \in Clients, Send(c) PROVE RequestOK(d, m)'
  BY <1>1 DEF Send, Move, Lost
<1>2. ASSUME NEW c \in Clients, Receive(c) PROVE RequestOK(d, m)'
  BY <1>2 DEF Receive, Fail, Backoff, Return, Lost
<1>3. ASSUME NEW c \in Clients, Timeout(c) PROVE RequestOK(d, m)'
  BY <1>3 DEF Timeout, Fail, Backoff, Return, Lost
<1>4. ASSUME NEW c \in Clients, Retry(c) PROVE RequestOK(d, m)'
  BY <1>4 DEF Retry, Lost
<1>5. ASSUME NEW c \in Clients, Cancel(c) PROVE RequestOK(d, m)'
  BY <1>5 DEF Cancel, Return, Lost
<1>6. ASSUME NEW c \in Clients, NEW n \in Attempts, Accept(c, n) PROVE RequestOK(d, m)'
  BY <1>6 DEF Accept, Move, Lost
<1>7. ASSUME NEW c \in Clients, NEW n \in Attempts, AppendEvent(c, n) PROVE RequestOK(d, m)'
  <2>1. /\ c = d /\ n = m => ~Lost(d, m)' \/ faults' > 0
        /\ ~Lost(d, m) => ~Lost(d, m)'
        /\ faults > 0 => faults' > 0
    <3>1. CASE audit' = Append(audit, <<c, n>>) /\ UNCHANGED faults
      BY <3>1, AppendLine
    <3>2. CASE Fault /\ UNCHANGED audit
      BY <3>2, FaultType DEF Lost
    <3> QED BY <1>7, <3>1, <3>2 DEF AppendEvent
  <2> QED BY <1>7, <2>1 DEF AppendEvent, Move
<1>8. ASSUME NEW c \in Clients, NEW n \in Attempts, Dispatch(c, n) PROVE RequestOK(d, m)'
  <2>1. Lost(d, m)' = Lost(d, m)
    BY <1>8 DEF Dispatch, Lost
  <2>2. called' = (IF kind[c].handled THEN called \cup {<<c, n>>} ELSE called)
    BY <1>8 DEF Dispatch
  <2>3. /\ UNCHANGED <<kind, attempt, faults>>
        /\ req[c][n] = "dispatch" /\ req' = [req EXCEPT ![c][n] = "accepted"]
    BY <1>8 DEF Dispatch, Move
  <2> QED BY <2>1, <2>2, <2>3
<1>9. CASE Exit
  <2>1. Lost(d, m)' = Lost(d, m) /\ faults' > 0
    BY <1>9, FaultType DEF Exit, Lost
  <2> QED BY <1>9, <2>1 DEF Exit
<1>10. CASE Restart
  BY <1>10 DEF Restart, Lost
<1>11. CASE UNCHANGED vars
  BY <1>11 DEF vars, Lost
<1> QED
  BY <1>1, <1>2, <1>3, <1>4, <1>5, <1>6, <1>7, <1>8, <1>9, <1>10, <1>11
     DEF Next, Client, Handle

\* A line's request never goes back to the step that writes it.
LEMMA LinesKept ==
  ASSUME TypeOK, LineInv, UNCHANGED <<kind, audit>>,
         \A c \in Clients, n \in Attempts :
           req[c][n] \in {"dispatch", "accepted", "closed"} =>
             req'[c][n] \in {"dispatch", "accepted", "closed"}
  PROVE  LineInv'
  BY LineType DEF LineInv

LEMMA LineStep == TypeOK /\ RequestInv /\ LineInv /\ [Next]_vars => LineInv'
<1> SUFFICES ASSUME TypeOK, RequestInv, LineInv, [Next]_vars PROVE LineInv'
  OBVIOUS
<1>1. ASSUME UNCHANGED <<kind, req, audit>> PROVE LineInv'
  BY <1>1 DEF LineInv
<1>2. ASSUME NEW c \in Clients, Send(c) PROVE LineInv'
  BY <1>2, LinesKept DEF Send, Move, server, TypeOK
<1>3. ASSUME NEW c \in Clients, Receive(c) \/ Timeout(c) \/ Retry(c) \/ Cancel(c) PROVE LineInv'
  BY <1>1, <1>3 DEF Receive, Timeout, Retry, Cancel, server
<1>4. ASSUME NEW c \in Clients, NEW n \in Attempts, Accept(c, n) PROVE LineInv'
  BY <1>4, LinesKept DEF Accept, Move, server, TypeOK
<1>5. ASSUME NEW c \in Clients, NEW n \in Attempts, AppendEvent(c, n) PROVE LineInv'
  <2>1. /\ UNCHANGED kind
        /\ req[c][n] = "append" /\ req' = [req EXCEPT ![c][n] = "dispatch"]
    BY <1>5 DEF AppendEvent, Move
  <2>2. CASE UNCHANGED audit
    BY <2>1, <2>2, LinesKept DEF TypeOK
  <2>3. CASE audit' = Append(audit, <<c, n>>)
    <3> DEFINE k == Len(audit) + 1
    <3>1. /\ Len(audit) \in Nat /\ Len(audit') = k
          /\ \A i \in 1..Len(audit) : audit'[i] = audit[i]
          /\ audit'[k] = <<c, n>>
      BY <2>3, AppendLine
    <3>2. \A i \in 1..Len(audit) : audit[i] # <<c, n>>
      BY <2>1 DEF LineInv
    <3>3. \A i \in 1..k : i = k \/ i \in 1..Len(audit)
      BY <3>1
    <3>4. \A i, j \in 1..k : audit'[i] = audit'[j] => i = j
      <4> HIDE DEF k
      <4> QED BY <3>1, <3>2, <3>3 DEF LineInv
    <3>5. kind[c].keyed
      BY <2>1 DEF RequestInv, RequestOK
    <3>6. ASSUME NEW i \in 1..k
          PROVE  /\ kind[audit'[i][1]].keyed
                 /\ req'[audit'[i][1]][audit'[i][2]] \in {"dispatch", "accepted", "closed"}
      <4>1. CASE i = k
        BY <4>1, <3>1, <3>5, <2>1 DEF TypeOK
      <4>2. CASE i \in 1..Len(audit)
        <5>1. /\ audit'[i] = audit[i] /\ kind[audit[i][1]].keyed
              /\ req[audit[i][1]][audit[i][2]] \in {"dispatch", "accepted", "closed"}
          BY <4>2, <3>1 DEF LineInv
        <5> QED BY <5>1, <4>2, <2>1, LineType DEF TypeOK
      <4> QED BY <4>1, <4>2, <3>3
    <3> QED BY <2>1, <3>1, <3>4, <3>6 DEF LineInv
  <2> QED BY <1>5, <2>2, <2>3 DEF AppendEvent
<1>6. ASSUME NEW c \in Clients, NEW n \in Attempts, Dispatch(c, n) PROVE LineInv'
  BY <1>6, LinesKept DEF Dispatch, Move, TypeOK
<1>7. CASE Exit
  BY <1>7, LinesKept DEF Exit, TypeOK
<1>8. CASE Restart
  BY <1>1, <1>8 DEF Restart
<1>9. CASE UNCHANGED vars
  BY <1>1, <1>9 DEF vars, server
<1> QED
  BY <1>2, <1>3, <1>4, <1>5, <1>6, <1>7, <1>8, <1>9 DEF Next, Client, Handle

\* What a client knows stays true: an accepted request is never moved again.
LEMMA ReportStep == TypeOK /\ ReportInv /\ [Next]_vars => ReportInv'
<1> SUFFICES ASSUME TypeOK, ReportInv, [Next]_vars PROVE ReportInv'
  OBVIOUS
<1> USE DEF ReportInv, TypeOK, client, server
<1>1. ASSUME NEW c \in Clients, Send(c) PROVE ReportInv'
  BY <1>1 DEF Send, Move
<1>2. ASSUME NEW c \in Clients, Receive(c) PROVE ReportInv'
  BY <1>2 DEF Receive, Fail, Backoff, Return
<1>3. ASSUME NEW c \in Clients, Timeout(c) PROVE ReportInv'
  BY <1>3 DEF Timeout, Fail, Backoff, Return
<1>4. ASSUME NEW c \in Clients, Retry(c) PROVE ReportInv'
  BY <1>4 DEF Retry
<1>5. ASSUME NEW c \in Clients, Cancel(c) PROVE ReportInv'
  BY <1>5 DEF Cancel, Return
<1>6. ASSUME NEW c \in Clients, NEW n \in Attempts, Handle(c, n) PROVE ReportInv'
  <2>1. UNCHANGED client
    BY <1>6 DEF Handle, Accept, AppendEvent, Dispatch
  <2>2. req[c][n] # "accepted" /\ \E to \in ReqState : req' = [req EXCEPT ![c][n] = to]
    BY <1>6 DEF Handle, Accept, AppendEvent, Dispatch, Move, ReqState
  <2>3. \A d \in Clients, m \in Attempts : req[d][m] = "accepted" => req'[d][m] = "accepted"
    BY <2>2
  <2> QED BY <2>1, <2>3
<1>7. CASE Exit
  BY <1>7 DEF Exit
<1>8. CASE Restart
  BY <1>8 DEF Restart
<1>9. CASE UNCHANGED vars
  BY <1>9 DEF vars
<1> QED BY <1>1, <1>2, <1>3, <1>4, <1>5, <1>6, <1>7, <1>8, <1>9 DEF Next, Client

\* Ids are chosen once and kept: only Send picks one, never one the client has used.
LEMMA IDStep == TypeOK /\ ReportInv /\ IDInv /\ [Next]_vars => IDInv'
<1> SUFFICES ASSUME TypeOK, ReportInv, IDInv, [Next]_vars PROVE IDInv'
  OBVIOUS
<1> USE DEF client, server
<1>0. ASSUME UNCHANGED <<kind, id, attempt, report, reported>>,
             \A c \in Clients, n \in Attempts :
               req'[c][n] # "unsent" => req[c][n] # "unsent"
      PROVE  IDInv'
  BY <1>0 DEF IDInv
<1>1. ASSUME NEW c \in Clients, Send(c) PROVE IDInv'
  <2>1. PICK e \in NewID(c) : id' = [id EXCEPT ![c][attempt[c]] = e]
    BY <1>1 DEF Send
  <2>2. /\ UNCHANGED <<kind, attempt, report, reported>>
        /\ req' = [req EXCEPT ![c][attempt[c]] = "sent"] /\ pc[c] = "ready"
    BY <1>1 DEF Send, Move
  <2>3. e # NoID
    BY <2>1, WebhookAssumption DEF NewID, TypeOK, Kind
  <2>4. kind[c].name = NoID => \A m \in Attempts : id[c][m] # e
    BY <2>1 DEF NewID
  <2>5. ASSUME NEW d \in Clients, NEW n \in Attempts, req'[d][n] # "unsent"
        PROVE  id'[d][n] # NoID
    BY <2>1, <2>2, <2>3, <2>5 DEF IDInv, TypeOK
  <2>6. ASSUME NEW d \in Clients, NEW n \in Attempts, NEW m \in Attempts,
               kind[d].name = NoID, id'[d][n] = id'[d][m], id'[d][n] # NoID
        PROVE  n = m
    BY <2>1, <2>4, <2>6 DEF IDInv, TypeOK
  <2>7. ASSUME NEW d \in Clients, report[d] = "success"
        PROVE  reported[d] = id'[d][attempt[d]]
    BY <2>1, <2>2, <2>7 DEF IDInv, ReportInv, TypeOK
  <2> QED BY <2>2, <2>5, <2>6, <2>7 DEF IDInv
<1>2. ASSUME NEW c \in Clients, Receive(c) PROVE IDInv'
  BY <1>2 DEF Receive, Fail, Backoff, Return, IDInv, TypeOK
<1>3. ASSUME NEW c \in Clients, Timeout(c) PROVE IDInv'
  BY <1>3 DEF Timeout, Fail, Backoff, Return, IDInv, TypeOK
<1>4. ASSUME NEW c \in Clients, Retry(c) PROVE IDInv'
  BY <1>4 DEF Retry, IDInv, ReportInv, TypeOK
<1>5. ASSUME NEW c \in Clients, Cancel(c) PROVE IDInv'
  BY <1>5 DEF Cancel, Return, IDInv, TypeOK
<1>6. ASSUME NEW c \in Clients, NEW n \in Attempts, Handle(c, n) PROVE IDInv'
  <2>1. UNCHANGED <<kind, id, attempt, report, reported>>
    BY <1>6 DEF Handle, Accept, AppendEvent, Dispatch
  <2>2. req[c][n] # "unsent" /\ \E to \in ReqState : req' = [req EXCEPT ![c][n] = to]
    BY <1>6 DEF Handle, Accept, AppendEvent, Dispatch, Move, ReqState
  <2>3. \A d \in Clients, m \in Attempts : req'[d][m] # "unsent" => req[d][m] # "unsent"
    BY <2>2 DEF TypeOK
  <2> QED BY <1>0, <2>1, <2>3
<1>7. CASE Exit
  BY <1>0, <1>7 DEF Exit
<1>8. CASE Restart
  BY <1>0, <1>8 DEF Restart
<1>9. CASE UNCHANGED vars
  BY <1>0, <1>9 DEF vars
<1> QED BY <1>1, <1>2, <1>3, <1>4, <1>5, <1>6, <1>7, <1>8, <1>9 DEF Next, Client

-------------------------------------------------------------------------------
(* The theorems *)

\* The invariant holds at the start and is inductive, whatever clients are fair.
THEOREM Inductive == Spec => []IInv
<1>1. Init => IInv
  <2> SUFFICES ASSUME Init PROVE IInv
    OBVIOUS
  <2>1. 0 \in Attempts /\ faults \in 0..MaxFaults
    BY WebhookAssumption DEF Init, Attempts
  <2>2. Len(audit) = 0 /\ audit \in Seq(Clients \X Attempts)
    BY EmptySeq DEF Init
  <2>3. TypeOK
    BY <2>1, <2>2 DEF Init, TypeOK, ReqState
  <2>4. RequestInv /\ ReportInv /\ IDInv
    BY DEF Init, RequestInv, RequestOK, ReportInv, IDInv
  <2>5. LineInv
    BY <2>2 DEF LineInv
  <2> QED BY <2>3, <2>4, <2>5 DEF IInv
<1>2. IInv /\ [Next]_vars => IInv'
  BY TypeStep, RequestStep, LineStep, ReportStep, IDStep DEF IInv
<1> QED BY <1>1, <1>2, PTL DEF Spec

\* Every variable keeps its type; no client makes more attempts than it may.
THEOREM TypeCorrect == Spec => []TypeOK
<1>1. IInv => TypeOK
  BY DEF IInv
<1> QED BY Inductive, <1>1, PTL

\* A reported success is the server's answer to the client's last attempt: it was
\* authorized, handled, and written down unless the write failed.
THEOREM SuccessDelivered == Spec => []SuccessIsDelivered
<1>1. IInv => SuccessIsDelivered
  <2> SUFFICES ASSUME IInv, NEW c \in Clients, report[c] = "success"
               PROVE  /\ kind[c].keyed
                      /\ kind[c].handled => <<c, attempt[c]>> \in called
                      /\ Lost(c, attempt[c]) => faults > 0
    BY DEF SuccessIsDelivered
  <2>1. attempt[c] \in Attempts /\ req[c][attempt[c]] = "accepted"
    BY DEF IInv, TypeOK, ReportInv
  <2> QED BY <2>1 DEF IInv, RequestInv, RequestOK
<1> QED BY Inductive, <1>1, PTL

\* No attempt has two lines, and only authorized attempts that were made have one.
THEOREM LinesAreAttempts == Spec => []OneLinePerAttempt
<1>1. IInv => OneLinePerAttempt
  <2> SUFFICES ASSUME IInv PROVE OneLinePerAttempt
    OBVIOUS
  <2>1. ASSUME NEW i \in 1..Len(audit)
        PROVE  kind[audit[i][1]].keyed /\ audit[i][2] <= attempt[audit[i][1]]
    <3>1. audit[i][1] \in Clients /\ audit[i][2] \in Attempts
      BY LineType DEF IInv
    <3> QED BY <3>1 DEF IInv, LineInv, RequestInv, RequestOK
  <2>2. ASSUME NEW c \in Clients, NEW n \in Attempts, <<c, n>> \in called, Lost(c, n)
        PROVE  faults > 0
    BY <2>2 DEF IInv, RequestInv, RequestOK
  <2>3. \A i, j \in 1..Len(audit) : audit[i] = audit[j] => i = j
    BY DEF IInv, LineInv
  <2> QED BY <2>1, <2>2, <2>3 DEF OneLinePerAttempt
<1> QED BY Inductive, <1>1, PTL

\* The first line with an attempt's id is there when the attempt left one; it is the
\* client's own unless another sent the id too, and the attempt's own when the client
\* made the id up.
LEMMA FirstLineFound ==
  ASSUME TypeOK, LineInv, IDInv, NEW c \in Clients, NEW n \in Attempts, ~Lost(c, n)
  PROVE  LET i == FindEventByID(id[c][n])
         IN  /\ i # 0
             /\ (\A d \in Clients \ {c}, m \in Attempts : id[d][m] # id[c][n]) =>
                  audit[i][1] = c /\ (kind[c].name = NoID => audit[i][2] = n)
<1> DEFINE S == {i \in 1..Len(audit) : id[audit[i][1]][audit[i][2]] = id[c][n]}
<1>1. Len(audit) \in Nat
  BY LenProperties DEF TypeOK
<1>2. PICK k \in 1..Len(audit) : audit[k] = <<c, n>>
  BY DEF Lost
<1>3. k \in S /\ S \subseteq Nat
  BY <1>1, <1>2
<1>4. FindEventByID(id[c][n]) = Min(S)
  BY <1>3 DEF FindEventByID, SelectInSeq
<1>5. Min(S) \in S
  <2> HIDE DEF S
  <2> QED BY <1>3, MinIsLeast
<1>6. PICK i \in 1..Len(audit) : i = Min(S) /\ id[audit[i][1]][audit[i][2]] = id[c][n]
  BY <1>5
<1>7. audit[i][1] \in Clients /\ audit[i][2] \in Attempts
  BY LineType
<1>8. id[c][n] # NoID
  BY <1>2 DEF LineInv, IDInv
<1>9. ASSUME \A d \in Clients \ {c}, m \in Attempts : id[d][m] # id[c][n]
      PROVE  audit[i][1] = c /\ (kind[c].name = NoID => audit[i][2] = n)
  <2>1. audit[i][1] = c
    BY <1>6, <1>7, <1>9
  <2> QED BY <2>1, <1>6, <1>7, <1>8 DEF IDInv
<1>10. (\A d \in Clients \ {c}, m \in Attempts : id[d][m] # id[c][n]) =>
         audit[i][1] = c /\ (kind[c].name = NoID => audit[i][2] = n)
  BY <1>9
<1>11. i # 0
  BY <1>1
<1>12. FindEventByID(id[c][n]) = i
  <2> HIDE DEF S
  <2> QED BY <1>4, <1>6
<1> QED BY <1>10, <1>11, <1>12

\* The id in a success report finds a line of the audit file, though clients may have
\* sent the same id and earlier attempts have left lines of their own: one of that
\* event if no other client sent the id, the attempt's own if Send made it up.
THEOREM ReportsFindEvents == Spec => []ReportedIDFindsEvent
<1>1. IInv => ReportedIDFindsEvent
  <2> SUFFICES ASSUME IInv, NEW c \in Clients, report[c] = "success", ~Lost(c, attempt[c])
               PROVE  LET i == FindEventByID(reported[c])
                      IN  /\ i # 0
                          /\ (\A d \in Clients \ {c}, m \in Attempts :
                                id[d][m] # reported[c]) =>
                               /\ audit[i][1] = c
                               /\ kind[c].name = NoID => audit[i][2] = attempt[c]
    BY DEF ReportedIDFindsEvent
  <2>1. TypeOK /\ LineInv /\ IDInv /\ attempt[c] \in Attempts
    BY DEF IInv, TypeOK
  <2>2. reported[c] = id[c][attempt[c]]
    BY <2>1 DEF IDInv
  <2> QED BY <2>1, <2>2, FirstLineFound
<1> QED BY Inductive, <1>1, PTL
===============================================================================
