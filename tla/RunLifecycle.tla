----------------------------- MODULE RunLifecycle -----------------------------
(***************************************************************************)
(* What the run ledger promises to whoever reads it (ps, inspect, logs, the *)
(* dashboard, an auditor): a run is recorded once, its status leaves        *)
(* "running" at most once and never comes back, it is "succeeded" only if   *)
(* the agent's container really exited with code zero, and the exit lines   *)
(* of the audit log never contradict the ledger or each other.  Processes,  *)
(* crashes, stale reads and write failures are all absent here: module      *)
(* RunManager, which has them, implements this specification.               *)
(***************************************************************************)
CONSTANT Runs

VARIABLES
  status,   \* status[r]: the status column of the run's row
  outcome,  \* outcome[r]: how the run's container ended, if it did
  audit     \* audit[r]: the verdicts of the exit events in the audit log

vars == <<status, outcome, audit>>

Verdicts == {"succeeded", "failed"}
Final    == {"succeeded", "failed", "failed_paused"}

\* The word the audit log uses for a final status: a paused run is logged as failed.
Word(s) == IF s = "succeeded" THEN "succeeded" ELSE "failed"

\* A verdict the container's end justifies.
Justified(r, v) == v = "succeeded" => outcome[r] = "zero"

Init ==
  /\ status  = [r \in Runs |-> "absent"]
  /\ outcome = [r \in Runs |-> "none"]
  /\ audit   = [r \in Runs |-> {}]

Record(r) ==
  /\ status[r] = "absent"
  /\ status' = [status EXCEPT ![r] = "running"]
  /\ UNCHANGED <<outcome, audit>>

ContainerEnds(r) ==
  /\ status[r] # "absent"
  /\ outcome[r] = "none"
  /\ \E c \in {"zero", "nonzero"} : outcome' = [outcome EXCEPT ![r] = c]
  /\ UNCHANGED <<status, audit>>

Conclude(r) ==
  /\ status[r] = "running"
  /\ \E s \in Final :
       /\ Justified(r, Word(s))
       /\ audit[r] \subseteq {Word(s)}
       /\ status' = [status EXCEPT ![r] = s]
  /\ UNCHANGED <<outcome, audit>>

\* The exit event; the row may still say "running" when its update was lost.
Audit(r) ==
  /\ status[r] # "absent"
  /\ \E v \in Verdicts :
       /\ Justified(r, v)
       /\ status[r] # "running" => v = Word(status[r])
       /\ audit[r] \subseteq {v}
       /\ audit' = [audit EXCEPT ![r] = {v}]
  /\ UNCHANGED <<status, outcome>>

Next == \E r \in Runs : Record(r) \/ ContainerEnds(r) \/ Conclude(r) \/ Audit(r)

Spec == Init /\ [][Next]_vars
===============================================================================
