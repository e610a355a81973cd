--------------------------- MODULE CommissionSchedule ---------------------------
(***************************************************************************)
(* The daily close as the scheduler triggers it.  Its message carries no   *)
(* period, and the worker that receives it has stores of its own, in       *)
(* memory: whatever it closes, it changes no row that CommissionPeriods    *)
(* models.                                                                 *)
(***************************************************************************)
EXTENDS CommissionPeriods

CONSTANT CloseTick   \* the tick of the EAT day at which the scheduler fires

VARIABLE workerClosed   \* when the worker closed each day, in its own close_runs

ScheduledInit == Init /\ workerClosed = [d \in Days |-> Null]

\* Without a period in the message the worker closes the day it is.
ScheduledClose ==
  /\ EatTick(now) = CloseTick
  /\ workerClosed' = [workerClosed EXCEPT ![EatDate(now)] = now]
  /\ UNCHANGED vars

ScheduledNext == (Next /\ UNCHANGED workerClosed) \/ ScheduledClose

ScheduledSpec == ScheduledInit /\ [][ScheduledNext]_<<vars, workerClosed>>

\* A scheduled close of a day comes after every settlement of that day, so that it covers
\* the day whose sales it pays ("Prefer yesterday EAT close for nightly schedule when
\* period omitted").
ScheduledCloseCoversDay ==
  \A s \in Sales, d \in Days :
    /\ payment[s].state = "paid" /\ EatDate(payment[s].settled_at) = d
    /\ workerClosed[d] # Null
    => payment[s].settled_at <= workerClosed[d]

================================================================================
