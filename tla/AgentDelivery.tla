--------------------------- MODULE AgentDelivery ---------------------------
(***************************************************************************)
(* How the commands of one run reach the specialist workers: the outbox    *)
(* publishes each dispatched command to the stream of its capability, a    *)
(* consumer of the group reads the entry or claims it back when it stayed  *)
(* pending for too long, processes it in one or two transactions and then  *)
(* acknowledges it (workers/agent_tabular_runtime.py,                      *)
(* workers/agent_specialist_runtime.py, queues/redis_streams.py).          *)
(*                                                                         *)
(* The run itself is AgentRun: its actions are the transactions that the   *)
(* phases of a delivery commit.  A process may die at every point.  What   *)
(* it did not commit is gone and the entry stays in the pending list.      *)
(***************************************************************************)
EXTENDS AgentRun

CONSTANTS
    Consumers,      \* the worker processes of the consumer groups
    FanInMayRaise,  \* TRUE: the fan-in of a failing last command may raise
    MaxCrashes      \* bound on the deaths of workers and publishers

ASSUME DeliveryAssumption ==
    /\ FanInMayRaise \in BOOLEAN
    /\ MaxCrashes \in Nat

VARIABLES
    entry,    \* command -> its stream entry in the consumer group
    marked,   \* command -> published_at of its outbox row is set
    phase,    \* consumer -> what it is doing
    holds,    \* consumer -> the command of its current entry
    seen,     \* consumer -> what its clock said of the deadline
    crashes   \* how many processes died

workers == <<phase, holds, seen, crashes>>
delivery == <<entry, marked, workers>>
allVars == <<vars, delivery>>

EntryStates == {"none", "new", "pending", "acked"}
Phases == {"idle", "execute", "fail", "ack"}

-----------------------------------------------------------------------------
DeliveryInit ==
    /\ Init
    /\ entry = [c \in Commands |-> "none"]
    /\ marked = [c \in Commands |-> FALSE]
    /\ phase = [w \in Consumers |-> "idle"]
    /\ holds = [w \in Consumers |-> NoCommand]
    /\ seen = [w \in Consumers |-> "ahead"]
    /\ crashes = 0

\* The steps of the run that no delivery takes.
RunStep ==
    /\ \/ \E cs \in SUBSET Commands : \E req \in SUBSET cs : Admit(cs, req)
       \/ Deadline
       \/ Cancel
       \/ Expire
    /\ UNCHANGED delivery

(***************************************************************************)
(* publish_due_outbox_once.  A publisher locks the rows that are due and   *)
(* commits them after XADD.  Nobody but another publisher reads the mark,  *)
(* and the lock keeps that one away, so both are one step here, unless the *)
(* publisher dies in between: then the row is still due, and the next one  *)
(* finds the entry by its key, whatever became of it, and only marks the   *)
(* row.  When Redis fails the row stays due.                               *)
(***************************************************************************)
Due(c) == cmd[c] # "absent" /\ ~marked[c]

\* xadd_once
AddOnce(c) ==
    entry' = IF entry[c] = "none" THEN [entry EXCEPT ![c] = "new"] ELSE entry

Publish(c) ==
    /\ Due(c)
    /\ AddOnce(c)
    /\ marked' = [marked EXCEPT ![c] = TRUE]
    /\ UNCHANGED <<vars, workers>>

PublisherDies(c) ==
    /\ Due(c)
    /\ crashes < MaxCrashes
    /\ crashes' = crashes + 1
    /\ AddOnce(c)
    /\ UNCHANGED <<vars, marked, phase, holds, seen>>

-----------------------------------------------------------------------------
\* Faulty variant: pending entries are not claimed.
TakeNew(w, c) ==
    /\ phase[w] = "idle"
    /\ entry[c] = "new"
    /\ entry' = [entry EXCEPT ![c] = "pending"]
    /\ phase' = [phase EXCEPT ![w] = "execute"]
    /\ holds' = [holds EXCEPT ![w] = c]
    /\ seen' = [seen EXCEPT ![w] = deadline]
    /\ UNCHANGED <<vars, marked, crashes>>

(***************************************************************************)
(* run_once: claim_pending, or else read_group.  Pending entries can be    *)
(* claimed from a consumer that is still at work: the 30 seconds count     *)
(* from the delivery, and nothing prolongs them.                           *)
(***************************************************************************)
Take(w, c) ==
    /\ phase[w] = "idle"
    /\ entry[c] \in {"new", "pending"}
    /\ entry' = [entry EXCEPT ![c] = "pending"]
    /\ phase' = [phase EXCEPT ![w] = "execute"]
    /\ holds' = [holds EXCEPT ![w] = c]
    /\ seen' = [seen EXCEPT ![w] = deadline]
    /\ UNCHANGED <<vars, marked, crashes>>

MoveTo(w, p) ==
    /\ phase' = [phase EXCEPT ![w] = p]
    /\ UNCHANGED <<entry, marked, holds, seen, crashes>>

\* The worker is between two deliveries and remembers nothing.
Forget(w) ==
    /\ phase' = [phase EXCEPT ![w] = "idle"]
    /\ holds' = [holds EXCEPT ![w] = NoCommand]
    /\ seen' = [seen EXCEPT ![w] = "ahead"]

\* The specialist worked and its transaction commits.
Commit(w) ==
    /\ phase[w] = "execute"
    /\ seen[w] = "ahead"
    /\ Execute(holds[w])
    /\ MoveTo(w, "ack")

\* The command completed in an earlier delivery: its artifact is returned.
Replay(w) ==
    /\ phase[w] = "execute"
    /\ cmd[holds[w]] = "completed"
    /\ MoveTo(w, "ack")
    /\ UNCHANGED vars

\* Faulty variants: the exception is swallowed and the entry acknowledged;
\* the session is not rolled back.
RaiseAndAck(w) ==
    /\ phase[w] = "execute"
    /\ cmd[holds[w]] # "completed"
    /\ MoveTo(w, "ack")
    /\ UNCHANGED vars

RaiseWithoutRollback(w) ==
    /\ phase[w] = "execute"
    /\ cmd[holds[w]] = "queued"
    /\ cmd' = [cmd EXCEPT ![holds[w]] = "running"]
    /\ MoveTo(w, "fail")
    /\ UNCHANGED <<status, deadline, required, planReq, result, log>>

\* A guard, the specialist or the replay of a completed command raises:
\* rollback, which drops the row locks.  process_typed_specialist_command
\* replays inside of its try, so a completed command gets here as well.
Raise(w) ==
    /\ phase[w] = "execute"
    /\ MoveTo(w, "fail")
    /\ UNCHANGED vars

\* Faulty variant: a failure after the deadline is not recorded.
CommitTimelyFailure(w) ==
    /\ phase[w] = "fail"
    /\ seen[w] = "ahead"
    /\ FailInTime(holds[w])
    /\ MoveTo(w, "ack")

\* The except branch: fail_specialist_command in a second transaction.
CommitFailure(w) ==
    /\ phase[w] = "fail"
    /\ \/ seen[w] = "ahead" /\ FailInTime(holds[w])
       \/ seen[w] = "passed" /\ FailLate(holds[w])
    /\ MoveTo(w, "ack")

\* A failed command of a failed run: fail_specialist_command returns early.
FailureKnown(w) ==
    /\ phase[w] = "fail"
    /\ status = "failed"
    /\ cmd[holds[w]] = "failed"
    /\ MoveTo(w, "ack")
    /\ UNCHANGED vars

\* fail_specialist_command, or the fan-in it calls, raises.
FailureRaises(c, clock) ==
    \/ status \in {"completed", "cancelled", "degraded"}
    \/ status = "failed" /\ cmd[c] # "failed"
    \/ status = "timed_out" /\ clock = "ahead"
    \/ /\ FanInMayRaise
       /\ clock = "ahead"
       /\ Live
       /\ c \notin required
       /\ In(Failed(c), Unfinished) = {}

\* Nothing catches it: the process ends and is started again.
Abort(w) ==
    /\ phase[w] = "fail"
    /\ FailureRaises(holds[w], seen[w])
    /\ Forget(w)
    /\ UNCHANGED <<vars, entry, marked, crashes>>

Ack(w) ==
    /\ phase[w] = "ack"
    /\ entry' = [entry EXCEPT ![holds[w]] = "acked"]
    /\ Forget(w)
    /\ UNCHANGED <<vars, marked, crashes>>

\* The process dies between two commits and is started again.
Crash(w) ==
    /\ phase[w] # "idle"
    /\ crashes < MaxCrashes
    /\ crashes' = crashes + 1
    /\ Forget(w)
    /\ UNCHANGED <<vars, entry, marked>>

-----------------------------------------------------------------------------
Process(w) ==
    \/ Commit(w)
    \/ Replay(w)
    \/ Raise(w)
    \/ CommitFailure(w)
    \/ FailureKnown(w)
    \/ Abort(w)
    \/ Ack(w)

DeliveryNext ==
    \/ RunStep
    \/ \E c \in Commands : Publish(c) \/ PublisherDies(c)
    \/ \E w \in Consumers, c \in Commands : Take(w, c)
    \/ \E w \in Consumers : Process(w) \/ Crash(w)

DeliverySpec == DeliveryInit /\ [][DeliveryNext]_allVars

(***************************************************************************)
(* The publisher and the workers are loops that systemd restarts, and the  *)
(* clock runs.  An idle worker takes every entry in the end: it reads new  *)
(* entries in the order of the stream, and a pending entry comes back once *)
(* in 30 seconds only, which leaves time for the others.                   *)
(***************************************************************************)
Fairness ==
    /\ WF_allVars(Deadline /\ UNCHANGED delivery)
    /\ \A c \in Commands : WF_allVars(Publish(c))
    /\ \A w \in Consumers : WF_allVars(Process(w))
    /\ \A c \in Commands : SF_allVars(\E w \in Consumers : Take(w, c))

FairDeliverySpec == DeliverySpec /\ Fairness

-----------------------------------------------------------------------------
(***************************************************************************)
(* An entry leaves the pending list only after its outcome is durable:     *)
(* whatever dies or is claimed twice, an acknowledged command is completed *)
(* or failed.  (Acknowledging before the commit, or after a rollback whose *)
(* failure was not recorded, would lose the command for good.)             *)
(***************************************************************************)
AckedIsDurable ==
    \A c \in Commands :
        entry[c] = "acked" => cmd[c] \in {"completed", "failed"}

(***************************************************************************)
(* Every dispatched command is completed or failed in the end, although    *)
(* its deliveries raise, die, are claimed twice or outlive the run.        *)
(***************************************************************************)
EveryCommandSettles ==
    \A c \in Commands :
        (cmd[c] # "absent") ~> (cmd[c] \in {"completed", "failed"})

(***************************************************************************)
(* Every admitted run reaches a terminal status in the end: no order of    *)
(* failures, crashes and redeliveries leaves it without a closing step.    *)
(***************************************************************************)
EveryRunTerminates == (status # "none") ~> (status \in Terminal)

=============================================================================
