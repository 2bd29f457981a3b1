------------------------------ MODULE AgentRun ------------------------------
(***************************************************************************)
(* The durable control plane of one agent run: the run row, its commands,  *)
(* its event log, and the transactions of services/agent_orchestrator.py   *)
(* and services/agent_event_runtime.py that change them.  One action is    *)
(* one committed database transaction.  Every transaction locks the run    *)
(* row before it writes, so transactions on one run are serial; the lease  *)
(* they take is cleared before each commit and is therefore not a variable *)
(* here; nothing is said of what happens inside a transaction.             *)
(*                                                                         *)
(* A delivery that raises is rolled back and leaves no trace: it is not a  *)
(* step.  What follows a rollback is a step of its own, one of the Fail*   *)
(* actions, and it may come at any later time: the row locks were dropped  *)
(* in between.  This module lets it come for every dispatched command;     *)
(* AgentDelivery says which deliveries can really produce it.              *)
(***************************************************************************)
EXTENDS Integers, Sequences, FiniteSets

CONSTANTS
    Commands,         \* identities of agent_commands rows
    NoCommand,        \* command_id of an event of the run itself
    FanIns,           \* what fan_in may yield when the last command completes
    FailureFanIns,    \* what fan_in may yield when the last command fails
    ObjectiveRuns,    \* TRUE: a Stage 12 run, whose commands serve objectives:
                      \* all admitted ones are planned as required, others
                      \* are unlocked by the completion of these
    SupervisorActs,   \* TRUE: cancel_agent_run and expire_agent_run are called
    MaxFailures       \* bound on the recorded failures of one command

FanInForms == {"none", "composed", "grounded"}

ASSUME CommandsAssumption == NoCommand \notin Commands
ASSUME FanInAssumption ==
    /\ FanIns \subseteq FanInForms
    /\ FailureFanIns \subseteq FanInForms
ASSUME SwitchAssumption ==
    /\ ObjectiveRuns \in BOOLEAN
    /\ SupervisorActs \in BOOLEAN
ASSUME BoundAssumption == MaxFailures \in Nat

VARIABLES
    status,    \* agent_workflow_runs.status, "none" before the row exists
    deadline,  \* whether deadline_at of the run is ahead or has passed
    cmd,       \* command -> agent_commands.status, "absent" without a row
    required,  \* the commands whose plan node or objective is required
    planReq,   \* required_command_ids of the newest checkpoint with a plan
    result,    \* kind of artifact safe_result_ref points at
    log        \* agent_events in the order of their sequence numbers

vars == <<status, deadline, cmd, required, planReq, result, log>>

-----------------------------------------------------------------------------
LiveStatuses == {"queued", "running"}
Terminal == {"completed", "degraded", "failed", "cancelled", "timed_out"}
RunStatuses == LiveStatuses \cup Terminal \cup {"none"}
CommandStatuses == {"absent", "queued", "running", "completed", "failed"}
Unfinished == {"queued", "running"}
Results == {"none", "specialist", "composed", "grounded"}

TerminalEvent(s) ==
    CASE s = "completed" -> "run.completed"
      [] s = "degraded"  -> "run.degraded"
      [] s = "failed"    -> "run.failed"
      [] s = "cancelled" -> "run.cancelled"
      [] s = "timed_out" -> "run.timed_out"

TerminalEvents ==
    {"run.completed", "run.degraded", "run.failed", "run.cancelled",
     "run.timed_out"}
ProgressEvents ==
    {"run.accepted", "command.dispatched", "agent.started",
     "agent.completed", "agent.failed", "result.available"}
EventTypes == TerminalEvents \cup ProgressEvents

Event(t, c) == [type |-> t, cmd |-> c]
Events == [type : EventTypes, cmd : Commands \cup {NoCommand}]

\* The commands a status vector puts in one of the given statuses.
In(vector, statuses) == {c \in Commands : vector[c] \in statuses}

Dispatched == {c \in Commands : cmd[c] # "absent"}
Live == status \in LiveStatuses

\* How often the failure of c was recorded; redelivery repeats the record.
Failures(c) ==
    Cardinality({i \in DOMAIN log : log[i] = Event("agent.failed", c)})

-----------------------------------------------------------------------------
Init ==
    /\ status = "none"
    /\ deadline = "ahead"
    /\ cmd = [c \in Commands |-> "absent"]
    /\ required = {}
    /\ planReq = {}
    /\ result = "none"
    /\ log = <<>>

(***************************************************************************)
(* create_agent_run followed by dispatch_specialist_command(s) in the same *)
(* transaction.  The dispatched events of the commands stand as one event. *)
(***************************************************************************)
Admit(cs, req) ==
    /\ status = "none"
    /\ cs # {}
    /\ status' = "queued"
    /\ cmd' = [c \in Commands |-> IF c \in cs THEN "queued" ELSE "absent"]
    /\ required' = req
    /\ planReq' = IF ObjectiveRuns THEN cs ELSE req
    /\ log' = <<Event("run.accepted", NoCommand),
                Event("command.dispatched", NoCommand)>>
    /\ UNCHANGED <<deadline, result>>

\* The clock passes deadline_at.
Deadline ==
    /\ status # "none"
    /\ deadline = "ahead"
    /\ deadline' = "passed"
    /\ UNCHANGED <<status, cmd, required, planReq, result, log>>

\* What a transaction may believe of the deadline: it compares deadline_at
\* with a clock it read when the delivery started, before the specialist
\* worked and before it waited for the row lock.
Readings == IF deadline = "ahead" THEN {"ahead"} ELSE {"ahead", "passed"}

-----------------------------------------------------------------------------
\* Faulty variant: the status of the command is not looked at.
ExecutableAgain(c) ==
    /\ cmd[c] # "absent"
    /\ "ahead" \in Readings
    /\ Live

(***************************************************************************)
(* execute_read_only_specialist.  Its guards are shared: the command is    *)
(* unfinished, its deadline is ahead and the run can be claimed.           *)
(***************************************************************************)
Executable(c) ==
    /\ cmd[c] \in Unfinished
    /\ "ahead" \in Readings
    /\ Live

\* Faulty variant: an unlocked command starts in the first status of a run.
CompletedAccepting(c, new) ==
    [d \in Commands |-> IF d = c THEN "completed"
                        ELSE IF d \in new THEN "accepted" ELSE cmd[d]]

\* The status vector when c completed and the commands of new were unlocked
\* by it (dispatch_unlocked_specialist_command).
Completed(c, new) ==
    [d \in Commands |-> IF d = c THEN "completed"
                        ELSE IF d \in new THEN "queued" ELSE cmd[d]]

Executed(c) == <<Event("agent.started", c), Event("agent.completed", c)>>

\* c completes, others are still unfinished: the run goes on.
ExecuteAndWait(c, new, req) ==
    /\ Executable(c)
    /\ new \subseteq Commands \ Dispatched
    /\ new # {} => ObjectiveRuns
    /\ req \subseteq new
    /\ In(Completed(c, new), Unfinished) # {}
    /\ status' = "running"
    /\ cmd' = Completed(c, new)
    /\ required' = required \cup req
    /\ log' = log \o Executed(c)
    /\ UNCHANGED <<deadline, planReq, result>>

\* The events that close a run: the grounded answer, then the terminal event.
Closing(f, s, c) ==
    IF f = "grounded"
    THEN <<Event("result.available", c), Event(TerminalEvent(s), c)>>
    ELSE <<Event(TerminalEvent(s), c)>>

ResultOf(f) == IF f = "none" THEN "specialist" ELSE f

\* Faulty variant: an optional failure does not degrade the run.
OutcomeWithoutDegrading(failed) ==
    IF failed \cap planReq # {} THEN "failed" ELSE "completed"

\* The terminal status once nothing is unfinished and the failed are known.
Outcome(failed) ==
    IF failed = {} THEN "completed"
    ELSE IF failed \cap planReq # {} THEN "failed" ELSE "degraded"

\* c completes and nothing is unfinished: fan-in and the terminal state.
ExecuteAndClose(c, f) ==
    LET after == Completed(c, {})
        outcome == Outcome(In(after, {"failed"}))
    IN  /\ Executable(c)
        /\ f \in FanIns
        /\ In(after, Unfinished) = {}
        /\ status' = outcome
        /\ cmd' = after
        /\ result' = IF outcome = "failed" THEN result ELSE ResultOf(f)
        /\ log' = log \o (Executed(c) \o Closing(f, outcome, c))
        /\ UNCHANGED <<deadline, required, planReq>>

-----------------------------------------------------------------------------
\* Faulty variant: the status of the run is not looked at.
FailableAfterTheEnd(c) ==
    /\ cmd[c] # "absent"
    /\ "ahead" \in Readings
    /\ Failures(c) < MaxFailures

(***************************************************************************)
(* fail_specialist_command.  It looks at the run, not at the status of the *)
(* command: a command that is already failed or even completed is failed   *)
(* (again).  It returns early for a failed command of a failed run and     *)
(* raises for the other terminal statuses: neither is a step.              *)
(***************************************************************************)
Failable(c) ==
    /\ cmd[c] # "absent"
    /\ "ahead" \in Readings
    /\ Live
    /\ Failures(c) < MaxFailures

Failed(c) == [cmd EXCEPT ![c] = "failed"]

\* A required command fails: every unfinished sibling fails with it.
FailRequired(c) ==
    /\ Failable(c)
    /\ c \in required
    /\ status' = "failed"
    /\ cmd' = [d \in Commands |->
                  IF d = c \/ cmd[d] \in Unfinished THEN "failed" ELSE cmd[d]]
    /\ planReq' = required
    /\ log' = log \o <<Event("agent.failed", c), Event("run.failed", c)>>
    /\ UNCHANGED <<deadline, required, result>>

\* Faulty variant: a required failure waits for the siblings as well.
FailAnyAndWait(c) ==
    /\ Failable(c)
    /\ In(Failed(c), Unfinished) # {}
    /\ status' = "running"
    /\ cmd' = Failed(c)
    /\ planReq' = required
    /\ log' = Append(log, Event("agent.failed", c))
    /\ UNCHANGED <<deadline, required, result>>

\* An optional command fails and there is nothing to close the run with yet:
\* siblings are unfinished, or no command completed and no fan-in is given.
FailOptionalAndWait(c) ==
    /\ Failable(c)
    /\ c \notin required
    /\ \/ In(Failed(c), Unfinished) # {}
       \/ /\ In(Failed(c), {"completed"}) = {}
          /\ "none" \in FailureFanIns
    /\ status' = "running"
    /\ cmd' = Failed(c)
    /\ planReq' = required
    /\ log' = Append(log, Event("agent.failed", c))
    /\ UNCHANGED <<deadline, required, result>>

\* An optional command fails last: the run closes on a degraded result.
FailOptionalAndDegrade(c, f) ==
    /\ Failable(c)
    /\ c \notin required
    /\ f \in FailureFanIns
    /\ In(Failed(c), Unfinished) = {}
    /\ f = "none" => In(Failed(c), {"completed"}) # {}
    /\ status' = "degraded"
    /\ cmd' = Failed(c)
    /\ planReq' = required
    /\ result' = ResultOf(f)
    /\ log' = log \o (<<Event("agent.failed", c)>>
                      \o Closing(f, "degraded", c))
    /\ UNCHANGED <<deadline, required>>

\* A command fails after the deadline: the run times out (expire_agent_run).
FailAndTimeOut(c) ==
    /\ cmd[c] # "absent"
    /\ "passed" \in Readings
    /\ Live
    /\ status' = "timed_out"
    /\ cmd' = Failed(c)
    /\ log' = Append(log, Event("run.timed_out", NoCommand))
    /\ UNCHANGED <<deadline, required, planReq, result>>

\* The run has timed out already: only the command is marked.
FailTimedOut(c) ==
    /\ cmd[c] # "absent"
    /\ "passed" \in Readings
    /\ status = "timed_out"
    /\ cmd' = Failed(c)
    /\ UNCHANGED <<status, deadline, required, planReq, result, log>>

-----------------------------------------------------------------------------
\* Faulty variant: a terminal run can be cancelled.
CancelAfterTheEnd ==
    /\ SupervisorActs
    /\ status # "none"
    /\ "ahead" \in Readings
    /\ status' = "cancelled"
    /\ UNCHANGED <<deadline, cmd, required, planReq, result, log>>

\* cancel_agent_run: the commands keep their statuses.
Cancel ==
    /\ SupervisorActs
    /\ Live
    /\ "ahead" \in Readings
    /\ status' = "cancelled"
    /\ log' = Append(log, Event("run.cancelled", NoCommand))
    /\ UNCHANGED <<deadline, cmd, required, planReq, result>>

\* expire_agent_run on its own: the commands keep their statuses.
Expire ==
    /\ SupervisorActs
    /\ Live
    /\ "passed" \in Readings
    /\ status' = "timed_out"
    /\ log' = Append(log, Event("run.timed_out", NoCommand))
    /\ UNCHANGED <<deadline, cmd, required, planReq, result>>

FailInTime(c) ==
    \/ FailRequired(c)
    \/ FailOptionalAndWait(c)
    \/ \E f \in FailureFanIns : FailOptionalAndDegrade(c, f)

FailLate(c) == FailAndTimeOut(c) \/ FailTimedOut(c)

Fail(c) == FailInTime(c) \/ FailLate(c)

Execute(c) ==
    \/ \E new \in SUBSET Commands : \E req \in SUBSET new :
           ExecuteAndWait(c, new, req)
    \/ \E f \in FanIns : ExecuteAndClose(c, f)

Next ==
    \/ \E cs \in SUBSET Commands : \E req \in SUBSET cs : Admit(cs, req)
    \/ Deadline
    \/ \E c \in Commands : Execute(c) \/ Fail(c)
    \/ Cancel
    \/ Expire

Spec == Init /\ [][Next]_vars

-----------------------------------------------------------------------------
TypeOK ==
    /\ status \in RunStatuses
    /\ deadline \in {"ahead", "passed"}
    /\ cmd \in [Commands -> CommandStatuses]
    /\ required \subseteq Commands
    /\ planReq \subseteq Commands
    /\ result \in Results
    /\ log \in Seq(Events)

(***************************************************************************)
(* A live run never carries a failed required command: the transaction     *)
(* that records the failure also closes the run, whatever command failed   *)
(* before it and whichever delivery was late.                              *)
(***************************************************************************)
RequiredFailureCloses == Live => In(cmd, {"failed"}) \cap required = {}

(***************************************************************************)
(* A completed run delivered everything: no dispatched command is left     *)
(* unfinished or failed behind it, and it has a result to show.            *)
(***************************************************************************)
CompletedIsWhole ==
    status = "completed" =>
        /\ \A c \in Dispatched : cmd[c] = "completed"
        /\ result # "none"

(***************************************************************************)
(* A run degrades only over optional work: something failed, nothing that  *)
(* failed was required, nothing is unfinished, and there is still a result *)
(* to show.                                                                *)
(***************************************************************************)
DegradedIsOptional ==
    status = "degraded" =>
        /\ In(cmd, {"failed"}) # {}
        /\ In(cmd, {"failed"}) \cap required = {}
        /\ In(cmd, Unfinished) = {}
        /\ result # "none"

(***************************************************************************)
(* A failed run failed over a required command and has drained: no sibling *)
(* is left for a delivery to run, and no result is exposed.                *)
(***************************************************************************)
FailedIsDrained ==
    status = "failed" =>
        /\ In(cmd, {"failed"}) \cap required # {}
        /\ In(cmd, Unfinished) = {}
        /\ result = "none"

\* The status of a closed run, its commands and its result agree, in whatever
\* order commands completed and failed, were unlocked, cancelled or expired.
OutcomeFitsCommands == CompletedIsWhole /\ DegradedIsOptional /\ FailedIsDrained

(***************************************************************************)
(* The event log has one terminal event at most, it is the last event, and *)
(* it names the status of the run; a terminal run has it.  (Two closing    *)
(* transactions, or an event after the close, would break it.)             *)
(***************************************************************************)
OneTerminalEvent ==
    /\ \A i \in DOMAIN log :
          log[i].type \in TerminalEvents =>
              /\ i = Len(log)
              /\ status \in Terminal
              /\ log[i].type = TerminalEvent(status)
    /\ status \in Terminal =>
          /\ log # <<>>
          /\ log[Len(log)].type \in TerminalEvents

(***************************************************************************)
(* However often a command is delivered, retried or failed, its handler    *)
(* commits an effect at most once: the log has one agent.completed for it  *)
(* at most.                                                                *)
(***************************************************************************)
CompletedOnce ==
    \A i, j \in DOMAIN log :
        /\ log[i].type = "agent.completed"
        /\ log[j] = log[i]
        => i = j

(***************************************************************************)
(* Nothing a late, repeated or failing delivery does changes the outcome   *)
(* of a terminal run: status, result and log are final.                    *)
(***************************************************************************)
TerminalIsFinal ==
    [][(status \in Terminal) => UNCHANGED <<status, result, log>>]_vars

(***************************************************************************)
(* Nothing a late, repeated or failing delivery does changes the commands  *)
(* a terminal run was judged by.  The failure branch would fail even a     *)
(* completed command, and its error path runs after the locks are gone;    *)
(* only a run that timed out still lets it mark a command as failed.       *)
(***************************************************************************)
CommandsRestWithRun ==
    [][(status \in Terminal) =>
          \A c \in Commands :
              \/ cmd'[c] = cmd[c]
              \/ status = "timed_out" /\ cmd'[c] = "failed"]_vars

(***************************************************************************)
(* What a command promises while nothing takes completions back: its       *)
(* handler commits at most once, it is completed only with that commit,    *)
(* and neither outcome changes afterwards.                                 *)
(***************************************************************************)
StageOf(c) ==
    CASE cmd[c] = "absent" -> "absent"
      [] cmd[c] \in Unfinished -> "waiting"
      [] cmd[c] = "completed" -> "done"
      [] cmd[c] = "failed" -> "dropped"

Completions(c) ==
    Cardinality({i \in DOMAIN log : log[i] = Event("agent.completed", c)})

Once == INSTANCE AtMostOnce
    WITH Items <- Commands, stage <- [c \in Commands |-> StageOf(c)],
         effects <- [c \in Commands |-> Completions(c)]

CommandOnceSpec == Once!AbsSpec

=============================================================================
