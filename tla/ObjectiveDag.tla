---------------------------- MODULE ObjectiveDag ----------------------------
(***************************************************************************)
(* The objectives of a Stage 12 run: admission creates one row for every   *)
(* objective of the plan and dispatches the roots                          *)
(* (services/agent_stage12_runtime_admission.py); the transaction that     *)
(* completes the command of an objective sweeps the rows, fails those that *)
(* lost a required dependency and dispatches those whose dependencies have *)
(* settled (workers/agent_specialist_runtime.py).                          *)
(*                                                                         *)
(* An objective has one command at most, so Commands are the objectives    *)
(* here, numbered in the order of their keys: cmd[k] = "absent" says that  *)
(* the row of k has no command_id.  The run is AgentRun: each action is    *)
(* one of its transactions with what it writes to the objective rows.  The *)
(* handler holds the row lock of the run from its first statement on.      *)
(*                                                                         *)
(* No failure transaction meets a completed command here: the handler of   *)
(* Stage 12 replays such a command before its try, so an error of the      *)
(* replay ends the process and records nothing, and one consumer serves a  *)
(* capability, as shipped.  Other handlers replay inside of their try      *)
(* (Raise of AgentDelivery).                                               *)
(***************************************************************************)
EXTENDS AgentRun

CONSTANTS
    Plans   \* the task specifications a run may be admitted with

(***************************************************************************)
(* A plan: kind[k] ("none" for a key the plan does not use), deps[k], the  *)
(* edges <<j, k>> that are soft (required=False), the keys that are denied *)
(* and the keys whose objective is optional.                               *)
(***************************************************************************)
Kinds == {"none", "fact", "risk", "daily", "action", "conflict"}

PlanRecords ==
    [kind : [Commands -> Kinds], deps : [Commands -> SUBSET Commands],
     soft : SUBSET (Commands \X Commands), denied : SUBSET Commands,
     optional : SUBSET Commands]

Used(p) == {k \in Commands : p.kind[k] # "none"}
Planned(p) == Used(p) \ p.denied
RootsOf(p) == {k \in Planned(p) : p.deps[k] = {}}
Hard(p, k) == {j \in p.deps[k] : <<j, k>> \notin p.soft}

\* What the planner gives every plan that admission accepts: objectives
\* depend on earlier ones and planned ones on planned ones, the planned
\* roots are fact queries, and what needs facts depends on a fact query.
ASSUME PlansAssumption ==
    /\ Commands \subseteq Nat
    /\ Plans \subseteq PlanRecords
    /\ \A p \in Plans :
        /\ RootsOf(p) # {}
        /\ \A k \in RootsOf(p) : p.kind[k] = "fact"
        /\ \A k \in Used(p) : \A j \in p.deps[k] : j \in Used(p) /\ j < k
        /\ \A k \in Planned(p) : p.deps[k] \subseteq Planned(p)
        /\ \A k \in Planned(p) :
              p.kind[k] \in {"daily", "action"} =>
                  \E j \in Hard(p, k) : p.kind[j] \in {"fact", "conflict"}

VARIABLES
    plan,       \* the task specification of the run
    objective   \* key -> agent_objective_runs.status, "absent" without a row

dagVars == <<vars, plan, objective>>

Settled == {"completed", "denied", "failed"}

\* The objectives that are queued and have no command yet.
Waiting(rows, commands) ==
    {k \in Commands : rows[k] = "queued" /\ commands[k] = "absent"}

-----------------------------------------------------------------------------
DagInit ==
    /\ Init
    /\ plan \in Plans
    /\ objective = [k \in Commands |-> "absent"]

\* persist_typed_inputs and dispatch_commands, one transaction.
AdmitPlan ==
    /\ Admit(RootsOf(plan), RootsOf(plan) \ plan.optional)
    /\ objective' = [k \in Commands |->
                        IF k \notin Used(plan) THEN "absent"
                        ELSE IF k \in plan.denied THEN "denied" ELSE "queued"]
    /\ UNCHANGED plan

-----------------------------------------------------------------------------
\* All dependencies of the waiting objective k have settled in these rows.
Ready(k, rows) ==
    /\ plan.deps[k] # {}
    /\ \A j \in plan.deps[k] : rows[j] \in Settled

\* Faulty variant: k is lost when everything it requires has failed.
LostEverything(k, rows) == \A j \in Hard(plan, k) : rows[j] = "failed"

\* Something k requires has failed.
Lost(k, rows) == \E j \in Hard(plan, k) : rows[j] = "failed"

\* Faulty variant: the sweep looks at the rows as they were before it.
SweptOnce(c) ==
    LET before == [objective EXCEPT ![c] = "completed"]
    IN  [k \in Commands |->
            IF k \in Waiting(before, cmd) /\ Ready(k, before) /\ Lost(k, before)
            THEN "failed" ELSE before[k]]

(***************************************************************************)
(* The row of k after the sweep that the completion of c makes, when the   *)
(* sweep has made rows of the objectives before k.                         *)
(***************************************************************************)
SweptRow(c, rows, k) ==
    IF k = c THEN "completed"
    ELSE IF k \in Waiting(objective, cmd) /\ Ready(k, rows) /\ Lost(k, rows)
         THEN "failed" ELSE objective[k]

\* The rows after the sweep: one pass in the order of the keys, which sees
\* what it wrote to earlier rows.
Swept(c) ==
    LET row[k \in Commands] == SweptRow(c, row, k)
    IN  row

\* The objectives the pass dispatches.
Unlocked(c) ==
    {k \in Waiting(Swept(c), cmd) : Ready(k, Swept(c)) /\ ~Lost(k, Swept(c))}

\* Faulty variant: objectives that were never dispatched are left out.
FanInOfCommands(rows) == TRUE

\* _fan_in_typed_results raises over an objective without a command that has
\* no outcome.
FanInCovers(rows) ==
    \A k \in Commands :
        cmd[k] = "absent" => rows[k] \in {"absent", "denied", "failed"}

(***************************************************************************)
(* process_stage12_typed_specialist_command with                           *)
(* _advance_stage12_objective_dag in it.  An unlocked objective of another *)
(* kind has no capability to run it: the transaction raises.               *)
(***************************************************************************)
Complete(c) ==
    /\ objective[c] = "queued"
    /\ \A k \in Unlocked(c) : plan.kind[k] \in {"risk", "daily", "action"}
    /\ \/ ExecuteAndWait(c, Unlocked(c), Unlocked(c) \ plan.optional)
       \/ /\ Unlocked(c) = {}
          /\ FanInCovers(Swept(c))
          /\ \E f \in FanIns : ExecuteAndClose(c, f)
    /\ objective' = Swept(c)
    /\ UNCHANGED plan

\* Faulty variant: the objective row is not written.
FailedRowKept(c) == objective

FailedRow(c) == [objective EXCEPT ![c] = "failed"]

\* Faulty variant: the rows fail, the run is not told.
FailRowsOnly(c) ==
    /\ Failable(c)
    /\ cmd[c] # "completed"
    /\ cmd' = Failed(c)
    /\ objective' = FailedRow(c)
    /\ UNCHANGED <<status, deadline, required, planReq, result, log, plan>>

(***************************************************************************)
(* The except branch: the row of the objective fails with its command.     *)
(* Rows of siblings and of descendants are not touched.                    *)
(***************************************************************************)
FailObjective(c) ==
    /\ cmd[c] # "completed"
    /\ \/ FailRequired(c)
       \/ FailOptionalAndWait(c)
       \/ \E f \in FailureFanIns :
             /\ f # "none" => FanInCovers(FailedRow(c))
             /\ FailOptionalAndDegrade(c, f)
       \/ FailLate(c)
    /\ objective' = FailedRow(c)
    /\ UNCHANGED plan

\* The run failed over a sibling: fail_specialist_command returns early and
\* the row of the objective is committed.
FailDrainedObjective(c) ==
    /\ status = "failed"
    /\ cmd[c] = "failed"
    /\ objective[c] # "failed"
    /\ objective' = FailedRow(c)
    /\ UNCHANGED <<vars, plan>>

OtherStep ==
    /\ Deadline \/ Cancel \/ Expire
    /\ UNCHANGED <<plan, objective>>

DagNext ==
    \/ AdmitPlan
    \/ \E c \in Commands :
          Complete(c) \/ FailObjective(c) \/ FailDrainedObjective(c)
    \/ OtherStep

DagSpec == DagInit /\ [][DagNext]_dagVars

-----------------------------------------------------------------------------
(***************************************************************************)
(* The row of a dispatched objective and its command, which two tables     *)
(* keep, agree; only a run that failed over a sibling may leave an         *)
(* objective queued behind a failed command, for the redelivery to close.  *)
(***************************************************************************)
ObjectiveTracksCommand ==
    \A k \in Dispatched :
        /\ objective[k] = "completed" <=> cmd[k] = "completed"
        /\ objective[k] = "failed" => cmd[k] = "failed"
        /\ cmd[k] = "failed" /\ objective[k] # "failed" => status = "failed"

(***************************************************************************)
(* An objective runs only on what it requires: when it has a command, each *)
(* of its hard dependencies has completed and every other one has settled. *)
(***************************************************************************)
DispatchedOnResults ==
    \A k \in Dispatched : \A j \in plan.deps[k] :
        /\ objective[j] \in Settled
        /\ j \in Hard(plan, k) => objective[j] = "completed"

(***************************************************************************)
(* A completion leaves nothing behind that could move: every objective     *)
(* that is still waiting after it has a dependency that is not settled.    *)
(* The single pass of the sweep has to reach chains of any length.         *)
(***************************************************************************)
CompletionSweeps ==
    [][\A c \in Commands :
          cmd[c] # "completed" /\ cmd'[c] = "completed" =>
              \A k \in Waiting(objective', cmd') :
                  \E j \in plan.deps[k] : objective'[j] \notin Settled]_dagVars

(***************************************************************************)
(* An answer that the fan-in composed speaks for the whole plan: no        *)
(* objective of the run is still open behind it; and the run is completed  *)
(* only when every planned objective has been answered, denied ones being  *)
(* the only exception.                                                     *)
(***************************************************************************)
AnswerCoversPlan ==
    /\ result \in {"composed", "grounded"} =>
          \A k \in Used(plan) : objective[k] \in Settled
    /\ status = "completed" =>
          \A k \in Planned(plan) : objective[k] = "completed"

=============================================================================
