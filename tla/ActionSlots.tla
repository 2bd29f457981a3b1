----------------------------- MODULE ActionSlots -----------------------------
(***************************************************************************)
(* The durable actions of one Stage 12 run, from admission to the last     *)
(* decision of the user: the slots, their objectives, the record drafts    *)
(* behind them and the records those drafts write.                         *)
(* - Admission (services/stage12_action_admission.py) creates the slots;   *)
(* - a worker (workers/stage12_action_runtime.py) turns a queued slot into *)
(*   a pending draft; the command queue gives it an entry again until it   *)
(*   is acknowledged;                                                      *)
(* - the user confirms or rejects a slot (api/routes/                      *)
(*   stage12_agent_actions.py, services/stage12_action_confirmation.py);   *)
(* - the Stage 06 and record routes reach the same drafts and records      *)
(*   directly (api/routes/stage06_runtime.py, stage06_platform.py).        *)
(*                                                                         *)
(* What is kept of the database are its row locks, in the order the code   *)
(* takes them: a worker locks the run and then the slot, a decision the    *)
(* slot, the draft and then the run.  PostgreSQL breaks the cycle by       *)
(* aborting either side.  Records are read without a lock.                 *)
(*                                                                         *)
(* A request that is refused rolls back and changes nothing, so refusals   *)
(* are left out unless locks are held by then.  proposal_version is a      *)
(* function of the status and is left out with it.                         *)
(***************************************************************************)
EXTENDS Naturals

CONSTANTS
    Slots,       \* the slots of the run, one objective and command each
    Kind,        \* Slots -> Kinds
    Workers,     \* processes that take commands of this capability
    Requests,    \* API requests that are served at the same time
    MaxVersion   \* bound on the record version at which an edit begins

Kinds == {"create", "update", "reminder"}

ASSUME KindAssumption == Kind \in [Slots -> Kinds]
ASSUME VersionAssumption == MaxVersion \in Nat

VARIABLES
    slot,         \* slot -> agent_action_slots.status
    objective,    \* slot -> status of its objective
    draft,        \* slot -> status of the record draft, "none" without one
    applied,      \* slot -> times its draft was applied to the record
    version,      \* slot -> version of the record an update aims at
    run,          \* status of the run
    completions,  \* run.completed events of the run
    entry,        \* slot -> its command on the queue
    late,         \* the deadline of run, commands and sealed inputs is over
    runLock,      \* the worker that holds the row lock of the run, as a set
    job,          \* worker -> the entry it handles
    call          \* request -> the transaction it is in

vars == <<slot, objective, draft, applied, version, run, completions, entry,
          late, runLock, job, call>>

-----------------------------------------------------------------------------
BaseVersion == 1   \* the record version the proposal was made for

Final == {"executed", "rejected", "denied"}
SlotStates == Final \cup {"absent", "queued", "pending_confirmation"}
ObjectiveStates == {"absent", "queued", "proposed", "completed", "denied"}
DraftStates == {"none", "pending_confirmation", "confirmed", "rejected"}
RunStates == {"absent", "queued", "waiting_approval", "completed", "degraded"}
EntryStates == {"absent", "waiting", "acked"}

Decisions == {"confirm", "reject"}
DraftOps == {"confirm_draft", "reject_draft"}
Operations == Decisions \cup DraftOps \cup {"edit"}

RecordSlots == {s \in Slots : Kind[s] # "reminder"}
Updates == {s \in Slots : Kind[s] = "update"}

NoJob == [at |-> "idle"]
Jobs == {NoJob} \cup
    [at : {"proposing", "acking"}, slot : Slots, status : SlotStates]
NoCall == [at |-> "idle"]
Calls == {NoCall} \cup
    [at : {"checked", "drafting"}, op : Operations, slot : Slots, seen : Nat]

On(q, s) == call[q].at # "idle" /\ call[q].slot = s
SlotLocked(s) == \E q \in Requests : On(q, s) /\ call[q].op \in Decisions
DraftLocked(s) == \E q \in Requests : On(q, s) /\ call[q].at = "drafting"
RecordIsCurrent(s) == s \in Updates => version[s] = BaseVersion

recordVars == <<applied, version>>
runVars == <<run, completions>>
queueVars == <<entry, late>>
workVars == <<runLock, job>>

Init ==
    /\ slot = [s \in Slots |-> "absent"]
    /\ objective = [s \in Slots |-> "absent"]
    /\ draft = [s \in Slots |-> "none"]
    /\ applied = [s \in Slots |-> 0]
    /\ version = [s \in Slots |-> BaseVersion]
    /\ run = "absent"
    /\ completions = 0
    /\ entry = [s \in Slots |-> "absent"]
    /\ late = FALSE
    /\ runLock = {}
    /\ job = [w \in Workers |-> NoJob]
    /\ call = [q \in Requests |-> NoCall]

\* admit_stage12_action_run: slots without an authorized candidate or
\* recipient are denied at once, the others are dispatched; one commit.
Admit(denied) ==
    /\ run = "absent"
    /\ slot' = [s \in Slots |-> IF s \in denied THEN "denied" ELSE "queued"]
    /\ objective' =
         [s \in Slots |-> IF s \in denied THEN "denied" ELSE "queued"]
    /\ entry' = [s \in Slots |-> IF s \in denied THEN "absent" ELSE "waiting"]
    /\ run' = IF denied = Slots THEN "degraded" ELSE "queued"
    /\ UNCHANGED <<draft, recordVars, completions, late, workVars, call>>

Expire ==
    /\ ~late
    /\ late' = TRUE
    /\ UNCHANGED <<slot, objective, draft, recordVars, runVars, entry,
                   workVars, call>>

-----------------------------------------------------------------------------
(***************************************************************************)
(* process_stage12_action_command.  An entry whose slot is decided, whose  *)
(* record has moved on or whose deadline is over raises instead: nothing   *)
(* is committed or acknowledged, and the worker process ends.              *)
(***************************************************************************)
Deliverable(s) ==
    /\ entry[s] = "waiting"
    /\ slot[s] \in {"queued", "pending_confirmation"}
    /\ RecordIsCurrent(s)
    /\ ~late

\* Faulty variant: the run is read without FOR UPDATE.
TakeRunUnlocked(w, s) ==
    /\ job[w] = NoJob
    /\ Deliverable(s)
    /\ job' = [job EXCEPT ![w] =
                 [at |-> "proposing", slot |-> s, status |-> slot[s]]]
    /\ UNCHANGED <<slot, objective, draft, recordVars, runVars, queueVars,
                   runLock, call>>

TakeRun(w, s) ==
    /\ job[w] = NoJob
    /\ runLock = {}
    /\ Deliverable(s)
    /\ runLock' = {w}
    /\ job' = [job EXCEPT ![w] =
                 [at |-> "proposing", slot |-> s, status |-> slot[s]]]
    /\ UNCHANGED <<slot, objective, draft, recordVars, runVars, queueVars,
                   call>>

\* The slot was locked and everything committed; the entry is not acked yet.
Committed(w) ==
    /\ runLock' = runLock \ {w}
    /\ job' = [job EXCEPT ![w].at = "acking"]

\* materialize_action_slot on a slot that was read as queued.
Materialize(w) ==
    /\ job[w].at = "proposing"
    /\ job[w].status = "queued"
    /\ LET s == job[w].slot
       IN  /\ ~SlotLocked(s)
           /\ slot' = [slot EXCEPT ![s] = "pending_confirmation"]
           /\ objective' = [objective EXCEPT ![s] = "proposed"]
           /\ draft' = IF s \in RecordSlots
                       THEN [draft EXCEPT ![s] = "pending_confirmation"]
                       ELSE draft
    /\ run' = "waiting_approval"
    /\ Committed(w)
    /\ UNCHANGED <<recordVars, completions, queueVars, call>>

\* The same on a slot that was read as pending: a replay.
Replay(w) ==
    /\ job[w].at = "proposing"
    /\ job[w].status = "pending_confirmation"
    /\ ~SlotLocked(job[w].slot)
    /\ objective' = [objective EXCEPT ![job[w].slot] = "proposed"]
    /\ Committed(w)
    /\ UNCHANGED <<slot, draft, recordVars, runVars, queueVars, call>>

AckEntry(w) ==
    /\ job[w].at = "acking"
    /\ entry' = [entry EXCEPT ![job[w].slot] = "acked"]
    /\ job' = [job EXCEPT ![w] = NoJob]
    /\ UNCHANGED <<slot, objective, draft, recordVars, runVars, late, runLock,
                   call>>

\* The process dies or its transaction is aborted; the entry is claimed again.
WorkerDies(w) ==
    /\ job[w] # NoJob
    /\ runLock' = runLock \ {w}
    /\ job' = [job EXCEPT ![w] = NoJob]
    /\ UNCHANGED <<slot, objective, draft, recordVars, runVars, queueVars,
                   call>>

-----------------------------------------------------------------------------
Enter(q, at, op, s) ==
    /\ call[q] = NoCall
    /\ call' = [call EXCEPT ![q] =
                  [at |-> at, op |-> op, slot |-> s, seen |-> version[s]]]

requestFrame ==
    UNCHANGED <<slot, objective, draft, recordVars, runVars, queueVars,
                workVars>>

(***************************************************************************)
(* confirm_agent_action and reject_agent_action lock the slot.  Both need  *)
(* the sealed input, which expires at the deadline; a confirmation looks   *)
(* at the version of the record.                                           *)
(***************************************************************************)
OpenSlot(q, s, op) ==
    /\ ~SlotLocked(s)
    /\ slot[s] = "pending_confirmation"
    /\ ~late
    /\ op = "confirm" => RecordIsCurrent(s)
    /\ Enter(q, "checked", op, s)
    /\ requestFrame

\* Faulty variant: the draft is not read again under its lock.
HoldAnyDraft(q) ==
    /\ call[q].at = "checked"
    /\ call[q].op \in Decisions
    /\ call[q].slot \in RecordSlots
    /\ ~DraftLocked(call[q].slot)
    /\ call' = [call EXCEPT ![q].at = "drafting"]
    /\ requestFrame

\* _require_draft_transition_lock inside of the decision.
HoldDraft(q) ==
    /\ call[q].at = "checked"
    /\ call[q].op \in Decisions
    /\ call[q].slot \in RecordSlots
    /\ ~DraftLocked(call[q].slot)
    /\ draft[call[q].slot] = "pending_confirmation"
    /\ call' = [call EXCEPT ![q].at = "drafting"]
    /\ requestFrame

\* Faulty variant: the refused decision does not roll back.
RefuseHolding(q) ==
    /\ call[q].at = "checked"
    /\ call[q].op \in Decisions
    /\ call[q].slot \in RecordSlots
    /\ ~DraftLocked(call[q].slot)
    /\ draft[call[q].slot] # "pending_confirmation"
    /\ UNCHANGED call
    /\ requestFrame

\* The draft was decided behind the back of the slot: roll back.
Refuse(q) ==
    /\ call[q].at = "checked"
    /\ call[q].op \in Decisions
    /\ call[q].slot \in RecordSlots
    /\ ~DraftLocked(call[q].slot)
    /\ draft[call[q].slot] # "pending_confirmation"
    /\ call' = [call EXCEPT ![q] = NoCall]
    /\ requestFrame

\* The decision has all its locks but the one of the run.
Ready(q, op) ==
    /\ call[q].at # "idle"
    /\ call[q].op = op
    /\ op \in Decisions /\ call[q].slot \in RecordSlots
         => call[q].at = "drafting"

\* update_record: the row is written from the version that was read.
WriteRecord(q) == version' = [version EXCEPT ![call[q].slot] = call[q].seen + 1]

\* confirm_record_change_draft on the draft of q.
ApplyDraft(q) ==
    /\ draft' = [draft EXCEPT ![call[q].slot] = "confirmed"]
    /\ applied' = [applied EXCEPT ![call[q].slot] = @ + 1]
    /\ IF call[q].slot \in Updates
       THEN WriteRecord(q)
       ELSE UNCHANGED version

\* Faulty variant: a denied slot is not counted as final.
LastOpenApartFromDenied(s) ==
    \A t \in Slots \ {s} : slot[t] \in {"executed", "rejected"}

\* s is the last slot of the run that is not final.
LastOpen(s) == \A t \in Slots \ {s} : slot[t] \in Final

\* _append_action_event, under the lock of the run, and the commit.
Decide(q, outcome) ==
    LET s == call[q].slot
    IN  /\ runLock = {}
        /\ slot' = [slot EXCEPT ![s] = outcome]
        /\ objective' = [objective EXCEPT ![s] =
                 IF outcome = "executed" THEN "completed" ELSE "denied"]
        /\ IF LastOpen(s)
           THEN run' = "completed" /\ completions' = completions + 1
           ELSE run' = "waiting_approval" /\ UNCHANGED completions
        /\ call' = [call EXCEPT ![q] = NoCall]

Confirm(q) ==
    /\ Ready(q, "confirm")
    /\ Decide(q, "executed")
    /\ IF call[q].slot \in RecordSlots
       THEN ApplyDraft(q)
       ELSE UNCHANGED <<draft, recordVars>>
    /\ UNCHANGED <<queueVars, workVars>>

Reject(q) ==
    /\ Ready(q, "reject")
    /\ Decide(q, "rejected")
    /\ draft' = IF call[q].slot \in RecordSlots
                THEN [draft EXCEPT ![call[q].slot] = "rejected"]
                ELSE draft
    /\ UNCHANGED <<recordVars, queueVars, workVars>>

-----------------------------------------------------------------------------
\* Faulty variant: the draft is not locked.
OpenDraftUnlocked(q, s, op) ==
    /\ draft[s] = "pending_confirmation"
    /\ op = "confirm_draft" => RecordIsCurrent(s)
    /\ Enter(q, "drafting", op, s)
    /\ requestFrame

\* confirm_record_change_draft_endpoint and reject_..., which know no slot.
OpenDraft(q, s, op) ==
    /\ ~DraftLocked(s)
    /\ draft[s] = "pending_confirmation"
    /\ op = "confirm_draft" => RecordIsCurrent(s)
    /\ Enter(q, "drafting", op, s)
    /\ requestFrame

ConfirmDraft(q) ==
    /\ Ready(q, "confirm_draft")
    /\ ApplyDraft(q)
    /\ call' = [call EXCEPT ![q] = NoCall]
    /\ UNCHANGED <<slot, objective, runVars, queueVars, workVars>>

\* Faulty variant: the draft is left in a state of notifications.
CancelDraft(q) ==
    /\ Ready(q, "reject_draft")
    /\ draft' = [draft EXCEPT ![call[q].slot] = "cancelled"]
    /\ call' = [call EXCEPT ![q] = NoCall]
    /\ UNCHANGED <<slot, objective, recordVars, runVars, queueVars, workVars>>

RejectDraft(q) ==
    /\ Ready(q, "reject_draft")
    /\ draft' = [draft EXCEPT ![call[q].slot] = "rejected"]
    /\ call' = [call EXCEPT ![q] = NoCall]
    /\ UNCHANGED <<slot, objective, recordVars, runVars, queueVars, workVars>>

\* update_record_endpoint, for a client that has seen the current version.
OpenEdit(q, s) ==
    /\ s \in Updates
    /\ version[s] <= MaxVersion
    /\ Enter(q, "checked", "edit", s)
    /\ requestFrame

Edit(q) ==
    /\ Ready(q, "edit")
    /\ WriteRecord(q)
    /\ call' = [call EXCEPT ![q] = NoCall]
    /\ UNCHANGED <<slot, objective, draft, applied, runVars, queueVars,
                   workVars>>

\* The request is lost with its process: its transaction is rolled back.
RequestDies(q) ==
    /\ call[q] # NoCall
    /\ call' = [call EXCEPT ![q] = NoCall]
    /\ requestFrame

\* A worker waits for the slot of a decision that waits for the run.
Deadlock(w, q) ==
    /\ job[w].at = "proposing"
    /\ runLock = {w}
    /\ On(q, job[w].slot)
    /\ \E op \in Decisions : Ready(q, op)

BreakDeadlock(w, q) ==
    /\ Deadlock(w, q)
    /\ RequestDies(q) \/ WorkerDies(w)

-----------------------------------------------------------------------------
WorkerStep(w) == Materialize(w) \/ Replay(w)

Finish(q) ==
    Confirm(q) \/ Reject(q) \/ ConfirmDraft(q) \/ RejectDraft(q) \/ Edit(q)

Next ==
    \/ \E denied \in SUBSET Slots : Admit(denied)
    \/ Expire
    \/ \E w \in Workers :
         \/ \E s \in Slots : TakeRun(w, s)
         \/ WorkerStep(w)
         \/ AckEntry(w)
         \/ WorkerDies(w)
    \/ \E q \in Requests :
         \/ \E s \in Slots :
              \/ \E op \in Decisions : OpenSlot(q, s, op)
              \/ \E op \in DraftOps : OpenDraft(q, s, op)
              \/ OpenEdit(q, s)
         \/ HoldDraft(q)
         \/ Refuse(q)
         \/ Finish(q)
         \/ RequestDies(q)
    \/ \E w \in Workers, q \in Requests : BreakDeadlock(w, q)

Spec == Init /\ [][Next]_vars

\* A transaction goes on.  Row locks are granted in the order of the waits,
\* hence strong fairness; PostgreSQL finds every deadlock.
Fairness ==
    /\ \A q \in Requests :
         WF_vars(Refuse(q)) /\ SF_vars(HoldDraft(q)) /\ SF_vars(Finish(q))
    /\ \A w \in Workers :
         /\ SF_vars(WorkerStep(w))
         /\ WF_vars(AckEntry(w))
         /\ \A q \in Requests : WF_vars(BreakDeadlock(w, q))

FairSpec == Spec /\ Fairness
-----------------------------------------------------------------------------
SlotsTypeOK ==
    /\ slot \in [Slots -> SlotStates]
    /\ objective \in [Slots -> ObjectiveStates]
    /\ draft \in [Slots -> DraftStates]
    /\ applied \in [Slots -> Nat]
    /\ version \in [Slots -> Nat]
    /\ run \in RunStates
    /\ completions \in Nat
    /\ entry \in [Slots -> EntryStates]
    /\ late \in BOOLEAN
    /\ runLock \subseteq Workers
    /\ job \in [Workers -> Jobs]
    /\ call \in [Requests -> Calls]

\* The run is completed, with one run.completed event, exactly when its last
\* slot is decided, in whatever order requests for different slots commit.
RunCompletesWithItsSlots ==
    /\ run = "completed" <=>
         /\ \A s \in Slots : slot[s] \in Final
         /\ \E s \in Slots : slot[s] # "denied"
    /\ completions = IF run = "completed" THEN 1 ELSE 0

\* A redelivered command never takes the objective of a decided slot back to
\* "proposed": objective and slot tell the same story.
ObjectiveFollowsSlot ==
    \A s \in Slots :
        /\ slot[s] = "pending_confirmation" <=> objective[s] = "proposed"
        /\ slot[s] = "executed" <=> objective[s] = "completed"
        /\ slot[s] \in {"rejected", "denied"} <=> objective[s] = "denied"

\* The answer the user was given on the slot is what became of the draft,
\* although the draft can be decided without the slot at any moment.
OutcomeMatchesDraft ==
    \A s \in RecordSlots :
        /\ slot[s] = "executed" => draft[s] = "confirmed"
        /\ slot[s] = "rejected" => draft[s] = "rejected"
        /\ applied[s] = IF draft[s] = "confirmed" THEN 1 ELSE 0

\* Every transaction ends: no order of the locks leaves requests and workers
\* waiting for each other for ever.
EveryTransactionEnds ==
    /\ \A q \in Requests : call[q] # NoCall ~> call[q] = NoCall
    /\ \A w \in Workers : job[w] # NoJob ~> job[w] = NoJob

\* An update is executed only on the version of the record its proposal was
\* made for: a record that drifted makes the confirmation fail instead.
DriftedRecordIsRefused ==
    [][\A s \in Updates :
          slot[s] # "executed" /\ slot'[s] = "executed"
            => version[s] = BaseVersion]_vars

\* What a slot promises: its change reaches the record at most once, it is
\* executed only then, and no outcome is taken back.
StageOf(s) ==
    CASE slot[s] = "absent" -> "absent"
      [] slot[s] = "executed" -> "done"
      [] slot[s] \in {"rejected", "denied"} -> "dropped"
      [] OTHER -> "waiting"

Once == INSTANCE AtMostOnce
    WITH Items <- RecordSlots, stage <- [s \in RecordSlots |-> StageOf(s)],
         effects <- [s \in RecordSlots |-> applied[s]]

SlotOnceSpec == Once!AbsSpec
=============================================================================
