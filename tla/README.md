# Verification of the Telegram work agent

TLA+ models, TLC runs and TLAPS proofs for the Telegram work agent: a FastAPI
backend on PostgreSQL and Redis streams. A request becomes a durable *run*, the
run is split into *commands* that specialist workers execute, and the results
are fanned in to one answer. Beside the runs the backend moves messages and send
requests through an outbox and a stream, delivers deep links, lets users decide
about proposed actions, and keeps an index of authorized records.

All paths below are relative to `src/backend/app/` unless they start with
`src/`, `docs/` or `project-docs/`.

## 1. The system

| part | state it keeps | operations | interacts with |
|---|---|---|---|
| Run control plane: `services/agent_orchestrator.py`, `services/agent_event_runtime.py` | `agent_workflow_runs`, `agent_commands`, `agent_artifacts`, `agent_events`, checkpoints | create and dispatch, execute, unlock, fail, cancel, expire, append event | called by admission and the workers; each commit adds outbox rows |
| Outbox publisher: `workers/agent_event_outbox_runtime.py`, `queues/agent_event_streams.py` | `published_at` and attempts of outbox rows | poll, XADD once, mark | reads what the control plane wrote; fills the streams |
| Streams: `queues/redis_streams.py` | entries and pending lists of consumer groups | XADD, XREADGROUP, XAUTOCLAIM, XACK, dead letter | between publisher and workers |
| Specialist workers: `workers/agent_specialist_runtime.py`, `workers/agent_tabular_runtime.py` | position in a delivery (volatile) | claim or read, execute in one transaction, fail in a second one, acknowledge | run control plane, objectives |
| Stage 12 admission and objectives: `services/agent_stage12_runtime_admission.py`, `services/agent_task_planner_v2.py` | `agent_objective_runs`, sealed inputs | plan, create objectives, dispatch roots; sweep after a completion | inside the transactions of the workers |
| Durable actions: `workers/stage12_action_runtime.py`, `services/stage12_action_*.py`, `api/routes/stage12_agent_actions.py` | `agent_action_slots`, their objectives and record drafts | admit, propose, confirm, reject | run status `waiting_approval`; the Stage 06 drafts and records |
| Stage 03 Telegram pipeline: `workers/stage03_*.py`, `workers/runner.py`, `services/outbox.py`, `services/telegram_send_requests.py` | `outbox_events`, `telegram_send_requests`, messages | bridge to Redis, handle, retry, dead-letter, send | Telegram API, ingestion |
| Deep-link delivery: `services/stage07_telegram_deep_link_delivery.py` | delivery requests, minted links | create, confirm, reserve, mint, send, finish | Stage 03 worker |
| Generic outbox and retrieval indexing: `workers/outbox_dispatcher.py`, `workers/retrieval_v2_outbox*.py`, `services/retrieval_v2_*.py` | outbox rows, scope registrations, index rows | register, bootstrap, expand, embed, activate, revoke | changes of the platform; retrieval requests |
| API, SSE, embedded execution: `api/routes/agent_runs.py`, `services/agent_sse_projection.py` | none of its own | admit, stream events, run commands in the request | control plane |
| Platform and idempotency: `services/stage06_*.py` | workspaces, roles, `idempotency_records` | authorize, begin and complete an operation | everything |
| Collaboration and memory (Stage 08), query compilation and composition, business services, ingestion and identity | business rows | one transaction per request | API |

Where it is hard:

* **Two transactions per delivery.** A specialist that raises is rolled back,
  which drops every lock, and its failure is recorded in another transaction.
  Anything may happen in between: a death, a claim by another consumer, a
  sibling that closes the run.
* **At-least-once delivery.** A worker that dies between its commit and `XACK`
  is delivered the same command again; after 30 seconds an entry can be
  claimed from a consumer that is still at work.
* **Many closing transactions.** Execution, required failure, optional failure,
  timeout and cancellation can all close a run; exactly one of them must.
* **Objectives in any order.** The sweep that unlocks or fails dependents lives
  inside the transaction of some completion.
* **XADD before COMMIT, and no second reading.** The Stage 03 bridge publishes
  inside its transaction, and the Stage 03 worker never claims what another
  worker was given: a death on one side may repeat, on the other it may lose.
* **Calls between transactions.** A deep link is minted, sent and recorded in
  separate transactions; an embedding provider works between a read and a commit.
* **Locks in different orders.** A proposal locks the run and then the slot, a
  decision the slot, the draft and then the run; records are not locked at all.
* **Clocks.** The deadline is compared with a clock read before the specialist
  worked and before the row lock was waited for.

What makes each part correct:

* control plane: terminal states are final, written once, and true about the
  commands behind them; a handler commits once;
* delivery: an acknowledged command has a durable outcome, no delivery changes
  the commands of a closed run, every command settles and every run ends;
* objectives: an objective runs on what it requires, a completion leaves nothing
  behind that could move, an answer speaks for the whole plan;
* durable actions: slot, objective, draft, record and run tell one story, an
  action is applied at most once, to the record it was proposed for, and the run
  completes once;
* Stage 03: no row is lost before the stream, no effect happens twice, rows and
  the messages or send requests behind them agree;
* deep links: no second call, no active link after a failed delivery, no failure
  that becomes a success;
* retrieval index: a revoked scope is dark, the newest version wins, and a
  source of a registered scope is lost with a dead letter only.

## 2. Modules

```
AgentRun ------------- the durable run (abstract specification: Spec)
  |-- AgentRunProofs            inductive invariant, safety theorems
  |-- AgentDelivery             streams, consumers, crashes; implements AgentRun!Spec
  |     `-- AgentDeliveryProofs     refinement, no lost command
  `-- ObjectiveDag              objectives of a Stage 12 run; implements AgentRun!Spec
        `-- ObjectiveDagProofs      refinement, the sweep, invariant of the rows
AtMostOnce ----------- what a pipeline promises of each item (abstract)
  |-- OutboxPipeline            Stage 03: outbox, bridge, stream, worker; implements it
  |     `-- OutboxPipelineProofs    inductive invariant, refinement
  `-- ActionSlots               durable actions; implements it for record changes
        `-- ActionSlotsProofs       inductive invariant, refinement, lock waits
DeepLinkDelivery ----- one controlled delivery, with overlapping dispatches
  `-- DeepLinkDeliveryProofs    inductive invariant, safety theorems
RetrievalIndex ------- registrations, events and rows of one scope
  `-- RetrievalIndexProofs      inductive invariant, safety theorems
MC<Module>             instances for TLC
```

`AgentDelivery` and `ObjectiveDag` EXTEND `AgentRun` and take its actions as
conjuncts: the refinement mapping is the identity on the run's variables and the
abstract `Spec` is a property of the detailed run. `OutboxPipeline` and
`ActionSlots` INSTANCE `AtMostOnce` with a mapping: `stage` is computed from the
rows (`StageOf`), `effects` from the counter of calls or applications.
`AgentRun` has such a mapping too, for its commands (`CommandOnceSpec`); under
which conditions it is a refinement is a matter of section 4.

Operators named *Faulty variant* in the modules are not part of the
specifications. Each is one definition written with a plausible mistake; putting
it in the place of the original must break the property it is listed with in
`PROJECT.json`.

### AgentRun: one action per committed transaction

| TLA+ | code |
|---|---|
| `status`, `cmd`, `result`, `log` | `AgentWorkflowRun.status`, `AgentCommand.status`, kind of `safe_result_ref`, `agent_events` by sequence number |
| `required`, `planReq` | required plan nodes or objective rows; `required_command_ids` of the newest checkpoint with a plan |
| `Admit` | `create_agent_run` with `dispatch_specialist_command(s)` |
| `ExecuteAndWait`, `ExecuteAndClose` | `execute_read_only_specialist` with siblings left, or as the last one |
| `FailRequired`, `FailOptionalAndWait`, `FailOptionalAndDegrade` | the three ends of `fail_specialist_command` |
| `FailAndTimeOut`, `FailTimedOut` | `fail_specialist_command` after the deadline |
| `Cancel`, `Expire` | `cancel_agent_run`, `expire_agent_run` |
| `Deadline`, `Readings` | the clock, and what an old reading of it still says |

Every transaction locks the run row before it writes, so transactions of one run
are serial. The lease is taken and cleared inside each of them and is not a
variable. Artifacts, summaries, hashes and scope checks only decide whether a
transaction raises, and a transaction that raises leaves nothing: no step.

### AgentDelivery: consumers, crashes, redelivery

`entry[c]` is the stream entry of a command (`new`, `pending`, `acked`),
`phase[w]` the place of a consumer in `run_once`: `execute` (first transaction),
`fail` (rolled back, failure not yet recorded), `ack` (outcome committed).
`Publish` is one row of `publish_due_outbox_once`: XADD unless the key is on the
stream, and the mark (`marked[c]`), which are one step because the row is locked
and nobody else reads the mark; `PublisherDies` leaves the entry without the
mark. `Take` is `claim_pending` or `read_group`; it may take a pending entry from a
consumer that is still busy. `Raise` is the rollback, `CommitFailure` the second
transaction, `Abort` the case in which that one raises too and the process is
restarted. `Crash` may come in every phase. `Raise` has no guard on the command:
the replay of a completed one is inside the `try` of the handler
(`workers/agent_specialist_runtime.py:357-391`), so a lookup or a commit that
fails there leads to the failure transaction like any other error.

### ObjectiveDag: objectives and the sweep

Commands are numbered by objective key. `AdmitPlan` is `persist_typed_inputs`
and `dispatch_commands`. `Complete` is
`process_stage12_typed_specialist_command` with
`_advance_stage12_objective_dag` in it: `Swept` is the pass over the rows,
`Ready` and `Lost` its two conditions, `Unlocked` what it dispatches.
`FailObjective` is the except branch (this handler, unlike the
one above, replays a completed command before its `try`, so that the branch never
meets one), `FailDrainedObjective` the redelivery of a
command that failed with its sibling, `FanInCovers` the check of
`_fan_in_typed_results` over objectives without a command.

Plans are inputs. `PlansAssumption` states what the planner gives each plan that
admission accepts; the instances are of its shapes (optional risk analysis,
brief of facts and risks, deferred conflict resolution, denied questions), and
one has optional objectives, which the schema allows and the planner does not
produce today. The evidence an unlocked objective needs is always there under
this assumption (a brief or an action has a hard dependency through which it
reaches facts), so the checks for it are not modelled. A plan with a *planned*
conflict resolution (planner lines 322-369) has an objective no capability
serves: the completing transaction raises and the run ends as failed
(`DeferredPlan` in `MCObjectiveDag`).

### AtMostOnce: the promise

Each item is `absent`, `waiting`, `done` or `dropped`, and its effect has
happened `0` or `1` times. It may be performed and reported in one step or in
two, or be dropped; `done` needs the effect; `done` and `dropped` are for good.
Items may wait for ever: the promise is safety. One commit of the code can
settle several rows, so an abstract step moves every item.

### OutboxPipeline: one table, three readers

| TLA+ | code |
|---|---|
| `row`, `attempts` | `outbox_events.status`, `attempts` |
| `subject` | `processing_status` of the message, status of the send request |
| `Ingest`, `CreateRequest`, `ReadRequest`, `Confirm`, `BlockAtConfirm`, `RequestRetrieval` | where rows come from; a confirmation reads and commits in two steps |
| `Fetch`, `Look`, `Add`, `CommitBatch` | the bridge: `SELECT .. FOR UPDATE SKIP LOCKED`, the search and the XADD of `xadd_once`, COMMIT |
| `ReadBatch`, `HandleMessage`, `RaiseRetryable`, `BlockSend`, `BeginSend`, `FinishSend`, `FailUnhandled`, `Ack` | `run_once` of the worker, entry by entry |
| `FetchRetrieval`, `DispatchRetrieval` | `OutboxDispatcher` in the Retrieval V2 process |
| `BridgeDies`, `WorkerDies`, `DispatcherDies` | a death in any state, bounded by `MaxDeaths` |

`held` is the set of rows a transaction has locked; a writer of such a row
waits. `delivered` counts the entries given to the group: what was given to a
worker that died is never read again. `calls` counts effects (a handled message
with the workflow it starts, a call to the Bot API, an indexed row) and exists
for the properties.

### DeepLinkDelivery: transactions around a call

`pc[d]` is the place of one run of the handler: `reserving`, `minting`,
`calling`, `called`, `accepted`, `closing`, `raised`; each action is one
transaction (or the call), and any other dispatch may come in between. After a
database error the handler of the worker rolls back, reads the event without a
lock (`HandlerRaises`) and writes it as a dead letter (`CloseEvent`); a
`processed` that another dispatch commits in between is overwritten. `verdict[d]`
is the failure that `_finish_terminal_delivery` is about to write. The checks of the
binding, the member, the destination and the allowlist may come out either way.
Dispatches overlap freely, which the Stage 03 worker alone does not cause (see
OutboxPipeline): the guards of the code are checked on their own.

### ActionSlots: decisions under row locks

| TLA+ | code |
|---|---|
| `slot`, `objective`, `run`, `completions` | `agent_action_slots`, `agent_objective_runs`, the run and its `run.completed` events |
| `draft`, `applied`, `version` | the record change draft, how often it was applied, the version of the record |
| `runLock`, `SlotLocked`, `DraftLocked` | the row locks, in the order the code takes them |
| `TakeRun`, `Materialize`, `Replay`, `AckEntry` | `process_stage12_action_command` around `materialize_action_slot` |
| `OpenSlot`, `HoldDraft`, `Refuse`, `Confirm`, `Reject` | the routes and `stage12_action_confirmation.py`, up to the commit |
| `OpenDraft`, `ConfirmDraft`, `RejectDraft` | the Stage 06 routes for the same drafts |
| `OpenEdit`, `Edit` | `update_record` from another client |
| `BreakDeadlock` | PostgreSQL aborts one side of a cycle run/slot |

A confirmed update writes the version it has read plus one, as `update_record`
does, without a lock on the record.

### RetrievalIndex: from a change to a row

One scope. `version` and `schema` are the sources, `profile` the visibility
profile of a schema generation, `reg`, `gen` and `proof` the registration and
what it was made for (`0`: expired). `outbox` has one entry for each event the
idempotency keys can tell apart: a change of a source, a page of a bootstrap, a
request for one projection. `index` has a row for each key of the table
(source, version, profile). `Edit`, `Relabel`, `ChangePolicy`, `Register` and
`Lapse` are the platform. A change of fields or permissions begins a new schema
generation, whose profile is the old one, a new one or one that was there before
(`NextProfile`); `LabelMoves` and `PolicyMoves` say which of these an instance
has. `ChangePolicy` revokes the rows of the profiles that have a field a role
lost (`hit`). `Handle` is `OutboxDispatcher._dispatch_event`: it takes an event,
reads (`ReadRequest`, `FindUnusable`), may wait for the provider, and commits
(`CommitRow`, `CommitRevocation`, `FailRow`). Where a handler only queues
requests, its read and its commit are one step. Any read may fail
(`HandlerFails`: another attempt, or a dead letter after the last one), and a
bootstrap may be denied (`BootstrapDenied`: a dead letter at once, as for a scope
whose relations exceed their budget). Neither touches the registration.

## 3. Runs

| run | instance | shows |
|---|---|---|
| `agent_run` | 3 commands, all required/optional splits, unlocking, all fan-ins, 2 recorded failures per command | the outcome, result, commands and event log of a run agree; terminal runs are final |
| `delivery_single` | 1 consumer, 3 commands, 1 death of worker or publisher, raising specialists and fan-ins | as deployed: a closed run keeps its commands, commands settle, runs end |
| `delivery_group` | 2 consumers, 2 commands, 2 deaths | acknowledged is durable; deliveries implement `AgentRun!Spec` |
| `objective_dag` | 4 plans of up to 5 objectives, cancellation, deadline | rows agree with commands, objectives run on what they require, sweeps are complete, answers cover the plan; implements `AgentRun!Spec` |
| `outbox_pipeline` | a message and a send request, 2 bridges, 2 workers, 2 confirmers, 2 deaths | one entry per row, true marks and acknowledgements, rows and subjects agree; implements `AtMostOnce` |
| `outbox_shared` | message, send request, retrieval event; bridge, worker and dispatcher, 1 death | a row leaves the table; an enqueued row is settled or stranded with its worker |
| `deep_link` | 3 dispatches, 1 death, 1 database error | one call, rows agree on a success (the event unless an error closed it), failed links are revoked, outcomes do not improve, reservations are closed |
| `action_slots` | an update and a reminder, 1 worker, 2 requests | slot, objective, draft, record and run agree; implements `AtMostOnce`; transactions end |
| `retrieval_index` | 1 record and its table, 2 versions, 2 schema generations, 2 registrations, 1 fault | revoked is dark, newest is active, each source of a usable scope is served or lost with a dead letter of its own |
| `outbox_unhandled` | a send request, no handler | **violated**: every enqueued row settles |
| `action_drift` | an update, 2 requests | **violated**: a drifted record is refused |
| `retrieval_reindex` | as `retrieval_index`, no fault | **violated**: a registered source is indexed |

The three violations are disagreements between code and documents, quoted under
`findings`:

* `outbox_unhandled` is reached in the default configuration
  (`telegram_send_mode` is `dry_run`) by confirming one send request.
* `action_drift` needs an edit to commit between the read and the write of a
  confirmation. In the sequential case the check works.
* `retrieval_reindex` needs a scope that lapses for fifteen minutes and is asked
  for again; the retrieval route is off by default.

Other disagreements the models have the steps for, without a run: a failure
transaction can take back a completion in a live run, with one consumer when the
replay of the completed command raises, and with two of one group when a late
failure meets the completion of the other (`services/agent_orchestrator.py:713`);
a delivery that was sent can have a dead letter as its event
(`workers/stage03_handlers.py:225`); a dead-lettered bootstrap page leaves its
registration active without the sources behind it
(`workers/retrieval_v2_outbox.py:170`); an entry of
a degraded or cancelled run raises for ever (`:695`); a run whose commands are
all optional and fail without a fan-in stays `running` (`:846`); descendants of
a failed required objective stay `queued`
(`workers/agent_specialist_runtime.py:757`). They are listed under `hazards`,
with those of the newer parts that no property covers (a death that leaves a
reserved delivery with a live link, a draft decided without its slot, a slot
that nobody can decide after the deadline).

### Bounds

* Commands: two are enough for a sibling and the last one, a third one for an
  optional failure in the middle or a sibling that is unlocked late. Objectives:
  five hold two roots, a chain of three behind one of them and one denied.
* `MaxFailures` bounds how often the failure of one command is recorded. Two
  give a repeated record; delivery runs use 4, more than their deaths can cause,
  so the bound does not hide a redelivery.
* `MaxCrashes`, `MaxDeaths`, `MaxOutages`, `MaxFaults`: one or two. A restarted
  process has no state, so a further death repeats an earlier one. The theorems
  have no such bound.
* Events of the pipeline: the properties relate one row with its entry, its
  subject and its readers, or two entries; two rows give batches of one and two.
* Dispatches: two race, the third one meets what they left.
* `MaxAttempts` is 2 in the pipeline, so that one retry and one exhaustion
  occur, and 1 in the index, where a retry waits as the pending event it was.
* The index has `LabelMoves = {FALSE}` and `PolicyMoves = {TRUE}`: a change of
  fields keeps the profile and a change of permissions moves it, so that both
  kinds of generation occur (851,969 states). With both sets `BOOLEAN`, every
  combination, the same properties hold on 1,674,747 states, a run that takes
  longer than is convenient; the theorems hold for all of them.
* `MaxVersion`, `MaxSchema`, `MaxGens` = 2: an old and a new version, schema and
  registration. `PageSize` = 1 makes a bootstrap of two pages. `MaxVersion` of
  `ActionSlots` bounds the version at which an edit begins.
* Symmetry is used in `agent_run` only, which has no liveness property.
* Deadlock checking is off: a system whose runs ended, whose entries are settled
  and whose users are silent has nothing to do.

### Fairness

Publisher, bridge, workers and dispatchers are endless loops that systemd
restarts, so their steps are weakly fair. `Take` of `AgentDelivery` is strongly
fair for each command: an idle worker claims a pending entry once in 30 seconds
at most, which leaves the time in between for the others, and reads new ones in
stream order. In `ActionSlots` a transaction that waits for a row lock is
strongly fair, as PostgreSQL grants locks in the order of the waits, and
`BreakDeadlock` is weakly fair (`deadlock_timeout`). The clock of a run goes on
(`Deadline` is weakly fair). Deaths, failures, users, edits, registrations and
admissions are not fair. That a specialist, a provider or Telegram succeeds is
not assumed; failing for ever is one of the behaviours.

## 4. Proofs

For every value of the constants:

| theorem | module |
|---|---|
| `TypeCorrect`, `RequiredFailureAlwaysCloses`, `OutcomeIsTruthful`, `LogClosesOnce`, `HandlersCommitOnce`, `TerminalRunsAreFinal`, `ClosedRunsKeepCommands`, `LiveRunsHaveWork`, `CommandsTakeEffectOnce` | `AgentRunProofs` |
| `DeliveryImplementsRun`, `AcknowledgedIsDurable`, `NoCommandIsLost`, `DeliveredRunsAreTruthful` | `AgentDeliveryProofs` |
| `DagImplementsRun`, `ObjectiveRunsAreTruthful`, `RowsTrackCommands`, `ObjectivesRunOnResults`, `AnswersCoverPlans`, `CompletionsSweep`, `RowsAreFinal`, `FailuresHaveCommands`, `ObjectivesTakeEffectOnce` | `ObjectiveDagProofs` |
| `PipelineIsTyped`, `KeysAreUnique`, `MarksAreTrue`, `RowsTellTheTruth`, `AckFollowsRecord`, `PipelineIsAtMostOnce` | `OutboxPipelineProofs` |
| `SlotsTypeCorrect`, `RunCompletesOnce`, `ObjectiveStaysWithSlot`, `OutcomeIsOfDraft`, `ActionsAreOnce`, `WaitsHaveAnEnd` | `ActionSlotsProofs` |
| `RowsAreTyped`, `OneCall`, `FailureRevokesTheLink`, `SuccessIsWhole`, `NoOutcomeImproves` | `DeepLinkDeliveryProofs` |
| `IndexIsSound`, `IndexIsTyped`, `RevokedIsDark`, `NewestWins` | `RetrievalIndexProofs` |

Assumptions are those of the modules: `NoCommand` is not a command, fan-ins are
of the three forms, a kind for each event, bridges and dispatchers are different
processes, bounds are natural numbers. The refinement of the run by
`ObjectiveDag` does not use `PlansAssumption`; what is proved of the rows does:
keys are numbers, dependencies have smaller keys, planned objectives depend on
planned ones, and there is a root.

**The invariant of a run.** None of the run properties is inductive alone.
`IInv` adds four facts. `FreshRun`: before admission there is no command and no
event, or admission could reopen things. `ResultIsFinal`: only a completed or
degraded run has a result, so a run that fails has none to withdraw.
`PlanAgrees`: no failed command of a live run is required by the newest plan,
without which a run could close as failed over a command that the failing
transaction called optional. `CompletionRecorded`: a logged completion belongs
to a settled command, from which follows that a command completes once. The log
is treated by `LogExtension`: transactions append, and what an extension must
satisfy is stated once and shown for each action. A by-product is
`ExecuteNeverFailsRun`: the branch in which a *completing* command closes the
run as failed is dead code (`services/agent_orchestrator.py:604`).

**Deliveries.** `BusyHolds` says that a consumer outside `idle` holds a command;
with it each step of `AgentDelivery` is a step of the run or a stutter, and all
run theorems carry over. Acknowledging is a separate step, so `AckedIsDurable`
needs `AckIsDue` (a consumer about to acknowledge holds a settled command) and
`SettledStays` (no transaction reopens one). `NoCommandIsLost` adds that a row is
marked only with its entry on the stream (`MarkedHasEntry`), so an unfinished
command is always due for a publisher or on the stream; with `LiveRunsHaveWork`
this is the part of the liveness of a run that is safety. `LiveRunsHaveWork` also
names the one way a live run loses its last work: all its commands are optional,
all failed, and `fail_specialist_command` was given no fan-in
(`services/agent_orchestrator.py:846`).

**When a completion is final.** `fail_specialist_command` looks at the run, not
at the command, and runs in a transaction of its own after a rollback. In a live
run a completion is therefore not final: a replay that raises, or a delivery that
another consumer overtook, fails a completed command. What is proved is that the
damage ends with the run. Its outcome stays true about the commands as they are
(`OutcomeIsTruthful`: a run that lost a required completion is failed, not
completed), and once it is closed no command changes any more
(`ClosedRunsKeepCommands`), except that a late delivery may record its failure in
a run that timed out. `DeliveredRunsAreTruthful` carries both over to any number
of consumers.

**Commands as items.** *If* its completions stay, a run implements `AtMostOnce`
for its commands (`CommandOnceSpec`: `stage` from `cmd`, `effects` counts the
`agent.completed` events). Each step is reduced to what it does to one command
and to the record of its completion (`CommandStep`), and the count is 0 or 1
because `CompletedOnce` is part of the invariant (`CompletionsCount`).
`ObjectiveDag` meets the hypothesis: the Stage 12 handler replays a completed
command before its `try`, which is the guard `cmd[c] # "completed"` of the failing
actions, and one consumer serves each capability. `AgentDelivery` does not, for
the reasons above. Deep links are *not* such items: a second dispatch may close a
delivery as unknown before the first one calls, so the effect can follow the
outcome.

**The objective rows.** `RowInv` joins the three properties with what they rest
on. `RowsFollowPlan`: a row exists for the objectives the plan uses, once there
is a run, and denied are those the plan denies. `CommandsFollowPlan`: commands
belong to planned objectives, and the roots have theirs from admission on.
`LostOverRequired`: an objective that failed without a
command lost something it required, without which a `completed` run could hide a
failed row, since nobody looks at such a row again; `FailureHasOrigin` follows
the losses down to an objective whose *command* failed, which is in the status
vector the outcome is computed from. The rest is one lemma per action.

**The sweep.** `Swept` is a function defined by recursion over the keys, and the
induction theorems of the library cannot be used for it, since they take an
operator as parameter. That it has the value its definition writes
(`SweptEquation`) is shown with least elements instead: a row looks at rows of
smaller keys only (`SweptRowLooksBack`), so two partial sweeps agree where both
are defined (a least key at which they differ leads to a contradiction), a
partial sweep extends to one more key, and therefore one exists for all keys.
Everything else is derived from the equation (`SweptRows`), among it that one pass
suffices for chains of any length (`CompletionsSweep`).

**The pipeline.** The invariant has a part for the locks and the stream (locked
rows are ready and locked once, a bridge that misses a key holds its row, so one
row never gets two entries), a part for the batches (batches of workers are
disjoint and end at what was delivered), a part for the pair of row and subject,
and a part for effects (an entry nobody has handled has no effect, an entry
being sent has exactly one). Each step is first reduced to what it does to *one*
event (`TableMove`, `WorkerMove`); that a move keeps the pair, the record and
the promise of `AtMostOnce` is then shown once per sort of move.

**Durable actions.** The four properties of slot, objective, draft and run are
proved together with what the locks give. `JobInv`: a worker that is proposing
holds the run, and a decision commits only under the lock of the run, so what
the worker has read of its slot still holds when it commits; a replay therefore
never meets a decided slot. `SlotHeld` and `DraftHeld`: a decision holds its
slot and a drafting request its draft, alone, and both stay pending, so the
change was not applied before. `DraftFollowsProposal` and `SlotsFollowRun` say
that drafts come with a proposal and slots with the run. The refinement of
`AtMostOnce` then needs one move for each record slot. `WaitsHaveAnEnd` is about
the locks themselves: with `RunIsHeld` (who holds the run is a worker that is
proposing) every wait for a row leads in at most three steps, run, slot and draft,
to a transaction that can go on or to a pair `Deadlock(w, q)`. It is what
`EveryTransactionEnds` rests on, for any number of requests and workers. That
`GoesOn` and `WorkerGoesOn` are the guards of the actions they stand for is read
off the actions, as `ENABLED` is beyond the provers. The proofs say nothing of
the version of the record, which is read without a lock: `DriftedRecordIsRefused`
is refuted by the run `action_drift`.

**Deep links.** The invariant says of each place of a dispatch what the rows may
be. At most one dispatch is ever past the reservation and before the call,
because `Reservable` is used up; what comes after can only close. `RaisedByOutage`
says that a dispatch about to close the event has met a database error, which is
the only way `SentIsWhole` lets a sent delivery have another event than
`processed`.

**The index.** `RevokedIsDark` and `NewestWins` are proved together. Rows are
never of a version that is still to come (`RowsAreOfThePast`), and while the
dispatcher waits for the provider (`JobIsCurrent`) the registration is active,
because only the dispatcher revokes one; the request is as new as any row of its
source and profile; and every such row that is still active is in `seen`,
because the platform only makes rows inactive in between. Handlers that fail
change nothing but their event (`RaisedStep`), and a new generation keeps the
profiles of those before it (`GenerationStep`, `NextProfileHolds`).

**Only model-checked.** Liveness: `EveryCommandSettles`, `EveryRunTerminates`,
`PendingLeavesTheTable`, `EnqueuedIsSettledOrStranded`, `ReservedIsClosed`,
`EveryTransactionEnds`, `EverySourceIsServed`. It needs fairness, and fairness
needs `ENABLED`. Every invariant and every action property that a passing run
checks is proved.

## 5. Not modelled

* The interior of a run's transaction: lease conflicts, the identity map of the
  session. A deadlock there is broken by PostgreSQL with an error, which is a
  `Raise`.
* The back-off of the agent publisher, the event topics, trimming of streams,
  and dead letters of entries that cannot be parsed.
* The content of specialists, queries, claims and answers, of chunks, embeddings
  and search: data, of which the models keep the form of the fan-in or the key
  of the row. Planning (`agent_task_planner_v2.py`), query compilation and
  answer composition are pure functions of such data.
* Idempotency records of the Stage 06 routes, several scopes in one index,
  `rollback_retrieval_profile` (no caller).
* Business services, identity, ingestion parsing, Stage 08 memory and retrieval:
  single transactions of one request without a protocol between actors.
* Embedded execution repeats the transactions of the workers in the request.
* The evaluation and acceptance scripts under `src/backend/scripts`, about a
  third of the Python lines, and the tests: they are not part of the service.

The share of lines the map names is therefore small. What the models leave out
is mostly the checking, building and wording of data inside transactions whose
order and effects they have.

## 6. Plan

1. **ActionSlots and AgentRun composed**: `append_agent_runtime_event` and
   `waiting_approval` in the event log of a run.
2. **RetrievalIndex with OutboxPipeline**: the bridge competing for the
   projection requests, and two scopes that share sources.
3. **Idempotency**: the record of a Stage 06 operation with its commits on
   error, and the retry of a key.
4. **ObjectiveDelivery**: `ObjectiveDag` composed with `AgentDelivery`.
5. More proofs: the rows of `ObjectiveDag` under `AgentDelivery` (with item 4);
   which outcomes of a deep link may be followed by its call.
