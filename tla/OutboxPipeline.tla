--------------------------- MODULE OutboxPipeline ---------------------------
(***************************************************************************)
(* The outbox table of the Telegram pipeline and its three readers:        *)
(* - the bridge (workers/stage03_outbox_bridge_runtime.py) moves every     *)
(*   ready row, of whatever event type, to one Redis stream;               *)
(* - the Stage 03 worker (workers/runner.py, workers/stage03_handlers.py)  *)
(*   takes the entries from the stream, handles and acknowledges them;     *)
(* - the Retrieval V2 dispatcher (workers/retrieval_v2_outbox_runtime.py)  *)
(*   handles the ready rows of its own event types in the table.           *)
(* Rows come from message ingestion, from the confirmation of a send       *)
(* request and from the retrieval index.                                   *)
(*                                                                         *)
(* The bridge and the dispatcher hold row locks from SELECT ... FOR UPDATE *)
(* SKIP LOCKED to COMMIT; a worker that updates such a row waits.  XADD    *)
(* happens before that COMMIT.  A process that dies (systemd restarts it)  *)
(* drops its transaction and, as it reads only entries nobody was given    *)
(* (">"), never sees again what it had taken from the stream.              *)
(*                                                                         *)
(* The order of created_at, LIMIT and the delay of a retry are left out:   *)
(* a fetch takes every ready row that is not locked.                       *)
(***************************************************************************)
EXTENDS Integers, Sequences, FiniteSets

CONSTANTS
    Events,         \* outbox rows to be, named by their idempotency_key
    Kind,           \* Events -> Kinds
    HandledKinds,   \* the kinds the worker has a handler for: sends only with
                    \* a bot client (telegram_send_mode "restricted_test")
    Retryable,      \* the messages whose handling may raise
                    \* RetryableStage03WorkerError
    Bridges, Workers, Dispatchers, Confirmers,
    MaxAttempts,    \* max_attempts of a row
    BatchSize,      \* count of XREADGROUP
    MaxDeaths       \* bound on the deaths of processes

Kinds == {"message", "send", "retrieval"}

ASSUME KindAssumption == Kind \in [Events -> Kinds]
ASSUME RetryableAssumption ==
    Retryable \subseteq {e \in Events : Kind[e] = "message"}
ASSUME ProcessAssumption == Bridges \cap Dispatchers = {}
ASSUME NumberAssumption ==
    /\ MaxAttempts \in Nat \ {0}
    /\ BatchSize \in Nat \ {0}
    /\ MaxDeaths \in Nat

VARIABLES
    row,         \* event -> outbox_events.status, "absent" without a row
    attempts,    \* event -> outbox_events.attempts
    subject,     \* event -> processing_status of the message, or status of
                 \* the send request, behind it
    readers,     \* confirmer -> the request it has read as pending, as a set
    held,        \* bridge or dispatcher -> rows its transaction has locked
    todo,        \* bridge -> locked rows it has not put on the stream yet
    missing,     \* bridge -> the row whose key it did not find, as a set
    stream,      \* the entries of the stream, named by their events
    delivered,   \* number of entries given to some worker of the group
    acked,       \* positions that were acknowledged
    job,         \* worker -> position of its entry, end of its batch, phase
    calls,       \* event -> times its effect was started
    deaths

vars == <<row, attempts, subject, readers, held, todo, missing, stream,
          delivered, acked, job, calls, deaths>>

-----------------------------------------------------------------------------
RowStates ==
    {"absent", "pending", "retry", "enqueued", "processed", "dead_letter"}
Ready == {"pending", "retry"}
Settled == {"processed", "dead_letter"}
SubjectStates ==
    {"absent", "queued", "processed", "retrying", "dead_letter",
     "pending_confirmation", "confirmed", "blocked", "sent", "failed"}
Phases == {"open", "sending", "written"}
Lockers == Bridges \cup Dispatchers

Idle == [at |-> 1, end |-> 0, phase |-> "open"]
Busy(w) == job[w].at <= job[w].end
Current(w) == stream[job[w].at]

Locked(e) == \E p \in Lockers : e \in held[p]
OnStream(e) == \E i \in DOMAIN stream : stream[i] = e

Write(e, r, s) ==
    /\ row' = [row EXCEPT ![e] = r]
    /\ subject' = [subject EXCEPT ![e] = s]

tableVars == <<row, attempts, subject, readers>>
bridgeVars == <<held, todo, missing, stream>>
workerVars == <<delivered, acked, job, calls>>

Init ==
    /\ row = [e \in Events |-> "absent"]
    /\ attempts = [e \in Events |-> 0]
    /\ subject = [e \in Events |-> "absent"]
    /\ readers = [u \in Confirmers |-> {}]
    /\ held = [p \in Lockers |-> {}]
    /\ todo = [b \in Bridges |-> {}]
    /\ missing = [b \in Bridges |-> {}]
    /\ stream = <<>>
    /\ delivered = 0
    /\ acked = {}
    /\ job = [w \in Workers |-> Idle]
    /\ calls = [e \in Events |-> 0]
    /\ deaths = 0

-----------------------------------------------------------------------------
(***************************************************************************)
(* Where rows come from.                                                   *)
(***************************************************************************)

\* ingest_mock_telegram_update: the message and its row in one commit.
Ingest(e) ==
    /\ Kind[e] = "message"
    /\ row[e] = "absent"
    /\ Write(e, "pending", "queued")
    /\ UNCHANGED <<attempts, readers, bridgeVars, workerVars, deaths>>

\* The retrieval index requests work of its own worker.
RequestRetrieval(e) ==
    /\ Kind[e] = "retrieval"
    /\ row[e] = "absent"
    /\ row' = [row EXCEPT ![e] = "pending"]
    /\ UNCHANGED <<attempts, subject, readers, bridgeVars, workerVars, deaths>>

\* create_test_send_request: blocked at once for a chat not on the list.
CreateRequest(e, s) ==
    /\ Kind[e] = "send"
    /\ subject[e] = "absent"
    /\ subject' = [subject EXCEPT ![e] = s]
    /\ UNCHANGED <<row, attempts, readers, bridgeVars, workerVars, deaths>>

(***************************************************************************)
(* confirm_test_send_request reads the request without a lock and commits  *)
(* it as confirmed together with the row.  The unique idempotency_key of   *)
(* the row makes the commit of a second confirmer fail as a whole.         *)
(***************************************************************************)
ReadRequest(u, e) ==
    /\ readers[u] = {}
    /\ subject[e] = "pending_confirmation"
    /\ readers' = [readers EXCEPT ![u] = {e}]
    /\ UNCHANGED <<row, attempts, subject, bridgeVars, workerVars, deaths>>

\* Faulty variant: no unique constraint on idempotency_key.
KeyIsAlwaysFree(e) == TRUE

KeyIsFree(e) == row[e] = "absent"

Confirm(u) ==
    /\ readers[u] # {}
    /\ readers' = [readers EXCEPT ![u] = {}]
    /\ LET confirmed == {e \in readers[u] : KeyIsFree(e)}
       IN  /\ row' = [e \in Events |->
                        IF e \in confirmed THEN "pending" ELSE row[e]]
           /\ subject' = [e \in Events |->
                        IF e \in confirmed THEN "confirmed" ELSE subject[e]]
    /\ UNCHANGED <<attempts, bridgeVars, workerVars, deaths>>

\* The chat has left the list meanwhile.  The API is one process with one
\* list: what it refuses here it refuses to all that confirm now.
BlockAtConfirm(e) ==
    /\ \E u \in Confirmers : e \in readers[u]
    /\ row[e] = "absent"
    /\ subject' = [subject EXCEPT ![e] = "blocked"]
    /\ readers' = [u \in Confirmers |-> readers[u] \ {e}]
    /\ UNCHANGED <<row, attempts, bridgeVars, workerVars, deaths>>

-----------------------------------------------------------------------------
\* Faulty variant: a fetch without FOR UPDATE SKIP LOCKED.
FetchableUnlocked == {e \in Events : row[e] \in Ready}

(***************************************************************************)
(* The bridge: dispatch_once, then COMMIT.                                 *)
(***************************************************************************)
Fetchable == {e \in Events : row[e] \in Ready /\ ~Locked(e)}

Fetch(b) ==
    /\ held[b] = {}
    /\ Fetchable # {}
    /\ held' = [held EXCEPT ![b] = Fetchable]
    /\ todo' = [todo EXCEPT ![b] = Fetchable]
    /\ UNCHANGED <<tableVars, missing, stream, workerVars, deaths>>

\* Faulty variant: a row of an earlier attempt is taken to be on the stream.
LookOnce(b, e) ==
    /\ e \in todo[b]
    /\ missing[b] = {}
    /\ todo' = [todo EXCEPT ![b] = @ \ {e}]
    /\ UNCHANGED <<tableVars, held, missing, stream, workerVars, deaths>>

\* xadd_once, first half: XRANGE over the stream for the key.
Look(b, e) ==
    /\ e \in todo[b]
    /\ missing[b] = {}
    /\ IF OnStream(e)
       THEN /\ todo' = [todo EXCEPT ![b] = @ \ {e}]
            /\ UNCHANGED missing
       ELSE /\ missing' = [missing EXCEPT ![b] = {e}]
            /\ UNCHANGED todo
    /\ UNCHANGED <<tableVars, held, stream, workerVars, deaths>>

\* xadd_once, second half: XADD.
Add(b, e) ==
    /\ e \in missing[b]
    /\ stream' = Append(stream, e)
    /\ todo' = [todo EXCEPT ![b] = @ \ {e}]
    /\ missing' = [missing EXCEPT ![b] = {}]
    /\ UNCHANGED <<tableVars, held, workerVars, deaths>>

\* Faulty variant: the mark is committed before the last XADD.
CommitEarly(b) ==
    /\ held[b] # {}
    /\ row' = [e \in Events |-> IF e \in held[b] THEN "enqueued" ELSE row[e]]
    /\ held' = [held EXCEPT ![b] = {}]
    /\ UNCHANGED <<attempts, subject, readers, todo, missing, stream,
                   workerVars, deaths>>

CommitBatch(b) ==
    /\ held[b] # {}
    /\ todo[b] = {}
    /\ row' = [e \in Events |-> IF e \in held[b] THEN "enqueued" ELSE row[e]]
    /\ held' = [held EXCEPT ![b] = {}]
    /\ UNCHANGED <<attempts, subject, readers, todo, missing, stream,
                   workerVars, deaths>>

BridgeDies(b) ==
    /\ held[b] # {}
    /\ deaths < MaxDeaths
    /\ deaths' = deaths + 1
    /\ held' = [held EXCEPT ![b] = {}]
    /\ todo' = [todo EXCEPT ![b] = {}]
    /\ missing' = [missing EXCEPT ![b] = {}]
    /\ UNCHANGED <<tableVars, stream, workerVars>>

-----------------------------------------------------------------------------
\* Faulty variant: a batch is not cut at the end of the stream.
ReadFullBatch(w) ==
    /\ ~Busy(w)
    /\ Len(stream) > delivered
    /\ job' = [job EXCEPT ![w] = [at |-> delivered + 1,
                    end |-> delivered + BatchSize, phase |-> "open"]]
    /\ delivered' = delivered + BatchSize
    /\ UNCHANGED <<tableVars, bridgeVars, acked, calls, deaths>>

\* Faulty variant: the worker waits for a full batch.
ReadLate(w) ==
    /\ ~Busy(w)
    /\ Len(stream) >= delivered + BatchSize
    /\ job' = [job EXCEPT ![w] = [at |-> delivered + 1,
                    end |-> delivered + BatchSize, phase |-> "open"]]
    /\ delivered' = delivered + BatchSize
    /\ UNCHANGED <<tableVars, bridgeVars, acked, calls, deaths>>

(***************************************************************************)
(* The Stage 03 worker: run_once takes a batch and, entry by entry, runs   *)
(* the handler, whose commit is durable, and acknowledges.                 *)
(***************************************************************************)
ReadBatch(w) ==
    LET last == IF delivered + BatchSize < Len(stream)
                THEN delivered + BatchSize ELSE Len(stream)
    IN  /\ ~Busy(w)
        /\ last > delivered
        /\ job' = [job EXCEPT ![w] =
                     [at |-> delivered + 1, end |-> last, phase |-> "open"]]
        /\ delivered' = last
        /\ UNCHANGED <<tableVars, bridgeVars, acked, calls, deaths>>

Opens(w, kind) ==
    /\ Busy(w)
    /\ job[w].phase = "open"
    /\ Kind[Current(w)] = kind
    /\ kind \in HandledKinds

Enter(w, phase) == job' = [job EXCEPT ![w].phase = phase]

\* Faulty variant: the worker does not wait for the row.
HandleUnlocked(w) ==
    /\ Opens(w, "message")
    /\ Write(Current(w), "processed", "processed")
    /\ calls' = [calls EXCEPT ![Current(w)] = @ + 1]
    /\ Enter(w, "written")
    /\ UNCHANGED <<attempts, readers, bridgeVars, delivered, acked, deaths>>

\* handle_telegram_message_received, with the workflow it starts.
HandleMessage(w) ==
    /\ Opens(w, "message")
    /\ ~Locked(Current(w))
    /\ Write(Current(w), "processed", "processed")
    /\ calls' = [calls EXCEPT ![Current(w)] = @ + 1]
    /\ Enter(w, "written")
    /\ UNCHANGED <<attempts, readers, bridgeVars, delivered, acked, deaths>>

\* mark_message_processing_failure after RetryableStage03WorkerError.
RecordFailure(e) ==
    /\ attempts' = [attempts EXCEPT ![e] = @ + 1]
    /\ IF attempts[e] + 1 >= MaxAttempts
       THEN Write(e, "dead_letter", "dead_letter")
       ELSE Write(e, "retry", "retrying")

RaiseRetryable(w) ==
    /\ Opens(w, "message")
    /\ Current(w) \in Retryable
    /\ ~Locked(Current(w))
    /\ RecordFailure(Current(w))
    /\ Enter(w, "written")
    /\ UNCHANGED <<readers, bridgeVars, delivered, acked, calls, deaths>>

\* handle_telegram_test_send_requested: the chat has left the list.
BlockSend(w) ==
    /\ Opens(w, "send")
    /\ subject[Current(w)] = "confirmed"
    /\ ~Locked(Current(w))
    /\ Write(Current(w), "dead_letter", "blocked")
    /\ Enter(w, "written")
    /\ UNCHANGED <<attempts, readers, bridgeVars, delivered, acked, calls,
                   deaths>>

\* The call to the Bot API; nothing of it is in the database yet.
BeginSend(w) ==
    /\ Opens(w, "send")
    /\ subject[Current(w)] = "confirmed"
    /\ calls' = [calls EXCEPT ![Current(w)] = @ + 1]
    /\ Enter(w, "sending")
    /\ UNCHANGED <<tableVars, bridgeVars, delivered, acked, deaths>>

FinishSend(w, ok) ==
    /\ job[w].phase = "sending"
    /\ ~Locked(Current(w))
    /\ IF ok THEN Write(Current(w), "processed", "sent")
             ELSE Write(Current(w), "dead_letter", "failed")
    /\ Enter(w, "written")
    /\ UNCHANGED <<attempts, readers, bridgeVars, delivered, acked, calls,
                   deaths>>

(***************************************************************************)
(* An entry without a handler.  _handle_failure calls                      *)
(* mark_message_processing_failure, which looks for the message of the row *)
(* and, for a row that has none, raises NonRetryableStage03WorkerError out *)
(* of run_once: the process ends, and its batch with it.                   *)
(***************************************************************************)
FailUnhandled(w) ==
    /\ Busy(w)
    /\ job[w].phase = "open"
    /\ Kind[Current(w)] \notin HandledKinds
    /\ Kind[Current(w)] # "message"
    /\ job' = [job EXCEPT ![w] = Idle]
    /\ UNCHANGED <<tableVars, bridgeVars, delivered, acked, calls, deaths>>

\* Faulty variant: the next entry of the batch is taken for handled too.
AckOn(w) ==
    /\ job[w].phase = "written"
    /\ acked' = acked \cup {job[w].at}
    /\ job' = [job EXCEPT ![w] =
                 IF @.at = @.end THEN Idle ELSE [@ EXCEPT !.at = @ + 1]]
    /\ UNCHANGED <<tableVars, bridgeVars, delivered, calls, deaths>>

Ack(w) ==
    /\ job[w].phase = "written"
    /\ acked' = acked \cup {job[w].at}
    /\ job' = [job EXCEPT ![w] =
                 IF @.at = @.end THEN Idle
                 ELSE [at |-> @.at + 1, end |-> @.end, phase |-> "open"]]
    /\ UNCHANGED <<tableVars, bridgeVars, delivered, calls, deaths>>

\* A death of the process, or an exception of the Bot client.
WorkerDies(w) ==
    /\ Busy(w)
    /\ deaths < MaxDeaths
    /\ deaths' = deaths + 1
    /\ job' = [job EXCEPT ![w] = Idle]
    /\ UNCHANGED <<tableVars, bridgeVars, delivered, acked, calls>>

-----------------------------------------------------------------------------
(***************************************************************************)
(* The Retrieval V2 dispatcher: fetch, handle each row, one COMMIT.        *)
(***************************************************************************)
FetchRetrieval(d) ==
    LET mine == {e \in Fetchable : Kind[e] = "retrieval"}
    IN  /\ held[d] = {}
        /\ mine # {}
        /\ held' = [held EXCEPT ![d] = mine]
        /\ UNCHANGED <<tableVars, todo, missing, stream, workerVars, deaths>>

\* What _dispatch_event writes: bad rows raise RetryableOutboxError, lost
\* rows NonRetryableOutboxError.
DispatchRetrieval(d, bad, lost) ==
    /\ held[d] # {}
    /\ bad \cap lost = {}
    /\ row' = [e \in Events |->
                 IF e \notin held[d] THEN row[e]
                 ELSE IF e \in lost THEN "dead_letter"
                 ELSE IF e \in bad
                      THEN IF attempts[e] + 1 >= MaxAttempts
                           THEN "dead_letter" ELSE "retry"
                 ELSE "processed"]
    /\ attempts' = [e \in Events |->
                 IF e \in bad \cup lost THEN attempts[e] + 1 ELSE attempts[e]]
    /\ calls' = [e \in Events |->
                 IF e \in held[d] \ (bad \cup lost)
                 THEN calls[e] + 1 ELSE calls[e]]
    /\ held' = [held EXCEPT ![d] = {}]
    /\ UNCHANGED <<subject, readers, todo, missing, stream, delivered, acked,
                   job, deaths>>

DispatcherDies(d) ==
    /\ held[d] # {}
    /\ deaths < MaxDeaths
    /\ deaths' = deaths + 1
    /\ held' = [held EXCEPT ![d] = {}]
    /\ UNCHANGED <<tableVars, todo, missing, stream, workerVars>>

-----------------------------------------------------------------------------
Producer ==
    \E e \in Events :
        \/ Ingest(e)
        \/ RequestRetrieval(e)
        \/ \E s \in {"pending_confirmation", "blocked"} : CreateRequest(e, s)
        \/ \E u \in Confirmers : ReadRequest(u, e)
        \/ BlockAtConfirm(e)

Bridge(b) ==
    \/ Fetch(b)
    \/ \E e \in Events : Look(b, e) \/ Add(b, e)
    \/ CommitBatch(b)

Worker(w) ==
    \/ ReadBatch(w)
    \/ HandleMessage(w)
    \/ RaiseRetryable(w)
    \/ BlockSend(w)
    \/ BeginSend(w)
    \/ \E ok \in BOOLEAN : FinishSend(w, ok)
    \/ FailUnhandled(w)
    \/ Ack(w)

Dispatcher(d) ==
    \/ FetchRetrieval(d)
    \/ \E bad, lost \in SUBSET held[d] : DispatchRetrieval(d, bad, lost)

Death ==
    \/ \E b \in Bridges : BridgeDies(b)
    \/ \E w \in Workers : WorkerDies(w)
    \/ \E d \in Dispatchers : DispatcherDies(d)

Next ==
    \/ Producer
    \/ \E u \in Confirmers : Confirm(u)
    \/ \E b \in Bridges : Bridge(b)
    \/ \E w \in Workers : Worker(w)
    \/ \E d \in Dispatchers : Dispatcher(d)
    \/ Death

Spec == Init /\ [][Next]_vars

\* Each process runs an endless loop and systemd restarts a dead one.
Fairness ==
    /\ \A b \in Bridges : WF_vars(Bridge(b))
    /\ \A w \in Workers : WF_vars(Worker(w))
    /\ \A d \in Dispatchers : WF_vars(Dispatcher(d))

FairSpec == Spec /\ Fairness
-----------------------------------------------------------------------------
PipelineTypeOK ==
    /\ row \in [Events -> RowStates]
    /\ attempts \in [Events -> Nat]
    /\ subject \in [Events -> SubjectStates]
    /\ readers \in [Confirmers -> SUBSET Events]
    /\ held \in [Lockers -> SUBSET Events]
    /\ todo \in [Bridges -> SUBSET Events]
    /\ missing \in [Bridges -> SUBSET Events]
    /\ stream \in Seq(Events)
    /\ delivered \in 0 .. Len(stream)
    /\ acked \subseteq 1 .. delivered
    /\ job \in [Workers -> [at : Nat, end : Nat, phase : Phases]]
    /\ calls \in [Events -> Nat]
    /\ deaths \in 0 .. MaxDeaths

\* However the bridges overlap, die between XADD and COMMIT and fetch again,
\* a row is on the stream at most once (xadd_once; it is not atomic, and only
\* the row lock keeps two bridges from looking for one key together).
OneEntryPerKey ==
    \A i, j \in DOMAIN stream : stream[i] = stream[j] => i = j

\* A row is marked enqueued only when its entry is on the stream, although
\* the mark is committed later, by a process that may have died in between.
EnqueuedIsOnStream ==
    \A e \in Events : row[e] = "enqueued" => OnStream(e)

\* The outbox row and the message or send request behind it tell the same
\* story, whoever wrote the row last.
RowMatchesSubject ==
    \A e \in Events : Kind[e] # "retrieval" =>
        /\ row[e] = "processed" <=> subject[e] \in {"processed", "sent"}
        /\ row[e] = "dead_letter" <=>
              \/ subject[e] \in {"dead_letter", "failed"}
              \/ subject[e] = "blocked" /\ row[e] # "absent"
        /\ subject[e] = "confirmed" => row[e] \in Ready \cup {"enqueued"}

\* An acknowledged entry has a settled row, or a failure that asked for
\* another attempt is on record.
AckedIsRecorded ==
    \A p \in acked :
        row[stream[p]] \in Settled \/ attempts[stream[p]] > 0

Stranded(e) ==
    \E p \in 1 .. delivered :
        /\ stream[p] = e
        /\ \A w \in Workers : p \notin job[w].at .. job[w].end

\* A committed row reaches the stream, or is settled without it: no death of
\* a bridge loses it.
PendingLeavesTheTable ==
    \A e \in Events :
        row[e] \in Ready ~> OnStream(e) \/ row[e] \in Settled

\* An enqueued row is settled, or its one entry has been taken and its worker
\* has died or dropped it; there is no third way to wait for ever.
EnqueuedIsSettledOrStranded ==
    \A e \in Events :
        row[e] = "enqueued" ~> row[e] \in Settled \/ Stranded(e)

\* Every row that reaches the stream ends processed or dead_letter, as the
\* status table of the Stage 03 worker says, when no process is killed.
EveryEnqueuedRowSettles ==
    \A e \in Events : row[e] = "enqueued" ~> row[e] \in Settled

\* What the pipeline promises of each event: no effect twice, none reported
\* before it happened, no outcome taken back.  A send request counts as
\* given from its confirmation on.
StageOf(e) ==
    CASE row[e] = "absent" /\ subject[e] = "blocked" -> "dropped"
      [] row[e] = "absent" /\ subject[e] # "blocked" -> "absent"
      [] row[e] \in Ready \cup {"enqueued"} -> "waiting"
      [] row[e] = "processed" -> "done"
      [] row[e] = "dead_letter" -> "dropped"

Once == INSTANCE AtMostOnce
    WITH Items <- Events, stage <- [e \in Events |-> StageOf(e)],
         effects <- calls

OnceSpec == Once!AbsSpec
=============================================================================
