------------------------ MODULE OutboxPipelineProofs ------------------------
(***************************************************************************)
(* Proofs about OutboxPipeline, for every set of events and processes,     *)
(* every batch size and every number of deaths.                            *)
(***************************************************************************)
EXTENDS OutboxPipeline, TLAPS

(***************************************************************************)
(* The parts of the inductive invariant.                                   *)
(*                                                                         *)
(* Locks: a ready row is in the hands of one reader of the table, and a    *)
(* bridge knows of each of its rows whether the stream has its key.  This  *)
(* keeps the keys of the stream unique although XRANGE and XADD are two    *)
(* steps.                                                                  *)
(***************************************************************************)
LockInv ==
    /\ \A p, q \in Lockers : p # q => held[p] \cap held[q] = {}
    /\ \A p \in Lockers : \A e \in held[p] : row[e] \in Ready
    /\ \A d \in Dispatchers : \A e \in held[d] : Kind[e] = "retrieval"
    /\ \A b \in Bridges :
        /\ todo[b] \subseteq held[b]
        /\ missing[b] \subseteq todo[b]
        /\ \A e \in missing[b] : ~OnStream(e)
        /\ \A e \in held[b] \ todo[b] : OnStream(e)

StreamInv == LockInv /\ OneEntryPerKey /\ EnqueuedIsOnStream

(***************************************************************************)
(* Subjects: which pairs of states a row and what is behind it go through. *)
(***************************************************************************)
Waiting(e) == row[e] \in Ready \cup {"enqueued"}

MessagePair(e) ==
    /\ row[e] = "absent" => subject[e] = "absent"
    /\ Waiting(e) => subject[e] \in {"queued", "retrying"}
    /\ row[e] = "processed" => subject[e] = "processed"
    /\ row[e] = "dead_letter" => subject[e] = "dead_letter"

SendPair(e) ==
    /\ row[e] = "absent" =>
         subject[e] \in {"absent", "pending_confirmation", "blocked"}
    /\ Waiting(e) => subject[e] = "confirmed"
    /\ row[e] = "processed" => subject[e] = "sent"
    /\ row[e] = "dead_letter" => subject[e] \in {"failed", "blocked"}

PairInv ==
    /\ \A e \in Events :
        /\ Kind[e] = "message" => MessagePair(e)
        /\ Kind[e] = "send" => SendPair(e)
        /\ Kind[e] = "retrieval" => subject[e] = "absent"
    /\ \A u \in Confirmers : \A e \in readers[u] :
        /\ Kind[e] = "send"
        /\ row[e] = "absent" => subject[e] = "pending_confirmation"

(***************************************************************************)
(* Batches: every delivered entry is with one worker at most.              *)
(***************************************************************************)
JobInv ==
    /\ \A w \in Workers :
        /\ Busy(w) => job[w].at >= 1 /\ job[w].end <= delivered
        /\ job[w].phase # "open" => Busy(w)
    /\ \A w, x \in Workers :
        w # x /\ Busy(w) /\ Busy(x) =>
            job[w].end < job[x].at \/ job[x].end < job[w].at

(***************************************************************************)
(* Effects: an entry no worker has started is an event without an effect,  *)
(* and an entry that is done with is on record.                            *)
(***************************************************************************)
Untouched(p) ==
    \/ p > delivered
    \/ \E w \in Workers :
        /\ job[w].at <= p
        /\ p <= job[w].end
        /\ p = job[w].at => job[w].phase = "open"

Unhandled(e) == Waiting(e) /\ calls[e] = 0

EffectInv ==
    /\ \A e \in Events : calls[e] \in {0, 1}
    /\ \A e \in Events :
        Kind[e] = "retrieval" /\ row[e] # "processed" => calls[e] = 0
    /\ \A e \in Events :
        Kind[e] # "retrieval" /\ ~OnStream(e) =>
            row[e] \in Ready \cup {"absent"} /\ calls[e] = 0
    /\ \A p \in 1 .. Len(stream) :
        Untouched(p) /\ Kind[stream[p]] # "retrieval" => Unhandled(stream[p])

RecordInv ==
    /\ \A w \in Workers :
        job[w].phase = "sending" =>
            /\ Kind[Current(w)] = "send"
            /\ Waiting(Current(w))
            /\ calls[Current(w)] = 1
    /\ \A w \in Workers :
        job[w].phase = "written" =>
            row[Current(w)] \in Settled \/ attempts[Current(w)] > 0
    /\ AckedIsRecorded

IInv ==
    /\ PipelineTypeOK
    /\ StreamInv
    /\ PairInv
    /\ JobInv
    /\ EffectInv
    /\ RecordInv

-----------------------------------------------------------------------------
\* What XADD does to the stream.
LEMMA AppendFacts ==
    ASSUME NEW s \in Seq(Events), NEW e \in Events
    PROVE  /\ Append(s, e) \in Seq(Events)
           /\ Len(Append(s, e)) = Len(s) + 1
           /\ \A i \in 1 .. Len(s) : Append(s, e)[i] = s[i]
           /\ Append(s, e)[Len(s) + 1] = e
OBVIOUS

\* A worker with a batch is at an entry of the stream.
LEMMA CurrentFacts ==
    ASSUME PipelineTypeOK, JobInv, NEW w \in Workers, Busy(w)
    PROVE  /\ job[w].at \in 1 .. Len(stream)
           /\ Current(w) \in Events
           /\ OnStream(Current(w))
<1>1. job[w].at \in Nat /\ job[w].end \in Nat /\ delivered \in 0 .. Len(stream)
  BY DEF PipelineTypeOK
<1>2. job[w].at \in 1 .. Len(stream)
  BY <1>1 DEF JobInv, Busy, PipelineTypeOK
<1> QED
  BY <1>2 DEF PipelineTypeOK, Current, OnStream

-----------------------------------------------------------------------------
\* What the workers do to a row keeps the types.
LEMMA WriteTypes ==
    ASSUME PipelineTypeOK, NEW e \in Events, NEW r \in RowStates,
           NEW s \in SubjectStates, Write(e, r, s)
    PROVE  row' \in [Events -> RowStates] /\ subject' \in [Events -> SubjectStates]
BY DEF PipelineTypeOK, Write

LEMMA ProducerTypes ==
    ASSUME PipelineTypeOK, Producer \/ \E u \in Confirmers : Confirm(u)
    PROVE  PipelineTypeOK'
<1>1. ASSUME NEW e \in Events, Ingest(e) \/ RequestRetrieval(e)
      PROVE  PipelineTypeOK'
  BY <1>1 DEF PipelineTypeOK, Ingest, RequestRetrieval, Write, RowStates,
     SubjectStates, bridgeVars, workerVars
<1>2. ASSUME NEW e \in Events, NEW s \in {"pending_confirmation", "blocked"},
             CreateRequest(e, s)
      PROVE  PipelineTypeOK'
  BY <1>2 DEF PipelineTypeOK, CreateRequest, SubjectStates, bridgeVars,
     workerVars
<1>3. ASSUME NEW e \in Events, NEW u \in Confirmers, ReadRequest(u, e)
      PROVE  PipelineTypeOK'
  BY <1>3 DEF PipelineTypeOK, ReadRequest, bridgeVars, workerVars
<1>4. ASSUME NEW u \in Confirmers, Confirm(u)
      PROVE  PipelineTypeOK'
  BY <1>4 DEF PipelineTypeOK, Confirm, RowStates, SubjectStates, bridgeVars,
     workerVars
<1>5. ASSUME NEW e \in Events, BlockAtConfirm(e)
      PROVE  PipelineTypeOK'
  BY <1>5 DEF PipelineTypeOK, BlockAtConfirm, SubjectStates, bridgeVars,
     workerVars
<1> QED
  BY <1>1, <1>2, <1>3, <1>4, <1>5 DEF Producer

LEMMA BridgeTypes ==
    ASSUME PipelineTypeOK, NEW b \in Bridges, Bridge(b) \/ BridgeDies(b)
    PROVE  PipelineTypeOK'
<1>1. CASE Fetch(b)
  BY <1>1 DEF PipelineTypeOK, Fetch, Fetchable, Lockers, tableVars, workerVars
<1>2. ASSUME NEW e \in Events, Look(b, e)
      PROVE  PipelineTypeOK'
  <2>1. todo' \in [Bridges -> SUBSET Events]
    BY <1>2 DEF PipelineTypeOK, Look
  <2>2. missing' \in [Bridges -> SUBSET Events]
    <3>1. CASE OnStream(e)
      BY <1>2, <3>1 DEF PipelineTypeOK, Look
    <3>2. CASE ~OnStream(e)
      <4>1. missing' = [missing EXCEPT ![b] = {e}] /\ {e} \in SUBSET Events
        BY <1>2, <3>2 DEF Look
      <4> QED
        BY <4>1 DEF PipelineTypeOK
    <3> QED
      BY <3>1, <3>2
  <2> QED
    BY <1>2, <2>1, <2>2 DEF PipelineTypeOK, Look, tableVars, workerVars
<1>3. ASSUME NEW e \in Events, Add(b, e)
      PROVE  PipelineTypeOK'
  <2>1. stream' \in Seq(Events) /\ Len(stream') = Len(stream) + 1
    BY <1>3, AppendFacts DEF PipelineTypeOK, Add
  <2>2. delivered' \in 0 .. Len(stream')
    BY <1>3, <2>1 DEF PipelineTypeOK, Add, workerVars
  <2> QED
    BY <1>3, <2>1, <2>2 DEF PipelineTypeOK, Add, tableVars, workerVars
<1>4. CASE CommitBatch(b)
  BY <1>4 DEF PipelineTypeOK, CommitBatch, RowStates, workerVars
<1>5. CASE BridgeDies(b)
  <2>1. held' \in [Lockers -> SUBSET Events]
    BY <1>5 DEF PipelineTypeOK, BridgeDies
  <2>2. /\ todo' \in [Bridges -> SUBSET Events]
        /\ missing' \in [Bridges -> SUBSET Events]
    BY <1>5 DEF PipelineTypeOK, BridgeDies
  <2>3. deaths' \in 0 .. MaxDeaths
    BY <1>5, NumberAssumption DEF PipelineTypeOK, BridgeDies
  <2> QED
    BY <1>5, <2>1, <2>2, <2>3 DEF PipelineTypeOK, BridgeDies, tableVars,
       workerVars
<1> QED
  BY <1>1, <1>2, <1>3, <1>4, <1>5 DEF Bridge

\* Every form the job of a worker takes is typed.
LEMMA JobTypes ==
    ASSUME PipelineTypeOK, NEW w \in Workers, NEW ph \in Phases,
           NEW i \in Nat, NEW k \in Nat
    PROVE  /\ [job EXCEPT ![w].phase = ph]
                \in [Workers -> [at : Nat, end : Nat, phase : Phases]]
           /\ [job EXCEPT ![w] = [at |-> i, end |-> k, phase |-> ph]]
                \in [Workers -> [at : Nat, end : Nat, phase : Phases]]
<1> DEFINE Job == [at : Nat, end : Nat, phase : Phases]
<1>1. job \in [Workers -> Job]
  BY DEF PipelineTypeOK
<1>2. \A j \in Job : [j EXCEPT !.phase = ph] \in Job
  OBVIOUS
<1>3. [at |-> i, end |-> k, phase |-> ph] \in Job
  OBVIOUS
<1>4. [job EXCEPT ![w].phase = ph] = [job EXCEPT ![w] = [job[w] EXCEPT !.phase = ph]]
  OBVIOUS
<1> HIDE DEF Job
<1>5. [job EXCEPT ![w] = [job[w] EXCEPT !.phase = ph]] \in [Workers -> Job]
  BY <1>1, <1>2
<1>6. [job EXCEPT ![w] = [at |-> i, end |-> k, phase |-> ph]]
        \in [Workers -> Job]
  BY <1>1, <1>3
<1> QED
  BY <1>4, <1>5, <1>6 DEF Job

\* What a worker does outside of the tables.
LEMMA WorkerFrame ==
    ASSUME PipelineTypeOK, UNCHANGED <<readers, bridgeVars, deaths>>,
           row' \in [Events -> RowStates],
           attempts' \in [Events -> Nat],
           subject' \in [Events -> SubjectStates],
           job' \in [Workers -> [at : Nat, end : Nat, phase : Phases]],
           calls' \in [Events -> Nat],
           UNCHANGED <<delivered, acked>>
    PROVE  PipelineTypeOK'
BY DEF PipelineTypeOK, bridgeVars

LEMMA WorkerTypes ==
    ASSUME PipelineTypeOK, JobInv, NEW w \in Workers, Worker(w) \/ WorkerDies(w)
    PROVE  PipelineTypeOK'
<1> USE DEF Phases
<1>1. CASE ReadBatch(w)
  <2>1. /\ delivered' \in 0 .. Len(stream)
        /\ delivered <= delivered'
        /\ job' = [job EXCEPT ![w] =
               [at |-> delivered + 1, end |-> delivered', phase |-> "open"]]
    BY <1>1, NumberAssumption DEF PipelineTypeOK, ReadBatch
  <2>2. job' \in [Workers -> [at : Nat, end : Nat, phase : Phases]]
    <3>1. delivered + 1 \in Nat /\ delivered' \in Nat
      BY <2>1 DEF PipelineTypeOK
    <3> QED
      BY <2>1, <3>1, JobTypes
  <2>3. acked' \subseteq 1 .. delivered'
    BY <1>1, <2>1 DEF PipelineTypeOK, ReadBatch
  <2> QED
    BY <1>1, <2>1, <2>2, <2>3 DEF PipelineTypeOK, ReadBatch, tableVars,
       bridgeVars
<1>2. CASE HandleMessage(w)
  <2>1. Current(w) \in Events
    BY <1>2, CurrentFacts DEF HandleMessage, Opens
  <2>2. row' \in [Events -> RowStates] /\ subject' \in [Events -> SubjectStates]
    BY <1>2, <2>1, WriteTypes DEF HandleMessage, RowStates, SubjectStates
  <2>3. calls' \in [Events -> Nat]
    BY <1>2, <2>1 DEF PipelineTypeOK, HandleMessage
  <2>4. job' \in [Workers -> [at : Nat, end : Nat, phase : Phases]]
    BY <1>2, JobTypes DEF HandleMessage, Enter
  <2> QED
    BY <1>2, <2>2, <2>3, <2>4, WorkerFrame DEF HandleMessage, PipelineTypeOK
<1>3. CASE RaiseRetryable(w)
  <2>1. Current(w) \in Events
    BY <1>3, CurrentFacts DEF RaiseRetryable, Opens
  <2>2. row' \in [Events -> RowStates] /\ subject' \in [Events -> SubjectStates]
    BY <1>3, <2>1, WriteTypes DEF RaiseRetryable, RecordFailure, RowStates,
       SubjectStates
  <2>3. attempts' \in [Events -> Nat]
    BY <1>3, <2>1 DEF PipelineTypeOK, RaiseRetryable, RecordFailure
  <2>4. job' \in [Workers -> [at : Nat, end : Nat, phase : Phases]]
    BY <1>3, JobTypes DEF RaiseRetryable, Enter
  <2> QED
    BY <1>3, <2>2, <2>3, <2>4, WorkerFrame DEF RaiseRetryable, PipelineTypeOK
<1>4. CASE BlockSend(w)
  <2>1. Current(w) \in Events
    BY <1>4, CurrentFacts DEF BlockSend, Opens
  <2>2. row' \in [Events -> RowStates] /\ subject' \in [Events -> SubjectStates]
    BY <1>4, <2>1, WriteTypes DEF BlockSend, RowStates, SubjectStates
  <2>3. job' \in [Workers -> [at : Nat, end : Nat, phase : Phases]]
    BY <1>4, JobTypes DEF BlockSend, Enter
  <2> QED
    BY <1>4, <2>2, <2>3, WorkerFrame DEF BlockSend, PipelineTypeOK
<1>5. CASE BeginSend(w)
  <2>1. calls' \in [Events -> Nat]
    <3>1. Current(w) \in Events
      BY <1>5, CurrentFacts DEF BeginSend, Opens
    <3> QED
      BY <1>5, <3>1 DEF PipelineTypeOK, BeginSend
  <2>2. job' \in [Workers -> [at : Nat, end : Nat, phase : Phases]]
    BY <1>5, JobTypes DEF BeginSend, Enter
  <2> QED
    BY <1>5, <2>1, <2>2, WorkerFrame DEF BeginSend, PipelineTypeOK, tableVars
<1>6. ASSUME NEW ok \in BOOLEAN, FinishSend(w, ok)
      PROVE  PipelineTypeOK'
  <2>1. Current(w) \in Events
    BY <1>6, CurrentFacts DEF FinishSend, JobInv
  <2>2. row' \in [Events -> RowStates] /\ subject' \in [Events -> SubjectStates]
    BY <1>6, <2>1, WriteTypes DEF FinishSend, RowStates, SubjectStates
  <2>3. job' \in [Workers -> [at : Nat, end : Nat, phase : Phases]]
    BY <1>6, JobTypes DEF FinishSend, Enter
  <2> QED
    BY <1>6, <2>2, <2>3, WorkerFrame DEF FinishSend, PipelineTypeOK
<1>7. CASE FailUnhandled(w) \/ WorkerDies(w)
  <2>1. job' \in [Workers -> [at : Nat, end : Nat, phase : Phases]]
    <3>1. job' = [job EXCEPT ![w] = [at |-> 1, end |-> 0, phase |-> "open"]]
      BY <1>7 DEF FailUnhandled, WorkerDies, Idle
    <3> QED
      BY <3>1, JobTypes
  <2>2. deaths' \in 0 .. MaxDeaths
    BY <1>7, NumberAssumption DEF PipelineTypeOK, FailUnhandled, WorkerDies
  <2> QED
    BY <1>7, <2>1, <2>2 DEF PipelineTypeOK, FailUnhandled, WorkerDies,
       tableVars, bridgeVars
<1>8. CASE Ack(w)
  <2>1. job[w].at \in 1 .. delivered
    BY <1>8 DEF Ack, JobInv, Busy, PipelineTypeOK
  <2>2. job' \in [Workers -> [at : Nat, end : Nat, phase : Phases]]
    <3>1. job[w].at + 1 \in Nat /\ job[w].end \in Nat
      BY <2>1 DEF PipelineTypeOK
    <3>2. \/ job' = [job EXCEPT ![w] =
                      [at |-> 1, end |-> 0, phase |-> "open"]]
          \/ job' = [job EXCEPT ![w] =
                      [at |-> job[w].at + 1, end |-> job[w].end,
                       phase |-> "open"]]
      BY <1>8 DEF Ack, Idle
    <3>3. CASE job' = [job EXCEPT ![w] =
                         [at |-> 1, end |-> 0, phase |-> "open"]]
      BY <3>3, JobTypes
    <3>4. CASE job' = [job EXCEPT ![w] =
                         [at |-> job[w].at + 1, end |-> job[w].end,
                          phase |-> "open"]]
      <4> DEFINE i == job[w].at + 1
                 k == job[w].end
      <4>1. i \in Nat /\ k \in Nat /\ "open" \in Phases
        BY <3>1
      <4>2. job' = [job EXCEPT ![w] = [at |-> i, end |-> k, phase |-> "open"]]
        BY <3>4
      <4> HIDE DEF i, k
      <4> QED
        BY <4>1, <4>2, JobTypes
    <3> QED
      BY <3>2, <3>3, <3>4
  <2> QED
    BY <1>8, <2>1, <2>2 DEF PipelineTypeOK, Ack, tableVars, bridgeVars
<1> QED
  BY <1>1, <1>2, <1>3, <1>4, <1>5, <1>6, <1>7, <1>8 DEF Worker

LEMMA DispatcherTypes ==
    ASSUME PipelineTypeOK, NEW d \in Dispatchers,
           Dispatcher(d) \/ DispatcherDies(d)
    PROVE  PipelineTypeOK'
<1>1. CASE FetchRetrieval(d) \/ DispatcherDies(d)
  <2>1. held' \in [Lockers -> SUBSET Events]
    BY <1>1 DEF PipelineTypeOK, FetchRetrieval, Fetchable, DispatcherDies
  <2>2. deaths' \in 0 .. MaxDeaths
    BY <1>1, NumberAssumption DEF PipelineTypeOK, FetchRetrieval,
       DispatcherDies
  <2> QED
    BY <1>1, <2>1, <2>2 DEF PipelineTypeOK, FetchRetrieval, DispatcherDies,
       tableVars, workerVars
<1>2. ASSUME NEW bad \in SUBSET held[d], NEW lost \in SUBSET held[d],
             DispatchRetrieval(d, bad, lost)
      PROVE  PipelineTypeOK'
  <2>1. row' \in [Events -> RowStates]
    BY <1>2 DEF PipelineTypeOK, DispatchRetrieval, RowStates
  <2>2. attempts' \in [Events -> Nat] /\ calls' \in [Events -> Nat]
    BY <1>2 DEF PipelineTypeOK, DispatchRetrieval
  <2> QED
    BY <1>2, <2>1, <2>2 DEF PipelineTypeOK, DispatchRetrieval, Lockers
<1> QED
  BY <1>1, <1>2 DEF Dispatcher

LEMMA TypeStep ==
    ASSUME PipelineTypeOK, JobInv, [Next]_vars
    PROVE  PipelineTypeOK'
<1>1. CASE UNCHANGED vars
  BY <1>1 DEF PipelineTypeOK, vars
<1> QED
  BY <1>1, ProducerTypes, BridgeTypes, WorkerTypes, DispatcherTypes
  DEF Next, Death

-----------------------------------------------------------------------------
(***************************************************************************)
(* Locks and the stream.                                                   *)
(***************************************************************************)

\* A transaction of a worker or a producer writes no row that is locked and
\* marks none as enqueued.
LEMMA RowsOnly ==
    ASSUME PipelineTypeOK, StreamInv, UNCHANGED bridgeVars,
           \A e \in Events : \/ row'[e] = row[e]
                             \/ ~Locked(e) /\ row'[e] # "enqueued"
    PROVE  StreamInv'
<1>1. OneEntryPerKey' /\ EnqueuedIsOnStream'
  BY DEF StreamInv, OneEntryPerKey, EnqueuedIsOnStream, OnStream, bridgeVars
<1>2. \A p \in Lockers : \A e \in held[p] : e \in Events /\ Locked(e)
  BY DEF PipelineTypeOK, Locked
<1>3. LockInv'
  BY <1>2 DEF StreamInv, LockInv, OnStream, bridgeVars
<1> QED
  BY <1>1, <1>3 DEF StreamInv

LEMMA WriteUnlocked ==
    ASSUME PipelineTypeOK, StreamInv, UNCHANGED bridgeVars,
           NEW e \in Events, ~Locked(e), NEW r \in RowStates, r # "enqueued",
           row' = [row EXCEPT ![e] = r]
    PROVE  StreamInv'
<1>1. \A x \in Events : \/ row'[x] = row[x]
                        \/ ~Locked(x) /\ row'[x] # "enqueued"
  BY DEF PipelineTypeOK
<1> QED
  BY <1>1, RowsOnly

\* A row that is not there is not locked.
LEMMA AbsentIsUnlocked ==
    ASSUME LockInv, NEW e \in Events, row[e] = "absent"
    PROVE  ~Locked(e)
BY DEF LockInv, Locked, Ready

LEMMA ProducerStream ==
    ASSUME PipelineTypeOK, StreamInv, Producer \/ \E u \in Confirmers : Confirm(u)
    PROVE  StreamInv'
<1>1. ASSUME NEW e \in Events, Ingest(e) \/ RequestRetrieval(e)
      PROVE  StreamInv'
  BY <1>1, AbsentIsUnlocked, WriteUnlocked
  DEF Ingest, RequestRetrieval, Write, RowStates, StreamInv
<1>2. ASSUME NEW e \in Events, NEW s \in {"pending_confirmation", "blocked"},
             CreateRequest(e, s)
      PROVE  StreamInv'
  BY <1>2, RowsOnly DEF CreateRequest
<1>3. ASSUME NEW e \in Events, NEW u \in Confirmers, ReadRequest(u, e)
      PROVE  StreamInv'
  BY <1>3, RowsOnly DEF ReadRequest
<1>4. ASSUME NEW u \in Confirmers, Confirm(u)
      PROVE  StreamInv'
  <2>1. \A e \in Events : \/ row'[e] = row[e]
                          \/ ~Locked(e) /\ row'[e] # "enqueued"
    BY <1>4, AbsentIsUnlocked DEF Confirm, KeyIsFree, StreamInv
  <2> QED
    BY <1>4, <2>1, RowsOnly DEF Confirm
<1>5. ASSUME NEW e \in Events, BlockAtConfirm(e)
      PROVE  StreamInv'
  BY <1>5, RowsOnly DEF BlockAtConfirm
<1> QED
  BY <1>1, <1>2, <1>3, <1>4, <1>5 DEF Producer

LEMMA FetchStream ==
    ASSUME PipelineTypeOK, StreamInv, NEW b \in Bridges, Fetch(b)
    PROVE  StreamInv'
<1>1. OneEntryPerKey' /\ EnqueuedIsOnStream'
  BY DEF StreamInv, OneEntryPerKey, EnqueuedIsOnStream, OnStream, Fetch,
     tableVars
<1>2. held' = [held EXCEPT ![b] = Fetchable] /\ row' = row
  BY DEF Fetch, tableVars
<1>3. \A p \in Lockers : held'[p] = IF p = b THEN Fetchable ELSE held[p]
  BY <1>2 DEF PipelineTypeOK
<1>4. \A p \in Lockers : held[p] \cap Fetchable = {}
  BY DEF Fetchable, Locked
<1>5. \A p, q \in Lockers : p # q => held'[p] \cap held'[q] = {}
  BY <1>3, <1>4 DEF StreamInv, LockInv
<1>6. \A p \in Lockers : \A e \in held'[p] : row'[e] \in Ready
  BY <1>2, <1>3 DEF StreamInv, LockInv, Fetchable
<1>7. \A d \in Dispatchers : \A e \in held'[d] : Kind[e] = "retrieval"
  BY <1>3, ProcessAssumption DEF StreamInv, LockInv, Lockers
<1>8. ASSUME NEW c \in Bridges
      PROVE  /\ todo'[c] \subseteq held'[c]
             /\ missing'[c] \subseteq todo'[c]
             /\ \A e \in missing'[c] : ~OnStream(e)'
             /\ \A e \in held'[c] \ todo'[c] : OnStream(e)'
  <2>1. todo'[c] = IF c = b THEN Fetchable ELSE todo[c]
    BY DEF PipelineTypeOK, Fetch
  <2>2. missing' = missing /\ stream' = stream
    BY DEF Fetch
  <2>3. CASE c = b
    <3>1. held[c] = {}
      BY <2>3 DEF Fetch
    <3>2. todo[c] = {} /\ missing[c] = {}
      BY <3>1 DEF StreamInv, LockInv
    <3> QED
      BY <1>3, <2>1, <2>2, <2>3, <3>2 DEF Lockers
  <2>4. CASE c # b
    BY <1>3, <2>1, <2>2, <2>4 DEF StreamInv, LockInv, OnStream, Lockers
  <2> QED
    BY <2>3, <2>4
<1>9. LockInv'
  BY <1>5, <1>6, <1>7, <1>8 DEF LockInv
<1> QED
  BY <1>1, <1>9 DEF StreamInv

LEMMA LookStream ==
    ASSUME PipelineTypeOK, StreamInv, NEW b \in Bridges, NEW e \in Events,
           Look(b, e)
    PROVE  StreamInv'
<1>1. OneEntryPerKey' /\ EnqueuedIsOnStream'
  BY DEF StreamInv, OneEntryPerKey, EnqueuedIsOnStream, OnStream, Look,
     tableVars
<1>2. row' = row /\ held' = held /\ stream' = stream
  BY DEF Look, tableVars
<1>3. ASSUME NEW c \in Bridges
      PROVE  /\ todo'[c] \subseteq held'[c]
             /\ missing'[c] \subseteq todo'[c]
             /\ \A x \in missing'[c] : ~OnStream(x)'
             /\ \A x \in held'[c] \ todo'[c] : OnStream(x)'
  <2>1. /\ todo[c] \subseteq held[c]
        /\ missing[c] \subseteq todo[c]
        /\ \A x \in missing[c] : ~OnStream(x)
        /\ \A x \in held[c] \ todo[c] : OnStream(x)
    BY DEF StreamInv, LockInv
  <2>2. CASE OnStream(e)
    <3>1. /\ missing' = missing
          /\ todo'[c] = IF c = b THEN todo[c] \ {e} ELSE todo[c]
      BY <2>2 DEF PipelineTypeOK, Look
    <3>2. c = b => missing[c] = {}
      BY DEF Look
    <3> QED
      BY <1>2, <2>1, <2>2, <3>1, <3>2 DEF OnStream
  <2>3. CASE ~OnStream(e)
    <3>1. /\ todo' = todo
          /\ missing'[c] = IF c = b THEN {e} ELSE missing[c]
      BY <2>3 DEF PipelineTypeOK, Look
    <3>2. e \in todo[b]
      BY DEF Look
    <3> QED
      BY <1>2, <2>1, <2>3, <3>1, <3>2 DEF OnStream
  <2> QED
    BY <2>2, <2>3
<1>4. LockInv'
  BY <1>2, <1>3 DEF StreamInv, LockInv
<1> QED
  BY <1>1, <1>4 DEF StreamInv

\* Nobody else can have looked for the key: the row is locked.
LEMMA AddStream ==
    ASSUME PipelineTypeOK, StreamInv, NEW b \in Bridges, NEW e \in Events,
           Add(b, e)
    PROVE  StreamInv'
<1>1. /\ row' = row /\ held' = held
      /\ stream' = Append(stream, e)
      /\ \A c \in Bridges :
           /\ todo'[c] = IF c = b THEN todo[c] \ {e} ELSE todo[c]
           /\ missing'[c] = IF c = b THEN {} ELSE missing[c]
  BY DEF PipelineTypeOK, Add, tableVars
<1>2. /\ Len(stream') = Len(stream) + 1
      /\ \A i \in 1 .. Len(stream) : stream'[i] = stream[i]
      /\ stream'[Len(stream) + 1] = e
      /\ stream \in Seq(Events) /\ stream' \in Seq(Events)
  BY <1>1, AppendFacts DEF PipelineTypeOK
<1>3. ~OnStream(e) /\ e \in missing[b]
  BY DEF Add, StreamInv, LockInv
<1>4. \A x : OnStream(x)' <=> OnStream(x) \/ x = e
  BY <1>2 DEF OnStream
<1>5. OneEntryPerKey'
  BY <1>2, <1>3 DEF StreamInv, OneEntryPerKey, OnStream
<1>6. EnqueuedIsOnStream'
  BY <1>1, <1>4 DEF StreamInv, EnqueuedIsOnStream
<1>7. ASSUME NEW c \in Bridges
      PROVE  /\ todo'[c] \subseteq held'[c]
             /\ missing'[c] \subseteq todo'[c]
             /\ \A x \in missing'[c] : ~OnStream(x)'
             /\ \A x \in held'[c] \ todo'[c] : OnStream(x)'
  <2>1. /\ todo[c] \subseteq held[c]
        /\ missing[c] \subseteq todo[c]
        /\ \A x \in missing[c] : ~OnStream(x)
        /\ \A x \in held[c] \ todo[c] : OnStream(x)
    BY DEF StreamInv, LockInv
  <2>2. e \in held[b]
    BY <1>3 DEF StreamInv, LockInv
  <2>3. c # b => e \notin held[c]
    BY <2>2 DEF StreamInv, LockInv, Lockers
  <2> QED
    BY <1>1, <1>4, <2>1, <2>3
<1>8. LockInv'
  BY <1>1, <1>7 DEF StreamInv, LockInv
<1> QED
  BY <1>5, <1>6, <1>8 DEF StreamInv

\* The reader p ends its transaction: its locks go, and the rows it held
\* may have been written.
LEMMA ReleaseStream ==
    ASSUME PipelineTypeOK, StreamInv, NEW p \in Lockers,
           held' = [held EXCEPT ![p] = {}], stream' = stream,
           todo' \in [Bridges -> SUBSET Events],
           missing' \in [Bridges -> SUBSET Events],
           \A b \in Bridges :
              /\ b = p => todo'[b] = {} /\ missing'[b] = {}
              /\ b # p => todo'[b] = todo[b] /\ missing'[b] = missing[b],
           \A e \in Events :
              \/ row'[e] = row[e]
              \/ e \in held[p] /\ (row'[e] = "enqueued" => OnStream(e))
    PROVE  StreamInv'
<1>1. OneEntryPerKey'
  BY DEF StreamInv, OneEntryPerKey
<1>2. EnqueuedIsOnStream'
  BY DEF StreamInv, EnqueuedIsOnStream, OnStream
<1>3. \A q \in Lockers : held'[q] = IF q = p THEN {} ELSE held[q]
  BY DEF PipelineTypeOK
<1>4. \A q, r \in Lockers : q # r => held'[q] \cap held'[r] = {}
  BY <1>3 DEF StreamInv, LockInv
<1>5. \A q \in Lockers : \A e \in held'[q] : row'[e] \in Ready
  <2> SUFFICES ASSUME NEW q \in Lockers, NEW e \in held'[q]
               PROVE  row'[e] \in Ready
    OBVIOUS
  <2>1. q # p /\ e \in held[q] /\ e \in Events
    BY <1>3 DEF PipelineTypeOK
  <2>2. e \notin held[p] /\ row[e] \in Ready
    BY <2>1 DEF StreamInv, LockInv
  <2> QED
    BY <2>1, <2>2
<1>6. \A d \in Dispatchers : \A e \in held'[d] : Kind[e] = "retrieval"
  BY <1>3 DEF StreamInv, LockInv, Lockers
<1>7. \A c \in Bridges :
        /\ todo'[c] \subseteq held'[c]
        /\ missing'[c] \subseteq todo'[c]
        /\ \A x \in missing'[c] : ~OnStream(x)'
        /\ \A x \in held'[c] \ todo'[c] : OnStream(x)'
  BY <1>3 DEF StreamInv, LockInv, OnStream, Lockers
<1>8. LockInv'
  BY <1>4, <1>5, <1>6, <1>7 DEF LockInv
<1> QED
  BY <1>1, <1>2, <1>8 DEF StreamInv

LEMMA BridgeStream ==
    ASSUME PipelineTypeOK, StreamInv, NEW b \in Bridges,
           Bridge(b) \/ BridgeDies(b)
    PROVE  StreamInv'
<1>1. CASE Fetch(b)
  BY <1>1, FetchStream
<1>2. ASSUME NEW e \in Events, Look(b, e) \/ Add(b, e)
      PROVE  StreamInv'
  BY <1>2, LookStream, AddStream
<1>3. b \in Lockers
  BY DEF Lockers
<1>4. CASE CommitBatch(b)
  <2>1. \A e \in Events :
          \/ row'[e] = row[e]
          \/ e \in held[b] /\ (row'[e] = "enqueued" => OnStream(e))
    BY <1>4 DEF CommitBatch, StreamInv, LockInv
  <2>2. missing[b] = {} /\ todo[b] = {}
    BY <1>4 DEF CommitBatch, StreamInv, LockInv
  <2> QED
    BY <1>3, <1>4, <2>1, <2>2, ReleaseStream DEF CommitBatch, PipelineTypeOK
<1>5. CASE BridgeDies(b)
  <2>1. /\ todo' \in [Bridges -> SUBSET Events]
        /\ missing' \in [Bridges -> SUBSET Events]
        /\ \A c \in Bridges :
             /\ c = b => todo'[c] = {} /\ missing'[c] = {}
             /\ c # b => todo'[c] = todo[c] /\ missing'[c] = missing[c]
    BY <1>5 DEF BridgeDies, PipelineTypeOK
  <2>2. held' = [held EXCEPT ![b] = {}] /\ row' = row /\ stream' = stream
    BY <1>5 DEF BridgeDies, tableVars
  <2> QED
    BY <1>3, <2>1, <2>2, ReleaseStream
<1> QED
  BY <1>1, <1>2, <1>4, <1>5 DEF Bridge

LEMMA WorkerStream ==
    ASSUME PipelineTypeOK, StreamInv, JobInv, NEW w \in Workers,
           Worker(w) \/ WorkerDies(w)
    PROVE  StreamInv'
<1>1. CASE ReadBatch(w) \/ BeginSend(w) \/ FailUnhandled(w) \/ Ack(w)
           \/ WorkerDies(w)
  <2>1. UNCHANGED <<row, bridgeVars>>
    BY <1>1 DEF ReadBatch, BeginSend, FailUnhandled, Ack, WorkerDies,
       tableVars
  <2> QED
    BY <2>1, RowsOnly
<1>2. CASE HandleMessage(w) \/ BlockSend(w) \/ RaiseRetryable(w)
  <2>1. Current(w) \in Events
    BY <1>2, CurrentFacts DEF HandleMessage, BlockSend, RaiseRetryable, Opens
  <2> QED
    BY <1>2, <2>1, WriteUnlocked DEF HandleMessage, BlockSend, RaiseRetryable,
       RecordFailure, Write, RowStates
<1>3. ASSUME NEW ok \in BOOLEAN, FinishSend(w, ok)
      PROVE  StreamInv'
  <2>1. Current(w) \in Events
    BY <1>3, CurrentFacts DEF FinishSend, JobInv
  <2> QED
    BY <1>3, <2>1, WriteUnlocked DEF FinishSend, Write, RowStates
<1> QED
  BY <1>1, <1>2, <1>3 DEF Worker

LEMMA DispatcherStream ==
    ASSUME PipelineTypeOK, StreamInv, NEW d \in Dispatchers,
           Dispatcher(d) \/ DispatcherDies(d)
    PROVE  StreamInv'
<1>1. d \in Lockers /\ d \notin Bridges
  BY ProcessAssumption DEF Lockers
<1>2. CASE FetchRetrieval(d)
  <2> DEFINE mine == {e \in Fetchable : Kind[e] = "retrieval"}
  <2>1. held' = [held EXCEPT ![d] = mine]
    BY <1>2 DEF FetchRetrieval
  <2>2. row' = row /\ todo' = todo /\ missing' = missing /\ stream' = stream
    BY <1>2 DEF FetchRetrieval, tableVars
  <2>3. \A p \in Lockers : held'[p] = IF p = d THEN mine ELSE held[p]
    BY <2>1 DEF PipelineTypeOK
  <2>4. \A p \in Lockers : held[p] \cap mine = {}
    BY DEF Fetchable, Locked
  <2>5. \A e \in mine : row[e] \in Ready /\ Kind[e] = "retrieval"
    BY DEF Fetchable
  <2> HIDE DEF mine
  <2>6. \A p, q \in Lockers : p # q => held'[p] \cap held'[q] = {}
    BY <2>3, <2>4 DEF StreamInv, LockInv
  <2>7. /\ \A p \in Lockers : \A e \in held'[p] : row'[e] \in Ready
        /\ \A c \in Dispatchers : \A e \in held'[c] : Kind[e] = "retrieval"
    BY <2>2, <2>3, <2>5 DEF StreamInv, LockInv, Lockers
  <2>8. \A b \in Bridges :
          /\ todo'[b] \subseteq held'[b]
          /\ missing'[b] \subseteq todo'[b]
          /\ \A e \in missing'[b] : ~OnStream(e)'
          /\ \A e \in held'[b] \ todo'[b] : OnStream(e)'
    BY <1>1, <2>2, <2>3 DEF StreamInv, LockInv, OnStream, Lockers
  <2>9. LockInv'
    BY <2>6, <2>7, <2>8 DEF LockInv
  <2> QED
    BY <2>2, <2>9 DEF StreamInv, OneEntryPerKey, EnqueuedIsOnStream, OnStream
<1>3. ASSUME NEW bad \in SUBSET held[d], NEW lost \in SUBSET held[d],
             DispatchRetrieval(d, bad, lost)
      PROVE  StreamInv'
  <2>1. \A e \in Events :
          \/ row'[e] = row[e]
          \/ e \in held[d] /\ row'[e] # "enqueued"
    BY <1>3 DEF DispatchRetrieval
  <2>2. /\ held' = [held EXCEPT ![d] = {}]
        /\ todo' = todo /\ missing' = missing /\ stream' = stream
    BY <1>3 DEF DispatchRetrieval
  <2> QED
    BY <1>1, <2>1, <2>2, ReleaseStream DEF PipelineTypeOK
<1>4. CASE DispatcherDies(d)
  <2>1. /\ held' = [held EXCEPT ![d] = {}] /\ row' = row
        /\ todo' = todo /\ missing' = missing /\ stream' = stream
    BY <1>4 DEF DispatcherDies, tableVars
  <2> QED
    BY <1>1, <2>1, ReleaseStream DEF PipelineTypeOK
<1> QED
  BY <1>2, <1>3, <1>4 DEF Dispatcher

LEMMA StreamStep ==
    ASSUME PipelineTypeOK, StreamInv, JobInv, [Next]_vars
    PROVE  StreamInv'
<1>1. CASE UNCHANGED vars
  BY <1>1, RowsOnly DEF vars, bridgeVars
<1> QED
  BY <1>1, ProducerStream, BridgeStream, WorkerStream, DispatcherStream
  DEF Next, Death

-----------------------------------------------------------------------------
(***************************************************************************)
(* Batches.                                                                *)
(***************************************************************************)
LEMMA EnterFacts ==
    ASSUME PipelineTypeOK, NEW w \in Workers, NEW ph \in Phases, Enter(w, ph)
    PROVE  \A x \in Workers :
              /\ job'[x].at = job[x].at
              /\ job'[x].end = job[x].end
              /\ job'[x].phase = IF x = w THEN ph ELSE job[x].phase
<1>1. \A x \in Workers : job[x] \in [at : Nat, end : Nat, phase : Phases]
  BY DEF PipelineTypeOK
<1>2. \A x \in Workers : x # w => job'[x] = job[x]
  BY DEF PipelineTypeOK, Enter
<1>3. job'[w] = [job[w] EXCEPT !.phase = ph]
  BY DEF PipelineTypeOK, Enter
<1>4. job'[w].at = job[w].at /\ job'[w].end = job[w].end /\ job'[w].phase = ph
  BY <1>1, <1>3
<1> QED
  BY <1>2, <1>4

\* A worker takes a batch, goes on to its next entry or lets the batch go.
NewJob(w, i, k) ==
    job' = [job EXCEPT ![w] = [at |-> i, end |-> k, phase |-> "open"]]

LEMMA NewJobFacts ==
    ASSUME PipelineTypeOK, NEW w \in Workers, NEW i, NEW k, NewJob(w, i, k)
    PROVE  /\ \A x \in Workers : x # w => job'[x] = job[x]
           /\ job'[w].at = i /\ job'[w].end = k /\ job'[w].phase = "open"
BY DEF PipelineTypeOK, NewJob

Takes(w) == ReadBatch(w) \/ FailUnhandled(w) \/ Ack(w) \/ WorkerDies(w)

\* The batch a worker has afterwards is new, the rest of the old, or none.
LEMMA TakesFacts ==
    ASSUME PipelineTypeOK, JobInv, NEW w \in Workers, Takes(w)
    PROVE  /\ UNCHANGED <<tableVars, bridgeVars, calls>>
           /\ delivered' \in Nat /\ delivered <= delivered'
           /\ \A x \in Workers : x # w => job'[x] = job[x]
           /\ job'[w].phase = "open"
           /\ \/ /\ job'[w].at = delivered + 1
                 /\ job'[w].end = delivered'
              \/ /\ Busy(w)
                 /\ job[w].at < job[w].end
                 /\ job'[w].at = job[w].at + 1
                 /\ job'[w].end = job[w].end
                 /\ delivered' = delivered
              \/ /\ job'[w].at = 1
                 /\ job'[w].end = 0
                 /\ delivered' = delivered
<1>1. /\ job[w].at \in Nat /\ job[w].end \in Nat /\ delivered \in Nat
      /\ Len(stream) \in Nat
  BY DEF PipelineTypeOK
<1>2. CASE ReadBatch(w)
  <2>1. NewJob(w, delivered + 1, delivered')
    BY <1>2 DEF ReadBatch, NewJob
  <2>2. delivered' \in Nat /\ delivered <= delivered'
    BY <1>1, <1>2, NumberAssumption DEF ReadBatch
  <2> QED
    BY <1>2, <2>1, <2>2, NewJobFacts DEF ReadBatch
<1>3. CASE FailUnhandled(w) \/ WorkerDies(w)
  <2>1. NewJob(w, 1, 0)
    BY <1>3 DEF FailUnhandled, WorkerDies, NewJob, Idle
  <2> QED
    BY <1>1, <1>3, <2>1, NewJobFacts DEF FailUnhandled, WorkerDies
<1>4. CASE Ack(w)
  <2>1. Busy(w)
    BY <1>4 DEF Ack, JobInv
  <2>2. CASE job[w].at = job[w].end
    <3>1. NewJob(w, 1, 0)
      BY <1>4, <2>2 DEF Ack, NewJob, Idle
    <3> QED
      BY <1>1, <1>4, <3>1, NewJobFacts DEF Ack
  <2>3. CASE job[w].at # job[w].end
    <3>1. NewJob(w, job[w].at + 1, job[w].end)
      BY <1>4, <2>3 DEF Ack, NewJob
    <3>2. job[w].at < job[w].end
      BY <1>1, <2>1, <2>3 DEF Busy
    <3> QED
      BY <1>1, <1>4, <2>1, <3>1, <3>2, NewJobFacts DEF Ack
  <2> QED
    BY <2>2, <2>3
<1> QED
  BY <1>2, <1>3, <1>4 DEF Takes

LEMMA JobStep ==
    ASSUME PipelineTypeOK, JobInv, [Next]_vars
    PROVE  JobInv'
<1>1. \A x \in Workers : /\ job[x].at \in Nat /\ job[x].end \in Nat
                         /\ delivered \in Nat
  BY DEF PipelineTypeOK
<1>2. CASE UNCHANGED <<job, delivered>>
  BY <1>2 DEF JobInv, Busy
<1>3. ASSUME NEW w \in Workers, NEW ph \in Phases, Enter(w, ph), Busy(w),
             delivered' = delivered
      PROVE  JobInv'
  BY <1>1, <1>3, EnterFacts DEF JobInv, Busy
<1>4. ASSUME NEW w \in Workers, Takes(w)
      PROVE  JobInv'
  <2>1. /\ \A x \in Workers : x # w => job'[x] = job[x]
        /\ job'[w].phase = "open"
        /\ delivered' \in Nat /\ delivered <= delivered'
    BY <1>4, TakesFacts
  <2>2. CASE job'[w].at = delivered + 1 /\ job'[w].end = delivered'
    BY <1>1, <2>1, <2>2 DEF JobInv, Busy
  <2>3. CASE /\ Busy(w)
             /\ job[w].at < job[w].end
             /\ job'[w].at = job[w].at + 1
             /\ job'[w].end = job[w].end
             /\ delivered' = delivered
    BY <1>1, <2>1, <2>3 DEF JobInv, Busy
  <2>4. CASE /\ job'[w].at = 1 /\ job'[w].end = 0 /\ delivered' = delivered
    BY <1>1, <2>1, <2>4 DEF JobInv, Busy
  <2> QED
    BY <1>4, <2>2, <2>3, <2>4, TakesFacts
<1>5. ASSUME NEW w \in Workers, Worker(w) \/ WorkerDies(w)
      PROVE  JobInv'
  <2>1. CASE HandleMessage(w) \/ RaiseRetryable(w) \/ BlockSend(w) \/ BeginSend(w)
    BY <1>3, <2>1 DEF HandleMessage, RaiseRetryable, BlockSend, BeginSend,
       Opens, Phases
  <2>2. ASSUME NEW ok \in BOOLEAN, FinishSend(w, ok)
        PROVE  JobInv'
    BY <1>3, <2>2 DEF FinishSend, JobInv, Phases
  <2> QED
    BY <1>4, <1>5, <2>1, <2>2 DEF Worker, Takes
<1>6. CASE Producer \/ \E u \in Confirmers : Confirm(u)
  BY <1>2, <1>6 DEF Producer, Ingest, RequestRetrieval, CreateRequest,
     ReadRequest, BlockAtConfirm, Confirm, workerVars
<1>7. ASSUME NEW b \in Bridges, Bridge(b) \/ BridgeDies(b)
      PROVE  JobInv'
  BY <1>2, <1>7 DEF Bridge, Fetch, Look, Add, CommitBatch, BridgeDies,
     workerVars
<1>8. ASSUME NEW d \in Dispatchers, Dispatcher(d) \/ DispatcherDies(d)
      PROVE  JobInv'
  BY <1>2, <1>8 DEF Dispatcher, FetchRetrieval, DispatchRetrieval,
     DispatcherDies, workerVars
<1> QED
  BY <1>2, <1>5, <1>6, <1>7, <1>8 DEF Next, Death, vars

-----------------------------------------------------------------------------
(***************************************************************************)
(* What a step does to one event.                                          *)
(***************************************************************************)
Same(e) ==
    /\ row'[e] = row[e]
    /\ subject'[e] = subject[e]
    /\ attempts'[e] = attempts[e]
    /\ calls'[e] = calls[e]

\* The event gets its row.
Given(e) ==
    /\ row[e] = "absent" /\ row'[e] = "pending"
    /\ attempts'[e] = attempts[e]
    /\ calls'[e] = calls[e]
    /\ Kind[e] = "message" => subject'[e] = "queued"
    /\ Kind[e] = "send" => subject'[e] = "confirmed"
    /\ Kind[e] = "retrieval" => subject'[e] = subject[e]
    /\ subject[e] # "blocked"

\* A send request is created, without a row.
Requested(e) ==
    /\ Kind[e] = "send"
    /\ row[e] = "absent" /\ row'[e] = "absent"
    /\ subject[e] = "absent"
    /\ subject'[e] \in {"pending_confirmation", "blocked"}
    /\ attempts'[e] = attempts[e]
    /\ calls'[e] = calls[e]

\* A confirmation refuses the request.
Withdrawn(e) ==
    /\ Kind[e] = "send"
    /\ row[e] = "absent" /\ row'[e] = "absent"
    /\ subject[e] = "pending_confirmation"
    /\ subject'[e] = "blocked"
    /\ attempts'[e] = attempts[e]
    /\ calls'[e] = calls[e]
    /\ \A u \in Confirmers : e \notin readers'[u]

Marked(e) ==
    /\ row[e] \in Ready /\ row'[e] = "enqueued"
    /\ OnStream(e)
    /\ subject'[e] = subject[e]
    /\ attempts'[e] = attempts[e]
    /\ calls'[e] = calls[e]

Dispatched(e) ==
    /\ Kind[e] = "retrieval"
    /\ row[e] \in Ready
    /\ subject'[e] = subject[e]
    /\ attempts'[e] >= attempts[e]
    /\ \/ row'[e] = "processed" /\ calls'[e] = calls[e] + 1
       \/ row'[e] \in {"dead_letter", "retry"} /\ calls'[e] = calls[e]

\* The event whose entry a worker is at.
Handled(e) ==
    /\ Kind[e] = "message" /\ Waiting(e) /\ calls[e] = 0
    /\ row'[e] = "processed" /\ subject'[e] = "processed"
    /\ attempts'[e] = attempts[e] /\ calls'[e] = 1

Failed(e) ==
    /\ Kind[e] = "message" /\ Waiting(e) /\ calls[e] = 0
    /\ \/ row'[e] = "dead_letter" /\ subject'[e] = "dead_letter"
       \/ row'[e] = "retry" /\ subject'[e] = "retrying"
    /\ attempts'[e] = attempts[e] + 1 /\ calls'[e] = 0

Blocked(e) ==
    /\ Kind[e] = "send" /\ Waiting(e) /\ calls[e] = 0
    /\ row'[e] = "dead_letter" /\ subject'[e] = "blocked"
    /\ attempts'[e] = attempts[e] /\ calls'[e] = 0

Begun(e) ==
    /\ Kind[e] = "send" /\ Waiting(e) /\ calls[e] = 0
    /\ row'[e] = row[e] /\ subject'[e] = subject[e]
    /\ attempts'[e] = attempts[e] /\ calls'[e] = 1

Finished(e) ==
    /\ Kind[e] = "send" /\ Waiting(e) /\ calls[e] = 1
    /\ \/ row'[e] = "processed" /\ subject'[e] = "sent"
       \/ row'[e] = "dead_letter" /\ subject'[e] = "failed"
    /\ attempts'[e] = attempts[e] /\ calls'[e] = 1

TableMove(e) ==
    \/ Same(e) \/ Given(e) \/ Requested(e) \/ Withdrawn(e)
    \/ Marked(e) \/ Dispatched(e)

\* The phase says which of them a worker has done.
WorkerMove(e, ph) ==
    \/ ph = "sending" /\ Begun(e)
    \/ ph = "written" /\ (Handled(e) \/ Failed(e) \/ Blocked(e) \/ Finished(e))

\* An open entry of a batch is of an event without an effect.
LEMMA OpenIsUnhandled ==
    ASSUME IInv, NEW w \in Workers, Busy(w), job[w].phase = "open",
           Kind[Current(w)] # "retrieval"
    PROVE  Unhandled(Current(w))
<1>1. job[w].at \in 1 .. Len(stream)
  BY CurrentFacts DEF IInv
<1>2. job[w].at \in Nat /\ job[w].end \in Nat /\ job[w].at <= job[w].end
  BY DEF IInv, PipelineTypeOK, Busy
<1>3. Untouched(job[w].at)
  BY <1>2 DEF Untouched
<1> QED
  BY <1>1, <1>3 DEF IInv, EffectInv, Current

Touches(w) ==
    \/ HandleMessage(w)
    \/ RaiseRetryable(w)
    \/ BlockSend(w)
    \/ BeginSend(w)
    \/ \E ok \in BOOLEAN : FinishSend(w, ok)

LEMMA TouchFacts ==
    ASSUME IInv, NEW w \in Workers, Touches(w)
    PROVE  /\ Busy(w)
           /\ UNCHANGED <<readers, bridgeVars, delivered, acked>>
           /\ \A e \in Events \ {Current(w)} : Same(e)
           /\ \E ph \in {"sending", "written"} :
                Enter(w, ph) /\ WorkerMove(Current(w), ph)
<1> DEFINE e == Current(w)
<1>1. Busy(w)
  BY DEF Touches, HandleMessage, RaiseRetryable, BlockSend, BeginSend,
     FinishSend, Opens, IInv, JobInv
<1>2. e \in Events
  BY <1>1, CurrentFacts DEF IInv
<1>3. UNCHANGED <<readers, bridgeVars, delivered, acked>>
  BY DEF Touches, HandleMessage, RaiseRetryable, BlockSend, BeginSend,
     FinishSend, tableVars
<1>4. Opens(w, "message") \/ Opens(w, "send") => Unhandled(e)
  BY OpenIsUnhandled DEF Opens
<1>t. /\ row \in [Events -> RowStates] /\ subject \in [Events -> SubjectStates]
      /\ attempts \in [Events -> Nat] /\ calls \in [Events -> Nat]
  BY DEF IInv, PipelineTypeOK
<1>5. CASE HandleMessage(w)
  <2>1. Opens(w, "message") /\ Write(e, "processed", "processed")
        /\ calls' = [calls EXCEPT ![e] = @ + 1] /\ Enter(w, "written")
        /\ attempts' = attempts
    BY <1>5 DEF HandleMessage
  <2>2. Kind[e] = "message" /\ Waiting(e) /\ calls[e] = 0
    BY <1>4, <2>1 DEF Opens, Unhandled
  <2> HIDE DEF e
  <2>3. Handled(e) /\ \A x \in Events \ {e} : Same(x)
    BY <1>2, <1>t, <2>1, <2>2 DEF Handled, Same, Write
  <2> QED
    BY <1>1, <1>3, <2>1, <2>3 DEF WorkerMove, e
<1>6. CASE RaiseRetryable(w)
  <2>1. Opens(w, "message") /\ RecordFailure(e) /\ Enter(w, "written")
        /\ calls' = calls
    BY <1>6 DEF RaiseRetryable
  <2>2. Kind[e] = "message" /\ Waiting(e) /\ calls[e] = 0
    BY <1>4, <2>1 DEF Opens, Unhandled
  <2> HIDE DEF e
  <2>3. Failed(e) /\ \A x \in Events \ {e} : Same(x)
    BY <1>2, <1>t, <2>1, <2>2 DEF Failed, Same, Write, RecordFailure
  <2> QED
    BY <1>1, <1>3, <2>1, <2>3 DEF WorkerMove, e
<1>7. CASE BlockSend(w)
  <2>1. Opens(w, "send") /\ Write(e, "dead_letter", "blocked")
        /\ Enter(w, "written") /\ calls' = calls /\ attempts' = attempts
    BY <1>7 DEF BlockSend
  <2>2. Kind[e] = "send" /\ Waiting(e) /\ calls[e] = 0
    BY <1>4, <2>1 DEF Opens, Unhandled
  <2> HIDE DEF e
  <2>3. Blocked(e) /\ \A x \in Events \ {e} : Same(x)
    BY <1>2, <1>t, <2>1, <2>2 DEF Blocked, Same, Write
  <2> QED
    BY <1>1, <1>3, <2>1, <2>3 DEF WorkerMove, e
<1>8. CASE BeginSend(w)
  <2>1. Opens(w, "send") /\ calls' = [calls EXCEPT ![e] = @ + 1]
        /\ Enter(w, "sending") /\ UNCHANGED <<row, subject, attempts>>
    BY <1>8 DEF BeginSend, tableVars
  <2>2. Kind[e] = "send" /\ Waiting(e) /\ calls[e] = 0
    BY <1>4, <2>1 DEF Opens, Unhandled
  <2> HIDE DEF e
  <2>3. Begun(e) /\ \A x \in Events \ {e} : Same(x)
    BY <1>2, <1>t, <2>1, <2>2 DEF Begun, Same
  <2> QED
    BY <1>1, <1>3, <2>1, <2>3 DEF WorkerMove, e
<1>9. ASSUME NEW ok \in BOOLEAN, FinishSend(w, ok)
      PROVE  /\ \A x \in Events \ {e} : Same(x)
             /\ Enter(w, "written") /\ Finished(e)
  <2>1. /\ \/ Write(e, "processed", "sent")
           \/ Write(e, "dead_letter", "failed")
        /\ job[w].phase = "sending"
        /\ Enter(w, "written") /\ calls' = calls /\ attempts' = attempts
    BY <1>9 DEF FinishSend
  <2>2. Kind[e] = "send" /\ Waiting(e) /\ calls[e] = 1
    BY <2>1 DEF IInv, RecordInv
  <2> HIDE DEF e
  <2> QED
    BY <1>2, <1>t, <2>1, <2>2 DEF Finished, Same, Write
<1>10. CASE \E ok \in BOOLEAN : FinishSend(w, ok)
  <2>1. (\A x \in Events \ {e} : Same(x)) /\ Enter(w, "written") /\ Finished(e)
    BY <1>9, <1>10
  <2> QED
    BY <1>1, <1>3, <2>1 DEF WorkerMove
<1> QED
  BY <1>5, <1>6, <1>7, <1>8, <1>10 DEF Touches

\* The other transactions: the batches of the workers stay as they are, and
\* the stream only grows, by an entry of a row that is ready.
LEMMA TableFacts ==
    ASSUME IInv,
           \/ Producer
           \/ \E u \in Confirmers : Confirm(u)
           \/ \E b \in Bridges : Bridge(b) \/ BridgeDies(b)
           \/ \E d \in Dispatchers : Dispatcher(d) \/ DispatcherDies(d)
    PROVE  /\ UNCHANGED <<delivered, acked, job>>
           /\ \A e \in Events : TableMove(e)
           /\ \/ stream' = stream
              \/ /\ UNCHANGED <<row, subject, attempts, calls>>
                 /\ \E e \in Events : /\ stream' = Append(stream, e)
                                      /\ row[e] \in Ready
                                      /\ ~OnStream(e)
<1> DEFINE Goal ==
      /\ UNCHANGED <<delivered, acked, job>>
      /\ \A e \in Events : TableMove(e)
      /\ \/ stream' = stream
         \/ /\ UNCHANGED <<row, subject, attempts, calls>>
            /\ \E e \in Events : /\ stream' = Append(stream, e)
                                 /\ row[e] \in Ready
                                 /\ ~OnStream(e)
<1>t. /\ row \in [Events -> RowStates] /\ subject \in [Events -> SubjectStates]
      /\ attempts \in [Events -> Nat] /\ calls \in [Events -> Nat]
      /\ Kind \in [Events -> Kinds]
  BY KindAssumption DEF IInv, PipelineTypeOK
<1>p. \A e \in Events :
        /\ Kind[e] = "message" => MessagePair(e)
        /\ Kind[e] = "send" => SendPair(e)
        /\ Kind[e] = "retrieval" => subject[e] = "absent"
  BY DEF IInv, PairInv
<1>1. ASSUME NEW e \in Events, Ingest(e)
      PROVE  Goal
  <2>1. Given(e) /\ \A x \in Events \ {e} : Same(x)
    BY <1>1, <1>t, <1>p DEF Ingest, Write, Given, Same, MessagePair, bridgeVars,
       workerVars
  <2> QED
    BY <1>1, <2>1 DEF TableMove, Ingest, bridgeVars, workerVars
<1>2. ASSUME NEW e \in Events, RequestRetrieval(e)
      PROVE  Goal
  <2>1. Given(e) /\ \A x \in Events \ {e} : Same(x)
    BY <1>2, <1>t, <1>p DEF RequestRetrieval, Given, Same, bridgeVars,
       workerVars
  <2> QED
    BY <1>2, <2>1 DEF TableMove, RequestRetrieval, bridgeVars, workerVars
<1>3. ASSUME NEW e \in Events, NEW s \in {"pending_confirmation", "blocked"},
             CreateRequest(e, s)
      PROVE  Goal
  <2>1. row[e] = "absent"
    BY <1>3, <1>t, <1>p DEF CreateRequest, SendPair, Waiting, RowStates, Ready
  <2>2. Requested(e) /\ \A x \in Events \ {e} : Same(x)
    BY <1>3, <1>t, <2>1 DEF CreateRequest, Requested, Same, workerVars
  <2> QED
    BY <1>3, <2>2 DEF TableMove, CreateRequest, bridgeVars, workerVars
<1>4. ASSUME NEW e \in Events, NEW u \in Confirmers, ReadRequest(u, e)
      PROVE  Goal
  BY <1>4 DEF TableMove, Same, ReadRequest, bridgeVars, workerVars
<1>5. ASSUME NEW u \in Confirmers, Confirm(u)
      PROVE  Goal
  <2>1. readers[u] \in SUBSET Events
    BY DEF IInv, PipelineTypeOK
  <2>2. \A e \in readers[u] :
          /\ Kind[e] = "send"
          /\ row[e] = "absent" => subject[e] = "pending_confirmation"
    BY DEF IInv, PairInv
  <2>3. \A e \in Events : Given(e) \/ Same(e)
    BY <1>5, <1>t, <2>1, <2>2 DEF Confirm, KeyIsFree, Given, Same, workerVars
  <2> QED
    BY <1>5, <2>3 DEF TableMove, Confirm, bridgeVars, workerVars
<1>b. ASSUME NEW e \in Events, BlockAtConfirm(e)
      PROVE  Goal
  <2>1. Kind[e] = "send" /\ subject[e] = "pending_confirmation"
    BY <1>b DEF BlockAtConfirm, IInv, PairInv
  <2>2. Withdrawn(e) /\ \A x \in Events \ {e} : Same(x)
    BY <1>b, <1>t, <2>1 DEF BlockAtConfirm, Withdrawn, Same, workerVars
  <2> QED
    BY <1>b, <2>2 DEF TableMove, BlockAtConfirm, bridgeVars, workerVars
<1>6. CASE Producer \/ \E u \in Confirmers : Confirm(u)
  BY <1>1, <1>2, <1>3, <1>4, <1>5, <1>6, <1>b DEF Producer
<1>7. ASSUME NEW b \in Bridges, Fetch(b) \/ BridgeDies(b)
      PROVE  Goal
  BY <1>7 DEF TableMove, Same, Fetch, BridgeDies, tableVars, workerVars
<1>8. ASSUME NEW b \in Bridges, NEW e \in Events, Look(b, e)
      PROVE  Goal
  BY <1>8 DEF TableMove, Same, Look, tableVars, workerVars
<1>9. ASSUME NEW b \in Bridges, NEW e \in Events, Add(b, e)
      PROVE  Goal
  <2>1. row[e] \in Ready /\ ~OnStream(e)
    BY <1>9 DEF Add, IInv, StreamInv, LockInv, Lockers
  <2> QED
    BY <1>9, <2>1 DEF TableMove, Same, Add, tableVars, workerVars
<1>10. ASSUME NEW b \in Bridges, CommitBatch(b)
       PROVE  Goal
  <2>1. \A e \in held[b] : row[e] \in Ready /\ OnStream(e)
    BY <1>10 DEF CommitBatch, IInv, StreamInv, LockInv, Lockers
  <2>2. \A e \in Events : Same(e) \/ Marked(e)
    BY <1>10, <2>1 DEF CommitBatch, Same, Marked, workerVars
  <2> QED
    BY <1>10, <2>2 DEF TableMove, CommitBatch, workerVars
<1>11. ASSUME NEW d \in Dispatchers, FetchRetrieval(d) \/ DispatcherDies(d)
       PROVE  Goal
  BY <1>11 DEF TableMove, Same, FetchRetrieval, DispatcherDies, tableVars,
     workerVars
<1>12. ASSUME NEW d \in Dispatchers, NEW bad \in SUBSET held[d],
              NEW lost \in SUBSET held[d], DispatchRetrieval(d, bad, lost)
       PROVE  Goal
  <2>1. \A e \in held[d] : row[e] \in Ready /\ Kind[e] = "retrieval"
    BY DEF IInv, StreamInv, LockInv, Lockers
  <2>2. ASSUME NEW e \in Events
        PROVE  Same(e) \/ Dispatched(e)
    <3>1. attempts[e] \in Nat
      BY <1>t
    <3>2. subject'[e] = subject[e]
      BY <1>12 DEF DispatchRetrieval
    <3>3. CASE e \notin held[d]
      BY <1>12, <3>2, <3>3 DEF DispatchRetrieval, Same
    <3>4. CASE e \in held[d]
      <4>1. attempts'[e] >= attempts[e]
        BY <1>12, <3>1 DEF DispatchRetrieval
      <4>2. \/ row'[e] = "processed" /\ calls'[e] = calls[e] + 1
            \/ row'[e] \in {"dead_letter", "retry"} /\ calls'[e] = calls[e]
        BY <1>12, <3>4 DEF DispatchRetrieval
      <4> QED
        BY <2>1, <3>2, <3>4, <4>1, <4>2 DEF Dispatched
    <3> QED
      BY <3>3, <3>4
  <2> QED
    BY <1>12, <2>2 DEF TableMove, DispatchRetrieval
<1> QED
  BY <1>6, <1>7, <1>8, <1>9, <1>10, <1>11, <1>12 DEF Bridge, Dispatcher

\* Taking a batch touches no table.
LEMMA TakesMove ==
    ASSUME PipelineTypeOK, JobInv, NEW w \in Workers, Takes(w)
    PROVE  \A e \in Events : Same(e)
BY TakesFacts DEF Same, tableVars

\* Every step is one of the three sorts.
LEMMA StepSorts ==
    ASSUME IInv, [Next]_vars
    PROVE  \/ UNCHANGED vars
           \/ \E w \in Workers : Touches(w)
           \/ \E w \in Workers : Takes(w)
           \/ \/ Producer
              \/ \E u \in Confirmers : Confirm(u)
              \/ \E b \in Bridges : Bridge(b) \/ BridgeDies(b)
              \/ \E d \in Dispatchers : Dispatcher(d) \/ DispatcherDies(d)
<1>1. CASE \E w \in Workers : Worker(w)
  BY <1>1 DEF Worker, Touches, Takes
<1>2. CASE Death
  BY <1>2 DEF Death, Takes
<1> QED
  BY <1>1, <1>2 DEF Next

AnyMove(e) ==
    \/ TableMove(e)
    \/ Handled(e) \/ Failed(e) \/ Blocked(e) \/ Begun(e) \/ Finished(e)

LEMMA EveryEventMoves ==
    ASSUME IInv, [Next]_vars
    PROVE  \A e \in Events : AnyMove(e)
<1>1. CASE UNCHANGED vars
  BY <1>1 DEF AnyMove, TableMove, Same, vars
<1>2. ASSUME NEW w \in Workers, Touches(w)
      PROVE  \A e \in Events : AnyMove(e)
  BY <1>2, TouchFacts DEF AnyMove, TableMove, WorkerMove
<1>3. ASSUME NEW w \in Workers, Takes(w)
      PROVE  \A e \in Events : AnyMove(e)
  BY <1>3, TakesMove DEF AnyMove, TableMove, IInv
<1> QED
  BY <1>1, <1>2, <1>3, StepSorts, TableFacts DEF AnyMove

-----------------------------------------------------------------------------
(***************************************************************************)
(* Subjects, effects and records.                                          *)
(***************************************************************************)

\* The moves of an event keep its pair of states.
LEMMA PairMove ==
    ASSUME NEW e \in Events, Kind[e] \in Kinds,
           Kind[e] = "message" => MessagePair(e),
           Kind[e] = "send" => SendPair(e),
           Kind[e] = "retrieval" => subject[e] = "absent",
           AnyMove(e)
    PROVE  /\ Kind[e] = "message" => MessagePair(e)'
           /\ Kind[e] = "send" => SendPair(e)'
           /\ Kind[e] = "retrieval" => subject'[e] = "absent"
<1> USE DEF MessagePair, SendPair, Waiting, Ready
<1>1. CASE Same(e) \/ Given(e) \/ Requested(e) \/ Withdrawn(e)
  BY <1>1 DEF Same, Given, Requested, Withdrawn
<1>2. CASE Marked(e) \/ Dispatched(e)
  BY <1>2 DEF Marked, Dispatched
<1>3. CASE Handled(e) \/ Failed(e)
  BY <1>3 DEF Handled, Failed
<1>4. CASE Blocked(e) \/ Begun(e) \/ Finished(e)
  BY <1>4 DEF Blocked, Begun, Finished
<1> QED
  BY <1>1, <1>2, <1>3, <1>4 DEF AnyMove, TableMove

\* A request a confirmer has read is still pending or has its row.
LEMMA PairStep ==
    ASSUME IInv, [Next]_vars
    PROVE  PairInv'
<1>1. ASSUME NEW e \in Events
      PROVE  /\ Kind[e] = "message" => MessagePair(e)'
             /\ Kind[e] = "send" => SendPair(e)'
             /\ Kind[e] = "retrieval" => subject'[e] = "absent"
  <2>1. Kind[e] \in Kinds
    BY KindAssumption
  <2>2. AnyMove(e)
    BY EveryEventMoves
  <2>3. /\ Kind[e] = "message" => MessagePair(e)
        /\ Kind[e] = "send" => SendPair(e)
        /\ Kind[e] = "retrieval" => subject[e] = "absent"
    BY DEF IInv, PairInv
  <2> QED
    BY <2>1, <2>2, <2>3, PairMove
<1>2. ASSUME NEW u \in Confirmers, NEW e \in readers'[u]
      PROVE  /\ Kind[e] = "send"
             /\ row'[e] = "absent" => subject'[e] = "pending_confirmation"
  <2>1. CASE e \in readers[u]
    <3>1. e \in Events /\ Kind[e] = "send"
      BY <2>1 DEF IInv, PairInv, PipelineTypeOK
    <3>2. row[e] = "absent" => subject[e] = "pending_confirmation"
      BY <2>1 DEF IInv, PairInv
    <3>3. AnyMove(e)
      BY <3>1, EveryEventMoves
    <3> QED
      BY <3>1, <3>2, <3>3 DEF AnyMove, TableMove, Same, Given, Requested,
         Withdrawn, Marked, Dispatched, Handled, Failed, Blocked, Begun, Finished,
         Waiting, Ready
  <2>2. CASE e \notin readers[u]
    <3>1. PICK v \in Confirmers, x \in Events : ReadRequest(v, x)
      <4>1. CASE Producer
        BY <2>2, <4>1, <1>2 DEF Producer, Ingest, RequestRetrieval,
           CreateRequest, BlockAtConfirm
      <4>2. CASE ~Producer
        <5>1. readers' = readers \/ \E v \in Confirmers : Confirm(v)
          <6>1. CASE UNCHANGED vars
            BY <6>1 DEF vars
          <6>2. CASE \E w \in Workers : Touches(w)
            BY <6>2, TouchFacts
          <6>3. CASE \E w \in Workers : Takes(w)
            BY <6>3, TakesFacts DEF IInv, tableVars
          <6>4. CASE \E b \in Bridges : Bridge(b) \/ BridgeDies(b)
            BY <6>4 DEF Bridge, Fetch, Look, Add, CommitBatch, BridgeDies,
               tableVars
          <6>5. CASE \E d \in Dispatchers : Dispatcher(d) \/ DispatcherDies(d)
            BY <6>5 DEF Dispatcher, FetchRetrieval, DispatchRetrieval,
               DispatcherDies, tableVars
          <6> QED
            BY <4>2, <6>1, <6>2, <6>3, <6>4, <6>5, StepSorts
        <5>2. readers'[u] \subseteq readers[u]
          BY <5>1 DEF Confirm, IInv, PipelineTypeOK
        <5> QED
          BY <1>2, <2>2, <5>2
      <4> QED
        BY <4>1, <4>2
    <3>2. e = x
      BY <1>2, <2>2, <3>1 DEF ReadRequest, IInv, PipelineTypeOK
    <3>3. subject[e] = "pending_confirmation" /\ row' = row /\ subject' = subject
      BY <3>1, <3>2 DEF ReadRequest
    <3>4. Kind[e] \in Kinds /\ row[e] \in RowStates
      BY <3>2, KindAssumption DEF IInv, PipelineTypeOK
    <3>5. Kind[e] = "send"
      BY <3>2, <3>3, <3>4 DEF IInv, PairInv, MessagePair, Kinds, Waiting,
         RowStates, Ready
    <3> QED
      BY <3>3, <3>5
  <2> QED
    BY <2>1, <2>2
<1> QED
  BY <1>1, <1>2 DEF PairInv

Recorded(e) == row[e] \in Settled \/ attempts[e] > 0

\* What is on record stays on record, and what is settled does not change.
LEMMA RecordsStay ==
    ASSUME IInv, [Next]_vars, NEW e \in Events
    PROVE  /\ row[e] \in Settled => row'[e] = row[e]
           /\ Recorded(e) => Recorded(e)'
<1>1. AnyMove(e) /\ attempts[e] \in Nat /\ attempts'[e] \in Nat
  BY EveryEventMoves, TypeStep DEF IInv, PipelineTypeOK
<1>2. CASE TableMove(e)
  BY <1>1, <1>2 DEF TableMove, Same, Given, Requested, Withdrawn, Marked, Dispatched,
     Recorded, Settled, Ready
<1>3. CASE ~TableMove(e)
  BY <1>1, <1>3 DEF AnyMove, Handled, Failed, Blocked, Begun, Finished,
     Recorded, Settled, Ready, Waiting
<1> QED
  BY <1>2, <1>3

\* Two workers are never at entries of one event.
LEMMA OwnEvents ==
    ASSUME IInv, NEW w \in Workers, NEW x \in Workers, w # x, Busy(w), Busy(x)
    PROVE  Current(w) # Current(x)
<1>1. /\ job[w].at \in 1 .. Len(stream)
      /\ job[x].at \in 1 .. Len(stream)
  BY CurrentFacts DEF IInv
<1>2. job[w].at # job[x].at
  <2>1. job[w].end < job[x].at \/ job[x].end < job[w].at
    BY DEF IInv, JobInv
  <2>2. /\ job[w].at \in Nat /\ job[w].end \in Nat
        /\ job[x].at \in Nat /\ job[x].end \in Nat
    BY DEF IInv, PipelineTypeOK
  <2> QED
    BY <2>1, <2>2 DEF Busy
<1> QED
  BY <1>1, <1>2 DEF Current, IInv, StreamInv, OneEntryPerKey, PipelineTypeOK

\* The stream only grows, and the events of its entries do not change.
LEMMA StreamGrows ==
    ASSUME IInv, [Next]_vars
    PROVE  /\ stream' \in Seq(Events) /\ Len(stream) <= Len(stream')
           /\ \A i \in 1 .. Len(stream) : stream'[i] = stream[i]
<1>1. stream \in Seq(Events) /\ Len(stream) \in Nat
  BY DEF IInv, PipelineTypeOK
<1>2. CASE stream' = stream
  BY <1>1, <1>2
<1>3. CASE \E e \in Events : stream' = Append(stream, e)
  BY <1>1, <1>3, AppendFacts
<1>4. CASE UNCHANGED vars
  BY <1>2, <1>4 DEF vars
<1>5. CASE \E w \in Workers : Touches(w) \/ Takes(w)
  BY <1>2, <1>5, TouchFacts, TakesFacts DEF IInv, bridgeVars
<1> QED
  BY <1>2, <1>3, <1>4, <1>5, StepSorts, TableFacts

\* The entry at which a worker stays is of the same event as before.
LEMMA SameEntry ==
    ASSUME IInv, [Next]_vars, NEW w \in Workers, Busy(w),
           job'[w].at = job[w].at
    PROVE  Current(w)' = Current(w)
BY CurrentFacts, StreamGrows DEF IInv, Current

Sending(w) ==
    /\ Kind[Current(w)] = "send"
    /\ Waiting(Current(w))
    /\ calls[Current(w)] = 1

\* A worker that does not move keeps what it knows of its event, whatever
\* another worker or a reader of the table does.
LEMMA OthersStay ==
    ASSUME IInv, [Next]_vars, NEW x \in Workers, job'[x] = job[x], Busy(x),
           \A w \in Workers : Touches(w) => w # x
    PROVE  /\ Current(x)' = Current(x)
           /\ Sending(x) => Sending(x)'
           /\ Recorded(Current(x)) => Recorded(Current(x))'
<1>1. Current(x)' = Current(x)
  BY SameEntry
<1>2. Current(x) \in Events
  BY CurrentFacts DEF IInv
<1>3. Sending(x) => Sending(x)'
  <2> DEFINE e == Current(x)
  <2> SUFFICES ASSUME Sending(x)
               PROVE  row'[e] \in Ready \cup {"enqueued"} /\ calls'[e] = 1
    BY <1>1 DEF Sending, Waiting
  <2>1. Kind[e] = "send" /\ Waiting(e) /\ calls[e] = 1
    BY DEF Sending
  <2>2. TableMove(e)
    <3>1. CASE UNCHANGED vars
      BY <3>1 DEF vars, TableMove, Same
    <3>2. ASSUME NEW w \in Workers, Touches(w)
          PROVE  TableMove(e)
      <4>1. w # x /\ Busy(w)
        BY <3>2, TouchFacts
      <4>2. Current(w) # e
        BY <4>1, OwnEvents
      <4> QED
        BY <1>2, <3>2, <4>2, TouchFacts DEF TableMove
    <3>3. CASE \E w \in Workers : Takes(w)
      BY <1>2, <3>3, TakesMove DEF TableMove, IInv
    <3> QED
      BY <1>2, <3>1, <3>2, <3>3, StepSorts, TableFacts
  <2> HIDE DEF e
  <2> QED
    BY <2>1, <2>2 DEF TableMove, Same, Given, Requested, Withdrawn, Marked, Dispatched,
       Waiting, Ready
<1>4. Recorded(Current(x)) => Recorded(Current(x))'
  <2>1. Recorded(Current(x)) => row'[Current(x)] \in Settled
                                  \/ attempts'[Current(x)] > 0
    BY <1>2, RecordsStay DEF Recorded
  <2> QED
    BY <1>1, <2>1 DEF Recorded
<1> QED
  BY <1>1, <1>3, <1>4

LEMMA RecordStep ==
    ASSUME IInv, [Next]_vars
    PROVE  RecordInv'
<1>1. ASSUME NEW x \in Workers
      PROVE  /\ (job[x].phase = "sending")' => Sending(x)'
             /\ (job[x].phase = "written")' => Recorded(Current(x))'
  <2>1. /\ job[x].phase = "sending" => Sending(x) /\ Busy(x)
        /\ job[x].phase = "written" => Recorded(Current(x)) /\ Busy(x)
    BY DEF IInv, RecordInv, JobInv, Sending, Recorded
  <2>2. CASE Touches(x)
    <3>1. PICK ph \in {"sending", "written"} :
            Enter(x, ph) /\ WorkerMove(Current(x), ph)
      BY <2>2, TouchFacts
    <3>2. job'[x].phase = ph /\ job'[x].at = job[x].at
      BY <3>1, EnterFacts DEF IInv, Phases
    <3>3. Current(x)' = Current(x) /\ Current(x) \in Events
      BY <2>2, <3>2, TouchFacts, SameEntry, CurrentFacts DEF IInv
    <3> DEFINE e == Current(x)
    <3>4. attempts[e] \in Nat
      BY <3>3 DEF IInv, PipelineTypeOK
    <3>5. ph = "sending" => /\ Kind[e] = "send" /\ calls'[e] = 1
                           /\ row'[e] \in Ready \cup {"enqueued"}
      BY <3>1 DEF WorkerMove, Begun, Waiting
    <3>6. ph = "written" => row'[e] \in Settled \/ attempts'[e] > 0
      BY <3>1, <3>4 DEF WorkerMove, Handled, Failed, Blocked, Finished, Settled
    <3> QED
      BY <3>2, <3>3, <3>5, <3>6 DEF Sending, Recorded, Waiting
  <2>3. CASE job'[x] = job[x] /\ ~Touches(x)
    <3>1. CASE Busy(x)
      BY <2>1, <2>3, <3>1, OthersStay
    <3>2. CASE ~Busy(x)
      BY <2>1, <2>3, <3>2
    <3> QED
      BY <3>1, <3>2
  <2>4. CASE Takes(x)
    BY <2>4, TakesFacts DEF IInv
  <2>5. job'[x] = job[x] \/ Touches(x) \/ Takes(x)
    <3>1. CASE UNCHANGED vars
      BY <3>1 DEF vars
    <3>2. ASSUME NEW w \in Workers, Touches(w), w # x
          PROVE  job'[x] = job[x]
      BY <3>2, TouchFacts DEF Enter, IInv, PipelineTypeOK
    <3>3. ASSUME NEW w \in Workers, Takes(w), w # x
          PROVE  job'[x] = job[x]
      BY <3>3, TakesFacts DEF IInv
    <3> QED
      BY <3>1, <3>2, <3>3, StepSorts, TableFacts
  <2> QED
    BY <2>2, <2>3, <2>4, <2>5
<1>2. ASSUME NEW p \in acked'
      PROVE  (Recorded(stream[p]))'
  <2>1. CASE p \in acked
    <3>1. p \in 1 .. Len(stream)
      BY <2>1 DEF IInv, PipelineTypeOK
    <3>2. stream[p] \in Events /\ stream'[p] = stream[p]
      BY <3>1, StreamGrows DEF IInv, PipelineTypeOK
    <3>3. Recorded(stream[p])
      BY <2>1 DEF IInv, RecordInv, AckedIsRecorded, Recorded
    <3>4. row'[stream[p]] \in Settled \/ attempts'[stream[p]] > 0
      BY <3>2, <3>3, RecordsStay DEF Recorded
    <3> QED
      BY <3>2, <3>4 DEF Recorded
  <2>2. CASE p \notin acked
    <3>1. PICK w \in Workers : Ack(w)
      <4>1. CASE UNCHANGED vars
        BY <1>2, <2>2, <4>1 DEF vars
      <4>2. CASE \E w \in Workers : Touches(w)
        BY <1>2, <2>2, <4>2, TouchFacts
      <4>3. CASE \E w \in Workers : Takes(w)
        BY <1>2, <2>2, <4>3 DEF Takes, ReadBatch, FailUnhandled, WorkerDies
      <4> QED
        BY <1>2, <2>2, <4>1, <4>2, <4>3, StepSorts, TableFacts
    <3>2. p = job[w].at /\ row' = row /\ attempts' = attempts /\ stream' = stream
      BY <1>2, <2>2, <3>1 DEF Ack, tableVars, bridgeVars
    <3>3. Recorded(Current(w))
      BY <3>1 DEF Ack, IInv, RecordInv, Recorded
    <3> QED
      BY <3>2, <3>3 DEF Recorded, Current
  <2> QED
    BY <2>1, <2>2
<1>3. AckedIsRecorded'
  BY <1>2 DEF AckedIsRecorded, Recorded
<1> QED
  BY <1>1, <1>3 DEF RecordInv, Sending, Recorded

\* An event at whose entry no worker acts is moved by the table's readers
\* and writers at most.
LEMMA Undisturbed ==
    ASSUME IInv, [Next]_vars, NEW e \in Events,
           \A w \in Workers : Touches(w) => Current(w) # e
    PROVE  TableMove(e)
<1>1. CASE UNCHANGED vars
  BY <1>1 DEF vars, TableMove, Same
<1>2. CASE \E w \in Workers : Touches(w)
  BY <1>2, TouchFacts DEF TableMove
<1>3. CASE \E w \in Workers : Takes(w)
  BY <1>3, TakesMove DEF TableMove, IInv
<1> QED
  BY <1>1, <1>2, <1>3, StepSorts, TableFacts

\* No step makes an entry untouched that was not, and a worker that acts
\* does so at an untouched entry, or one it has touched before.
LEMMA UntouchedBefore ==
    ASSUME IInv, [Next]_vars, NEW p \in 1 .. Len(stream), Untouched(p)'
    PROVE  /\ Untouched(p)
           /\ \A w \in Workers : Touches(w) => Current(w) # stream[p]
<1>t. /\ p \in Nat /\ delivered \in Nat
      /\ \A x \in Workers : job[x].at \in Nat /\ job[x].end \in Nat
  BY DEF IInv, PipelineTypeOK
<1>1. CASE UNCHANGED <<delivered, job>> /\ \A w \in Workers : ~Touches(w)
  BY <1>1 DEF Untouched
<1>2. ASSUME NEW w \in Workers, Touches(w)
      PROVE  Untouched(p) /\ Current(w) # stream[p]
  <2>1. /\ Busy(w) /\ delivered' = delivered
        /\ \E ph \in {"sending", "written"} : Enter(w, ph)
    BY <1>2, TouchFacts
  <2>2. \A x \in Workers :
          /\ job'[x].at = job[x].at /\ job'[x].end = job[x].end
          /\ x # w => job'[x].phase = job[x].phase
          /\ x = w => job'[x].phase # "open"
    BY <2>1, EnterFacts DEF IInv, Phases
  <2>3. Untouched(p)
    BY <2>1, <2>2 DEF Untouched
  <2>4. /\ job[w].at \in 1 .. Len(stream)
        /\ job[w].at <= job[w].end /\ job[w].end <= delivered
    BY <2>1, CurrentFacts DEF IInv, JobInv, Busy
  <2>5. p # job[w].at
    <3> SUFFICES ASSUME p = job[w].at
                 PROVE  FALSE
      OBVIOUS
    <3>1. ~(p > delivered')
      BY <1>t, <2>1, <2>4
    <3>2. PICK x \in Workers : /\ job'[x].at <= p /\ p <= job'[x].end
                               /\ p = job'[x].at => job'[x].phase = "open"
      BY <3>1 DEF Untouched
    <3>3. x # w
      BY <2>2, <3>2
    <3>4. job[x].at <= p /\ p <= job[x].end
      BY <2>2, <3>2
    <3>5. Busy(x)
      BY <1>t, <3>4 DEF Busy
    <3>6. job[w].end < job[x].at \/ job[x].end < job[w].at
      BY <2>1, <3>3, <3>5 DEF IInv, JobInv
    <3> QED
      BY <1>t, <2>4, <3>4, <3>6
  <2>6. Current(w) # stream[p]
    BY <2>4, <2>5 DEF Current, IInv, StreamInv, OneEntryPerKey, PipelineTypeOK
  <2> QED
    BY <2>3, <2>6
<1>3. ASSUME NEW w \in Workers, Takes(w)
      PROVE  Untouched(p)
  <2>1. /\ delivered' \in Nat /\ delivered <= delivered'
        /\ \A x \in Workers : x # w => job'[x] = job[x]
        /\ job'[w].phase = "open"
        /\ \/ job'[w].at = delivered + 1
           \/ /\ job[w].at < job[w].end
              /\ job'[w].at = job[w].at + 1
              /\ job'[w].end = job[w].end
           \/ job'[w].at = 1 /\ job'[w].end = 0
    BY <1>3, TakesFacts DEF IInv
  <2>2. CASE p > delivered'
    BY <1>t, <2>1, <2>2 DEF Untouched
  <2>3. CASE \E x \in Workers : /\ job'[x].at <= p /\ p <= job'[x].end
                                /\ p = job'[x].at => job'[x].phase = "open"
    <3>1. PICK x \in Workers : /\ job'[x].at <= p /\ p <= job'[x].end
                               /\ p = job'[x].at => job'[x].phase = "open"
      BY <2>3
    <3>2. CASE x # w
      BY <2>1, <3>1, <3>2 DEF Untouched
    <3>3. CASE x = w /\ job'[w].at = delivered + 1
      BY <1>t, <3>1, <3>3 DEF Untouched
    <3>4. CASE /\ x = w
               /\ job[w].at < job[w].end
               /\ job'[w].at = job[w].at + 1
               /\ job'[w].end = job[w].end
      BY <1>t, <3>1, <3>4 DEF Untouched
    <3>5. CASE x = w /\ job'[w].at = 1 /\ job'[w].end = 0
      BY <1>t, <3>1, <3>5
    <3> QED
      BY <2>1, <3>2, <3>3, <3>4, <3>5
  <2> QED
    BY <2>2, <2>3 DEF Untouched
<1>4. ASSUME NEW w \in Workers, Takes(w), NEW x \in Workers, Touches(x)
      PROVE  Current(x) # stream[p]
  BY <1>2, <1>4
<1>5. CASE UNCHANGED vars
  <2>1. Untouched(p)
    BY <1>5 DEF vars, Untouched
  <2> QED
    BY <1>2, <2>1
<1>6. CASE UNCHANGED <<delivered, job>>
  <2>1. Untouched(p)
    BY <1>6 DEF Untouched
  <2> QED
    BY <1>2, <2>1
<1> QED
  BY <1>2, <1>3, <1>5, <1>6, StepSorts, TableFacts

LEMMA EffectStep ==
    ASSUME IInv, [Next]_vars
    PROVE  EffectInv'
<1>1. ASSUME NEW e \in Events
      PROVE  /\ calls'[e] \in {0, 1}
             /\ Kind[e] = "retrieval" /\ row'[e] # "processed" => calls'[e] = 0
  <2>1. /\ AnyMove(e)
        /\ calls[e] \in {0, 1}
        /\ Kind[e] = "retrieval" /\ row[e] # "processed" => calls[e] = 0
    BY EveryEventMoves DEF IInv, EffectInv
  <2>2. CASE TableMove(e)
    BY <2>1, <2>2 DEF TableMove, Same, Given, Requested, Withdrawn, Marked, Dispatched,
       Ready
  <2>3. CASE ~TableMove(e)
    BY <2>1, <2>3 DEF AnyMove, Handled, Failed, Blocked, Begun, Finished
  <2> QED
    BY <2>2, <2>3
<1>2. ASSUME NEW e \in Events, Kind[e] # "retrieval", ~OnStream(e)'
      PROVE  row'[e] \in Ready \cup {"absent"} /\ calls'[e] = 0
  <2>1. ~OnStream(e)
    <3> SUFFICES ASSUME NEW i \in DOMAIN stream, stream[i] = e
                 PROVE  OnStream(e)'
      BY <1>2 DEF OnStream
    <3>1. /\ stream \in Seq(Events) /\ stream' \in Seq(Events)
          /\ Len(stream) <= Len(stream')
          /\ \A k \in 1 .. Len(stream) : stream'[k] = stream[k]
      BY StreamGrows DEF IInv, PipelineTypeOK
    <3>2. i \in DOMAIN stream' /\ stream'[i] = e
      BY <3>1
    <3> QED
      BY <3>2 DEF OnStream
  <2>2. \A w \in Workers : Touches(w) => Current(w) # e
    BY <2>1, TouchFacts, CurrentFacts DEF IInv
  <2>3. TableMove(e)
    BY <2>2, Undisturbed
  <2>4. row[e] \in Ready \cup {"absent"} /\ calls[e] = 0
    BY <1>2, <2>1 DEF IInv, EffectInv
  <2> QED
    BY <1>2, <2>1, <2>3, <2>4 DEF TableMove, Same, Given, Requested, Withdrawn, Marked,
       Dispatched, Ready
<1>3. ASSUME NEW p \in 1 .. Len(stream'), Untouched(p)',
             Kind[stream'[p]] # "retrieval"
      PROVE  (Unhandled(stream[p]))'
  <2>1. CASE p \in 1 .. Len(stream)
    <3>1. stream'[p] = stream[p] /\ stream[p] \in Events
      BY <2>1, StreamGrows DEF IInv, PipelineTypeOK
    <3>2. /\ Untouched(p)
          /\ \A w \in Workers : Touches(w) => Current(w) # stream[p]
      BY <1>3, <2>1, UntouchedBefore
    <3>3. Unhandled(stream[p])
      BY <1>3, <2>1, <3>1, <3>2 DEF IInv, EffectInv
    <3>4. TableMove(stream[p])
      BY <3>1, <3>2, Undisturbed
    <3>5. ASSUME NEW e \in Events, Unhandled(e), TableMove(e),
                 Kind[e] # "retrieval"
          PROVE  row'[e] \in Ready \cup {"enqueued"} /\ calls'[e] = 0
      BY <3>5 DEF TableMove, Same, Given, Requested, Withdrawn, Marked, Dispatched,
         Unhandled, Waiting, Ready
    <3> QED
      BY <1>3, <3>1, <3>3, <3>4, <3>5 DEF Unhandled, Waiting
  <2>2. CASE p \notin 1 .. Len(stream)
    <3>0. stream' # stream
      BY <1>3, <2>2
    <3>1. /\ UNCHANGED <<row, subject, attempts, calls>>
          /\ \E e \in Events : /\ stream' = Append(stream, e)
                               /\ row[e] \in Ready
                               /\ ~OnStream(e)
      <4>1. CASE UNCHANGED vars
        BY <3>0, <4>1 DEF vars
      <4>2. CASE \E w \in Workers : Touches(w) \/ Takes(w)
        BY <3>0, <4>2, TouchFacts, TakesFacts DEF IInv, bridgeVars
      <4> QED
        BY <3>0, <4>1, <4>2, StepSorts, TableFacts
    <3>2. PICK e \in Events : /\ stream' = Append(stream, e)
                              /\ row[e] \in Ready
                              /\ ~OnStream(e)
      BY <3>1
    <3>3. Len(stream') = Len(stream) + 1 /\ stream'[Len(stream) + 1] = e
          /\ Len(stream) \in Nat
      BY <3>2, AppendFacts DEF IInv, PipelineTypeOK
    <3>4. p = Len(stream) + 1
      BY <1>3, <2>2, <3>3
    <3>5. Kind[e] # "retrieval" /\ calls[e] = 0
      BY <1>3, <3>2, <3>3, <3>4 DEF IInv, EffectInv
    <3> QED
      BY <3>1, <3>2, <3>3, <3>4, <3>5 DEF Unhandled, Waiting
  <2> QED
    BY <2>1, <2>2
<1> QED
  BY <1>1, <1>2, <1>3 DEF EffectInv

-----------------------------------------------------------------------------
LEMMA InitIInv ==
    ASSUME Init
    PROVE  IInv
<1>1. PipelineTypeOK
  <2>1. job \in [Workers -> [at : Nat, end : Nat, phase : Phases]]
    BY DEF Init, Idle, Phases
  <2> QED
    BY <2>1, NumberAssumption DEF Init, PipelineTypeOK, RowStates, SubjectStates
<1>2. StreamInv
  BY DEF Init, StreamInv, LockInv, OneEntryPerKey, EnqueuedIsOnStream, OnStream,
     Lockers
<1>3. PairInv
  BY DEF Init, PairInv, MessagePair, SendPair, Waiting, Ready
<1>4. \A w \in Workers : /\ job[w].at = 1 /\ job[w].end = 0
                         /\ job[w].phase = "open"
  BY DEF Init, Idle
<1>5. JobInv
  BY <1>4 DEF JobInv, Busy
<1>6. EffectInv
  BY DEF Init, EffectInv
<1>7. RecordInv
  BY <1>4 DEF Init, RecordInv, AckedIsRecorded
<1> QED
  BY <1>1, <1>2, <1>3, <1>5, <1>6, <1>7 DEF IInv

LEMMA StepIInv ==
    ASSUME IInv, [Next]_vars
    PROVE  IInv'
<1>1. PipelineTypeOK' /\ JobInv' /\ StreamInv'
  BY TypeStep, JobStep, StreamStep DEF IInv
<1>2. PairInv' /\ EffectInv' /\ RecordInv'
  BY PairStep, EffectStep, RecordStep
<1> QED
  BY <1>1, <1>2 DEF IInv

LEMMA Invariance == Spec => []IInv
<1>1. Init => IInv
  BY InitIInv
<1>2. IInv /\ [Next]_vars => IInv'
  BY StepIInv
<1> QED
  BY <1>1, <1>2, PTL DEF Spec

(***************************************************************************)
(* Type correctness of the table, the stream and their readers.            *)
(***************************************************************************)
THEOREM PipelineIsTyped == Spec => []PipelineTypeOK
<1>1. IInv => PipelineTypeOK
  BY DEF IInv
<1> QED
  BY <1>1, Invariance, PTL

(***************************************************************************)
(* The scan and the append of xadd_once are two steps, and still no key is *)
(* on the stream twice, for every number of bridges and of deaths.         *)
(***************************************************************************)
THEOREM KeysAreUnique == Spec => []OneEntryPerKey
<1>1. IInv => OneEntryPerKey
  BY DEF IInv, StreamInv
<1> QED
  BY <1>1, Invariance, PTL

(***************************************************************************)
(* A row marked enqueued has its entry, whichever bridge dies where.       *)
(***************************************************************************)
THEOREM MarksAreTrue == Spec => []EnqueuedIsOnStream
<1>1. IInv => EnqueuedIsOnStream
  BY DEF IInv, StreamInv
<1> QED
  BY <1>1, Invariance, PTL

(***************************************************************************)
(* A row and the message or request behind it never disagree.              *)
(***************************************************************************)
THEOREM RowsTellTheTruth == Spec => []RowMatchesSubject
<1>1. ASSUME IInv
      PROVE  RowMatchesSubject
  <2> SUFFICES ASSUME NEW e \in Events, Kind[e] # "retrieval"
               PROVE  /\ row[e] = "processed" <=> subject[e] \in {"processed", "sent"}
                      /\ row[e] = "dead_letter" <=>
                            \/ subject[e] \in {"dead_letter", "failed"}
                            \/ subject[e] = "blocked" /\ row[e] # "absent"
                      /\ subject[e] = "confirmed" => row[e] \in Ready \cup {"enqueued"}
    BY DEF RowMatchesSubject
  <2>1. Kind[e] \in Kinds /\ row[e] \in RowStates
    BY <1>1, KindAssumption DEF IInv, PipelineTypeOK
  <2>2. /\ Kind[e] = "message" => MessagePair(e)
        /\ Kind[e] = "send" => SendPair(e)
    BY <1>1 DEF IInv, PairInv
  <2> QED
    BY <2>1, <2>2 DEF MessagePair, SendPair, Waiting, Ready, Kinds, RowStates
<1> QED
  BY <1>1, Invariance, PTL

(***************************************************************************)
(* What is acknowledged is on record: XACK never runs ahead of the commit. *)
(***************************************************************************)
THEOREM AckFollowsRecord == Spec => []AckedIsRecorded
<1>1. IInv => AckedIsRecorded
  BY DEF IInv, RecordInv
<1> QED
  BY <1>1, Invariance, PTL

-----------------------------------------------------------------------------
\* The alternatives of AtMostOnce, for one event.
AbsMove(e) ==
    \/ Once!Submit(StageOf(e), calls[e], StageOf(e)', calls'[e])
    \/ Once!Refuse(StageOf(e), calls[e], StageOf(e)', calls'[e])
    \/ Once!Perform(StageOf(e), calls[e], StageOf(e)', calls'[e])
    \/ Once!Drop(StageOf(e), calls[e], StageOf(e)', calls'[e])
    \/ Once!Report(StageOf(e), calls[e], StageOf(e)', calls'[e])
    \/ Once!Rest(StageOf(e), calls[e], StageOf(e)', calls'[e])

LEMMA StageFacts ==
    ASSUME NEW e \in Events, row[e] \in RowStates
    PROVE  /\ row[e] = "absent" /\ subject[e] = "blocked" => StageOf(e) = "dropped"
           /\ row[e] = "absent" /\ subject[e] # "blocked" => StageOf(e) = "absent"
           /\ row[e] \in Ready \cup {"enqueued"} => StageOf(e) = "waiting"
           /\ row[e] = "processed" => StageOf(e) = "done"
           /\ row[e] = "dead_letter" => StageOf(e) = "dropped"
           /\ StageOf(e) \in Once!Stages
BY DEF StageOf, RowStates, Ready, Once!Stages

LEMMA EveryMoveIsAbstract ==
    ASSUME IInv, [Next]_vars, NEW e \in Events
    PROVE  AbsMove(e)
<1>1. row[e] \in RowStates /\ row'[e] \in RowStates
  BY StepIInv DEF IInv, PipelineTypeOK
<1>2. /\ row[e] = "absent" /\ subject[e] = "blocked" => StageOf(e) = "dropped"
      /\ row[e] = "absent" /\ subject[e] # "blocked" => StageOf(e) = "absent"
      /\ row[e] \in Ready \cup {"enqueued"} => StageOf(e) = "waiting"
      /\ row[e] = "processed" => StageOf(e) = "done"
      /\ row[e] = "dead_letter" => StageOf(e) = "dropped"
  BY <1>1, StageFacts
<1>3. /\ row'[e] = "absent" /\ subject'[e] = "blocked" => StageOf(e)' = "dropped"
      /\ row'[e] = "absent" /\ subject'[e] # "blocked" => StageOf(e)' = "absent"
      /\ row'[e] \in Ready \cup {"enqueued"} => StageOf(e)' = "waiting"
      /\ row'[e] = "processed" => StageOf(e)' = "done"
      /\ row'[e] = "dead_letter" => StageOf(e)' = "dropped"
  BY <1>1 DEF StageOf, RowStates, Ready
<1>4. /\ AnyMove(e) /\ calls[e] \in {0, 1}
      /\ Kind[e] = "retrieval" /\ row[e] # "processed" => calls[e] = 0
  BY EveryEventMoves DEF IInv, EffectInv
<1> USE DEF AbsMove, Ready
<1>5. CASE Same(e)
  BY <1>5 DEF Same, StageOf, Once!Rest
<1>6. CASE Given(e)
  BY <1>2, <1>3, <1>6 DEF Given, Once!Submit
<1>7. CASE Requested(e)
  BY <1>2, <1>3, <1>7 DEF Requested, Once!Rest, Once!Refuse
<1>w. CASE Withdrawn(e)
  BY <1>2, <1>3, <1>w DEF Withdrawn, Once!Refuse
<1>8. CASE Marked(e)
  BY <1>2, <1>3, <1>8 DEF Marked, Once!Rest
<1>9. CASE Dispatched(e)
  BY <1>2, <1>3, <1>4, <1>9 DEF Dispatched, Once!Rest, Once!Drop, Once!Report
<1>10. CASE Handled(e)
  BY <1>2, <1>3, <1>10 DEF Handled, Waiting, Once!Report
<1>11. CASE Failed(e)
  BY <1>2, <1>3, <1>11 DEF Failed, Waiting, Once!Drop, Once!Rest
<1>12. CASE Blocked(e)
  BY <1>2, <1>3, <1>12 DEF Blocked, Waiting, Once!Drop
<1>13. CASE Begun(e)
  BY <1>2, <1>3, <1>13 DEF Begun, Waiting, Once!Perform
<1>14. CASE Finished(e)
  BY <1>2, <1>3, <1>14 DEF Finished, Waiting, Once!Drop, Once!Report
<1> QED
  BY <1>4, <1>5, <1>6, <1>7, <1>w, <1>8, <1>9, <1>10, <1>11, <1>12, <1>13, <1>14
  DEF AnyMove, TableMove

LEMMA InitIsAbstract == Init => Once!AbsInit
<1> SUFFICES ASSUME Init
             PROVE  Once!AbsInit
  OBVIOUS
<1>1. \A e \in Events : row[e] = "absent" /\ subject[e] = "absent"
  BY DEF Init
<1>2. \A e \in Events : StageOf(e) = "absent"
  BY <1>1, StageFacts DEF RowStates
<1> QED
  BY <1>2 DEF Init, Once!AbsInit

LEMMA StepIsAbstract ==
    ASSUME IInv, [Next]_vars
    PROVE  Once!AbsNext
<1>1. IInv'
  BY StepIInv
<1>2. calls' \in [Events -> {0, 1}]
  BY <1>1 DEF IInv, PipelineTypeOK, EffectInv
<1>3. [e \in Events |-> StageOf(e)]' \in [Events -> Once!Stages]
  <2>1. ASSUME NEW e \in Events
        PROVE  StageOf(e)' \in Once!Stages
    <3>1. row'[e] \in RowStates
      BY <1>1 DEF IInv, PipelineTypeOK
    <3> QED
      BY <3>1 DEF StageOf, RowStates, Ready, Once!Stages
  <2> QED
    BY <2>1
<1>4. ASSUME NEW e \in Events
      PROVE  AbsMove(e)
  BY EveryMoveIsAbstract
<1> QED
  BY <1>2, <1>3, <1>4 DEF Once!AbsNext, AbsMove

(***************************************************************************)
(* Refinement: whatever dies, retries or overlaps, the effect of an event  *)
(* happens at most once, is reported only after it happened, and no        *)
(* outcome is taken back.                                                  *)
(***************************************************************************)
THEOREM PipelineIsAtMostOnce == Spec => OnceSpec
<1>1. Init => Once!AbsInit
  BY InitIsAbstract
<1>2. IInv /\ [Next]_vars => [Once!AbsNext]_<<[e \in Events |-> StageOf(e)], calls>>
  BY StepIsAbstract
<1> QED
  BY <1>1, <1>2, Invariance, PTL DEF Spec, OnceSpec, Once!AbsSpec
=============================================================================
