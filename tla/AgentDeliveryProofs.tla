------------------------ MODULE AgentDeliveryProofs ------------------------
(***************************************************************************)
(* Proofs about AgentDelivery, for every set of commands and consumers and *)
(* every bound: deliveries implement the run, so what AgentRunProofs shows *)
(* of a run holds under every crash, claim and redelivery, and an          *)
(* acknowledged command has a durable outcome.                             *)
(***************************************************************************)
EXTENDS AgentDelivery, AgentRunProofs

(***************************************************************************)
(* The inductive invariant.  A busy consumer holds a command, which a      *)
(* transaction of the run can then be taken for; and a consumer is about   *)
(* to acknowledge only what has settled, which is why the acknowledgement  *)
(* is safe although it is a step of its own.                               *)
(***************************************************************************)
BusyHolds ==
    /\ entry \in [Commands -> EntryStates]
    /\ phase \in [Consumers -> Phases]
    /\ holds \in [Consumers -> Commands \cup {NoCommand}]
    /\ \A w \in Consumers : phase[w] # "idle" => holds[w] \in Commands

AckIsDue ==
    \A w \in Consumers : phase[w] = "ack" => cmd[holds[w]] \in SettledStatuses

DeliveryInv == BusyHolds /\ AckIsDue /\ AckedIsDurable

\* The steps of a delivery, one disjunct per action.
LEMMA DeliveryCases ==
    ASSUME [DeliveryNext]_allVars
    PROVE  \/ RunStep
           \/ \E c \in Commands : Publish(c) \/ PublisherDies(c)
           \/ \E w \in Consumers, c \in Commands : Take(w, c)
           \/ \E w \in Consumers :
                 \/ Commit(w)
                 \/ Replay(w)
                 \/ Raise(w)
                 \/ CommitFailure(w)
                 \/ FailureKnown(w)
                 \/ Abort(w)
                 \/ Ack(w)
                 \/ Crash(w)
           \/ UNCHANGED allVars
BY DEF DeliveryNext, Process

\* A busy consumer keeps its command while it moves from phase to phase.
LEMMA MoveKeepsHolding ==
    ASSUME BusyHolds, NEW w \in Consumers, NEW p \in Phases, MoveTo(w, p),
           phase[w] # "idle"
    PROVE  BusyHolds'
BY DEF BusyHolds, MoveTo

LEMMA BusyHoldsStep ==
    ASSUME BusyHolds, [DeliveryNext]_allVars
    PROVE  BusyHolds'
<1>1. CASE RunStep
  BY <1>1 DEF RunStep, delivery, workers, BusyHolds
<1>2. ASSUME NEW c \in Commands, Publish(c) \/ PublisherDies(c)
      PROVE  BusyHolds'
  BY <1>2 DEF Publish, PublisherDies, AddOnce, workers, BusyHolds, EntryStates
<1>3. ASSUME NEW w \in Consumers, NEW c \in Commands, Take(w, c)
      PROVE  BusyHolds'
  BY <1>3 DEF Take, BusyHolds, EntryStates, Phases
<1>4. ASSUME NEW w \in Consumers,
             \/ Commit(w)
             \/ Replay(w)
             \/ Raise(w)
             \/ CommitFailure(w)
             \/ FailureKnown(w)
      PROVE  BusyHolds'
  <2>1. phase[w] # "idle" /\ \E p \in Phases : MoveTo(w, p)
    BY <1>4 DEF Commit, Replay, Raise, CommitFailure, FailureKnown,
                Phases
  <2> QED
    BY <2>1, MoveKeepsHolding
<1>5. ASSUME NEW w \in Consumers, Ack(w)
      PROVE  BusyHolds'
  BY <1>5 DEF Ack, Forget, BusyHolds, EntryStates, Phases
<1>6. ASSUME NEW w \in Consumers, Abort(w) \/ Crash(w)
      PROVE  BusyHolds'
  BY <1>6 DEF Abort, Crash, Forget, BusyHolds, Phases
<1>7. CASE UNCHANGED allVars
  BY <1>7 DEF allVars, delivery, workers, BusyHolds
<1> QED
  BY DeliveryCases, <1>1, <1>2, <1>3, <1>4, <1>5, <1>6, <1>7

LEMMA HoldingIsInvariant == DeliverySpec => []BusyHolds
<1>1. DeliveryInit => BusyHolds
  BY DEF DeliveryInit, BusyHolds, EntryStates, Phases
<1>2. BusyHolds /\ [DeliveryNext]_allVars => BusyHolds'
  BY BusyHoldsStep
<1> QED
  BY <1>1, <1>2, PTL DEF DeliverySpec

-----------------------------------------------------------------------------
\* A step of a delivery is a step of the run, or leaves the run alone.
LEMMA DeliveryStepIsRunStep ==
    ASSUME BusyHolds, [DeliveryNext]_allVars
    PROVE  [Next]_vars
<1>1. CASE RunStep
  BY <1>1 DEF RunStep, Next
<1>2. ASSUME NEW w \in Consumers, Commit(w)
      PROVE  Next
  <2>1. holds[w] \in Commands /\ Execute(holds[w])
    BY <1>2 DEF Commit, BusyHolds
  <2> QED
    BY <2>1 DEF Next
<1>3. ASSUME NEW w \in Consumers, CommitFailure(w)
      PROVE  Next
  <2>1. holds[w] \in Commands /\ Fail(holds[w])
    BY <1>3 DEF CommitFailure, BusyHolds, Fail
  <2> QED
    BY <2>1 DEF Next
<1>4. ASSUME NEW w \in Consumers,
             Replay(w) \/ Raise(w) \/ FailureKnown(w) \/ Abort(w)
                 \/ Ack(w) \/ Crash(w)
      PROVE  UNCHANGED vars
  BY <1>4 DEF Replay, Raise, FailureKnown, Abort, Ack, Crash
<1>5. ASSUME NEW c \in Commands,
             \/ Publish(c) \/ PublisherDies(c)
             \/ \E w \in Consumers : Take(w, c)
      PROVE  UNCHANGED vars
  BY <1>5 DEF Publish, PublisherDies, Take
<1>6. CASE UNCHANGED allVars
  BY <1>6 DEF allVars
<1> QED
  BY DeliveryCases, <1>1, <1>2, <1>3, <1>4, <1>5, <1>6

(***************************************************************************)
(* Refinement: whatever consumers do and whenever they die, the run goes   *)
(* through the transactions of AgentRun and through nothing else.          *)
(***************************************************************************)
THEOREM DeliveryImplementsRun == DeliverySpec => Spec
<1>1. DeliveryInit => Init
  BY DEF DeliveryInit
<1>2. BusyHolds /\ [DeliveryNext]_allVars => [Next]_vars
  BY DeliveryStepIsRunStep
<1> QED
  BY <1>1, <1>2, HoldingIsInvariant, PTL DEF DeliverySpec, Spec

-----------------------------------------------------------------------------
\* What a committed delivery does to its own command.
LEMMA CommitsSettle ==
    ASSUME TypeOK, NEW c \in Commands, Execute(c) \/ Fail(c)
    PROVE  cmd'[c] \in SettledStatuses
<1>1. CASE Execute(c)
  BY <1>1 DEF Execute, ExecuteAndWait, ExecuteAndClose, Completed,
              SettledStatuses
<1>2. CASE Fail(c)
  <2>1. cmd'[c] = "failed"
    BY <1>2 DEF TypeOK, Fail, FailInTime, FailLate, FailRequired,
                FailOptionalAndWait, FailOptionalAndDegrade, FailAndTimeOut,
                FailTimedOut, Failed
  <2> QED
    BY <2>1 DEF SettledStatuses
<1> QED
  BY <1>1, <1>2

\* No transaction of the run reopens a command that has settled.
LEMMA SettledStays ==
    ASSUME IInv, [Next]_vars, NEW c \in Commands, cmd[c] \in SettledStatuses
    PROVE  cmd'[c] \in SettledStatuses
<1>1. c \in Dispatched /\ status # "none"
  BY DEF IInv, StateInv, FreshRun, Dispatched, SettledStatuses
<1>2. ASSUME NEW d \in Commands, NEW new \in SUBSET Commands,
             c \notin new
      PROVE  Completed(d, new)[c] \in SettledStatuses
  BY <1>2 DEF Completed, SettledStatuses
<1>3. ASSUME NEW d \in Commands
      PROVE  Failed(d)[c] \in SettledStatuses
  BY DEF Failed, SettledStatuses, IInv, TypeOK
<1>4. ASSUME NEW d \in Commands, NEW new \in SUBSET Commands,
             NEW req \in SUBSET new, ExecuteAndWait(d, new, req)
      PROVE  cmd'[c] \in SettledStatuses
  BY <1>1, <1>2, <1>4 DEF ExecuteAndWait
<1>5. ASSUME NEW d \in Commands, NEW f \in FanIns, ExecuteAndClose(d, f)
      PROVE  cmd'[c] \in SettledStatuses
  BY <1>2, <1>5 DEF ExecuteAndClose
<1>6. ASSUME NEW d \in Commands, FailRequired(d)
      PROVE  cmd'[c] \in SettledStatuses
  BY <1>6 DEF FailRequired, SettledStatuses
<1>7. ASSUME NEW d \in Commands,
             \/ FailOptionalAndWait(d)
             \/ \E f \in FailureFanIns : FailOptionalAndDegrade(d, f)
             \/ FailAndTimeOut(d)
             \/ FailTimedOut(d)
      PROVE  cmd'[c] \in SettledStatuses
  BY <1>3, <1>7 DEF FailOptionalAndWait, FailOptionalAndDegrade,
                    FailAndTimeOut, FailTimedOut
<1>8. CASE Deadline \/ Cancel \/ Expire \/ UNCHANGED vars
  BY <1>8 DEF Deadline, Cancel, Expire, vars
<1>9. ASSUME NEW cs \in SUBSET Commands, NEW req \in SUBSET cs,
             Admit(cs, req)
      PROVE  FALSE
  BY <1>1, <1>9 DEF Admit
<1> QED
  BY NextCases, <1>4, <1>5, <1>6, <1>7, <1>8, <1>9

LEMMA DurableStep ==
    ASSUME IInv, DeliveryInv, [DeliveryNext]_allVars
    PROVE  AckIsDue' /\ AckedIsDurable'
<1> BusyHolds
  BY DEF DeliveryInv
<1>1. [Next]_vars
  BY DeliveryStepIsRunStep
<1>2. \A c \in Commands :
         cmd[c] \in SettledStatuses => cmd'[c] \in SettledStatuses
  BY <1>1, SettledStays
<1>3. \* Steps that acknowledge nothing and bring nobody to the
      \* acknowledgement.
      ASSUME \A c \in Commands : entry'[c] = "acked" => entry[c] = "acked",
             \A w \in Consumers :
                 phase'[w] = "ack" => phase[w] = "ack" /\ holds'[w] = holds[w]
      PROVE  AckIsDue' /\ AckedIsDurable'
  BY <1>2, <1>3 DEF DeliveryInv, AckIsDue, AckedIsDurable, SettledStatuses,
                    BusyHolds
<1>4. ASSUME NEW w \in Consumers, MoveTo(w, "ack"), phase[w] # "idle",
             cmd'[holds[w]] \in SettledStatuses
      PROVE  AckIsDue' /\ AckedIsDurable'
  BY <1>2, <1>4 DEF DeliveryInv, AckIsDue, AckedIsDurable, SettledStatuses,
                    BusyHolds, MoveTo
<1>5. CASE RunStep \/ UNCHANGED allVars
  BY <1>3, <1>5 DEF RunStep, allVars, delivery, workers
<1>6. ASSUME NEW c \in Commands, Publish(c) \/ PublisherDies(c)
      PROVE  AckIsDue' /\ AckedIsDurable'
  BY <1>3, <1>6 DEF Publish, PublisherDies, AddOnce, workers, BusyHolds
<1>7. ASSUME NEW w \in Consumers, NEW c \in Commands, Take(w, c)
      PROVE  AckIsDue' /\ AckedIsDurable'
  BY <1>3, <1>7 DEF Take, BusyHolds
<1>8. ASSUME NEW w \in Consumers, Commit(w) \/ CommitFailure(w)
      PROVE  AckIsDue' /\ AckedIsDurable'
  <2>1. holds[w] \in Commands /\ (Execute(holds[w]) \/ Fail(holds[w]))
    BY <1>8 DEF Commit, CommitFailure, BusyHolds, Fail
  <2>2. cmd'[holds[w]] \in SettledStatuses
    BY <2>1, CommitsSettle DEF IInv
  <2>3. MoveTo(w, "ack") /\ phase[w] # "idle"
    BY <1>8 DEF Commit, CommitFailure
  <2> QED
    BY <2>2, <2>3, <1>4
<1>9. ASSUME NEW w \in Consumers, Replay(w) \/ FailureKnown(w)
      PROVE  AckIsDue' /\ AckedIsDurable'
  <2>1. /\ MoveTo(w, "ack")
        /\ phase[w] # "idle"
        /\ cmd'[holds[w]] \in SettledStatuses
    BY <1>9 DEF Replay, FailureKnown, vars, SettledStatuses
  <2> QED
    BY <2>1, <1>4
<1>10. ASSUME NEW w \in Consumers, Raise(w) \/ Abort(w) \/ Crash(w)
       PROVE  AckIsDue' /\ AckedIsDurable'
  BY <1>3, <1>10 DEF Raise, Abort, Crash, Forget, MoveTo, BusyHolds
<1>11. ASSUME NEW w \in Consumers, Ack(w)
       PROVE  AckIsDue' /\ AckedIsDurable'
  <2>1. cmd[holds[w]] \in SettledStatuses /\ holds[w] \in Commands
    BY <1>11 DEF Ack, DeliveryInv, AckIsDue, BusyHolds
  <2> QED
    BY <2>1, <1>2, <1>11
       DEF Ack, Forget, DeliveryInv, AckIsDue, AckedIsDurable, BusyHolds,
           SettledStatuses
<1> QED
  BY DeliveryCases, <1>5, <1>6, <1>7, <1>8, <1>9, <1>10, <1>11

(***************************************************************************)
(* An acknowledged command is completed or failed, whatever number of      *)
(* consumers is at work on its entry and wherever they die.                *)
(***************************************************************************)
THEOREM AcknowledgedIsDurable == DeliverySpec => []AckedIsDurable
<1>1. DeliveryInit => DeliveryInv
  BY DEF DeliveryInit, DeliveryInv, BusyHolds, AckIsDue, AckedIsDurable,
         EntryStates, Phases
<1>2. IInv /\ DeliveryInv /\ [DeliveryNext]_allVars => DeliveryInv'
  BY BusyHoldsStep, DurableStep DEF DeliveryInv
<1>3. DeliveryInv => AckedIsDurable
  BY DEF DeliveryInv
<1>4. DeliverySpec => []IInv
  BY DeliveryImplementsRun, Invariance, PTL
<1> QED
  BY <1>1, <1>2, <1>3, <1>4, PTL DEF DeliverySpec

(***************************************************************************)
(* Nothing is lost between the table and the stream: a command that is not *)
(* finished is due for a publisher or has an entry that a consumer can     *)
(* take, wherever publishers and consumers die.                            *)
(***************************************************************************)
UnfinishedIsDeliverable ==
    \A c \in Commands :
        cmd[c] \in Unfinished => Due(c) \/ entry[c] \in {"new", "pending"}

\* A row is marked only with its entry on the stream, and entries stay.
MarkedHasEntry ==
    /\ marked \in [Commands -> BOOLEAN]
    /\ \A c \in Commands : marked[c] => entry[c] # "none"

LEMMA MarkedStep ==
    ASSUME BusyHolds, MarkedHasEntry, [DeliveryNext]_allVars
    PROVE  MarkedHasEntry'
<1> USE DEF BusyHolds, MarkedHasEntry
<1>1. ASSUME UNCHANGED <<entry, marked>>
      PROVE  MarkedHasEntry'
  BY <1>1
<1>2. CASE RunStep \/ UNCHANGED allVars
  BY <1>1, <1>2 DEF RunStep, allVars, delivery
<1>3. ASSUME NEW c \in Commands, Publish(c) \/ PublisherDies(c)
      PROVE  MarkedHasEntry'
  BY <1>3 DEF Publish, PublisherDies, AddOnce
<1>4. ASSUME NEW w \in Consumers, NEW c \in Commands, Take(w, c)
      PROVE  MarkedHasEntry'
  BY <1>4 DEF Take
<1>5. ASSUME NEW w \in Consumers, Ack(w)
      PROVE  MarkedHasEntry'
  BY <1>5 DEF Ack
<1>6. ASSUME NEW w \in Consumers,
             \/ Commit(w) \/ Replay(w) \/ Raise(w) \/ CommitFailure(w)
             \/ FailureKnown(w) \/ Abort(w) \/ Crash(w)
      PROVE  MarkedHasEntry'
  BY <1>1, <1>6 DEF Commit, Replay, Raise, CommitFailure, FailureKnown, Abort,
                    Crash, MoveTo
<1> QED
  BY DeliveryCases, <1>2, <1>3, <1>4, <1>5, <1>6

(***************************************************************************)
(* The transport loses no work: with LiveRunsHaveWork, a live run always   *)
(* has a command that some process can still bring to its handler.         *)
(***************************************************************************)
THEOREM NoCommandIsLost == DeliverySpec => []UnfinishedIsDeliverable
<1>1. DeliveryInit => MarkedHasEntry
  BY DEF DeliveryInit, MarkedHasEntry
<1>2. BusyHolds /\ MarkedHasEntry /\ [DeliveryNext]_allVars => MarkedHasEntry'
  BY MarkedStep
<1>3. BusyHolds /\ MarkedHasEntry /\ AckedIsDurable => UnfinishedIsDeliverable
  BY DEF BusyHolds, MarkedHasEntry, AckedIsDurable, UnfinishedIsDeliverable,
         EntryStates, Unfinished, Due
<1> QED
  BY <1>1, <1>2, <1>3, HoldingIsInvariant, AcknowledgedIsDurable, PTL
  DEF DeliverySpec

(***************************************************************************)
(* The outcome of a run stays truthful, its log closes once and a live run *)
(* has work under every crash, double claim and redelivery; and no         *)
(* delivery that comes after the end changes a run or its commands, but    *)
(* for the late failure of a command of a run that timed out.              *)
(***************************************************************************)
THEOREM DeliveredRunsAreTruthful ==
    DeliverySpec =>
        /\ [](OutcomeFitsCommands /\ OneTerminalEvent /\ CompletedOnce
                 /\ LiveRunHasWork)
        /\ TerminalIsFinal
        /\ CommandsRestWithRun
BY DeliveryImplementsRun, OutcomeIsTruthful, LogClosesOnce, HandlersCommitOnce,
   LiveRunsHaveWork, TerminalRunsAreFinal, ClosedRunsKeepCommands, PTL

=============================================================================
