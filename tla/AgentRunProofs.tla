--------------------------- MODULE AgentRunProofs ---------------------------
(***************************************************************************)
(* Proofs about AgentRun, for every set of commands, every kind of fan-in  *)
(* and every bound.                                                        *)
(***************************************************************************)
EXTENDS AgentRun, FiniteSetTheorems, TLAPS

(***************************************************************************)
(* The inductive invariant.  The properties of AgentRun do not follow from *)
(* each other: that a run never closes as "degraded" over a required       *)
(* failure needs the plan of the newest checkpoint to agree with the       *)
(* required set on the failed commands, and that a handler commits once    *)
(* needs the log to be tied to the statuses of the commands.               *)
(***************************************************************************)
FreshRun ==
    status = "none" =>
        /\ Dispatched = {}
        /\ log = <<>>

ResultIsFinal == result # "none" => status \in {"completed", "degraded"}

PlanAgrees == Live => In(cmd, {"failed"}) \cap planReq = {}

CompletionRecorded ==
    \A i \in DOMAIN log :
        log[i].type = "agent.completed" =>
            /\ log[i].cmd \in Commands
            /\ cmd[log[i].cmd] \in {"completed", "failed"}

StateInv ==
    /\ FreshRun
    /\ ResultIsFinal
    /\ PlanAgrees
    /\ RequiredFailureCloses
    /\ CompletedIsWhole
    /\ DegradedIsOptional
    /\ FailedIsDrained

LogInv ==
    /\ OneTerminalEvent
    /\ CompletedOnce
    /\ CompletionRecorded

IInv == TypeOK /\ StateInv /\ LogInv

-----------------------------------------------------------------------------
\* The steps of the run, one disjunct per action.
LEMMA NextCases ==
    ASSUME [Next]_vars
    PROVE  \/ \E cs \in SUBSET Commands : \E req \in SUBSET cs : Admit(cs, req)
           \/ Deadline
           \/ \E c \in Commands, new \in SUBSET Commands :
                  \E req \in SUBSET new : ExecuteAndWait(c, new, req)
           \/ \E c \in Commands, f \in FanIns : ExecuteAndClose(c, f)
           \/ \E c \in Commands : FailRequired(c)
           \/ \E c \in Commands : FailOptionalAndWait(c)
           \/ \E c \in Commands, f \in FailureFanIns :
                  FailOptionalAndDegrade(c, f)
           \/ \E c \in Commands : FailAndTimeOut(c)
           \/ \E c \in Commands : FailTimedOut(c)
           \/ Cancel
           \/ Expire
           \/ UNCHANGED vars
BY DEF Next, Execute, Fail, FailInTime, FailLate

\* What Completed and Failed make of the status vector.
LEMMA VectorTypes ==
    ASSUME TypeOK, NEW c \in Commands, NEW new \in SUBSET Commands
    PROVE  /\ Completed(c, new) \in [Commands -> CommandStatuses]
           /\ Failed(c) \in [Commands -> CommandStatuses]
BY DEF TypeOK, Completed, Failed, CommandStatuses

\* The events the transactions append are events.
LEMMA EventTyping ==
    ASSUME NEW c \in Commands, NEW s \in Terminal, NEW f \in FanInForms
    PROVE  /\ Executed(c) \in Seq(Events)
           /\ Closing(f, s, c) \in Seq(Events)
           /\ Event("agent.failed", c) \in Events
           /\ Event("run.failed", c) \in Events
           /\ Event("run.timed_out", NoCommand) \in Events
           /\ Event("run.cancelled", NoCommand) \in Events
           /\ Event("run.accepted", NoCommand) \in Events
           /\ Event("command.dispatched", NoCommand) \in Events
<1>1. TerminalEvent(s) \in EventTypes
  BY DEF TerminalEvent, Terminal, EventTypes, TerminalEvents
<1>2. \A t \in EventTypes : \A d \in Commands \cup {NoCommand} :
         Event(t, d) \in Events
  BY DEF Event, Events
<1>3. {"agent.started", "agent.completed", "agent.failed", "result.available",
       "run.failed", "run.timed_out", "run.cancelled", "run.accepted",
       "command.dispatched"} \subseteq EventTypes
  BY DEF EventTypes, TerminalEvents, ProgressEvents
<1>4. Executed(c) \in Seq(Events)
  BY <1>2, <1>3 DEF Executed
<1>5. Closing(f, s, c) \in Seq(Events)
  BY <1>1, <1>2, <1>3 DEF Closing
<1> QED
  BY <1>2, <1>3, <1>4, <1>5

LEMMA OutcomeIsTerminal ==
    ASSUME NEW failed
    PROVE  Outcome(failed) \in {"completed", "degraded", "failed"}
BY DEF Outcome

\* Every step preserves the types.
LEMMA TypeStep ==
    ASSUME TypeOK, [Next]_vars
    PROVE  TypeOK'
<1>1. ASSUME NEW cs \in SUBSET Commands, NEW req \in SUBSET cs,
             Admit(cs, req)
      PROVE  TypeOK'
  <2>1. log' \in Seq(Events)
    <3>1. /\ Event("run.accepted", NoCommand) \in Events
          /\ Event("command.dispatched", NoCommand) \in Events
      BY DEF Event, Events, EventTypes, ProgressEvents
    <3> QED  BY <1>1, <3>1 DEF Admit
  <2> QED
    BY <1>1, <2>1 DEF Admit, TypeOK, RunStatuses, LiveStatuses,
                      CommandStatuses
<1>2. CASE Deadline
  BY <1>2 DEF Deadline, TypeOK
<1>3. ASSUME NEW c \in Commands, NEW new \in SUBSET Commands,
             NEW req \in SUBSET new, ExecuteAndWait(c, new, req)
      PROVE  TypeOK'
  <2>1. Executed(c) \in Seq(Events)
    BY EventTyping DEF Terminal, FanInForms
  <2>2. log' \in Seq(Events)
    BY <1>3, <2>1 DEF ExecuteAndWait, TypeOK
  <2> QED
    BY <1>3, <2>2, VectorTypes
    DEF ExecuteAndWait, TypeOK, RunStatuses, LiveStatuses
<1>4. ASSUME NEW c \in Commands, NEW f \in FanIns, ExecuteAndClose(c, f)
      PROVE  TypeOK'
  <2> DEFINE outcome == Outcome(In(Completed(c, {}), {"failed"}))
  <2>1. outcome \in Terminal
    BY OutcomeIsTerminal DEF Terminal
  <2>2. f \in FanInForms
    BY FanInAssumption
  <2>3. Executed(c) \in Seq(Events) /\ Closing(f, outcome, c) \in Seq(Events)
    BY <2>1, <2>2, EventTyping
  <2>4. log' \in Seq(Events)
    BY <1>4, <2>3 DEF ExecuteAndClose, TypeOK
  <2>5. result' \in Results
    BY <1>4, <2>2 DEF ExecuteAndClose, TypeOK, ResultOf, Results, FanInForms
  <2> QED
    BY <1>4, <2>1, <2>4, <2>5, VectorTypes
    DEF ExecuteAndClose, TypeOK, RunStatuses
<1>5. ASSUME NEW c \in Commands, FailRequired(c)
      PROVE  TypeOK'
  <2>1. <<Event("agent.failed", c), Event("run.failed", c)>> \in Seq(Events)
    BY EventTyping DEF Terminal, FanInForms
  <2>2. log' \in Seq(Events)
    BY <1>5, <2>1 DEF FailRequired, TypeOK
  <2> QED
    BY <1>5, <2>2 DEF FailRequired, TypeOK, RunStatuses, Terminal,
                      CommandStatuses
<1>6. ASSUME NEW c \in Commands, FailOptionalAndWait(c)
      PROVE  TypeOK'
  <2>1. Event("agent.failed", c) \in Events
    BY EventTyping DEF Terminal, FanInForms
  <2>2. log' \in Seq(Events)
    BY <1>6, <2>1 DEF FailOptionalAndWait, TypeOK
  <2>3. cmd' \in [Commands -> CommandStatuses]
    BY <1>6, VectorTypes DEF FailOptionalAndWait
  <2> QED
    BY <1>6, <2>2, <2>3
    DEF FailOptionalAndWait, TypeOK, RunStatuses, LiveStatuses
<1>7. ASSUME NEW c \in Commands, NEW f \in FailureFanIns,
             FailOptionalAndDegrade(c, f)
      PROVE  TypeOK'
  <2>1. f \in FanInForms
    BY FanInAssumption
  <2>2. /\ <<Event("agent.failed", c)>> \in Seq(Events)
        /\ Closing(f, "degraded", c) \in Seq(Events)
    BY <2>1, EventTyping DEF Terminal
  <2>3. log' \in Seq(Events)
    BY <1>7, <2>2 DEF FailOptionalAndDegrade, TypeOK
  <2>4. result' \in Results
    BY <1>7, <2>1 DEF FailOptionalAndDegrade, ResultOf, Results, FanInForms
  <2> QED
    BY <1>7, <2>3, <2>4, VectorTypes
    DEF FailOptionalAndDegrade, TypeOK, RunStatuses, Terminal
<1>8. ASSUME NEW c \in Commands, FailAndTimeOut(c)
      PROVE  TypeOK'
  <2>1. Event("run.timed_out", NoCommand) \in Events
    BY EventTyping DEF Terminal, FanInForms
  <2>2. log' \in Seq(Events)
    BY <1>8, <2>1 DEF FailAndTimeOut, TypeOK
  <2>3. cmd' \in [Commands -> CommandStatuses]
    BY <1>8, VectorTypes DEF FailAndTimeOut
  <2> QED
    BY <1>8, <2>2, <2>3 DEF FailAndTimeOut, TypeOK, RunStatuses, Terminal
<1>9. ASSUME NEW c \in Commands, FailTimedOut(c)
      PROVE  TypeOK'
  BY <1>9, VectorTypes DEF FailTimedOut, TypeOK
<1>10. CASE Cancel
  BY <1>10 DEF Cancel, TypeOK, RunStatuses, Terminal, Event, Events,
               EventTypes, TerminalEvents
<1>11. CASE Expire
  BY <1>11 DEF Expire, TypeOK, RunStatuses, Terminal, Event, Events,
               EventTypes, TerminalEvents
<1>12. CASE UNCHANGED vars
  BY <1>12 DEF vars, TypeOK
<1> QED
  BY NextCases, <1>1, <1>2, <1>3, <1>4, <1>5, <1>6, <1>7, <1>8, <1>9,
     <1>10, <1>11, <1>12

(***************************************************************************)
(* Type correctness: every reachable state of the control plane has the    *)
(* types the tables declare, whatever the instance.                        *)
(***************************************************************************)
THEOREM TypeCorrect == Spec => []TypeOK
<1>1. Init => TypeOK
  BY DEF Init, TypeOK, RunStatuses, LiveStatuses, Terminal, CommandStatuses,
         Results
<1>2. TypeOK /\ [Next]_vars => TypeOK'
  BY TypeStep
<1> QED
  BY <1>1, <1>2, PTL DEF Spec

-----------------------------------------------------------------------------
(***************************************************************************)
(* One lemma per action: the relations between the run and its commands    *)
(* survive the transaction.                                                *)
(***************************************************************************)
LEMMA AdmitState ==
    ASSUME IInv, NEW cs \in SUBSET Commands, NEW req \in SUBSET cs,
           Admit(cs, req)
    PROVE  StateInv'
BY DEF Admit, IInv, TypeOK, StateInv, FreshRun, ResultIsFinal, PlanAgrees,
       RequiredFailureCloses, CompletedIsWhole, DegradedIsOptional,
       FailedIsDrained, Live, LiveStatuses, In, Dispatched

LEMMA ExecuteAndWaitState ==
    ASSUME IInv, NEW c \in Commands, NEW new \in SUBSET Commands,
           NEW req \in SUBSET new, ExecuteAndWait(c, new, req)
    PROVE  StateInv'
<1>1. /\ Live
      /\ status' = "running"
      /\ result' = "none"
  BY DEF ExecuteAndWait, Executable, IInv, StateInv, ResultIsFinal, Live,
         LiveStatuses
<1>2. \A d \in Commands : cmd'[d] = "failed" => cmd[d] = "failed" /\ d \notin new
  BY DEF ExecuteAndWait, Completed, Dispatched
<1>3. PlanAgrees' /\ RequiredFailureCloses'
  BY <1>1, <1>2 DEF ExecuteAndWait, IInv, StateInv, PlanAgrees,
                    RequiredFailureCloses, Live, In
<1> QED
  BY <1>1, <1>3 DEF StateInv, FreshRun, ResultIsFinal, CompletedIsWhole,
                    DegradedIsOptional, FailedIsDrained

(***************************************************************************)
(* The branch of execute_read_only_specialist that closes a run as failed  *)
(* is never taken: a required failure has closed the run before.           *)
(***************************************************************************)
LEMMA ExecuteNeverFailsRun ==
    ASSUME IInv, NEW c \in Commands, Live
    PROVE  /\ In(Completed(c, {}), {"failed"}) \subseteq In(cmd, {"failed"})
           /\ Outcome(In(Completed(c, {}), {"failed"})) # "failed"
BY DEF IInv, StateInv, PlanAgrees, Completed, In, Outcome

LEMMA ExecuteAndCloseState ==
    ASSUME IInv, NEW c \in Commands, NEW f \in FanIns, ExecuteAndClose(c, f)
    PROVE  StateInv'
<1> DEFINE after == Completed(c, {})
           failed == In(after, {"failed"})
<1>1. Live
  BY DEF ExecuteAndClose, Executable
<1>2. /\ failed \subseteq In(cmd, {"failed"})
      /\ Outcome(failed) \in {"completed", "degraded"}
  BY <1>1, ExecuteNeverFailsRun, OutcomeIsTerminal
<1>3. /\ status' = Outcome(failed)
      /\ cmd' = after
      /\ result' # "none"
      /\ In(after, Unfinished) = {}
      /\ required' = required
  BY <1>2, FanInAssumption DEF ExecuteAndClose, ResultOf, FanInForms
<1>4. status' = "completed" => failed = {}
  BY <1>3 DEF Outcome
<1>5. status' = "degraded" => failed # {}
  BY <1>3 DEF Outcome
<1>6. failed \cap required = {}
  BY <1>1, <1>2 DEF IInv, StateInv, RequiredFailureCloses
<1>7. after \in [Commands -> CommandStatuses]
  BY VectorTypes DEF IInv
<1>8. CompletedIsWhole'
  BY <1>3, <1>4, <1>7 DEF CompletedIsWhole, Dispatched, In, Unfinished,
                          CommandStatuses
<1>9. DegradedIsOptional'
  BY <1>3, <1>5, <1>6 DEF DegradedIsOptional
<1> HIDE DEF after, failed
<1> QED
  BY <1>2, <1>3, <1>8, <1>9
  DEF StateInv, FreshRun, ResultIsFinal, PlanAgrees, RequiredFailureCloses,
      FailedIsDrained, Live, LiveStatuses

LEMMA FailRequiredState ==
    ASSUME IInv, NEW c \in Commands, FailRequired(c)
    PROVE  StateInv'
<1>1. /\ status' = "failed"
      /\ result' = "none"
      /\ c \in required
      /\ required' = required
  BY DEF FailRequired, Failable, IInv, StateInv, ResultIsFinal, Live,
         LiveStatuses
<1>2. FailedIsDrained'
  BY <1>1 DEF FailRequired, FailedIsDrained, In, Unfinished
<1> QED
  BY <1>1, <1>2
  DEF StateInv, FreshRun, ResultIsFinal, PlanAgrees, RequiredFailureCloses,
      CompletedIsWhole, DegradedIsOptional, Live, LiveStatuses

\* After an optional failure the failed commands are those of before and c.
LEMMA OptionalFailure ==
    ASSUME IInv, NEW c \in Commands, Failable(c), c \notin required
    PROVE  /\ c \in In(Failed(c), {"failed"})
           /\ In(Failed(c), {"failed"}) \cap required = {}
BY DEF IInv, TypeOK, StateInv, RequiredFailureCloses, Failable, Failed, In

LEMMA FailOptionalAndWaitState ==
    ASSUME IInv, NEW c \in Commands, FailOptionalAndWait(c)
    PROVE  StateInv'
<1>1. /\ status' = "running"
      /\ result' = "none"
      /\ cmd' = Failed(c)
      /\ planReq' = required
      /\ required' = required
  BY DEF FailOptionalAndWait, Failable, IInv, StateInv, ResultIsFinal, Live,
         LiveStatuses
<1>2. In(Failed(c), {"failed"}) \cap required = {}
  BY OptionalFailure DEF FailOptionalAndWait
<1> QED
  BY <1>1, <1>2
  DEF StateInv, FreshRun, ResultIsFinal, PlanAgrees, RequiredFailureCloses,
      CompletedIsWhole, DegradedIsOptional, FailedIsDrained

LEMMA FailOptionalAndDegradeState ==
    ASSUME IInv, NEW c \in Commands, NEW f \in FailureFanIns,
           FailOptionalAndDegrade(c, f)
    PROVE  StateInv'
<1>1. /\ status' = "degraded"
      /\ result' # "none"
      /\ cmd' = Failed(c)
      /\ required' = required
      /\ In(Failed(c), Unfinished) = {}
  BY FanInAssumption DEF FailOptionalAndDegrade, ResultOf, FanInForms
<1>2. /\ c \in In(Failed(c), {"failed"})
      /\ In(Failed(c), {"failed"}) \cap required = {}
  BY OptionalFailure DEF FailOptionalAndDegrade
<1> QED
  BY <1>1, <1>2
  DEF StateInv, FreshRun, ResultIsFinal, PlanAgrees, RequiredFailureCloses,
      CompletedIsWhole, DegradedIsOptional, FailedIsDrained, Live,
      LiveStatuses

\* Steps that close the run by the clock or by hand, and those that change
\* nothing the relations speak of.
LEMMA OtherState ==
    ASSUME IInv,
           \/ Deadline
           \/ \E c \in Commands : FailAndTimeOut(c) \/ FailTimedOut(c)
           \/ Cancel
           \/ Expire
           \/ UNCHANGED vars
    PROVE  StateInv'
<1> USE DEF IInv, StateInv, FreshRun, ResultIsFinal, PlanAgrees,
            RequiredFailureCloses, CompletedIsWhole, DegradedIsOptional,
            FailedIsDrained, Live, LiveStatuses
<1>1. CASE Deadline
  BY <1>1 DEF Deadline, Dispatched, In
<1>2. ASSUME NEW c \in Commands, FailAndTimeOut(c)
      PROVE  StateInv'
  BY <1>2 DEF FailAndTimeOut
<1>3. ASSUME NEW c \in Commands, FailTimedOut(c)
      PROVE  StateInv'
  BY <1>3 DEF FailTimedOut
<1>4. CASE Cancel
  BY <1>4 DEF Cancel
<1>5. CASE Expire
  BY <1>5 DEF Expire
<1>6. CASE UNCHANGED vars
  BY <1>6 DEF vars, Dispatched, In
<1> QED
  BY <1>1, <1>2, <1>3, <1>4, <1>5, <1>6

LEMMA StateStep ==
    ASSUME IInv, [Next]_vars
    PROVE  StateInv'
BY NextCases, AdmitState, ExecuteAndWaitState, ExecuteAndCloseState,
   FailRequiredState, FailOptionalAndWaitState, FailOptionalAndDegradeState,
   OtherState

-----------------------------------------------------------------------------
(***************************************************************************)
(* The log.  Transactions only extend it; what an extension must satisfy   *)
(* for the log properties to survive is stated once.                       *)
(***************************************************************************)
LEMMA TerminalEventIsTerminal ==
    \A s \in Terminal : TerminalEvent(s) \in TerminalEvents
BY DEF Terminal, TerminalEvent, TerminalEvents

SettledStatuses == {"completed", "failed"}

LEMMA Concatenation ==
    ASSUME NEW s \in Seq(Events), NEW t \in Seq(Events)
    PROVE  /\ s \o t \in Seq(Events)
           /\ Len(s \o t) = Len(s) + Len(t)
           /\ \A i \in 1 .. Len(s) : (s \o t)[i] = s[i]
           /\ \A i \in (Len(s) + 1) .. (Len(s) + Len(t)) :
                 i - Len(s) \in 1 .. Len(t) /\ (s \o t)[i] = t[i - Len(s)]
OBVIOUS

LEMMA LogExtension ==
    ASSUME IInv, status \notin Terminal,
           NEW ext \in Seq(Events),
           log' = log \o ext,
           \A i \in 1 .. Len(ext) :
               ext[i].type \in TerminalEvents =>
                   /\ i = Len(ext)
                   /\ status' \in Terminal
                   /\ ext[i].type = TerminalEvent(status'),
           status' \in Terminal =>
               Len(ext) > 0 /\ ext[Len(ext)].type \in TerminalEvents,
           \A i, j \in 1 .. Len(ext) :
               ext[i].type = "agent.completed" /\ ext[j] = ext[i] => i = j,
           \A i \in 1 .. Len(ext) :
               ext[i].type = "agent.completed" =>
                   /\ ext[i].cmd \in Commands
                   /\ cmd[ext[i].cmd] \in Unfinished
                   /\ cmd'[ext[i].cmd] \in SettledStatuses,
           \A d \in Commands :
              cmd[d] \in SettledStatuses => cmd'[d] \in SettledStatuses
    PROVE  LogInv'
<1> DEFINE n == Len(log)
           m == Len(ext)
<1>1. /\ n \in Nat /\ m \in Nat
      /\ Len(log') = n + m
      /\ DOMAIN log = 1 .. n /\ DOMAIN log' = 1 .. (n + m)
      /\ \A i \in 1 .. n : log'[i] = log[i]
      /\ \A i \in (n + 1) .. (n + m) :
            i - n \in 1 .. m /\ log'[i] = ext[i - n]
  BY DEF IInv, TypeOK
<1>2. \A i \in 1 .. n : log[i].type \notin TerminalEvents
  BY <1>1 DEF IInv, LogInv, OneTerminalEvent
<1>3. \A i \in 1 .. n : log[i].type = "agent.completed" =>
          /\ log[i].cmd \in Commands
          /\ cmd[log[i].cmd] \in SettledStatuses
  BY <1>1 DEF IInv, LogInv, CompletionRecorded, SettledStatuses
<1> HIDE DEF n, m
<1>4. OneTerminalEvent'
  <2>1. ASSUME NEW i \in DOMAIN log', log'[i].type \in TerminalEvents
        PROVE  /\ i = Len(log')
               /\ status' \in Terminal
               /\ log'[i].type = TerminalEvent(status')
    <3>1. i \in (n + 1) .. (n + m)
      BY <1>1, <1>2, <2>1
    <3> QED
      BY <1>1, <2>1, <3>1 DEF m
  <2>2. ASSUME status' \in Terminal
        PROVE  log' # <<>> /\ log'[Len(log')].type \in TerminalEvents
    <3>1. m > 0 /\ ext[m].type \in TerminalEvents
      BY <2>2 DEF m
    <3>2. n + m \in (n + 1) .. (n + m) /\ (n + m) - n = m
      BY <1>1, <3>1
    <3>3. log'[n + m] = ext[m]
      BY <1>1, <3>2
    <3> QED
      BY <1>1, <3>1, <3>2, <3>3
  <2> QED
    BY <2>1, <2>2 DEF OneTerminalEvent
<1>5. CompletionRecorded'
  <2> SUFFICES ASSUME NEW i \in DOMAIN log', log'[i].type = "agent.completed"
               PROVE  log'[i].cmd \in Commands /\ cmd'[log'[i].cmd] \in SettledStatuses
    BY DEF CompletionRecorded, SettledStatuses
  <2>1. CASE i \in 1 .. n
    BY <1>1, <1>3, <2>1
  <2>2. CASE i \in (n + 1) .. (n + m)
    BY <1>1, <2>2 DEF m
  <2> QED
    BY <1>1, <2>1, <2>2
<1>6. CompletedOnce'
  <2>1. ASSUME NEW i \in 1 .. n, NEW j \in (n + 1) .. (n + m),
               log[i].type = "agent.completed"
        PROVE  log'[j] # log[i]
    <3>1. cmd[log[i].cmd] \notin Unfinished
      BY <1>3, <2>1 DEF SettledStatuses, Unfinished
    <3>2. j - n \in 1 .. m /\ log'[j] = ext[j - n]
      BY <1>1
    <3>3. ext[j - n] # log[i]
      BY <2>1, <3>1, <3>2 DEF m
    <3> QED
      BY <3>2, <3>3
  <2> SUFFICES ASSUME NEW i \in DOMAIN log', NEW j \in DOMAIN log',
                      log'[i].type = "agent.completed", log'[j] = log'[i]
               PROVE  i = j
    BY DEF CompletedOnce
  <2>2. CASE i \in 1 .. n /\ j \in 1 .. n
    BY <1>1, <2>2 DEF IInv, LogInv, CompletedOnce
  <2>3. CASE i \in (n + 1) .. (n + m) /\ j \in (n + 1) .. (n + m)
    <3>1. i - n = j - n
      BY <1>1, <2>3 DEF m
    <3> QED
      BY <1>1, <2>3, <3>1
  <2>4. CASE i \in 1 .. n /\ j \in (n + 1) .. (n + m)
    BY <1>1, <2>1, <2>4
  <2>5. CASE i \in (n + 1) .. (n + m) /\ j \in 1 .. n
    BY <1>1, <2>1, <2>5
  <2> QED
    BY <1>1, <2>2, <2>3, <2>4, <2>5
<1> QED
  BY <1>4, <1>5, <1>6 DEF LogInv

\* An extension without terminal events and completions, run not terminal.
LEMMA QuietExtension ==
    ASSUME IInv, status \notin Terminal, status' \notin Terminal,
           NEW e \in Events,
           log' = Append(log, e),
           e.type \notin TerminalEvents \cup {"agent.completed"},
           \A d \in Commands :
              cmd[d] \in SettledStatuses => cmd'[d] \in SettledStatuses
    PROVE  LogInv'
<1> DEFINE ext == <<e>>
<1>1. ext \in Seq(Events) /\ log' = log \o ext
  BY DEF IInv, TypeOK
<1>2. Len(ext) = 1 /\ ext[1] = e
  OBVIOUS
<1> HIDE DEF ext
<1>3. \A i \in 1 .. Len(ext) : i = 1 /\ ext[i] = e
  BY <1>2
<1> QED
  BY <1>1, <1>3, LogExtension

-----------------------------------------------------------------------------
\* The shape of the closing events: the terminal event is the last one.
LEMMA ClosingShape ==
    ASSUME NEW f, NEW s \in Terminal, NEW c \in Commands
    PROVE  /\ Len(Closing(f, s, c)) \in {1, 2}
           /\ \A i \in 1 .. Len(Closing(f, s, c)) :
                 /\ Closing(f, s, c)[i].type # "agent.completed"
                 /\ i = Len(Closing(f, s, c)) =>
                       Closing(f, s, c)[i].type = TerminalEvent(s)
                 /\ i # Len(Closing(f, s, c)) =>
                       Closing(f, s, c)[i].type \notin TerminalEvents
<1> DEFINE t == Event(TerminalEvent(s), c)
           g == Event("result.available", c)
<1>1. t.type = TerminalEvent(s) /\ g.type = "result.available"
  BY DEF Event
<1>2. TerminalEvent(s) # "agent.completed"
  BY TerminalEventIsTerminal DEF TerminalEvents
<1>3. "result.available" \notin TerminalEvents
  BY DEF TerminalEvents
<1> HIDE DEF t, g
<1>4. CASE f = "grounded"
  <2>1. Closing(f, s, c) = <<g, t>>
    BY <1>4 DEF Closing, g, t
  <2> QED
    BY <1>1, <1>2, <1>3, <2>1
<1>5. CASE f # "grounded"
  <2>1. Closing(f, s, c) = <<t>>
    BY <1>5 DEF Closing, t
  <2> QED
    BY <1>1, <1>2, <2>1
<1> QED
  BY <1>4, <1>5

LEMMA AdmitLog ==
    ASSUME IInv, NEW cs \in SUBSET Commands, NEW req \in SUBSET cs,
           Admit(cs, req)
    PROVE  LogInv'
BY DEF Admit, IInv, StateInv, FreshRun, LogInv, OneTerminalEvent,
       CompletedOnce, CompletionRecorded, Event, Terminal, TerminalEvents

LEMMA ExecuteAndWaitLog ==
    ASSUME IInv, NEW c \in Commands, NEW new \in SUBSET Commands,
           NEW req \in SUBSET new, ExecuteAndWait(c, new, req)
    PROVE  LogInv'
<1> DEFINE ext == Executed(c)
<1>1. ext \in Seq(Events)
  BY EventTyping DEF Terminal, FanInForms
<1>2. /\ Len(ext) = 2
      /\ ext[1].type = "agent.started"
      /\ ext[2].type = "agent.completed"
      /\ ext[2].cmd = c
  BY DEF Executed, Event
<1>3. /\ status \notin Terminal /\ status' \notin Terminal
      /\ log' = log \o ext
      /\ cmd[c] \in Unfinished /\ cmd'[c] \in SettledStatuses
      /\ \A d \in Commands :
            cmd[d] \in SettledStatuses => cmd'[d] \in SettledStatuses
  BY DEF ExecuteAndWait, Executable, Completed, Live, LiveStatuses, Terminal,
         SettledStatuses, Dispatched
<1> HIDE DEF ext
<1>4. \A i \in 1 .. Len(ext) :
          /\ ext[i].type \notin TerminalEvents
          /\ ext[i].type = "agent.completed" => i = 2
          /\ i # 2 => ext[i].type # "agent.completed"
  BY <1>2 DEF TerminalEvents
<1> QED
  BY <1>1, <1>2, <1>3, <1>4, LogExtension

LEMMA ExecuteAndCloseLog ==
    ASSUME IInv, NEW c \in Commands, NEW f \in FanIns, ExecuteAndClose(c, f)
    PROVE  LogInv'
<1> DEFINE outcome == Outcome(In(Completed(c, {}), {"failed"}))
           run == Executed(c)
           close == Closing(f, outcome, c)
           ext == run \o close
<1>1. outcome \in Terminal /\ f \in FanInForms
  BY OutcomeIsTerminal, FanInAssumption DEF Terminal
<1>2. run \in Seq(Events) /\ close \in Seq(Events)
  BY <1>1, EventTyping
<1>3. /\ Len(run) = 2
      /\ run[1].type = "agent.started"
      /\ run[2].type = "agent.completed"
      /\ run[2].cmd = c
  BY DEF Executed, Event
<1>4. /\ Len(close) \in {1, 2}
      /\ \A i \in 1 .. Len(close) :
            /\ close[i].type # "agent.completed"
            /\ i = Len(close) => close[i].type = TerminalEvent(outcome)
            /\ i # Len(close) => close[i].type \notin TerminalEvents
  BY <1>1, ClosingShape
<1>5. /\ status \notin Terminal /\ status' = outcome
      /\ log' = log \o ext
      /\ cmd[c] \in Unfinished /\ cmd'[c] \in SettledStatuses
      /\ \A d \in Commands :
            cmd[d] \in SettledStatuses => cmd'[d] \in SettledStatuses
  BY DEF ExecuteAndClose, Executable, Completed, Live, LiveStatuses, Terminal,
         SettledStatuses
<1> HIDE DEF run, close, outcome
<1>6. /\ ext \in Seq(Events)
      /\ Len(ext) = 2 + Len(close)
      /\ ext[1] = run[1] /\ ext[2] = run[2]
      /\ \A i \in 3 .. Len(ext) : i - 2 \in 1 .. Len(close)
                                  /\ ext[i] = close[i - 2]
  <2>1. /\ ext \in Seq(Events)
        /\ Len(ext) = Len(run) + Len(close)
        /\ \A i \in 1 .. Len(run) : ext[i] = run[i]
        /\ \A i \in (Len(run) + 1) .. (Len(run) + Len(close)) :
              i - Len(run) \in 1 .. Len(close) /\ ext[i] = close[i - Len(run)]
    BY <1>2, Concatenation
  <2> HIDE DEF ext
  <2> QED
    BY <1>2, <1>3, <2>1
<1> HIDE DEF ext
<1>7. \A i \in 1 .. Len(ext) :
          /\ ext[i].type \in TerminalEvents =>
                i = Len(ext) /\ ext[i].type = TerminalEvent(outcome)
          /\ ext[i].type = "agent.completed" => i = 2
  <2> TAKE i \in 1 .. Len(ext)
  <2>1. CASE i \in {1, 2}
    <3>1. i = 1 \/ i = 2
      BY <2>1
    <3> QED
      BY <1>3, <1>6, <3>1 DEF TerminalEvents
  <2>2. CASE i \in 3 .. Len(ext)
    BY <1>4, <1>6, <2>2
  <2> QED
    BY <1>4, <1>6, <2>1, <2>2
<1>8. Len(ext) > 0 /\ ext[Len(ext)].type \in TerminalEvents
  <2>1. /\ Len(ext) \in 3 .. Len(ext)
        /\ Len(ext) - 2 = Len(close)
        /\ Len(close) \in 1 .. Len(close)
    <3>1. Len(close) = 1 \/ Len(close) = 2
      BY <1>4
    <3>2. Len(ext) = 2 + Len(close)
      BY <1>6
    <3> QED
      BY <3>1, <3>2
  <2>2. ext[Len(ext)].type = TerminalEvent(outcome)
    BY <1>4, <1>6, <2>1
  <2> QED
    BY <1>1, <2>1, <2>2, TerminalEventIsTerminal
<1>9. ext[2].cmd = c
  BY <1>3, <1>6
<1>10. \A i, j \in 1 .. Len(ext) :
          ext[i].type = "agent.completed" /\ ext[j] = ext[i] => i = j
  BY <1>7
<1>11. \A i \in 1 .. Len(ext) :
          ext[i].type = "agent.completed" =>
              /\ ext[i].cmd \in Commands
              /\ cmd[ext[i].cmd] \in Unfinished
              /\ cmd'[ext[i].cmd] \in SettledStatuses
  BY <1>5, <1>7, <1>9
<1>12. /\ \A i \in 1 .. Len(ext) :
             ext[i].type \in TerminalEvents =>
                 /\ i = Len(ext)
                 /\ status' \in Terminal
                 /\ ext[i].type = TerminalEvent(status')
       /\ status' \in Terminal
  BY <1>1, <1>5, <1>7
<1> QED
  BY <1>5, <1>6, <1>8, <1>10, <1>11, <1>12, LogExtension

LEMMA FailRequiredLog ==
    ASSUME IInv, NEW c \in Commands, FailRequired(c)
    PROVE  LogInv'
<1> DEFINE ext == <<Event("agent.failed", c), Event("run.failed", c)>>
<1>1. ext \in Seq(Events)
  BY EventTyping DEF Terminal, FanInForms
<1>2. /\ Len(ext) = 2
      /\ ext[1].type = "agent.failed"
      /\ ext[2].type = "run.failed"
  BY DEF Event
<1>3. /\ status \notin Terminal /\ status' = "failed"
      /\ log' = log \o ext
      /\ \A d \in Commands :
            cmd[d] \in SettledStatuses => cmd'[d] \in SettledStatuses
  BY DEF FailRequired, Failable, Live, LiveStatuses, Terminal, SettledStatuses
<1>4. /\ TerminalEvent("failed") = "run.failed"
      /\ "run.failed" \in TerminalEvents /\ "agent.failed" \notin TerminalEvents
      /\ "failed" \in Terminal
  BY DEF TerminalEvent, TerminalEvents, Terminal
<1> HIDE DEF ext
<1>5. \A i \in 1 .. Len(ext) :
          /\ ext[i].type \in TerminalEvents =>
                i = Len(ext) /\ ext[i].type = TerminalEvent("failed")
          /\ ext[i].type # "agent.completed"
  BY <1>2, <1>4
<1>6. Len(ext) > 0 /\ ext[Len(ext)].type \in TerminalEvents
  BY <1>2, <1>4
<1>7. \A i \in 1 .. Len(ext) :
          ext[i].type \in TerminalEvents =>
              /\ i = Len(ext)
              /\ status' \in Terminal
              /\ ext[i].type = TerminalEvent(status')
  BY <1>3, <1>4, <1>5
<1>8. /\ \A i, j \in 1 .. Len(ext) :
             ext[i].type = "agent.completed" /\ ext[j] = ext[i] => i = j
      /\ \A i \in 1 .. Len(ext) :
             ext[i].type = "agent.completed" =>
                 /\ ext[i].cmd \in Commands
                 /\ cmd[ext[i].cmd] \in Unfinished
                 /\ cmd'[ext[i].cmd] \in SettledStatuses
  BY <1>5
<1> QED
  BY <1>1, <1>3, <1>6, <1>7, <1>8, LogExtension

LEMMA FailOptionalAndDegradeLog ==
    ASSUME IInv, NEW c \in Commands, NEW f \in FailureFanIns,
           FailOptionalAndDegrade(c, f)
    PROVE  LogInv'
<1> DEFINE head == <<Event("agent.failed", c)>>
           close == Closing(f, "degraded", c)
           ext == head \o close
<1>1. "degraded" \in Terminal /\ f \in FanInForms
  BY FanInAssumption DEF Terminal
<1>2. head \in Seq(Events) /\ close \in Seq(Events)
  BY <1>1, EventTyping
<1>3. Len(head) = 1 /\ head[1].type = "agent.failed"
  BY DEF Event
<1>4. /\ Len(close) \in {1, 2}
      /\ \A i \in 1 .. Len(close) :
            /\ close[i].type # "agent.completed"
            /\ i = Len(close) => close[i].type = TerminalEvent("degraded")
            /\ i # Len(close) => close[i].type \notin TerminalEvents
  BY <1>1, ClosingShape
<1>5. /\ status \notin Terminal /\ status' = "degraded"
      /\ log' = log \o ext
      /\ \A d \in Commands :
            cmd[d] \in SettledStatuses => cmd'[d] \in SettledStatuses
  BY DEF FailOptionalAndDegrade, Failable, Failed, Live, LiveStatuses,
         Terminal, SettledStatuses, IInv, TypeOK
<1> HIDE DEF head, close
<1>6. /\ ext \in Seq(Events)
      /\ Len(ext) = 1 + Len(close)
      /\ ext[1] = head[1]
      /\ \A i \in 2 .. Len(ext) : i - 1 \in 1 .. Len(close)
                                  /\ ext[i] = close[i - 1]
  <2>1. /\ ext \in Seq(Events)
        /\ Len(ext) = Len(head) + Len(close)
        /\ \A i \in 1 .. Len(head) : ext[i] = head[i]
        /\ \A i \in (Len(head) + 1) .. (Len(head) + Len(close)) :
              i - Len(head) \in 1 .. Len(close) /\ ext[i] = close[i - Len(head)]
    BY <1>2, Concatenation
  <2> HIDE DEF ext
  <2> QED
    BY <1>2, <1>3, <2>1
<1> HIDE DEF ext
<1>7. \A i \in 1 .. Len(ext) :
          /\ ext[i].type \in TerminalEvents =>
                i = Len(ext) /\ ext[i].type = TerminalEvent("degraded")
          /\ ext[i].type # "agent.completed"
  <2> TAKE i \in 1 .. Len(ext)
  <2>1. CASE i = 1
    BY <1>3, <1>6, <2>1 DEF TerminalEvents
  <2>2. CASE i \in 2 .. Len(ext)
    BY <1>4, <1>6, <2>2
  <2> QED
    BY <1>4, <1>6, <2>1, <2>2
<1>8. Len(ext) > 0 /\ ext[Len(ext)].type \in TerminalEvents
  BY <1>1, <1>4, <1>6, TerminalEventIsTerminal
<1>9. \A i \in 1 .. Len(ext) :
          ext[i].type \in TerminalEvents =>
              /\ i = Len(ext)
              /\ status' \in Terminal
              /\ ext[i].type = TerminalEvent(status')
  BY <1>1, <1>5, <1>7
<1>10. /\ \A i, j \in 1 .. Len(ext) :
             ext[i].type = "agent.completed" /\ ext[j] = ext[i] => i = j
       /\ \A i \in 1 .. Len(ext) :
             ext[i].type = "agent.completed" =>
                 /\ ext[i].cmd \in Commands
                 /\ cmd[ext[i].cmd] \in Unfinished
                 /\ cmd'[ext[i].cmd] \in SettledStatuses
  BY <1>7
<1> QED
  BY <1>5, <1>6, <1>8, <1>9, <1>10, LogExtension

\* A single terminal event appended to the log of a live run.
LEMMA TerminalExtension ==
    ASSUME IInv, status \notin Terminal, status' \in Terminal,
           NEW e \in Events,
           log' = Append(log, e),
           e.type = TerminalEvent(status'),
           \A d \in Commands :
              cmd[d] \in SettledStatuses => cmd'[d] \in SettledStatuses
    PROVE  LogInv'
<1> DEFINE ext == <<e>>
<1>1. ext \in Seq(Events) /\ log' = log \o ext
  BY DEF IInv, TypeOK
<1>2. Len(ext) = 1 /\ ext[1] = e
  OBVIOUS
<1>3. e.type \in TerminalEvents /\ e.type # "agent.completed"
  BY TerminalEventIsTerminal DEF TerminalEvents
<1> HIDE DEF ext
<1>4. \A i \in 1 .. Len(ext) : i = 1 /\ ext[i] = e
  BY <1>2
<1>5. Len(ext) > 0 /\ ext[Len(ext)].type \in TerminalEvents
  BY <1>2, <1>3
<1>6. \A i \in 1 .. Len(ext) :
          ext[i].type \in TerminalEvents =>
              /\ i = Len(ext)
              /\ status' \in Terminal
              /\ ext[i].type = TerminalEvent(status')
  BY <1>2, <1>4
<1>7. /\ \A i, j \in 1 .. Len(ext) :
             ext[i].type = "agent.completed" /\ ext[j] = ext[i] => i = j
      /\ \A i \in 1 .. Len(ext) :
             ext[i].type = "agent.completed" =>
                 /\ ext[i].cmd \in Commands
                 /\ cmd[ext[i].cmd] \in Unfinished
                 /\ cmd'[ext[i].cmd] \in SettledStatuses
  BY <1>3, <1>4
<1> QED
  BY <1>1, <1>5, <1>6, <1>7, LogExtension

LEMMA OtherLog ==
    ASSUME IInv,
           \/ Deadline
           \/ \E c \in Commands :
                 FailOptionalAndWait(c) \/ FailAndTimeOut(c) \/ FailTimedOut(c)
           \/ Cancel
           \/ Expire
           \/ UNCHANGED vars
    PROVE  LogInv'
<1>1. CASE Deadline \/ UNCHANGED vars
  BY <1>1 DEF Deadline, vars, IInv, LogInv, OneTerminalEvent, CompletedOnce,
              CompletionRecorded
<1>2. ASSUME NEW c \in Commands, FailOptionalAndWait(c)
      PROVE  LogInv'
  <2>1. /\ status \notin Terminal /\ status' \notin Terminal
        /\ log' = Append(log, Event("agent.failed", c))
        /\ \A d \in Commands :
              cmd[d] \in SettledStatuses => cmd'[d] \in SettledStatuses
    BY <1>2 DEF FailOptionalAndWait, Failable, Failed, Live, LiveStatuses,
                Terminal, SettledStatuses, IInv, TypeOK
  <2>2. Event("agent.failed", c) \in Events
    BY EventTyping DEF Terminal, FanInForms
  <2>3. Event("agent.failed", c).type \notin TerminalEvents \cup {"agent.completed"}
    BY DEF Event, TerminalEvents
  <2> QED
    BY <2>1, <2>2, <2>3, QuietExtension
<1>3. /\ Event("run.timed_out", NoCommand) \in Events
      /\ Event("run.cancelled", NoCommand) \in Events
      /\ Event("run.timed_out", NoCommand).type = TerminalEvent("timed_out")
      /\ Event("run.cancelled", NoCommand).type = TerminalEvent("cancelled")
      /\ "timed_out" \in Terminal /\ "cancelled" \in Terminal
  BY DEF Event, Events, EventTypes, TerminalEvents, TerminalEvent, Terminal
<1>4. ASSUME NEW c \in Commands, FailAndTimeOut(c)
      PROVE  LogInv'
  <2>1. /\ status \notin Terminal /\ status' = "timed_out"
        /\ log' = Append(log, Event("run.timed_out", NoCommand))
        /\ \A d \in Commands :
              cmd[d] \in SettledStatuses => cmd'[d] \in SettledStatuses
    BY <1>4 DEF FailAndTimeOut, Failed, Live, LiveStatuses, Terminal, SettledStatuses,
                IInv, TypeOK
  <2> QED
    BY <1>3, <2>1, TerminalExtension
<1>5. ASSUME NEW c \in Commands, FailTimedOut(c)
      PROVE  LogInv'
  <2>1. /\ UNCHANGED <<status, log>>
        /\ \A d \in Commands :
              cmd[d] \in SettledStatuses => cmd'[d] \in SettledStatuses
    BY <1>5 DEF FailTimedOut, Failed, SettledStatuses, IInv, TypeOK
  <2> QED
    BY <2>1 DEF IInv, LogInv, OneTerminalEvent, CompletedOnce,
                CompletionRecorded, SettledStatuses
<1>6. CASE Cancel
  <2>1. /\ status \notin Terminal /\ status' = "cancelled"
        /\ log' = Append(log, Event("run.cancelled", NoCommand))
        /\ \A d \in Commands :
              cmd[d] \in SettledStatuses => cmd'[d] \in SettledStatuses
    BY <1>6 DEF Cancel, Live, LiveStatuses, Terminal
  <2> QED
    BY <1>3, <2>1, TerminalExtension
<1>7. CASE Expire
  <2>1. /\ status \notin Terminal /\ status' = "timed_out"
        /\ log' = Append(log, Event("run.timed_out", NoCommand))
        /\ \A d \in Commands :
              cmd[d] \in SettledStatuses => cmd'[d] \in SettledStatuses
    BY <1>7 DEF Expire, Live, LiveStatuses, Terminal
  <2> QED
    BY <1>3, <2>1, TerminalExtension
<1> QED
  BY <1>1, <1>2, <1>4, <1>5, <1>6, <1>7

LEMMA LogStep ==
    ASSUME IInv, [Next]_vars
    PROVE  LogInv'
BY NextCases, AdmitLog, ExecuteAndWaitLog, ExecuteAndCloseLog,
   FailRequiredLog, FailOptionalAndDegradeLog, OtherLog

-----------------------------------------------------------------------------
(***************************************************************************)
(* The inductive invariant holds of every reachable state.                 *)
(***************************************************************************)
THEOREM Invariance == Spec => []IInv
<1>1. Init => IInv
  <2>1. Init => TypeOK
    BY DEF Init, TypeOK, RunStatuses, LiveStatuses, Terminal,
           CommandStatuses, Results
  <2>2. Init => StateInv
    BY DEF Init, StateInv, FreshRun, ResultIsFinal, PlanAgrees,
           RequiredFailureCloses, CompletedIsWhole, DegradedIsOptional,
           FailedIsDrained, Live, LiveStatuses, In, Dispatched
  <2>3. Init => LogInv
    BY DEF Init, LogInv, OneTerminalEvent, CompletedOnce, CompletionRecorded,
           Terminal
  <2> QED
    BY <2>1, <2>2, <2>3 DEF IInv
<1>2. IInv /\ [Next]_vars => IInv'
  BY TypeStep, StateStep, LogStep DEF IInv
<1> QED
  BY <1>1, <1>2, PTL DEF Spec

(***************************************************************************)
(* A required failure closes the run in the transaction that records it:   *)
(* no delivery ever finds a live run with a failed required command.       *)
(***************************************************************************)
THEOREM RequiredFailureAlwaysCloses == Spec => []RequiredFailureCloses
<1>1. IInv => RequiredFailureCloses
  BY DEF IInv, StateInv
<1> QED
  BY <1>1, Invariance, PTL

(***************************************************************************)
(* The outcome of a run tells the truth about its commands: completed ones *)
(* are whole, degraded ones lost optional work only, failed ones lost      *)
(* something required and have drained.                                    *)
(***************************************************************************)
THEOREM OutcomeIsTruthful == Spec => []OutcomeFitsCommands
<1>1. IInv => OutcomeFitsCommands
  BY DEF IInv, StateInv, OutcomeFitsCommands
<1> QED
  BY <1>1, Invariance, PTL

(***************************************************************************)
(* The event log closes once: one terminal event, last, naming the status. *)
(***************************************************************************)
THEOREM LogClosesOnce == Spec => []OneTerminalEvent
<1>1. IInv => OneTerminalEvent
  BY DEF IInv, LogInv
<1> QED
  BY <1>1, Invariance, PTL

(***************************************************************************)
(* However often it is delivered, a command commits one effect at most.    *)
(***************************************************************************)
THEOREM HandlersCommitOnce == Spec => []CompletedOnce
<1>1. IInv => CompletedOnce
  BY DEF IInv, LogInv
<1> QED
  BY <1>1, Invariance, PTL

(***************************************************************************)
(* No step changes the status, the result or the log of a terminal run.    *)
(***************************************************************************)
THEOREM TerminalRunsAreFinal == Spec => TerminalIsFinal
<1>1. [Next]_vars =>
          [(status \in Terminal) => UNCHANGED <<status, result, log>>]_vars
  <2> SUFFICES ASSUME [Next]_vars, status \in Terminal
               PROVE  UNCHANGED <<status, result, log>>
    OBVIOUS
  <2>1. ~Live /\ status # "none"
    BY DEF Live, LiveStatuses, Terminal
  <2> QED
    BY <2>1, NextCases
    DEF Admit, Deadline, ExecuteAndWait, ExecuteAndClose, Executable,
        FailRequired, FailOptionalAndWait, FailOptionalAndDegrade, Failable,
        FailAndTimeOut, FailTimedOut, Cancel, Expire, vars
<1> QED
  BY <1>1, PTL DEF Spec, TerminalIsFinal

(***************************************************************************)
(* The commands behind an outcome are as final as the outcome itself, for  *)
(* any number of commands and failures: no late delivery rewrites what a   *)
(* closed run was judged by, except that a run which timed out still lets  *)
(* a late failure mark its command as failed.                              *)
(***************************************************************************)
THEOREM ClosedRunsKeepCommands == Spec => CommandsRestWithRun
<1> DEFINE Rests ==
        (status \in Terminal) =>
            \A c \in Commands :
                \/ cmd'[c] = cmd[c]
                \/ status = "timed_out" /\ cmd'[c] = "failed"
<1>1. IInv /\ [Next]_vars => Rests
  <2> SUFFICES ASSUME IInv, [Next]_vars, status \in Terminal,
                      NEW c \in Commands
               PROVE  \/ cmd'[c] = cmd[c]
                      \/ status = "timed_out" /\ cmd'[c] = "failed"
    OBVIOUS
  <2>1. ~Live /\ status # "none"
    BY DEF Live, LiveStatuses, Terminal
  <2>2. ASSUME NEW d \in Commands, FailTimedOut(d)
        PROVE  status = "timed_out" /\ (cmd'[c] = cmd[c] \/ cmd'[c] = "failed")
    BY <2>2 DEF FailTimedOut, Failed, IInv, TypeOK
  <2> QED
    BY <2>1, <2>2, NextCases
    DEF Admit, Deadline, ExecuteAndWait, ExecuteAndClose, Executable,
        FailRequired, FailOptionalAndWait, FailOptionalAndDegrade, Failable,
        FailAndTimeOut, Cancel, Expire, vars
<1>2. Spec => [][Rests]_vars
  BY <1>1, Invariance, PTL DEF Spec
<1> QED
  BY <1>2 DEF CommandsRestWithRun

-----------------------------------------------------------------------------
(***************************************************************************)
(* A live run has a command whose delivery can still move it.  The one     *)
(* exception is a run of optional commands only which all failed, when     *)
(* fail_specialist_command is given no fan-in: nothing closes it but the   *)
(* supervisor, or one more failure that comes after the deadline.          *)
(***************************************************************************)
LiveRunHasWork ==
    Live =>
        \/ In(cmd, Unfinished) # {}
        \/ /\ Dispatched = In(cmd, {"failed"})
           /\ Dispatched \cap required = {}
           /\ "none" \in FailureFanIns

LEMMA WorkStep ==
    ASSUME IInv, IInv', LiveRunHasWork, [Next]_vars
    PROVE  LiveRunHasWork'
<1>1. ASSUME status' \in Terminal
      PROVE  LiveRunHasWork'
  BY <1>1 DEF LiveRunHasWork, Live, LiveStatuses, Terminal
<1>2. ASSUME In(cmd', Unfinished) # {}
      PROVE  LiveRunHasWork'
  BY <1>2 DEF LiveRunHasWork, In
<1>3. ASSUME NEW c \in Commands, FailOptionalAndWait(c),
             In(Failed(c), {"completed"}) = {}, "none" \in FailureFanIns
      PROVE  LiveRunHasWork'
  <2>1. CASE In(cmd', Unfinished) = {}
    <3>1. cmd' = Failed(c) /\ cmd' \in [Commands -> CommandStatuses]
      BY <1>3 DEF FailOptionalAndWait, IInv, TypeOK
    <3>2. \A d \in Commands : cmd'[d] # "absent" => cmd'[d] = "failed"
      BY <1>3, <2>1, <3>1 DEF In, CommandStatuses, Unfinished
    <3>3. Dispatched' = In(cmd', {"failed"})
      BY <3>2 DEF Dispatched, In
    <3>4. Live'
      BY <1>3 DEF FailOptionalAndWait, Live, LiveStatuses
    <3>5. Dispatched' \cap required' = {}
      BY <3>3, <3>4 DEF IInv, StateInv, RequiredFailureCloses, In
    <3> QED
      BY <1>3, <3>3, <3>5 DEF LiveRunHasWork, In
  <2> QED
    BY <1>2, <2>1
<1>4. ASSUME NEW cs \in SUBSET Commands, NEW req \in SUBSET cs,
             Admit(cs, req)
      PROVE  LiveRunHasWork'
  BY <1>2, <1>4 DEF Admit, In, Unfinished
<1>5. ASSUME NEW c \in Commands, Execute(c)
      PROVE  LiveRunHasWork'
  <2>1. ASSUME NEW f \in FanIns, ExecuteAndClose(c, f)
        PROVE  status' \in Terminal
    BY <2>1, OutcomeIsTerminal DEF ExecuteAndClose, Terminal
  <2>2. ASSUME NEW new \in SUBSET Commands, NEW req \in SUBSET new,
               ExecuteAndWait(c, new, req)
        PROVE  In(cmd', Unfinished) # {}
    BY <2>2 DEF ExecuteAndWait
  <2> QED
    BY <1>1, <1>2, <1>5, <2>1, <2>2 DEF Execute
<1>6. ASSUME NEW c \in Commands, Fail(c)
      PROVE  LiveRunHasWork'
  <2>1. CASE FailOptionalAndWait(c)
    BY <1>2, <1>3, <2>1 DEF FailOptionalAndWait
  <2> QED
    BY <1>1, <1>6, <2>1
    DEF Fail, FailInTime, FailLate, FailRequired, FailOptionalAndDegrade,
        FailAndTimeOut, FailTimedOut, Terminal
<1>7. CASE Cancel \/ Expire
  BY <1>1, <1>7 DEF Cancel, Expire, Terminal
<1>8. CASE Deadline \/ UNCHANGED vars
  BY <1>8 DEF Deadline, vars, LiveRunHasWork, Live, In, Dispatched
<1> QED
  BY <1>4, <1>5, <1>6, <1>7, <1>8 DEF Next

(***************************************************************************)
(* No order of completions and failures strands a run: as long as it is    *)
(* live it has work, or it is the run of optional commands described       *)
(* above.                                                                  *)
(***************************************************************************)
THEOREM LiveRunsHaveWork == Spec => []LiveRunHasWork
<1>1. Init => LiveRunHasWork
  BY DEF Init, LiveRunHasWork, Live, LiveStatuses
<1>2. IInv /\ IInv' /\ LiveRunHasWork /\ [Next]_vars => LiveRunHasWork'
  BY WorkStep
<1> QED
  BY <1>1, <1>2, Invariance, PTL DEF Spec

-----------------------------------------------------------------------------
(***************************************************************************)
(* The commands of a run as items that take effect at most once.  A run on *)
(* its own does not promise it, for fail_specialist_command may fail a     *)
(* completed command; a run whose completions stay does.                   *)
(***************************************************************************)
CompletionsStay ==
    [][\A c \in Commands :
          cmd[c] = "completed" => cmd'[c] = "completed"]_vars

\* A completion is taken back by nothing but a failure of the command itself.
LEMMA CompletedIsKept ==
    ASSUME IInv, NEW c \in Commands, cmd[c] = "completed",
           NEW d \in Commands, Execute(d) \/ (Fail(d) /\ d # c)
    PROVE  cmd'[c] = "completed"
<1>1. c \in Dispatched
  BY DEF Dispatched
<1>2. CASE Execute(d)
  <2>1. \A new \in SUBSET Commands :
           c \notin new => Completed(d, new)[c] = "completed"
    BY DEF Completed
  <2> QED
    BY <1>1, <1>2, <2>1 DEF Execute, ExecuteAndWait, ExecuteAndClose
<1>3. CASE Fail(d) /\ d # c
  <2>1. Failed(d)[c] = "completed"
    BY <1>3 DEF Failed, IInv, TypeOK
  <2> QED
    BY <1>3, <2>1
    DEF Fail, FailInTime, FailLate, FailRequired, FailOptionalAndWait,
        FailOptionalAndDegrade, FailAndTimeOut, FailTimedOut, Unfinished
<1> QED
  BY <1>2, <1>3

\* The log l has an event e.
Has(l, e) == \E i \in DOMAIN l : l[i] = e

LEMMA EventCount ==
    ASSUME NEW l, NEW e, \A i, j \in DOMAIN l : l[i] = e /\ l[j] = e => i = j
    PROVE  Cardinality({i \in DOMAIN l : l[i] = e}) = IF Has(l, e) THEN 1 ELSE 0
<1>1. CASE Has(l, e)
  <2>1. PICK i \in DOMAIN l : l[i] = e
    BY <1>1 DEF Has
  <2>2. {j \in DOMAIN l : l[j] = e} = {i}
    BY <2>1
  <2> QED
    BY <1>1, <2>2, FS_Singleton
<1>2. CASE ~ Has(l, e)
  <2>1. {j \in DOMAIN l : l[j] = e} = {}
    BY <1>2 DEF Has
  <2> QED
    BY <1>2, <2>1, FS_EmptySet
<1> QED
  BY <1>1, <1>2

LEMMA EventOfExtension ==
    ASSUME NEW s \in Seq(Events), NEW t \in Seq(Events), NEW e
    PROVE  Has(s \o t, e) <=> Has(s, e) \/ Has(t, e)
<1> DEFINE n == Len(s)
           m == Len(t)
           st == s \o t
<1>1. /\ n \in Nat /\ m \in Nat
      /\ DOMAIN s = 1 .. n /\ DOMAIN t = 1 .. m
      /\ DOMAIN st = 1 .. (n + m)
      /\ \A i \in 1 .. n : st[i] = s[i]
      /\ \A i \in (n + 1) .. (n + m) : i - n \in 1 .. m /\ st[i] = t[i - n]
  BY Concatenation
<1> HIDE DEF n, m, st
<1>2. ASSUME Has(st, e)
      PROVE  Has(s, e) \/ Has(t, e)
  <2>1. PICK i \in 1 .. (n + m) : st[i] = e
    BY <1>1, <1>2 DEF Has
  <2>2. i \in 1 .. n \/ i \in (n + 1) .. (n + m)
    BY <1>1, <2>1
  <2> QED
    BY <1>1, <2>1, <2>2 DEF Has
<1>3. ASSUME Has(s, e)
      PROVE  Has(st, e)
  <2>1. \A i \in 1 .. n : i \in 1 .. (n + m)
    BY <1>1
  <2> QED
    BY <1>1, <1>3, <2>1 DEF Has
<1>4. ASSUME Has(t, e)
      PROVE  Has(st, e)
  <2>1. PICK i \in 1 .. m : t[i] = e
    BY <1>1, <1>4 DEF Has
  <2>2. /\ n + i \in (n + 1) .. (n + m) /\ n + i \in 1 .. (n + m)
        /\ (n + i) - n = i
    BY <1>1, <2>1
  <2> QED
    BY <1>1, <2>1, <2>2 DEF Has
<1> QED
  BY <1>2, <1>3, <1>4 DEF st

\* What each transaction adds to the log about completions.
LEMMA CompletionEvents ==
    ASSUME NEW d \in Commands, NEW f \in FanInForms, NEW s \in Terminal,
           NEW c \in Commands
    PROVE  /\ Has(Executed(d), Event("agent.completed", c)) <=> c = d
           /\ ~ Has(Closing(f, s, d), Event("agent.completed", c))
           /\ ~ Has(<<Event("agent.failed", d)>>, Event("agent.completed", c))
           /\ ~ Has(<<Event("agent.failed", d), Event("run.failed", d)>>,
                    Event("agent.completed", c))
           /\ \A t \in {"run.timed_out", "run.cancelled"} :
                 ~ Has(<<Event(t, NoCommand)>>, Event("agent.completed", c))
<1> DEFINE e == Event("agent.completed", c)
<1>1. /\ e.type = "agent.completed" /\ e.cmd = c
      /\ Event("agent.started", d).type = "agent.started"
      /\ Event("agent.completed", d).cmd = d
      /\ Event("agent.failed", d).type = "agent.failed"
      /\ Event("run.failed", d).type = "run.failed"
      /\ Event("run.timed_out", NoCommand).type = "run.timed_out"
      /\ Event("run.cancelled", NoCommand).type = "run.cancelled"
  BY DEF Event
<1>2. Has(Executed(d), e) <=> c = d
  <2>1. /\ DOMAIN Executed(d) = {1, 2}
        /\ Executed(d)[1] = Event("agent.started", d)
        /\ Executed(d)[2] = Event("agent.completed", d)
    BY DEF Executed
  <2>2. Event("agent.started", d) # e
    BY <1>1
  <2>3. Event("agent.completed", d) = e <=> c = d
    BY <1>1
  <2> HIDE DEF e
  <2> QED
    BY <2>1, <2>2, <2>3 DEF Has
<1>3. ~ Has(Closing(f, s, d), e)
  <2>1. Closing(f, s, d) \in Seq(Events)
    BY EventTyping
  <2>2. DOMAIN Closing(f, s, d) = 1 .. Len(Closing(f, s, d))
    BY <2>1
  <2>3. \A i \in 1 .. Len(Closing(f, s, d)) :
           Closing(f, s, d)[i].type # "agent.completed"
    BY ClosingShape
  <2> QED
    BY <1>1, <2>2, <2>3 DEF Has
<1>4. ~ Has(<<Event("agent.failed", d), Event("run.failed", d)>>, e)
  <2> DEFINE l == <<Event("agent.failed", d), Event("run.failed", d)>>
  <2>1. /\ DOMAIN l = {1, 2}
        /\ l[1] = Event("agent.failed", d) /\ l[2] = Event("run.failed", d)
    OBVIOUS
  <2>2. Event("agent.failed", d) # e /\ Event("run.failed", d) # e
    BY <1>1
  <2> HIDE DEF l, e
  <2>3. ~ Has(l, e)
    BY <2>1, <2>2 DEF Has
  <2> QED
    BY <2>3 DEF l
<1>5. ASSUME NEW x, x # e
      PROVE  ~ Has(<<x>>, e)
  <2>1. DOMAIN <<x>> = {1} /\ <<x>>[1] = x
    OBVIOUS
  <2> QED
    BY <1>5, <2>1 DEF Has
<1>6. /\ Event("agent.failed", d) # e
      /\ Event("run.timed_out", NoCommand) # e
      /\ Event("run.cancelled", NoCommand) # e
  BY <1>1
<1> HIDE DEF e
<1>7. /\ ~ Has(<<Event("agent.failed", d)>>, e)
      /\ ~ Has(<<Event("run.timed_out", NoCommand)>>, e)
      /\ ~ Has(<<Event("run.cancelled", NoCommand)>>, e)
  BY <1>5, <1>6
<1> QED
  BY <1>2, <1>3, <1>4, <1>7 DEF e

Recorded(c) == Has(log, Event("agent.completed", c))

\* A transaction that appends ext records what ext records.
LEMMA Records ==
    ASSUME TypeOK, NEW ext \in Seq(Events), log' = log \o ext,
           NEW c \in Commands
    PROVE  Recorded(c)' <=>
               Recorded(c) \/ Has(ext, Event("agent.completed", c))
BY EventOfExtension DEF TypeOK, Recorded

\* What a step can be for one command, when it does not fail it after its
\* completion.
CommandStep(c) ==
    \/ cmd'[c] = cmd[c] /\ (Recorded(c)' <=> Recorded(c))
    \/ /\ cmd[c] = "absent" /\ cmd'[c] = "queued"
       /\ Recorded(c)' <=> Recorded(c)
    \/ cmd[c] \in Unfinished /\ cmd'[c] = "completed" /\ Recorded(c)'
    \/ /\ cmd[c] \in Unfinished /\ cmd'[c] = "failed"
       /\ Recorded(c)' <=> Recorded(c)

LEMMA ExecuteMoves ==
    ASSUME IInv, NEW d \in Commands, Execute(d), NEW c \in Commands
    PROVE  CommandStep(c)
<1>1. ASSUME NEW new \in SUBSET Commands, NEW req \in SUBSET new,
             ExecuteAndWait(d, new, req)
      PROVE  CommandStep(c)
  <2>1. /\ Executed(d) \in Seq(Events)
        /\ log' = log \o Executed(d)
    BY <1>1, EventTyping DEF ExecuteAndWait, Terminal, FanInForms
  <2>2. Recorded(c)' <=> Recorded(c) \/ c = d
    BY <2>1, Records, CompletionEvents DEF IInv, Terminal, FanInForms
  <2> QED
    BY <1>1, <2>2 DEF ExecuteAndWait, Executable, Completed, Dispatched,
                      CommandStep
<1>2. ASSUME NEW f \in FanIns, ExecuteAndClose(d, f)
      PROVE  CommandStep(c)
  <2> DEFINE outcome == Outcome(In(Completed(d, {}), {"failed"}))
             close == Closing(f, outcome, d)
  <2>1. outcome \in Terminal /\ f \in FanInForms
    BY OutcomeIsTerminal, FanInAssumption DEF Terminal
  <2>2. Executed(d) \in Seq(Events) /\ close \in Seq(Events)
    BY <2>1, EventTyping
  <2>3. log' = log \o (Executed(d) \o close)
    BY <1>2 DEF ExecuteAndClose
  <2> HIDE DEF outcome
  <2>4. /\ Has(Executed(d), Event("agent.completed", c)) <=> c = d
        /\ ~ Has(close, Event("agent.completed", c))
    BY <2>1, CompletionEvents
  <2> HIDE DEF close
  <2>5. Executed(d) \o close \in Seq(Events)
    BY <2>2, Concatenation
  <2>6. Has(Executed(d) \o close, Event("agent.completed", c)) <=> c = d
    BY <2>2, <2>4, EventOfExtension
  <2>7. Recorded(c)' <=> Recorded(c) \/ c = d
    BY <2>3, <2>5, <2>6, Records DEF IInv
  <2> QED
    BY <1>2, <2>7 DEF ExecuteAndClose, Executable, Completed, CommandStep
<1> QED
  BY <1>1, <1>2 DEF Execute

LEMMA FailMoves ==
    ASSUME IInv, NEW d \in Commands, Fail(d), NEW c \in Commands,
           cmd[c] = "completed" => cmd'[c] = "completed"
    PROVE  CommandStep(c)
<1> USE DEF Failable
<1>1. cmd[d] # "absent" /\ cmd \in [Commands -> CommandStatuses]
  BY DEF Fail, FailInTime, FailLate, FailRequired, FailOptionalAndWait,
         FailOptionalAndDegrade, FailAndTimeOut, FailTimedOut, IInv, TypeOK
<1>2. ASSUME cmd' = Failed(d)
      PROVE  \/ cmd'[c] = cmd[c]
             \/ cmd[c] \in Unfinished /\ cmd'[c] = "failed"
  BY <1>1, <1>2 DEF Failed, CommandStatuses, Unfinished
<1>3. CASE FailRequired(d)
  <2> DEFINE ext == <<Event("agent.failed", d), Event("run.failed", d)>>
  <2>1. ext \in Seq(Events) /\ log' = log \o ext
    BY <1>3, EventTyping DEF FailRequired, Terminal, FanInForms
  <2>2. ~ Has(ext, Event("agent.completed", c))
    BY CompletionEvents DEF Terminal, FanInForms
  <2> HIDE DEF ext
  <2>3. Recorded(c)' <=> Recorded(c)
    BY <2>1, <2>2, Records DEF IInv
  <2>4. \/ cmd'[c] = cmd[c]
        \/ cmd[c] \in Unfinished /\ cmd'[c] = "failed"
    BY <1>1, <1>3 DEF FailRequired, CommandStatuses, Unfinished
  <2> QED
    BY <2>3, <2>4 DEF CommandStep
<1>4. ASSUME NEW x \in Events, cmd' = Failed(d), log' = log \o <<x>>,
             ~ Has(<<x>>, Event("agent.completed", c))
      PROVE  CommandStep(c)
  <2>1. <<x>> \in Seq(Events)
    BY <1>4
  <2>2. Recorded(c)' <=> Recorded(c)
    BY <1>4, <2>1, Records DEF IInv
  <2> QED
    BY <1>2, <1>4, <2>2 DEF CommandStep
<1>5. CASE FailOptionalAndWait(d)
  <2>1. /\ Event("agent.failed", d) \in Events
        /\ ~ Has(<<Event("agent.failed", d)>>, Event("agent.completed", c))
    BY EventTyping, CompletionEvents DEF Terminal, FanInForms
  <2>2. log' = log \o <<Event("agent.failed", d)>> /\ cmd' = Failed(d)
    BY <1>5 DEF FailOptionalAndWait, IInv, TypeOK
  <2> QED
    BY <1>4, <2>1, <2>2
<1>6. ASSUME NEW f \in FailureFanIns, FailOptionalAndDegrade(d, f)
      PROVE  CommandStep(c)
  <2> DEFINE head == <<Event("agent.failed", d)>>
             close == Closing(f, "degraded", d)
  <2>1. f \in FanInForms /\ "degraded" \in Terminal
    BY FanInAssumption DEF Terminal
  <2>2. head \in Seq(Events) /\ close \in Seq(Events)
    BY <2>1, EventTyping
  <2>3. log' = log \o (head \o close) /\ cmd' = Failed(d)
    BY <1>6 DEF FailOptionalAndDegrade
  <2>4. /\ ~ Has(head, Event("agent.completed", c))
        /\ ~ Has(close, Event("agent.completed", c))
    BY <2>1, CompletionEvents
  <2> HIDE DEF head, close
  <2>5. head \o close \in Seq(Events)
    BY <2>2, Concatenation
  <2>6. ~ Has(head \o close, Event("agent.completed", c))
    BY <2>2, <2>4, EventOfExtension
  <2>7. Recorded(c)' <=> Recorded(c)
    BY <2>3, <2>5, <2>6, Records DEF IInv
  <2> QED
    BY <1>2, <2>3, <2>7 DEF CommandStep
<1>7. CASE FailAndTimeOut(d)
  <2>1. /\ Event("run.timed_out", NoCommand) \in Events
        /\ ~ Has(<<Event("run.timed_out", NoCommand)>>,
                 Event("agent.completed", c))
    BY EventTyping, CompletionEvents DEF Terminal, FanInForms
  <2>2. /\ log' = log \o <<Event("run.timed_out", NoCommand)>>
        /\ cmd' = Failed(d)
    BY <1>7 DEF FailAndTimeOut, IInv, TypeOK
  <2> QED
    BY <1>4, <2>1, <2>2
<1>8. CASE FailTimedOut(d)
  <2>1. log' = log /\ cmd' = Failed(d)
    BY <1>8 DEF FailTimedOut
  <2> QED
    BY <1>2, <2>1 DEF CommandStep, Recorded
<1> QED
  BY <1>3, <1>5, <1>6, <1>7, <1>8 DEF Fail, FailInTime, FailLate

LEMMA OtherMoves ==
    ASSUME IInv, NEW c \in Commands,
           \/ \E cs \in SUBSET Commands : \E req \in SUBSET cs : Admit(cs, req)
           \/ Deadline \/ Cancel \/ Expire \/ UNCHANGED vars
    PROVE  CommandStep(c)
<1>1. ASSUME NEW cs \in SUBSET Commands, NEW req \in SUBSET cs,
             Admit(cs, req)
      PROVE  CommandStep(c)
  <2>1. /\ cmd[c] = "absent" /\ cmd'[c] \in {"absent", "queued"}
        /\ log = <<>>
        /\ log' = <<Event("run.accepted", NoCommand),
                    Event("command.dispatched", NoCommand)>>
    BY <1>1 DEF Admit, IInv, StateInv, FreshRun, Dispatched
  <2>2. /\ DOMAIN log = {} /\ DOMAIN log' = {1, 2}
        /\ log'[1].type = "run.accepted"
        /\ log'[2].type = "command.dispatched"
    BY <2>1 DEF Event
  <2>3. ~ Recorded(c) /\ ~ Recorded(c)'
    BY <2>2 DEF Recorded, Has, Event
  <2> QED
    BY <2>1, <2>3 DEF CommandStep
<1>2. ASSUME NEW t \in {"run.timed_out", "run.cancelled"}, cmd' = cmd,
             log' = Append(log, Event(t, NoCommand))
      PROVE  CommandStep(c)
  <2>1. /\ Event(t, NoCommand) \in Events
        /\ ~ Has(<<Event(t, NoCommand)>>, Event("agent.completed", c))
    BY EventTyping, CompletionEvents DEF Terminal, FanInForms
  <2>2. log' = log \o <<Event(t, NoCommand)>>
    BY <1>2 DEF IInv, TypeOK
  <2>3. <<Event(t, NoCommand)>> \in Seq(Events)
    BY <2>1
  <2>4. Recorded(c)' <=> Recorded(c)
    BY <2>1, <2>2, <2>3, Records DEF IInv
  <2> QED
    BY <1>2, <2>4 DEF CommandStep
<1>3. CASE Deadline \/ UNCHANGED vars
  BY <1>3 DEF Deadline, vars, CommandStep, Recorded
<1> QED
  BY <1>1, <1>2, <1>3 DEF Cancel, Expire

LEMMA EveryCommandMoves ==
    ASSUME IInv, [Next]_vars, NEW c \in Commands,
           cmd[c] = "completed" => cmd'[c] = "completed"
    PROVE  CommandStep(c)
BY ExecuteMoves, FailMoves, OtherMoves DEF Next

\* A completion is counted when it is recorded, and only once.
LEMMA CompletionsCount ==
    ASSUME CompletedOnce, NEW c \in Commands
    PROVE  Completions(c) = IF Recorded(c) THEN 1 ELSE 0
<1> DEFINE e == Event("agent.completed", c)
<1>1. e.type = "agent.completed"
  BY DEF Event
<1> HIDE DEF e
<1>2. \A i, j \in DOMAIN log : log[i] = e /\ log[j] = e => i = j
  BY <1>1 DEF CompletedOnce
<1>3. Cardinality({i \in DOMAIN log : log[i] = e})
          = IF Has(log, e) THEN 1 ELSE 0
  BY <1>2, EventCount
<1> QED
  BY <1>3 DEF e, Completions, Recorded

LEMMA CompletionsCountAfter ==
    ASSUME CompletedOnce', NEW c \in Commands
    PROVE  Completions(c)' = IF Recorded(c)' THEN 1 ELSE 0
<1> DEFINE e == Event("agent.completed", c)
<1>1. e.type = "agent.completed"
  BY DEF Event
<1> HIDE DEF e
<1>2. \A i, j \in DOMAIN log' : log'[i] = e /\ log'[j] = e => i = j
  BY <1>1 DEF CompletedOnce
<1>3. Cardinality({i \in DOMAIN log' : log'[i] = e})
          = IF Has(log', e) THEN 1 ELSE 0
  BY <1>2, EventCount
<1> QED
  BY <1>3 DEF e, Completions, Recorded, Has

LEMMA CommandIsAbstract ==
    ASSUME NEW c \in Commands, CommandStep(c), CompletedOnce, CompletedOnce',
           cmd[c] \in CommandStatuses, cmd'[c] \in CommandStatuses
    PROVE  LET s == StageOf(c)
               n == Completions(c)
           IN  \/ Once!Submit(s, n, s', n')
               \/ Once!Drop(s, n, s', n')
               \/ Once!Report(s, n, s', n')
               \/ Once!Rest(s, n, s', n')
<1>1. /\ Completions(c) = IF Recorded(c) THEN 1 ELSE 0
      /\ Completions(c)' = IF Recorded(c)' THEN 1 ELSE 0
  BY CompletionsCount, CompletionsCountAfter
<1>2. /\ cmd[c] = "absent" => StageOf(c) = "absent"
      /\ cmd[c] \in Unfinished => StageOf(c) = "waiting"
      /\ cmd'[c] \in Unfinished => StageOf(c)' = "waiting"
      /\ cmd'[c] = "completed" => StageOf(c)' = "done"
      /\ cmd'[c] = "failed" => StageOf(c)' = "dropped"
      /\ cmd'[c] = cmd[c] => StageOf(c)' = StageOf(c)
  BY DEF StageOf, Unfinished
<1>3. (Recorded(c)' <=> Recorded(c)) => Completions(c)' = Completions(c)
  BY <1>1
<1>4. CASE cmd'[c] = cmd[c] /\ (Recorded(c)' <=> Recorded(c))
  BY <1>2, <1>3, <1>4 DEF Once!Rest
<1>5. CASE /\ cmd[c] = "absent" /\ cmd'[c] = "queued"
           /\ Recorded(c)' <=> Recorded(c)
  BY <1>2, <1>3, <1>5 DEF Once!Submit, Unfinished
<1>6. CASE cmd[c] \in Unfinished /\ cmd'[c] = "completed" /\ Recorded(c)'
  BY <1>1, <1>2, <1>6 DEF Once!Report
<1>7. CASE /\ cmd[c] \in Unfinished /\ cmd'[c] = "failed"
           /\ Recorded(c)' <=> Recorded(c)
  BY <1>2, <1>3, <1>7 DEF Once!Drop
<1> QED
  BY <1>4, <1>5, <1>6, <1>7 DEF CommandStep

LEMMA RunIsAbstract ==
    ASSUME IInv, [Next]_vars,
           \A c \in Commands : cmd[c] = "completed" => cmd'[c] = "completed"
    PROVE  Once!AbsNext
<1>1. TypeOK' /\ CompletedOnce /\ CompletedOnce'
  BY TypeStep, LogStep DEF IInv, LogInv
<1>2. \A c \in Commands : /\ cmd[c] \in CommandStatuses
                          /\ cmd'[c] \in CommandStatuses
  BY <1>1 DEF IInv, TypeOK
<1>3. [c \in Commands |-> StageOf(c)]' \in [Commands -> Once!Stages]
  <2>1. ASSUME NEW c \in Commands
        PROVE  StageOf(c)' \in Once!Stages
    BY <1>2 DEF StageOf, CommandStatuses, Unfinished, Once!Stages
  <2> QED
    BY <2>1
<1>4. [c \in Commands |-> Completions(c)]' \in [Commands -> {0, 1}]
  <2>1. ASSUME NEW c \in Commands
        PROVE  Completions(c)' \in {0, 1}
    BY <1>1, CompletionsCountAfter
  <2> QED
    BY <2>1
<1>5. ASSUME NEW c \in Commands
      PROVE  LET s == StageOf(c)
                 n == Completions(c)
             IN  \/ Once!Submit(s, n, s', n')
                 \/ Once!Drop(s, n, s', n')
                 \/ Once!Report(s, n, s', n')
                 \/ Once!Rest(s, n, s', n')
  BY <1>1, <1>2, EveryCommandMoves, CommandIsAbstract
<1> QED
  BY <1>3, <1>4, <1>5 DEF Once!AbsNext

(***************************************************************************)
(* Refinement: in a run whose completions stay, a command takes effect at  *)
(* most once, is reported completed only with its effect, and neither its  *)
(* completion nor its failure is taken back, in whatever order siblings,   *)
(* failures, the clock and the supervisor act.                             *)
(***************************************************************************)
THEOREM CommandsTakeEffectOnce == Spec /\ CompletionsStay => CommandOnceSpec
<1> DEFINE Kept ==
        \A c \in Commands : cmd[c] = "completed" => cmd'[c] = "completed"
           abs == <<[c \in Commands |-> StageOf(c)],
                    [c \in Commands |-> Completions(c)]>>
<1>1. Init => Once!AbsInit
  <2> SUFFICES ASSUME Init
               PROVE  Once!AbsInit
    OBVIOUS
  <2>1. \A c \in Commands : StageOf(c) = "absent"
    BY DEF Init, StageOf, Unfinished
  <2>2. ASSUME NEW c \in Commands
        PROVE  Completions(c) = 0
    <3>1. {i \in DOMAIN log : log[i] = Event("agent.completed", c)} = {}
      BY DEF Init
    <3> QED
      BY <3>1, FS_EmptySet DEF Completions
  <2> QED
    BY <2>1, <2>2 DEF Once!AbsInit
<1>2. IInv /\ [Next]_vars /\ [Kept]_vars => [Once!AbsNext]_abs
  <2>1. CASE UNCHANGED vars
    BY <2>1 DEF vars, StageOf, Completions
  <2>2. CASE Kept
    BY <2>2, RunIsAbstract
  <2> QED
    BY <2>1, <2>2
<1> QED
  BY <1>1, <1>2, Invariance, PTL
  DEF Spec, CompletionsStay, CommandOnceSpec, Once!AbsSpec

=============================================================================
