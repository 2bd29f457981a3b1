------------------------ MODULE ObjectiveDagProofs -------------------------
(***************************************************************************)
(* Proofs about ObjectiveDag, for every set of plans: the transactions     *)
(* that maintain the objectives implement the run, so what AgentRunProofs  *)
(* shows of a run holds of Stage 12 runs; the objective rows agree with    *)
(* the commands, with the plan and with the answer.                        *)
(*                                                                         *)
(* The sweep is a function defined by recursion over the keys.  That it    *)
(* has the value its definition writes (SweptEquation) rests on the keys   *)
(* being numbers and on a row depending on smaller keys only; it is shown  *)
(* here by least elements, for partial sweeps that agree and extend each   *)
(* other, and not by an induction theorem of the library.                  *)
(***************************************************************************)
EXTENDS ObjectiveDag, AgentRunProofs, WellFoundedInduction

\* The sweep dispatches objectives that have no command.
LEMMA UnlockedHasNoCommand ==
    ASSUME NEW c \in Commands
    PROVE  Unlocked(c) \subseteq Commands \ Dispatched
BY DEF Unlocked, Waiting, Dispatched

LEMMA CompleteIsExecute ==
    ASSUME NEW c \in Commands, Complete(c)
    PROVE  Execute(c)
<1>1. CASE ExecuteAndWait(c, Unlocked(c), Unlocked(c) \ plan.optional)
  <2>1. /\ Unlocked(c) \in SUBSET Commands
        /\ Unlocked(c) \ plan.optional \in SUBSET Unlocked(c)
    BY UnlockedHasNoCommand
  <2> QED
    BY <1>1, <2>1 DEF Execute
<1>2. CASE \E f \in FanIns : ExecuteAndClose(c, f)
  BY <1>2 DEF Execute
<1> QED
  BY <1>1, <1>2 DEF Complete

\* Every step on the objectives is a step of the run, or leaves it alone.
LEMMA DagStepIsRunStep ==
    ASSUME [DagNext]_dagVars
    PROVE  [Next]_vars
<1>1. CASE AdmitPlan
  <2>1. /\ RootsOf(plan) \in SUBSET Commands
        /\ RootsOf(plan) \ plan.optional \in SUBSET RootsOf(plan)
    BY DEF RootsOf, Planned, Used
  <2> QED
    BY <1>1, <2>1 DEF AdmitPlan, Next
<1>2. ASSUME NEW c \in Commands, Complete(c)
      PROVE  Next
  BY <1>2, CompleteIsExecute DEF Next
<1>3. ASSUME NEW c \in Commands, FailObjective(c)
      PROVE  Next
  <2>1. Fail(c)
    BY <1>3 DEF FailObjective, Fail, FailInTime
  <2> QED
    BY <2>1 DEF Next
<1>4. ASSUME NEW c \in Commands, FailDrainedObjective(c)
      PROVE  UNCHANGED vars
  BY <1>4 DEF FailDrainedObjective
<1>5. CASE OtherStep
  BY <1>5 DEF OtherStep, Next
<1>6. CASE UNCHANGED dagVars
  BY <1>6 DEF dagVars
<1> QED
  BY <1>1, <1>2, <1>3, <1>4, <1>5, <1>6 DEF DagNext

(***************************************************************************)
(* Refinement: admission with a plan, the completing transaction with its  *)
(* sweep and the failure branch go through the transactions of AgentRun.   *)
(***************************************************************************)
THEOREM DagImplementsRun == DagSpec => Spec
<1>1. DagInit => Init
  BY DEF DagInit
<1>2. [DagNext]_dagVars => [Next]_vars
  BY DagStepIsRunStep
<1> QED
  BY <1>1, <1>2, PTL DEF DagSpec, Spec

(***************************************************************************)
(* The outcome of a run of objectives is truthful, its log closes once and *)
(* it has work as long as it is live.                                      *)
(***************************************************************************)
THEOREM ObjectiveRunsAreTruthful ==
    DagSpec =>
        [](OutcomeFitsCommands /\ OneTerminalEvent /\ CompletedOnce
              /\ LiveRunHasWork)
BY DagImplementsRun, OutcomeIsTruthful, LogClosesOnce, HandlersCommitOnce,
   LiveRunsHaveWork, PTL

-----------------------------------------------------------------------------
(***************************************************************************)
(* The inductive invariant of the rows.                                    *)
(***************************************************************************)
ObjectiveStatuses == {"absent", "queued", "completed", "denied", "failed"}

DagTypes ==
    /\ plan \in Plans
    /\ objective \in [Commands -> ObjectiveStatuses]

\* The rows follow the plan: before admission there is none.
RowsFollowPlan ==
    IF status = "none" THEN \A k \in Commands : objective[k] = "absent"
    ELSE \A k \in Commands :
            /\ objective[k] = "absent" <=> k \notin Used(plan)
            /\ objective[k] = "denied" <=> k \in Used(plan) \cap plan.denied

\* Commands serve planned objectives, those of the roots from the beginning.
CommandsFollowPlan ==
    /\ Dispatched \subseteq Planned(plan)
    /\ status # "none" => RootsOf(plan) \subseteq Dispatched

\* Without a command an objective does not complete, and it fails only over
\* something it requires.
LostOverRequired ==
    \A k \in Commands \ Dispatched :
        /\ objective[k] # "completed"
        /\ objective[k] = "failed" =>
              \E j \in Hard(plan, k) : objective[j] = "failed"

RowInv ==
    /\ DagTypes
    /\ RowsFollowPlan
    /\ CommandsFollowPlan
    /\ LostOverRequired
    /\ ObjectiveTracksCommand
    /\ DispatchedOnResults
    /\ AnswerCoversPlan

-----------------------------------------------------------------------------
(***************************************************************************)
(* The sweep.  Its function is defined by recursion over the keys, and     *)
(* that the recursion has a solution is not for free: it has, because an   *)
(* objective that waits looks at earlier ones only.  The lemmas lead to    *)
(* SweptEquation, which is all that the invariance proof needs of it.      *)
(***************************************************************************)
LEMMA LeastElement ==
    ASSUME NEW S \in SUBSET Nat, S # {}
    PROVE  \E n \in S : \A m \in S : n <= m
<1> DEFINE R == OpToRel(<, Nat)
<1>1. IsWellFoundedOn(R, Nat)
  BY NatLessThanWellFounded
<1>2. \A x, y \in Nat : x < y => <<x, y>> \in R
  BY DEF OpToRel
<1> HIDE DEF R
<1>3. PICK n \in S : \A m \in S : ~ (<<m, n>> \in R)
  BY <1>1, WFMin
<1>4. \A m \in S : ~ (m < n)
  BY <1>2, <1>3
<1> QED
  BY <1>4

\* An objective that waits depends on earlier objectives only.
LEMMA WaitingLooksBack ==
    ASSUME DagTypes, RowsFollowPlan, NEW k \in Waiting(objective, cmd)
    PROVE  /\ k \in Planned(plan)
           /\ plan.deps[k] \subseteq Commands
           /\ \A j \in plan.deps[k] : j \in Planned(plan) /\ j < k
<1>1. k \in Planned(plan)
  BY DEF Waiting, RowsFollowPlan, Planned, Used
<1>2. plan.deps[k] \subseteq Planned(plan)
  BY <1>1, PlansAssumption DEF DagTypes
<1>3. \A j \in plan.deps[k] : j < k
  BY <1>1, PlansAssumption DEF DagTypes, Planned
<1> QED
  BY <1>1, <1>2, <1>3 DEF Planned, Used

\* A row is made of the rows before it.
LEMMA SweptRowLooksBack ==
    ASSUME DagTypes, RowsFollowPlan,
           NEW c \in Commands, NEW k \in Commands, NEW f, NEW g,
           \A j \in Commands : j < k => f[j] = g[j]
    PROVE  SweptRow(c, f, k) = SweptRow(c, g, k)
<1>1. ASSUME k \in Waiting(objective, cmd)
      PROVE  Ready(k, f) /\ Lost(k, f) <=> Ready(k, g) /\ Lost(k, g)
  <2>1. \A j \in plan.deps[k] : f[j] = g[j]
    BY <1>1, WaitingLooksBack
  <2> QED
    BY <2>1 DEF Ready, Lost, Hard
<1> QED
  BY <1>1 DEF SweptRow

\* f solves the recursion for the objectives before n.
SolvesBefore(c, f, n) ==
    \A k \in Commands : k < n => f[k] = SweptRow(c, f, k)

\* Solutions agree on the objectives that both of them solve.
LEMMA SolutionsAgree ==
    ASSUME DagTypes, RowsFollowPlan, NEW c \in Commands,
           NEW n \in Nat, NEW f, NEW g,
           SolvesBefore(c, f, n), SolvesBefore(c, g, n)
    PROVE  \A k \in Commands : k < n => f[k] = g[k]
<1> DEFINE Differ == {k \in Commands : k < n /\ f[k] # g[k]}
<1>1. SUFFICES ASSUME Differ # {}
               PROVE  FALSE
  OBVIOUS
<1>2. PICK k \in Differ : \A m \in Differ : k <= m
  BY <1>1, LeastElement, PlansAssumption
<1>3. \A j \in Commands : j < k => f[j] = g[j]
  <2> SUFFICES ASSUME NEW j \in Commands, j < k
               PROVE  f[j] = g[j]
    OBVIOUS
  <2>1. j \in Nat /\ k \in Nat /\ k < n
    BY <1>2, PlansAssumption
  <2>2. j < n /\ ~ (k <= j)
    BY <2>1
  <2> QED
    BY <1>2, <2>2
<1>4. k \in Commands /\ k < n
  BY <1>2
<1>5. SweptRow(c, f, k) = SweptRow(c, g, k)
  BY <1>3, <1>4, SweptRowLooksBack
<1>6. f[k] = g[k]
  BY <1>4, <1>5 DEF SolvesBefore
<1> QED
  BY <1>2, <1>6

\* A solution for the objectives before n extends to n.
LEMMA SolutionExtends ==
    ASSUME DagTypes, RowsFollowPlan, NEW c \in Commands,
           NEW n \in Nat, NEW f, SolvesBefore(c, f, n)
    PROVE  \E g : SolvesBefore(c, g, n + 1)
<1> DEFINE g == [k \in Commands |->
                    IF k < n THEN f[k] ELSE SweptRow(c, f, k)]
<1>1. ASSUME NEW k \in Commands, k < n + 1
      PROVE  g[k] = SweptRow(c, g, k)
  <2>1. k \in Nat
    BY PlansAssumption
  <2>2. \A j \in Commands : j < k => g[j] = f[j]
    <3> SUFFICES ASSUME NEW j \in Commands, j < k
                 PROVE  j < n
      OBVIOUS
    <3>1. j \in Nat
      BY PlansAssumption
    <3> QED
      BY <1>1, <2>1, <3>1
  <2>3. g[k] = SweptRow(c, f, k)
    BY DEF SolvesBefore
  <2> HIDE DEF g
  <2>4. SweptRow(c, g, k) = SweptRow(c, f, k)
    BY <2>2, SweptRowLooksBack
  <2> QED
    BY <2>3, <2>4
<1> HIDE DEF g
<1>2. SolvesBefore(c, g, n + 1)
  BY <1>1 DEF SolvesBefore
<1> QED
  BY <1>2

LEMMA SolutionsExist ==
    ASSUME DagTypes, RowsFollowPlan, NEW c \in Commands
    PROVE  \A n \in Nat : \E f : SolvesBefore(c, f, n)
<1> DEFINE Unsolved == {n \in Nat : ~ \E f : SolvesBefore(c, f, n)}
<1>1. SUFFICES ASSUME Unsolved # {}
               PROVE  FALSE
  OBVIOUS
<1>2. PICK n \in Unsolved : \A m \in Unsolved : n <= m
  BY <1>1, LeastElement
<1>3. SolvesBefore(c, objective, 0)
  BY PlansAssumption DEF SolvesBefore
<1>4. n # 0
  BY <1>2, <1>3
<1>5. n \in Nat /\ n - 1 \in Nat /\ ~ (n <= n - 1) /\ (n - 1) + 1 = n
  BY <1>2, <1>4
<1>6. PICK f : SolvesBefore(c, f, n - 1)
  BY <1>2, <1>5
<1>7. \E g : SolvesBefore(c, g, n)
  BY <1>5, <1>6, SolutionExtends
<1> QED
  BY <1>2, <1>7

(***************************************************************************)
(* The sweep is what its recursion says: the row of every objective is     *)
(* made of the swept rows it depends on.                                   *)
(***************************************************************************)
LEMMA SweptEquation ==
    ASSUME DagTypes, RowsFollowPlan, NEW c \in Commands
    PROVE  Swept(c) = [k \in Commands |-> SweptRow(c, Swept(c), k)]
<1> DEFINE Part(k) == CHOOSE f : SolvesBefore(c, f, k + 1)
           h == [k \in Commands |-> Part(k)[k]]
<1>1. ASSUME NEW k \in Commands
      PROVE  h[k] = SweptRow(c, h, k)
  <2>1. \A j \in Commands : j \in Nat /\ j + 1 \in Nat
    BY PlansAssumption
  <2>2. \A j \in Commands : SolvesBefore(c, Part(j), j + 1)
    BY <2>1, SolutionsExist
  <2>3. \A j \in Commands : j < k => Part(j)[j] = Part(k)[j]
    <3> SUFFICES ASSUME NEW j \in Commands, j < k
                 PROVE  Part(j)[j] = Part(k)[j]
      OBVIOUS
    <3> HIDE DEF Part
    <3>1. j \in Nat /\ k \in Nat /\ j + 1 \in Nat
      BY <2>1
    <3>2. \A i \in Nat : i < j + 1 => i < k + 1
      BY <3>1
    <3>3. SolvesBefore(c, Part(k), j + 1)
      <4>1. SolvesBefore(c, Part(k), k + 1)
        BY <2>2
      <4> QED
        BY <2>1, <3>2, <4>1 DEF SolvesBefore
    <3>4. SolvesBefore(c, Part(j), j + 1)
      BY <2>2
    <3>5. j < j + 1
      BY <3>1
    <3> QED
      BY <3>1, <3>3, <3>4, <3>5, SolutionsAgree
  <2> HIDE DEF Part
  <2>4. \A j \in Commands : j < k => h[j] = Part(k)[j]
    BY <2>3
  <2>5. SweptRow(c, h, k) = SweptRow(c, Part(k), k)
    <3> HIDE DEF h
    <3> QED
      BY <2>4, SweptRowLooksBack
  <2>6. k < k + 1
    BY <2>1
  <2>7. Part(k)[k] = SweptRow(c, Part(k), k)
    BY <2>2, <2>6 DEF SolvesBefore
  <2> QED
    BY <2>5, <2>7
<1>2. h = [k \in Commands |-> h[k]]
  OBVIOUS
<1> HIDE DEF h
<1>3. h = [k \in Commands |-> SweptRow(c, h, k)]
  BY <1>1, <1>2
<1> DEFINE IsSweep(f) == f = [k \in Commands |-> SweptRow(c, f, k)]
<1>4. Swept(c) = CHOOSE f : IsSweep(f)
  BY DEF Swept
<1>5. IsSweep(h)
  BY <1>3
<1>6. IsSweep(CHOOSE f : IsSweep(f))
  <2> HIDE DEF IsSweep
  <2> QED
    BY <1>5
<1> QED
  BY <1>4, <1>6

-----------------------------------------------------------------------------
(***************************************************************************)
(* What the sweep does to the rows: c completes, an objective that waited  *)
(* may fail, over something it requires, and every other row is kept; what *)
(* is queued without a command after it was not lost.                      *)
(***************************************************************************)
LEMMA SweptRows ==
    ASSUME DagTypes, RowsFollowPlan, NEW c \in Commands
    PROVE  /\ Swept(c) \in [Commands -> ObjectiveStatuses]
           /\ Swept(c)[c] = "completed"
           /\ \A k \in Commands \ {c} :
                 \/ Swept(c)[k] = objective[k]
                 \/ /\ k \in Waiting(objective, cmd)
                    /\ Swept(c)[k] = "failed"
                    /\ Lost(k, Swept(c))
           /\ \A k \in Commands \ {c} :
                 k \in Waiting(Swept(c), cmd) =>
                     ~ (Ready(k, Swept(c)) /\ Lost(k, Swept(c)))
<1> DEFINE S == Swept(c)
<1>1. /\ S = [k \in Commands |-> S[k]]
      /\ \A k \in Commands : S[k] = SweptRow(c, S, k)
  <2> HIDE DEF S
  <2>1. S = [k \in Commands |-> SweptRow(c, S, k)]
    BY SweptEquation DEF S
  <2> QED
    BY <2>1
<1> HIDE DEF S
<1>2. \A k \in Commands : S[k] \in ObjectiveStatuses
  BY <1>1 DEF SweptRow, DagTypes, ObjectiveStatuses
<1>3. S[c] = "completed"
  BY <1>1 DEF SweptRow
<1>4. ASSUME NEW k \in Commands \ {c}
      PROVE  \/ S[k] = objective[k]
             \/ /\ k \in Waiting(objective, cmd)
                /\ S[k] = "failed"
                /\ Lost(k, S)
  BY <1>1 DEF SweptRow
<1>5. ASSUME NEW k \in Commands \ {c}, k \in Waiting(S, cmd),
             Ready(k, S), Lost(k, S)
      PROVE  FALSE
  <2>1. S[k] = "queued" /\ cmd[k] = "absent"
    BY <1>5 DEF Waiting
  <2>2. objective[k] = "queued"
    BY <1>4, <2>1
  <2>3. k \in Waiting(objective, cmd)
    BY <2>1, <2>2 DEF Waiting
  <2>4. S[k] = "failed"
    BY <1>1, <1>5, <2>3 DEF SweptRow
  <2> QED
    BY <2>1, <2>4
<1> QED
  BY <1>1, <1>2, <1>3, <1>4, <1>5 DEF S

\* An objective that is unlocked has its dependencies behind it: what it
\* requires has completed.
LEMMA UnlockedHasResults ==
    ASSUME DagTypes, RowsFollowPlan, NEW c \in Commands,
           c \in Planned(plan), NEW k \in Unlocked(c)
    PROVE  /\ k \in Planned(plan)
           /\ cmd[k] = "absent"
           /\ Swept(c)[k] = "queued"
           /\ \A j \in plan.deps[k] :
                 /\ Swept(c)[j] \in Settled
                 /\ j \in Hard(plan, k) => Swept(c)[j] = "completed"
<1>1. /\ k \in Commands
      /\ cmd[k] = "absent"
      /\ Swept(c)[k] = "queued"
      /\ Ready(k, Swept(c))
      /\ ~ Lost(k, Swept(c))
  BY DEF Unlocked, Waiting
<1>2. k # c /\ objective[k] = "queued"
  BY <1>1, SweptRows
<1>3. k \in Waiting(objective, cmd)
  BY <1>1, <1>2 DEF Waiting
<1>4. ASSUME NEW j \in plan.deps[k]
      PROVE  /\ Swept(c)[j] \in Settled
             /\ Swept(c)[j] # "denied"
  <2>1. j \in Commands /\ j \in Planned(plan)
    BY <1>3, WaitingLooksBack
  <2>2. status # "none"
    BY <1>1, <1>2 DEF RowsFollowPlan
  <2>3. objective[j] # "denied"
    BY <2>1, <2>2 DEF RowsFollowPlan, Planned
  <2>4. Swept(c)[j] # "denied"
    BY <2>1, <2>3, SweptRows
  <2> QED
    BY <1>1, <2>4 DEF Ready
<1> QED
  BY <1>1, <1>3, <1>4, WaitingLooksBack DEF Lost, Hard, Settled

-----------------------------------------------------------------------------
(***************************************************************************)
(* One lemma per action: the relations between rows, commands and run      *)
(* survive the transaction.                                                *)
(***************************************************************************)
LEMMA InitRows ==
    ASSUME DagInit
    PROVE  RowInv
BY DEF DagInit, Init, RowInv, DagTypes, ObjectiveStatuses, RowsFollowPlan,
       CommandsFollowPlan, LostOverRequired, ObjectiveTracksCommand,
       DispatchedOnResults, AnswerCoversPlan, Dispatched

LEMMA AdmitRows ==
    ASSUME IInv, RowInv, AdmitPlan
    PROVE  RowInv'
<1>1. /\ plan' = plan /\ plan \in Plans
      /\ status' = "queued"
      /\ result' = "none"
      /\ cmd' = [k \in Commands |->
                    IF k \in RootsOf(plan) THEN "queued" ELSE "absent"]
      /\ objective' =
            [k \in Commands |->
                IF k \notin Used(plan) THEN "absent"
                ELSE IF k \in plan.denied THEN "denied" ELSE "queued"]
  BY DEF AdmitPlan, Admit, IInv, StateInv, ResultIsFinal, RowInv, DagTypes
<1>2. Dispatched' = RootsOf(plan)
  BY <1>1 DEF Dispatched, RootsOf, Planned, Used
<1>3. \A k \in RootsOf(plan) :
         /\ k \in Commands /\ k \in Planned(plan)
         /\ plan.deps[k] = {}
         /\ objective'[k] = "queued"
         /\ cmd'[k] = "queued"
  BY <1>1 DEF RootsOf, Planned, Used
<1>4. DagTypes'
  BY <1>1 DEF DagTypes, ObjectiveStatuses
<1>5. RowsFollowPlan'
  BY <1>1 DEF RowsFollowPlan
<1>6. CommandsFollowPlan'
  BY <1>1, <1>2, <1>3 DEF CommandsFollowPlan
<1>7. LostOverRequired'
  BY <1>1 DEF LostOverRequired
<1>8. ObjectiveTracksCommand' /\ DispatchedOnResults'
  BY <1>1, <1>2, <1>3 DEF ObjectiveTracksCommand, DispatchedOnResults
<1>9. AnswerCoversPlan'
  BY <1>1 DEF AnswerCoversPlan
<1> QED
  BY <1>4, <1>5, <1>6, <1>7, <1>8, <1>9 DEF RowInv

\* A run with commands is admitted, and its rows are those of its plan.
LEMMA AdmittedRun ==
    ASSUME IInv, RowInv, NEW c \in Dispatched
    PROVE  /\ c \in Commands /\ c \in Planned(plan)
           /\ status # "none"
           /\ RootsOf(plan) \subseteq Dispatched
           /\ \A k \in Commands :
                /\ objective[k] = "absent" <=> k \notin Used(plan)
                /\ objective[k] = "denied" <=>
                      k \in Used(plan) \cap plan.denied
BY DEF IInv, StateInv, FreshRun, RowInv, CommandsFollowPlan, RowsFollowPlan,
       Dispatched

\* The two ways to complete, as one step on the commands.
LEMMA CompleteEffect ==
    ASSUME IInv, RowInv, NEW c \in Commands, Complete(c)
    PROVE  /\ Live
           /\ c \in Dispatched
           /\ objective[c] = "queued" /\ objective' = Swept(c)
           /\ plan' = plan
           /\ cmd' = Completed(c, Unlocked(c))
           /\ status' \in {"running", "completed", "degraded"}
           /\ status' # "running" =>
                 /\ Unlocked(c) = {}
                 /\ FanInCovers(Swept(c))
                 /\ In(Completed(c, {}), Unfinished) = {}
                 /\ status' = Outcome(In(Completed(c, {}), {"failed"}))
           /\ status' = "running" => result' = "none"
<1>1. CASE ExecuteAndWait(c, Unlocked(c), Unlocked(c) \ plan.optional)
  BY <1>1 DEF Complete, ExecuteAndWait, Executable, Dispatched, Unfinished,
              IInv, StateInv, ResultIsFinal, Live, LiveStatuses
<1>2. ASSUME NEW f \in FanIns, ExecuteAndClose(c, f),
             Unlocked(c) = {}, FanInCovers(Swept(c))
      PROVE  /\ Live /\ c \in Dispatched
             /\ cmd' = Completed(c, Unlocked(c))
             /\ In(Completed(c, {}), Unfinished) = {}
             /\ status' = Outcome(In(Completed(c, {}), {"failed"}))
             /\ status' \in {"completed", "degraded"}
  <2>1. Live /\ c \in Dispatched
    BY <1>2 DEF ExecuteAndClose, Executable, Dispatched, Unfinished
  <2>2. /\ cmd' = Completed(c, {})
        /\ In(Completed(c, {}), Unfinished) = {}
        /\ status' = Outcome(In(Completed(c, {}), {"failed"}))
    BY <1>2 DEF ExecuteAndClose
  <2>3. status' \in {"completed", "degraded"}
    BY <2>1, <2>2, ExecuteNeverFailsRun, OutcomeIsTerminal
  <2> QED
    BY <1>2, <2>1, <2>2, <2>3
<1> QED
  BY <1>1, <1>2 DEF Complete

(***************************************************************************)
(* A failed objective is not failed for nothing: following what it         *)
(* requires back through the plan, one comes to a failed objective among   *)
(* D, when every failed one outside D requires a failed one.               *)
(***************************************************************************)
LEMMA FailureHasOrigin ==
    ASSUME NEW p \in Plans, NEW D, NEW rows,
           \A k \in Planned(p) \ D :
               rows[k] = "failed" => \E j \in Hard(p, k) : rows[j] = "failed",
           NEW k \in Planned(p), rows[k] = "failed"
    PROVE  \E j \in Planned(p) \cap D : rows[j] = "failed"
<1> DEFINE FailedKeys == {j \in Planned(p) : rows[j] = "failed"}
<1>1. Planned(p) \subseteq Commands
  BY DEF Planned, Used
<1>2. PICK j \in FailedKeys : \A i \in FailedKeys : j <= i
  BY <1>1, LeastElement, PlansAssumption
<1>3. \A i \in Hard(p, j) : i \in Planned(p) /\ i < j
  BY <1>2, PlansAssumption DEF Hard, Planned
<1>4. \A i \in Hard(p, j) : rows[i] # "failed"
  <2> SUFFICES ASSUME NEW i \in Hard(p, j), rows[i] = "failed"
               PROVE  FALSE
    OBVIOUS
  <2>1. i < j /\ j <= i
    BY <1>2, <1>3
  <2>2. i \in Nat /\ j \in Nat
    BY <1>1, <1>2, <1>3, PlansAssumption
  <2> QED
    BY <2>1, <2>2
<1> QED
  BY <1>2, <1>4

\* A completing transaction that closes the run leaves no objective open; one
\* that completes it leaves no planned objective unanswered.
LEMMA CompleteAnswers ==
    ASSUME IInv, RowInv, NEW c \in Commands, Complete(c),
           RowsFollowPlan', LostOverRequired', ObjectiveTracksCommand'
    PROVE  AnswerCoversPlan'
<1>1. /\ Live
      /\ plan' = plan /\ plan \in Plans
      /\ objective' = Swept(c)
      /\ cmd' = Completed(c, Unlocked(c))
      /\ status' \in {"running", "completed", "degraded"}
  BY CompleteEffect DEF RowInv, DagTypes
<1>2. CASE status' = "running"
  <2>1. result' = "none"
    BY <1>2, CompleteEffect
  <2> QED
    BY <1>2, <2>1 DEF AnswerCoversPlan
<1>3. CASE status' # "running"
  <2>1. /\ FanInCovers(objective')
        /\ cmd' = Completed(c, {})
        /\ In(cmd', Unfinished) = {}
        /\ status' = Outcome(In(cmd', {"failed"}))
    BY <1>1, <1>3, CompleteEffect
  <2>2. \A k \in Commands : cmd'[k] = "absent" => cmd[k] = "absent"
    BY <2>1 DEF Completed
  <2>3. cmd' \in [Commands -> CommandStatuses]
    BY <2>1, VectorTypes DEF IInv
  <2>4. ASSUME NEW k \in Dispatched'
        PROVE  /\ cmd'[k] \in {"completed", "failed"}
               /\ objective'[k] = cmd'[k]
    <3>1. cmd'[k] \in {"completed", "failed"}
      BY <2>1, <2>3 DEF Dispatched, In, Unfinished, CommandStatuses
    <3> QED
      BY <1>1, <3>1 DEF ObjectiveTracksCommand
  <2>5. ASSUME NEW k \in Commands, k \notin Dispatched'
        PROVE  objective'[k] \in {"absent", "denied", "failed"}
    BY <2>1, <2>2, <2>5 DEF FanInCovers, Dispatched
  <2>6. status' # "none"
    BY <1>1
  <2>7. \A k \in Used(plan) : objective'[k] \in Settled
    BY <1>1, <2>4, <2>5, <2>6 DEF Used, RowsFollowPlan, Settled
  <2>8. ASSUME status' = "completed", NEW k \in Planned(plan)
        PROVE  objective'[k] = "completed"
    <3>1. \A j \in Dispatched' : objective'[j] = "completed"
      <4>1. In(cmd', {"failed"}) = {}
        BY <2>1, <2>8 DEF Outcome
      <4> QED
        BY <2>4, <4>1 DEF Dispatched, In
    <3>2. \A j \in Planned(plan) \ Dispatched' :
             objective'[j] = "failed" =>
                 \E i \in Hard(plan, j) : objective'[i] = "failed"
      BY <1>1 DEF LostOverRequired, Planned, Used
    <3>3. objective'[k] # "failed"
      BY <1>1, <3>1, <3>2, FailureHasOrigin
    <3>4. /\ k \in Used(plan)
          /\ objective'[k] # "denied"
      BY <1>1, <2>6 DEF RowsFollowPlan, Planned, Used
    <3> QED
      BY <2>7, <3>3, <3>4 DEF Settled
  <2> QED
    BY <1>1, <2>7, <2>8 DEF AnswerCoversPlan
<1> QED
  BY <1>2, <1>3

LEMMA CompleteRows ==
    ASSUME IInv, RowInv, NEW c \in Commands, Complete(c)
    PROVE  RowInv'
<1> DEFINE S == Swept(c)
           U == Unlocked(c)
<1>1. /\ Live /\ c \in Dispatched
      /\ objective[c] = "queued" /\ objective' = S
      /\ plan' = plan /\ plan \in Plans
      /\ cmd' = Completed(c, U)
      /\ status' \in {"running", "completed", "degraded"}
      /\ DagTypes /\ RowsFollowPlan
  BY CompleteEffect DEF RowInv, DagTypes
<1>2. /\ c \in Planned(plan)
      /\ status # "none" /\ status # "failed"
      /\ RootsOf(plan) \subseteq Dispatched
      /\ \A k \in Commands :
           /\ objective[k] = "absent" <=> k \notin Used(plan)
           /\ objective[k] = "denied" <=> k \in Used(plan) \cap plan.denied
  BY <1>1, AdmittedRun DEF Live, LiveStatuses
<1>3. /\ S \in [Commands -> ObjectiveStatuses]
      /\ S[c] = "completed"
      /\ \A k \in Commands \ {c} :
            \/ S[k] = objective[k]
            \/ /\ objective[k] = "queued" /\ k \notin Dispatched
               /\ S[k] = "failed"
               /\ Lost(k, S)
  BY <1>1, SweptRows DEF Waiting, Dispatched
<1>4. /\ U \subseteq Commands \ Dispatched
      /\ \A k \in U :
            /\ k \in Planned(plan)
            /\ S[k] = "queued"
            /\ \A j \in plan.deps[k] :
                 /\ S[j] \in Settled
                 /\ j \in Hard(plan, k) => S[j] = "completed"
  BY <1>1, <1>2, UnlockedHasResults, UnlockedHasNoCommand
<1>5. /\ cmd'[c] = "completed"
      /\ \A k \in U : cmd'[k] = "queued"
      /\ \A k \in Commands : k # c /\ k \notin U => cmd'[k] = cmd[k]
      /\ Dispatched' = Dispatched \cup U
  BY <1>1, <1>4 DEF Completed, Dispatched
<1> HIDE DEF S, U
<1>6. DagTypes'
  BY <1>1, <1>3 DEF DagTypes
<1>7. RowsFollowPlan'
  BY <1>1, <1>2, <1>3 DEF RowsFollowPlan, Planned
<1>8. CommandsFollowPlan'
  BY <1>1, <1>2, <1>4, <1>5 DEF CommandsFollowPlan, RowInv
<1>9. LostOverRequired'
  <2> SUFFICES ASSUME NEW k \in Commands \ Dispatched'
               PROVE  /\ S[k] # "completed"
                      /\ S[k] = "failed" =>
                           \E j \in Hard(plan, k) : S[j] = "failed"
    BY <1>1 DEF LostOverRequired
  <2>1. k \notin Dispatched /\ k # c
    BY <1>1, <1>5
  <2>2. CASE S[k] = objective[k]
    <3>1. /\ objective[k] # "completed"
          /\ objective[k] = "failed" =>
                \E j \in Hard(plan, k) : objective[j] = "failed"
      BY <2>1 DEF RowInv, LostOverRequired
    <3>2. ASSUME NEW j \in Hard(plan, k), objective[k] = "failed",
                 objective[j] = "failed"
          PROVE  S[j] = "failed"
      <4>1. k \in Used(plan)
        BY <1>2, <3>2
      <4>2. j \in Commands
        BY <1>1, <4>1, PlansAssumption DEF Hard, Used
      <4> QED
        BY <1>1, <1>3, <3>2, <4>2
    <3> QED
      BY <2>2, <3>1, <3>2
  <2>3. CASE S[k] = "failed" /\ Lost(k, S)
    BY <2>3 DEF Lost
  <2> QED
    BY <1>3, <2>1, <2>2, <2>3
<1>10. \A k \in Dispatched : k # c => S[k] = objective[k]
  BY <1>3 DEF Dispatched
<1>11. ObjectiveTracksCommand'
  <2> SUFFICES ASSUME NEW k \in Dispatched'
               PROVE  /\ S[k] = "completed" <=> cmd'[k] = "completed"
                      /\ S[k] = "failed" => cmd'[k] = "failed"
                      /\ cmd'[k] = "failed" /\ S[k] # "failed" =>
                            status' = "failed"
    BY <1>1 DEF ObjectiveTracksCommand
  <2>1. CASE k = c
    BY <1>3, <1>5, <2>1
  <2>2. CASE k \in U
    BY <1>4, <1>5, <2>2
  <2>3. CASE k \in Dispatched /\ k # c
    <3>1. S[k] = objective[k] /\ cmd'[k] = cmd[k]
      BY <1>4, <1>5, <1>10, <2>3 DEF Dispatched
    <3> QED
      BY <1>2, <2>3, <3>1 DEF RowInv, ObjectiveTracksCommand
  <2> QED
    BY <1>5, <2>1, <2>2, <2>3
<1>12. DispatchedOnResults'
  <2> SUFFICES ASSUME NEW k \in Dispatched', NEW j \in plan.deps[k]
               PROVE  /\ S[j] \in Settled
                      /\ j \in Hard(plan, k) => S[j] = "completed"
    BY <1>1 DEF DispatchedOnResults
  <2>1. CASE k \in U
    BY <1>4, <2>1
  <2>2. CASE k \in Dispatched
    <3>1. /\ objective[j] \in Settled
          /\ j \in Hard(plan, k) => objective[j] = "completed"
      BY <2>2 DEF RowInv, DispatchedOnResults
    <3>2. j \in Commands
      <4>1. k \in Used(plan)
        BY <2>2 DEF RowInv, CommandsFollowPlan, Planned
      <4> QED
        BY <1>1, <4>1, PlansAssumption DEF Used
    <3>3. S[j] = objective[j]
      BY <1>1, <1>3, <3>1, <3>2 DEF Settled
    <3> QED
      BY <3>1, <3>3
  <2> QED
    BY <1>5, <2>1, <2>2
<1>13. AnswerCoversPlan'
  BY <1>7, <1>9, <1>11, CompleteAnswers
<1> QED
  BY <1>6, <1>7, <1>8, <1>9, <1>11, <1>12, <1>13 DEF RowInv

\* What the transactions of the except branch have in common.
LEMMA FailEffect ==
    ASSUME IInv, RowInv, NEW c \in Commands, FailObjective(c)
    PROVE  /\ c \in Dispatched /\ cmd[c] # "completed"
           /\ objective' = FailedRow(c)
           /\ plan' = plan
           /\ status' \notin {"none", "completed"}
           /\ cmd'[c] = "failed"
           /\ \A k \in Commands :
                 \/ k = c
                 \/ cmd'[k] = cmd[k]
                 \/ /\ cmd[k] \in Unfinished
                    /\ cmd'[k] = "failed"
                    /\ status' = "failed"
           /\ status = "failed" => status' = "failed"
           /\ result' \in {"composed", "grounded"} =>
                 /\ status' = "degraded"
                 /\ FanInCovers(FailedRow(c))
                 /\ cmd' = Failed(c)
                 /\ In(cmd', Unfinished) = {}
<1>1. /\ result # "none" => status \in {"completed", "degraded"}
      /\ cmd \in [Commands -> CommandStatuses]
  BY DEF IInv, StateInv, ResultIsFinal, TypeOK
<1> USE DEF Dispatched, LiveStatuses, Live, FailObjective
<1>2. CASE FailRequired(c)
  BY <1>1, <1>2 DEF FailRequired, Failable
<1>3. CASE FailOptionalAndWait(c)
  BY <1>1, <1>3 DEF FailOptionalAndWait, Failable, Failed
<1>4. ASSUME NEW f \in FailureFanIns, FailOptionalAndDegrade(c, f),
             f # "none" => FanInCovers(FailedRow(c))
      PROVE  /\ c \in Dispatched /\ status' = "degraded" /\ status # "failed"
             /\ cmd' = Failed(c) /\ cmd'[c] = "failed"
             /\ \A k \in Commands : k = c \/ cmd'[k] = cmd[k]
             /\ In(cmd', Unfinished) = {}
             /\ result' \in {"composed", "grounded"} =>
                   FanInCovers(FailedRow(c))
  BY <1>1, <1>4 DEF FailOptionalAndDegrade, Failable, Failed, ResultOf
<1>5. CASE FailAndTimeOut(c)
  BY <1>1, <1>5 DEF FailAndTimeOut, Failed
<1>6. CASE FailTimedOut(c)
  BY <1>1, <1>6 DEF FailTimedOut, Failed
<1> QED
  BY <1>2, <1>3, <1>4, <1>5, <1>6 DEF FailLate

LEMMA FailRows ==
    ASSUME IInv, RowInv, NEW c \in Commands, FailObjective(c)
    PROVE  RowInv'
<1>1. /\ c \in Dispatched /\ cmd[c] # "completed"
      /\ plan' = plan /\ plan \in Plans
      /\ status' \notin {"none", "completed"}
      /\ cmd'[c] = "failed"
      /\ \A k \in Commands :
            \/ k = c
            \/ cmd'[k] = cmd[k]
            \/ /\ cmd[k] \in Unfinished
               /\ cmd'[k] = "failed"
               /\ status' = "failed"
  BY FailEffect DEF RowInv, DagTypes
<1>2. status = "failed" => status' = "failed"
  BY FailEffect
<1>3. /\ objective' \in [Commands -> ObjectiveStatuses]
      /\ objective'[c] = "failed"
      /\ \A k \in Commands \ {c} : objective'[k] = objective[k]
  BY FailEffect DEF FailedRow, RowInv, DagTypes, ObjectiveStatuses
<1>4. Dispatched' = Dispatched
  BY <1>1 DEF Dispatched, Unfinished
<1>5. /\ c \in Planned(plan)
      /\ RootsOf(plan) \subseteq Dispatched
      /\ \A k \in Commands :
           /\ objective[k] = "absent" <=> k \notin Used(plan)
           /\ objective[k] = "denied" <=> k \in Used(plan) \cap plan.denied
  BY <1>1, AdmittedRun
<1>6. objective[c] # "completed"
  BY <1>1 DEF RowInv, ObjectiveTracksCommand
<1>7. \A k \in Commands :
         /\ objective[k] \in Settled => objective'[k] \in Settled
         /\ objective[k] = "completed" => objective'[k] = "completed"
         /\ objective[k] = "failed" => objective'[k] = "failed"
  BY <1>3, <1>6 DEF Settled
<1>8. \A k \in Used(plan) : plan.deps[k] \subseteq Commands
  BY <1>1, PlansAssumption DEF Used
<1>9. DagTypes'
  BY <1>1, <1>3 DEF DagTypes
<1>10. RowsFollowPlan'
  BY <1>1, <1>3, <1>5 DEF RowsFollowPlan, Planned
<1>11. CommandsFollowPlan'
  BY <1>1, <1>4, <1>5 DEF CommandsFollowPlan, RowInv
<1>12. LostOverRequired'
  <2> SUFFICES ASSUME NEW k \in Commands \ Dispatched
               PROVE  /\ objective'[k] # "completed"
                      /\ objective'[k] = "failed" =>
                           \E j \in Hard(plan, k) : objective'[j] = "failed"
    BY <1>1, <1>4 DEF LostOverRequired
  <2>1. objective'[k] = objective[k]
    BY <1>1, <1>3
  <2>2. objective[k] # "completed"
    BY DEF RowInv, LostOverRequired
  <2>3. ASSUME objective[k] = "failed"
        PROVE  \E j \in Hard(plan, k) : objective'[j] = "failed"
    <3>1. PICK j \in Hard(plan, k) : objective[j] = "failed"
      BY <2>3 DEF RowInv, LostOverRequired
    <3>2. j \in Commands
      BY <1>5, <1>8, <2>3 DEF Hard
    <3> QED
      BY <1>7, <3>1, <3>2
  <2> QED
    BY <2>1, <2>2, <2>3
<1>13. ObjectiveTracksCommand'
  <2> SUFFICES ASSUME NEW k \in Dispatched
               PROVE  /\ objective'[k] = "completed" <=> cmd'[k] = "completed"
                      /\ objective'[k] = "failed" => cmd'[k] = "failed"
                      /\ cmd'[k] = "failed" /\ objective'[k] # "failed" =>
                            status' = "failed"
    BY <1>4 DEF ObjectiveTracksCommand
  <2>1. /\ objective[k] = "completed" <=> cmd[k] = "completed"
        /\ objective[k] = "failed" => cmd[k] = "failed"
        /\ cmd[k] = "failed" /\ objective[k] # "failed" => status = "failed"
    BY DEF RowInv, ObjectiveTracksCommand
  <2> QED
    BY <1>1, <1>2, <1>3, <2>1 DEF Dispatched, Unfinished
<1>14. DispatchedOnResults'
  <2> SUFFICES ASSUME NEW k \in Dispatched, NEW j \in plan.deps[k]
               PROVE  /\ objective'[j] \in Settled
                      /\ j \in Hard(plan, k) => objective'[j] = "completed"
    BY <1>1, <1>4 DEF DispatchedOnResults
  <2>1. j \in Commands
    BY <1>8 DEF RowInv, CommandsFollowPlan, Planned
  <2> QED
    BY <1>7, <2>1 DEF RowInv, DispatchedOnResults
<1>15. AnswerCoversPlan'
  <2>1. ASSUME result' \in {"composed", "grounded"}, NEW k \in Used(plan)
        PROVE  objective'[k] \in Settled
    <3>1. /\ status' = "degraded"
          /\ FanInCovers(objective')
          /\ cmd' = Failed(c)
          /\ In(cmd', Unfinished) = {}
      BY <2>1, FailEffect
    <3>2. cmd' \in [Commands -> CommandStatuses]
      BY <3>1, VectorTypes DEF IInv
    <3>3. k \in Commands
      BY DEF Used
    <3>4. CASE k \in Dispatched
      <4>1. cmd'[k] \in {"completed", "failed"}
        BY <1>4, <3>1, <3>2, <3>4 DEF Dispatched, In, Unfinished,
                                      CommandStatuses
      <4> QED
        BY <1>4, <1>13, <3>1, <3>4, <4>1 DEF ObjectiveTracksCommand, Settled
    <3>5. CASE k \notin Dispatched
      <4>1. cmd[k] = "absent"
        BY <3>3, <3>5 DEF Dispatched
      <4>2. objective'[k] \in {"absent", "denied", "failed"}
        BY <3>1, <3>3, <4>1 DEF FanInCovers
      <4> QED
        BY <1>1, <1>3, <1>5, <3>3, <3>5, <4>2 DEF Settled
    <3> QED
      BY <3>4, <3>5
  <2> QED
    BY <1>1, <2>1 DEF AnswerCoversPlan
<1> QED
  BY <1>9, <1>10, <1>11, <1>12, <1>13, <1>14, <1>15 DEF RowInv

LEMMA FailDrainedRows ==
    ASSUME IInv, RowInv, NEW c \in Commands, FailDrainedObjective(c)
    PROVE  RowInv'
<1>1. /\ c \in Dispatched /\ cmd[c] = "failed" /\ status = "failed"
      /\ plan' = plan /\ plan \in Plans
      /\ status' = status /\ cmd' = cmd /\ result' = result
  BY DEF FailDrainedObjective, Dispatched, vars, RowInv, DagTypes
<1>2. objective[c] # "completed"
  BY <1>1 DEF RowInv, ObjectiveTracksCommand
<1>3. /\ objective' \in [Commands -> ObjectiveStatuses]
      /\ objective'[c] = "failed"
      /\ \A k \in Commands \ {c} : objective'[k] = objective[k]
  BY DEF FailDrainedObjective, FailedRow, RowInv, DagTypes, ObjectiveStatuses
<1>4. Dispatched' = Dispatched
  BY <1>1 DEF Dispatched
<1>5. /\ c \in Planned(plan)
      /\ \A k \in Commands :
           /\ objective[k] = "absent" <=> k \notin Used(plan)
           /\ objective[k] = "denied" <=> k \in Used(plan) \cap plan.denied
  BY <1>1, AdmittedRun
<1>6. \A k \in Used(plan) : plan.deps[k] \subseteq Commands
  BY <1>1, PlansAssumption DEF Used
<1>7. \A k \in Commands :
         /\ objective[k] \in Settled => objective'[k] \in Settled
         /\ objective[k] = "completed" => objective'[k] = "completed"
         /\ objective[k] = "failed" => objective'[k] = "failed"
  BY <1>2, <1>3 DEF Settled
<1>8. DagTypes'
  BY <1>1, <1>3 DEF DagTypes
<1>9. RowsFollowPlan' /\ CommandsFollowPlan'
  BY <1>1, <1>3, <1>4, <1>5
  DEF RowsFollowPlan, CommandsFollowPlan, Planned, RowInv
<1>10. LostOverRequired'
  <2> SUFFICES ASSUME NEW k \in Commands \ Dispatched
               PROVE  /\ objective'[k] # "completed"
                      /\ objective'[k] = "failed" =>
                           \E j \in Hard(plan, k) : objective'[j] = "failed"
    BY <1>1, <1>4 DEF LostOverRequired
  <2>1. objective'[k] = objective[k]
    BY <1>1, <1>3
  <2>2. \A j \in Hard(plan, k) : objective[k] = "failed" => j \in Commands
    BY <1>5, <1>6 DEF Hard
  <2> QED
    BY <1>7, <2>1, <2>2 DEF RowInv, LostOverRequired
<1>11. ObjectiveTracksCommand'
  BY <1>1, <1>3, <1>4 DEF RowInv, ObjectiveTracksCommand, Dispatched
<1>12. DispatchedOnResults'
  <2>1. \A k \in Dispatched : plan.deps[k] \subseteq Commands
    BY <1>6 DEF RowInv, CommandsFollowPlan, Planned
  <2> QED
    BY <1>1, <1>4, <1>7, <2>1 DEF RowInv, DispatchedOnResults
<1>13. AnswerCoversPlan'
  BY <1>1 DEF AnswerCoversPlan, IInv, StateInv, ResultIsFinal
<1> QED
  BY <1>8, <1>9, <1>10, <1>11, <1>12, <1>13 DEF RowInv

\* Steps that leave the rows and the commands alone.
LEMMA OtherRows ==
    ASSUME IInv, RowInv, OtherStep \/ UNCHANGED dagVars
    PROVE  RowInv'
<1>1. /\ plan' = plan /\ objective' = objective
      /\ cmd' = cmd /\ result' = result
      /\ status' = status \/ (Live /\ status' \in {"cancelled", "timed_out"})
  BY DEF OtherStep, dagVars, vars, Deadline, Cancel, Expire
<1>2. Dispatched' = Dispatched
  BY <1>1 DEF Dispatched
<1>3. status = "none" <=> status' = "none"
  BY <1>1 DEF Live, LiveStatuses
<1>4. status' = "failed" <=> status = "failed"
  BY <1>1 DEF Live, LiveStatuses
<1>5. status' = "completed" => status = "completed"
  BY <1>1
<1>6. DagTypes' /\ RowsFollowPlan' /\ CommandsFollowPlan'
  BY <1>1, <1>2, <1>3
  DEF RowInv, DagTypes, RowsFollowPlan, CommandsFollowPlan
<1>7. LostOverRequired' /\ DispatchedOnResults' /\ AnswerCoversPlan'
  BY <1>1, <1>2, <1>5
  DEF RowInv, LostOverRequired, DispatchedOnResults, AnswerCoversPlan
<1>8. ObjectiveTracksCommand'
  BY <1>1, <1>2, <1>4 DEF RowInv, ObjectiveTracksCommand
<1> QED
  BY <1>6, <1>7, <1>8 DEF RowInv

LEMMA RowStep ==
    ASSUME IInv, RowInv, [DagNext]_dagVars
    PROVE  RowInv'
BY AdmitRows, CompleteRows, FailRows, FailDrainedRows, OtherRows DEF DagNext

\* The invariant of the run and that of the rows hold together.
LEMMA DagInvariance == DagSpec => [](IInv /\ RowInv)
<1>1. DagSpec => []IInv
  BY DagImplementsRun, Invariance, PTL
<1>2. DagInit => RowInv
  BY InitRows
<1>3. IInv /\ RowInv /\ [DagNext]_dagVars => RowInv'
  BY RowStep
<1> QED
  BY <1>1, <1>2, <1>3, PTL DEF DagSpec

-----------------------------------------------------------------------------
(***************************************************************************)
(* The objective rows and the command rows agree, whatever the plan, in    *)
(* whatever order commands complete, fail, are cut off and redelivered.    *)
(***************************************************************************)
THEOREM RowsTrackCommands == DagSpec => []ObjectiveTracksCommand
<1>1. RowInv => ObjectiveTracksCommand
  BY DEF RowInv
<1> QED
  BY <1>1, DagInvariance, PTL

(***************************************************************************)
(* An objective is dispatched only on results: what it requires has        *)
(* completed and is never taken back.                                      *)
(***************************************************************************)
THEOREM ObjectivesRunOnResults == DagSpec => []DispatchedOnResults
<1>1. RowInv => DispatchedOnResults
  BY DEF RowInv
<1> QED
  BY <1>1, DagInvariance, PTL

(***************************************************************************)
(* A composed answer covers the plan, and a completed run has answered     *)
(* every objective that was not denied.                                    *)
(***************************************************************************)
THEOREM AnswersCoverPlans == DagSpec => []AnswerCoversPlan
<1>1. RowInv => AnswerCoversPlan
  BY DEF RowInv
<1> QED
  BY <1>1, DagInvariance, PTL

-----------------------------------------------------------------------------
\* Only the completing transaction of c makes c completed.
LEMMA OnlyCompleteCompletes ==
    ASSUME IInv, RowInv, [DagNext]_dagVars, NEW c \in Commands,
           cmd[c] # "completed", cmd'[c] = "completed"
    PROVE  Complete(c)
<1>1. CASE AdmitPlan
  BY <1>1 DEF AdmitPlan, Admit
<1>2. ASSUME NEW d \in Commands, Complete(d), d # c
      PROVE  FALSE
  <2>1. cmd' = Completed(d, Unlocked(d))
    BY <1>2, CompleteEffect
  <2> QED
    BY <1>2, <2>1 DEF Completed
<1>3. ASSUME NEW d \in Commands, FailObjective(d)
      PROVE  FALSE
  BY <1>3, FailEffect
<1>4. ASSUME NEW d \in Commands, FailDrainedObjective(d)
      PROVE  FALSE
  BY <1>4 DEF FailDrainedObjective, vars
<1>5. CASE OtherStep \/ UNCHANGED dagVars
  BY <1>5 DEF OtherStep, Deadline, Cancel, Expire, dagVars, vars
<1> QED
  BY <1>1, <1>2, <1>3, <1>4, <1>5 DEF DagNext

LEMMA CompleteSweeps ==
    ASSUME IInv, RowInv, NEW c \in Commands, Complete(c),
           NEW k \in Waiting(objective', cmd')
    PROVE  \E j \in plan.deps[k] : objective'[j] \notin Settled
<1> DEFINE S == Swept(c)
<1>1. /\ c \in Dispatched
      /\ objective' = S
      /\ cmd' = Completed(c, Unlocked(c))
      /\ DagTypes /\ RowsFollowPlan
  BY CompleteEffect DEF RowInv
<1>2. k \in Commands /\ S[k] = "queued" /\ cmd'[k] = "absent"
  BY <1>1 DEF Waiting
<1>3. k # c /\ objective[k] = "queued"
  BY <1>1, <1>2, SweptRows
<1>4. k \notin Unlocked(c) /\ cmd[k] = "absent"
  BY <1>1, <1>2, <1>3 DEF Completed
<1>5. k \in Waiting(S, cmd) /\ k \in Waiting(objective, cmd)
  BY <1>2, <1>3, <1>4 DEF Waiting
<1>6. ~ Ready(k, S)
  <2>1. ~ (Ready(k, S) /\ ~ Lost(k, S))
    BY <1>4, <1>5 DEF Unlocked
  <2>2. ~ (Ready(k, S) /\ Lost(k, S))
    BY <1>1, <1>2, <1>3, <1>5, SweptRows
  <2> QED
    BY <2>1, <2>2
<1>7. plan.deps[k] # {}
  <2>1. k \in Planned(plan)
    BY <1>1, <1>5, WaitingLooksBack
  <2>2. RootsOf(plan) \subseteq Dispatched
    BY <1>1, AdmittedRun
  <2>3. k \notin Dispatched
    BY <1>4 DEF Dispatched
  <2> QED
    BY <2>1, <2>2, <2>3 DEF RootsOf
<1> QED
  BY <1>1, <1>6, <1>7 DEF Ready

(***************************************************************************)
(* One pass of the sweep reaches chains of any length: after a completion  *)
(* no objective waits that could be dispatched or failed.                  *)
(***************************************************************************)
THEOREM CompletionsSweep == DagSpec => CompletionSweeps
<1> DEFINE Sweeps ==
        \A c \in Commands :
            cmd[c] # "completed" /\ cmd'[c] = "completed" =>
                \A k \in Waiting(objective', cmd') :
                    \E j \in plan.deps[k] : objective'[j] \notin Settled
<1>1. IInv /\ RowInv /\ [DagNext]_dagVars => [Sweeps]_dagVars
  BY OnlyCompleteCompletes, CompleteSweeps
<1>2. DagSpec => [][Sweeps]_dagVars
  BY <1>1, DagInvariance, PTL DEF DagSpec
<1> QED
  BY <1>2 DEF CompletionSweeps

(***************************************************************************)
(* A settled row never moves again: what a dispatched objective was built  *)
(* on is not taken back, and a failed or denied objective does not return. *)
(***************************************************************************)
RowsSettle ==
    [][\A k \in Commands :
          objective[k] \in Settled => objective'[k] = objective[k]]_dagVars

LEMMA SettledRowStep ==
    ASSUME IInv, RowInv, [DagNext]_dagVars, NEW k \in Commands,
           objective[k] \in Settled
    PROVE  objective'[k] = objective[k]
<1>1. CASE AdmitPlan
  <2>1. objective[k] = "absent"
    BY <1>1 DEF AdmitPlan, Admit, RowInv, RowsFollowPlan
  <2> QED
    BY <2>1 DEF Settled
<1>2. ASSUME NEW c \in Commands, Complete(c)
      PROVE  objective'[k] = objective[k]
  <2>1. objective' = Swept(c) /\ objective[c] = "queued"
    BY <1>2, CompleteEffect
  <2> QED
    BY <2>1, SweptRows DEF RowInv, Waiting, Settled
<1>3. ASSUME NEW c \in Commands, c \in Dispatched, cmd[c] # "completed",
             objective' = FailedRow(c)
      PROVE  objective'[k] = objective[k]
  <2>1. objective \in [Commands -> ObjectiveStatuses]
    BY DEF RowInv, DagTypes
  <2>2. objective[c] # "completed" /\ objective[c] # "denied"
    BY <1>3, AdmittedRun DEF RowInv, ObjectiveTracksCommand, Planned
  <2> QED
    BY <1>3, <2>1, <2>2 DEF FailedRow, Settled
<1>4. ASSUME NEW c \in Commands, FailObjective(c)
      PROVE  objective'[k] = objective[k]
  BY <1>3, <1>4, FailEffect
<1>5. ASSUME NEW c \in Commands, FailDrainedObjective(c)
      PROVE  objective'[k] = objective[k]
  BY <1>3, <1>5 DEF FailDrainedObjective, Dispatched
<1>6. CASE OtherStep \/ UNCHANGED dagVars
  BY <1>6 DEF OtherStep, dagVars
<1> QED
  BY <1>1, <1>2, <1>4, <1>5, <1>6 DEF DagNext

\* Rows settle in every run, whatever the plan.
THEOREM RowsAreFinal == DagSpec => RowsSettle
<1> DEFINE Settle ==
        \A k \in Commands :
            objective[k] \in Settled => objective'[k] = objective[k]
<1>1. IInv /\ RowInv /\ [DagNext]_dagVars => [Settle]_dagVars
  BY SettledRowStep
<1>2. DagSpec => [][Settle]_dagVars
  BY <1>1, DagInvariance, PTL DEF DagSpec
<1> QED
  BY <1>2 DEF RowsSettle

(***************************************************************************)
(* No objective fails for nothing: when a row failed, a command failed.    *)
(***************************************************************************)
FailureHasCommand ==
    (\E k \in Commands : objective[k] = "failed") => In(cmd, {"failed"}) # {}

\* A failed row leads back to a failed command in every run.
THEOREM FailuresHaveCommands == DagSpec => []FailureHasCommand
<1>1. ASSUME RowInv, NEW k \in Commands, objective[k] = "failed"
      PROVE  In(cmd, {"failed"}) # {}
  <2>1. k \in Planned(plan)
    BY <1>1 DEF RowInv, RowsFollowPlan, Planned, Used
  <2>2. \A j \in Planned(plan) \ Dispatched :
           objective[j] = "failed" =>
               \E i \in Hard(plan, j) : objective[i] = "failed"
    BY <1>1 DEF RowInv, LostOverRequired, Planned, Used
  <2>3. PICK j \in Planned(plan) \cap Dispatched : objective[j] = "failed"
    BY <1>1, <2>1, <2>2, FailureHasOrigin DEF RowInv, DagTypes
  <2> QED
    BY <1>1, <2>3 DEF RowInv, ObjectiveTracksCommand, In, Dispatched
<1>2. RowInv => FailureHasCommand
  BY <1>1 DEF FailureHasCommand
<1> QED
  BY <1>2, DagInvariance, PTL

-----------------------------------------------------------------------------
LEMMA DagKeepsCompletions ==
    ASSUME IInv, [DagNext]_dagVars, NEW c \in Commands, cmd[c] = "completed"
    PROVE  cmd'[c] = "completed"
<1>1. CASE AdmitPlan
  <2>1. cmd[c] = "absent"
    BY <1>1 DEF AdmitPlan, Admit, IInv, StateInv, FreshRun, Dispatched
  <2> QED
    BY <2>1
<1>2. ASSUME NEW d \in Commands, Complete(d)
      PROVE  cmd'[c] = "completed"
  BY <1>2, CompleteIsExecute, CompletedIsKept
<1>3. ASSUME NEW d \in Commands, FailObjective(d)
      PROVE  cmd'[c] = "completed"
  <2>1. Fail(d) /\ d # c
    BY <1>3 DEF FailObjective, Fail, FailInTime
  <2> QED
    BY <2>1, CompletedIsKept
<1>4. ASSUME NEW d \in Commands, FailDrainedObjective(d)
      PROVE  cmd'[c] = "completed"
  BY <1>4 DEF FailDrainedObjective, vars
<1>5. CASE OtherStep \/ UNCHANGED dagVars
  BY <1>5 DEF OtherStep, Deadline, Cancel, Expire, dagVars, vars
<1> QED
  BY <1>1, <1>2, <1>3, <1>4, <1>5 DEF DagNext

(***************************************************************************)
(* Refinement: the command of an objective takes effect at most once, and  *)
(* neither its completion nor its failure is taken back.                   *)
(***************************************************************************)
THEOREM ObjectivesTakeEffectOnce == DagSpec => CommandOnceSpec
<1> DEFINE Kept ==
        \A c \in Commands : cmd[c] = "completed" => cmd'[c] = "completed"
<1>1. IInv /\ [DagNext]_dagVars => [Kept]_vars
  BY DagKeepsCompletions
<1>2. DagSpec => []IInv
  BY DagImplementsRun, Invariance, PTL
<1>3. DagSpec => CompletionsStay
  BY <1>1, <1>2, PTL DEF DagSpec, CompletionsStay
<1> QED
  BY <1>3, DagImplementsRun, CommandsTakeEffectOnce, PTL

=============================================================================
