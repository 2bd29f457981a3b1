----------------------- MODULE DeepLinkDeliveryProofs -----------------------
(***************************************************************************)
(* Proofs about DeepLinkDelivery, for every set of overlapping dispatches  *)
(* and every number of deaths and outages.                                 *)
(***************************************************************************)
EXTENDS DeepLinkDelivery, TLAPS

(***************************************************************************)
(* The inductive invariant.  The reservation is made once in the life of   *)
(* the row, because the state never returns to pending_confirmation; the   *)
(* dispatch that made it is the only one that can mint, call and finish.   *)
(***************************************************************************)
PastReservation == {"minting", "calling", "called", "accepted"}

\* Before the reservation nothing of it exists.
UntouchedBefore ==
    state \in {"absent", "pending_confirmation"} =>
        /\ calls = 0
        /\ link = "none"
        /\ \A d \in Dispatches : pc[d] \notin PastReservation

OneReservation ==
    \A d, e \in Dispatches :
        pc[d] \in PastReservation /\ pc[e] \in PastReservation => d = e

CallsFollowPoint ==
    \A d \in Dispatches :
        /\ pc[d] \in {"minting", "calling"} => calls = 0
        /\ pc[d] \in {"called", "accepted"} => calls = 1

LinkOfReservation ==
    \A d \in Dispatches :
        pc[d] \in {"calling", "called", "accepted"}
            /\ state = "dispatch_reserved" => link = "active"

\* Who is about to close the event by force met an outage.
RaisedByOutage == \A d \in Dispatches : pc[d] = "raised" => outages > 0

ReservationInv == UntouchedBefore /\ OneReservation /\ CallsFollowPoint

IInv ==
    /\ DeliveryRowsOK
    /\ ReservationInv
    /\ AtMostOneCall
    /\ LinkOfReservation
    /\ ClosedLinkIsRevoked
    /\ RaisedByOutage
    /\ SentIsWhole

-----------------------------------------------------------------------------
\* Every step preserves the types.
LEMMA TypeStep ==
    ASSUME DeliveryRowsOK, BudgetAssumption, [Next]_vars
    PROVE  DeliveryRowsOK'
<1>1. ASSUME Create \/ Confirm \/ BlockAtConfirm
      PROVE  DeliveryRowsOK'
  BY <1>1 DEF DeliveryRowsOK, States, RequestStates, EventStates, LinkStates,
     Points, Closed, Failures, budgets, dispatchVars, Create, Confirm,
     BlockAtConfirm
<1>2. ASSUME NEW d \in Dispatches,
             Reserve(d) \/ Deliver(d) \/ RefuseReservation(d)
             \/ MeetReservation(d) \/ MeetSent(d) \/ MeetFailure(d)
      PROVE  DeliveryRowsOK'
  BY <1>2 DEF DeliveryRowsOK, States, RequestStates, EventStates, LinkStates,
     Points, Closed, Failures, budgets, dispatchVars, Reserve, Goto,
     Reservable, Deliver, RefuseReservation, Close, MeetReservation,
     MeetSent, MeetFailure
<1>3. ASSUME NEW d \in Dispatches,
             Mint(d) \/ MintFails(d) \/ Call(d) \/ Answer(d)
      PROVE  DeliveryRowsOK'
  BY <1>3 DEF DeliveryRowsOK, States, RequestStates, EventStates, LinkStates,
     Points, Closed, Failures, budgets, dispatchVars, Mint, Goto, MayMint,
     MintFails, Close, Call, Answer
<1>4. ASSUME NEW d \in Dispatches,
             FinishSent(d) \/ FinishSentRaises(d) \/ FinishSentLost(d)
             \/ FinishTerminal(d) \/ HandlerRaises(d) \/ CloseEvent(d) \/ Die(d)
      PROVE  DeliveryRowsOK'
  BY <1>4 DEF DeliveryRowsOK, States, RequestStates, EventStates, LinkStates,
     Points, Closed, Failures, budgets, dispatchVars, FinishSent, Goto,
     FinishSentRaises, Close, FinishSentLost, FinishTerminal, HandlerRaises,
     CloseEvent, Die, Running
<1>5. CASE UNCHANGED vars
  BY <1>5 DEF DeliveryRowsOK, States, RequestStates, EventStates, LinkStates,
     Points, Closed, Failures, budgets, dispatchVars, vars
<1> QED
  BY <1>1, <1>2, <1>3, <1>4, <1>5 DEF Next, Dispatch

\* The reservation is made once, and its holder calls once.
LEMMA ReservationStep ==
    ASSUME DeliveryRowsOK, ReservationInv, [Next]_vars
    PROVE  ReservationInv'
<1>1. ASSUME Create \/ Confirm \/ BlockAtConfirm
      PROVE  ReservationInv'
  BY <1>1 DEF ReservationInv, UntouchedBefore, OneReservation,
     CallsFollowPoint, PastReservation, DeliveryRowsOK, States,
     RequestStates, EventStates, LinkStates, Points, Closed, Failures,
     budgets, dispatchVars, Create, Confirm, BlockAtConfirm
<1>2. ASSUME NEW d \in Dispatches, Reserve(d)
      PROVE  ReservationInv'
  BY <1>2 DEF ReservationInv, UntouchedBefore, OneReservation,
     CallsFollowPoint, PastReservation, DeliveryRowsOK, States,
     RequestStates, EventStates, LinkStates, Points, Closed, Failures,
     budgets, dispatchVars, Reserve, Goto, Reservable
<1>3. ASSUME NEW d \in Dispatches,
             Deliver(d) \/ RefuseReservation(d) \/ MeetReservation(d)
             \/ MeetSent(d) \/ MeetFailure(d)
      PROVE  ReservationInv'
  BY <1>3 DEF ReservationInv, UntouchedBefore, OneReservation,
     CallsFollowPoint, PastReservation, DeliveryRowsOK, States,
     RequestStates, EventStates, LinkStates, Points, Closed, Failures,
     budgets, dispatchVars, Deliver, Goto, RefuseReservation, Close,
     MeetReservation, MeetSent, MeetFailure
<1>4. ASSUME NEW d \in Dispatches,
             Mint(d) \/ MintFails(d)
      PROVE  ReservationInv'
  BY <1>4 DEF ReservationInv, UntouchedBefore, OneReservation,
     CallsFollowPoint, PastReservation, DeliveryRowsOK, States,
     RequestStates, EventStates, LinkStates, Points, Closed, Failures,
     budgets, dispatchVars, Mint, Goto, MayMint, MintFails, Close
<1>5. ASSUME NEW d \in Dispatches, Call(d)
      PROVE  ReservationInv'
  BY <1>5 DEF ReservationInv, UntouchedBefore, OneReservation,
     CallsFollowPoint, PastReservation, DeliveryRowsOK, States,
     RequestStates, EventStates, LinkStates, Points, Closed, Failures,
     budgets, dispatchVars, Call, Goto
<1>6. ASSUME NEW d \in Dispatches, Answer(d)
      PROVE  ReservationInv'
  BY <1>6 DEF ReservationInv, UntouchedBefore, OneReservation,
     CallsFollowPoint, PastReservation, DeliveryRowsOK, States,
     RequestStates, EventStates, LinkStates, Points, Closed, Failures,
     budgets, dispatchVars, Answer, Goto, Close
<1>7. ASSUME NEW d \in Dispatches,
             FinishSent(d) \/ FinishSentRaises(d) \/ FinishSentLost(d)
      PROVE  ReservationInv'
  BY <1>7 DEF ReservationInv, UntouchedBefore, OneReservation,
     CallsFollowPoint, PastReservation, DeliveryRowsOK, States,
     RequestStates, EventStates, LinkStates, Points, Closed, Failures,
     budgets, dispatchVars, FinishSent, Goto, FinishSentRaises, Close,
     FinishSentLost
<1>8. ASSUME NEW d \in Dispatches,
             FinishTerminal(d) \/ HandlerRaises(d) \/ CloseEvent(d) \/ Die(d)
      PROVE  ReservationInv'
  BY <1>8 DEF ReservationInv, UntouchedBefore, OneReservation,
     CallsFollowPoint, PastReservation, DeliveryRowsOK, States,
     RequestStates, EventStates, LinkStates, Points, Closed, Failures,
     budgets, dispatchVars, FinishTerminal, Goto, HandlerRaises,
     CloseEvent, Die, Running
<1>9. CASE UNCHANGED vars
  BY <1>9 DEF ReservationInv, UntouchedBefore, OneReservation,
     CallsFollowPoint, PastReservation, DeliveryRowsOK, States,
     RequestStates, EventStates, LinkStates, Points, Closed, Failures,
     budgets, dispatchVars, vars
<1> QED
  BY <1>1, <1>2, <1>3, <1>4, <1>5, <1>6, <1>7, <1>8, <1>9 DEF Next, Dispatch

\* Whoever calls found no call made.
LEMMA OneCallStep ==
    ASSUME ReservationInv, AtMostOneCall, [Next]_vars
    PROVE  AtMostOneCall'
<1>1. ASSUME Create \/ Confirm \/ BlockAtConfirm
      PROVE  AtMostOneCall'
  BY <1>1 DEF AtMostOneCall, budgets, dispatchVars, Create, Confirm,
     BlockAtConfirm
<1>2. ASSUME NEW d \in Dispatches,
             Reserve(d) \/ Deliver(d) \/ RefuseReservation(d)
             \/ MeetReservation(d) \/ MeetSent(d) \/ MeetFailure(d)
             \/ Mint(d) \/ MintFails(d) \/ Answer(d) \/ FinishSent(d)
             \/ FinishSentRaises(d) \/ FinishSentLost(d)
             \/ FinishTerminal(d) \/ HandlerRaises(d) \/ CloseEvent(d) \/ Die(d)
      PROVE  AtMostOneCall'
  BY <1>2 DEF AtMostOneCall, budgets, dispatchVars, Reserve, Goto,
     Reservable, Deliver, RefuseReservation, Close, MeetReservation,
     MeetSent, MeetFailure, Mint, MayMint, MintFails, Answer, FinishSent,
     FinishSentRaises, FinishSentLost, FinishTerminal, HandlerRaises,
     CloseEvent, Die, Running
<1>3. ASSUME NEW d \in Dispatches, Call(d)
      PROVE  AtMostOneCall'
  BY <1>3 DEF AtMostOneCall, ReservationInv, CallsFollowPoint, Call
<1>4. CASE UNCHANGED vars
  BY <1>4 DEF AtMostOneCall, budgets, dispatchVars, vars
<1> QED
  BY <1>1, <1>2, <1>3, <1>4 DEF Next, Dispatch

\* The link lives with the reservation and dies with the failure.
LEMMA LinkStep ==
    ASSUME IInv, [Next]_vars
    PROVE  (LinkOfReservation /\ ClosedLinkIsRevoked)'
<1>1. ASSUME Create \/ Confirm \/ BlockAtConfirm
      PROVE  (LinkOfReservation /\ ClosedLinkIsRevoked)'
  BY <1>1 DEF IInv, ReservationInv, UntouchedBefore, OneReservation,
     LinkOfReservation, ClosedLinkIsRevoked, PastReservation, DeliveryRowsOK,
     States, RequestStates, EventStates, LinkStates, Points, Closed,
     Failures, budgets, dispatchVars, Create, Confirm, BlockAtConfirm
<1>2. ASSUME NEW d \in Dispatches, Reserve(d)
      PROVE  (LinkOfReservation /\ ClosedLinkIsRevoked)'
  BY <1>2 DEF IInv, ReservationInv, UntouchedBefore, OneReservation,
     LinkOfReservation, ClosedLinkIsRevoked, PastReservation, DeliveryRowsOK,
     States, RequestStates, EventStates, LinkStates, Points, Closed,
     Failures, budgets, dispatchVars, Reserve, Goto, Reservable
<1>3. ASSUME NEW d \in Dispatches,
             Deliver(d) \/ RefuseReservation(d) \/ MeetReservation(d)
             \/ MeetSent(d) \/ MeetFailure(d)
      PROVE  (LinkOfReservation /\ ClosedLinkIsRevoked)'
  BY <1>3 DEF IInv, ReservationInv, UntouchedBefore, OneReservation,
     LinkOfReservation, ClosedLinkIsRevoked, PastReservation, DeliveryRowsOK,
     States, RequestStates, EventStates, LinkStates, Points, Closed,
     Failures, budgets, dispatchVars, Deliver, Goto, RefuseReservation,
     Close, MeetReservation, MeetSent, MeetFailure
<1>4. ASSUME NEW d \in Dispatches,
             Mint(d) \/ MintFails(d)
      PROVE  (LinkOfReservation /\ ClosedLinkIsRevoked)'
  BY <1>4 DEF IInv, ReservationInv, UntouchedBefore, OneReservation,
     LinkOfReservation, ClosedLinkIsRevoked, PastReservation, DeliveryRowsOK,
     States, RequestStates, EventStates, LinkStates, Points, Closed,
     Failures, budgets, dispatchVars, Mint, Goto, MayMint, MintFails, Close
<1>5. ASSUME NEW d \in Dispatches,
             Call(d) \/ Answer(d)
      PROVE  (LinkOfReservation /\ ClosedLinkIsRevoked)'
  BY <1>5 DEF IInv, ReservationInv, UntouchedBefore, OneReservation,
     LinkOfReservation, ClosedLinkIsRevoked, PastReservation, DeliveryRowsOK,
     States, RequestStates, EventStates, LinkStates, Points, Closed,
     Failures, budgets, dispatchVars, Call, Goto, Answer, Close
<1>6. ASSUME NEW d \in Dispatches,
             FinishSent(d) \/ FinishSentRaises(d) \/ FinishSentLost(d)
      PROVE  (LinkOfReservation /\ ClosedLinkIsRevoked)'
  BY <1>6 DEF IInv, ReservationInv, UntouchedBefore, OneReservation,
     LinkOfReservation, ClosedLinkIsRevoked, PastReservation, DeliveryRowsOK,
     States, RequestStates, EventStates, LinkStates, Points, Closed,
     Failures, budgets, dispatchVars, FinishSent, Goto, FinishSentRaises,
     Close, FinishSentLost
<1>7. ASSUME NEW d \in Dispatches,
             FinishTerminal(d) \/ HandlerRaises(d) \/ CloseEvent(d) \/ Die(d)
      PROVE  (LinkOfReservation /\ ClosedLinkIsRevoked)'
  BY <1>7 DEF IInv, ReservationInv, UntouchedBefore, OneReservation,
     LinkOfReservation, ClosedLinkIsRevoked, PastReservation, DeliveryRowsOK,
     States, RequestStates, EventStates, LinkStates, Points, Closed,
     Failures, budgets, dispatchVars, FinishTerminal, Goto, HandlerRaises,
     CloseEvent, Die, Running
<1>8. CASE UNCHANGED vars
  BY <1>8 DEF IInv, ReservationInv, UntouchedBefore, OneReservation,
     LinkOfReservation, ClosedLinkIsRevoked, PastReservation, DeliveryRowsOK,
     States, RequestStates, EventStates, LinkStates, Points, Closed,
     Failures, budgets, dispatchVars, vars
<1> QED
  BY <1>1, <1>2, <1>3, <1>4, <1>5, <1>6, <1>7, <1>8 DEF Next, Dispatch

\* Only an outage leads to the forced closing of the event.
LEMMA RaisedStep ==
    ASSUME DeliveryRowsOK, RaisedByOutage, BudgetAssumption, [Next]_vars
    PROVE  RaisedByOutage'
<1> USE DEF DeliveryRowsOK, RaisedByOutage, Goto, Close, budgets, dispatchVars
<1>1. ASSUME Create \/ Confirm \/ BlockAtConfirm \/ UNCHANGED vars
      PROVE  RaisedByOutage'
  BY <1>1 DEF Create, Confirm, BlockAtConfirm, vars
<1>2. ASSUME NEW d \in Dispatches, Deliver(d) \/ Dispatch(d)
      PROVE  RaisedByOutage'
  BY <1>2 DEF Deliver, Dispatch, Reserve, RefuseReservation,
     MeetReservation, MeetSent, MeetFailure, Mint, MintFails, Call, Answer,
     FinishSent, FinishSentRaises, FinishTerminal, CloseEvent
<1>3. ASSUME NEW d \in Dispatches,
             HandlerRaises(d) \/ FinishSentLost(d) \/ Die(d)
      PROVE  RaisedByOutage'
  BY <1>3 DEF HandlerRaises, FinishSentLost, Die
<1> QED
  BY <1>1, <1>2, <1>3 DEF Next

\* The rows of a sent delivery agree.
LEMMA SentStep ==
    ASSUME IInv, [Next]_vars
    PROVE  SentIsWhole'
<1>1. ASSUME Create \/ Confirm \/ BlockAtConfirm
      PROVE  SentIsWhole'
  BY <1>1 DEF IInv, RaisedByOutage, ReservationInv, UntouchedBefore,
     CallsFollowPoint,
     LinkOfReservation, SentIsWhole, PastReservation, DeliveryRowsOK, States,
     RequestStates, EventStates, LinkStates, Points, Closed, Failures,
     budgets, dispatchVars, Create, Confirm, BlockAtConfirm
<1>2. ASSUME NEW d \in Dispatches, Reserve(d)
      PROVE  SentIsWhole'
  BY <1>2 DEF IInv, RaisedByOutage, ReservationInv, UntouchedBefore,
     CallsFollowPoint,
     LinkOfReservation, SentIsWhole, PastReservation, DeliveryRowsOK, States,
     RequestStates, EventStates, LinkStates, Points, Closed, Failures,
     budgets, dispatchVars, Reserve, Goto, Reservable
<1>3. ASSUME NEW d \in Dispatches,
             Deliver(d) \/ RefuseReservation(d) \/ MeetReservation(d)
             \/ MeetSent(d) \/ MeetFailure(d)
      PROVE  SentIsWhole'
  BY <1>3 DEF IInv, RaisedByOutage, ReservationInv, UntouchedBefore,
     CallsFollowPoint,
     LinkOfReservation, SentIsWhole, PastReservation, DeliveryRowsOK, States,
     RequestStates, EventStates, LinkStates, Points, Closed, Failures,
     budgets, dispatchVars, Deliver, Goto, RefuseReservation, Close,
     MeetReservation, MeetSent, MeetFailure
<1>4. ASSUME NEW d \in Dispatches,
             Mint(d) \/ MintFails(d)
      PROVE  SentIsWhole'
  BY <1>4 DEF IInv, RaisedByOutage, ReservationInv, UntouchedBefore,
     CallsFollowPoint,
     LinkOfReservation, SentIsWhole, PastReservation, DeliveryRowsOK, States,
     RequestStates, EventStates, LinkStates, Points, Closed, Failures,
     budgets, dispatchVars, Mint, Goto, MayMint, MintFails, Close
<1>5. ASSUME NEW d \in Dispatches,
             Call(d) \/ Answer(d)
      PROVE  SentIsWhole'
  BY <1>5 DEF IInv, RaisedByOutage, ReservationInv, UntouchedBefore,
     CallsFollowPoint,
     LinkOfReservation, SentIsWhole, PastReservation, DeliveryRowsOK, States,
     RequestStates, EventStates, LinkStates, Points, Closed, Failures,
     budgets, dispatchVars, Call, Goto, Answer, Close
<1>6. ASSUME NEW d \in Dispatches,
             FinishSent(d) \/ FinishSentRaises(d) \/ FinishSentLost(d)
      PROVE  SentIsWhole'
  BY <1>6 DEF IInv, RaisedByOutage, ReservationInv, UntouchedBefore,
     CallsFollowPoint,
     LinkOfReservation, SentIsWhole, PastReservation, DeliveryRowsOK, States,
     RequestStates, EventStates, LinkStates, Points, Closed, Failures,
     budgets, dispatchVars, FinishSent, Goto, FinishSentRaises, Close,
     FinishSentLost
<1>7. ASSUME NEW d \in Dispatches,
             FinishTerminal(d) \/ HandlerRaises(d) \/ CloseEvent(d) \/ Die(d)
      PROVE  SentIsWhole'
  BY <1>7 DEF IInv, RaisedByOutage, ReservationInv, UntouchedBefore,
     CallsFollowPoint,
     LinkOfReservation, SentIsWhole, PastReservation, DeliveryRowsOK, States,
     RequestStates, EventStates, LinkStates, Points, Closed, Failures,
     budgets, dispatchVars, FinishTerminal, Goto, HandlerRaises,
     CloseEvent, Die, Running
<1>8. CASE UNCHANGED vars
  BY <1>8 DEF IInv, RaisedByOutage, ReservationInv, UntouchedBefore,
     CallsFollowPoint,
     LinkOfReservation, SentIsWhole, PastReservation, DeliveryRowsOK, States,
     RequestStates, EventStates, LinkStates, Points, Closed, Failures,
     budgets, dispatchVars, vars
<1> QED
  BY <1>1, <1>2, <1>3, <1>4, <1>5, <1>6, <1>7, <1>8 DEF Next, Dispatch

-----------------------------------------------------------------------------
LEMMA InitIInv == Init => IInv
BY BudgetAssumption
DEF Init, IInv, DeliveryRowsOK, ReservationInv, UntouchedBefore,
    OneReservation, CallsFollowPoint, AtMostOneCall, LinkOfReservation,
    ClosedLinkIsRevoked, RaisedByOutage, SentIsWhole, PastReservation,
    States, RequestStates, EventStates, LinkStates, Points, Closed, Failures

LEMMA StepIInv ==
    ASSUME IInv, [Next]_vars
    PROVE  IInv'
<1>1. DeliveryRowsOK' /\ ReservationInv'
  BY BudgetAssumption, TypeStep, ReservationStep DEF IInv
<1>2. AtMostOneCall'
  BY OneCallStep DEF IInv
<1>3. (LinkOfReservation /\ ClosedLinkIsRevoked)'
  BY LinkStep
<1>4. RaisedByOutage' /\ SentIsWhole'
  BY BudgetAssumption, RaisedStep, SentStep DEF IInv
<1> QED
  BY <1>1, <1>2, <1>3, <1>4 DEF IInv

THEOREM Invariance == Spec => []IInv
<1>1. Init => IInv
  BY InitIInv
<1>2. IInv /\ [Next]_vars => IInv'
  BY StepIInv
<1> QED
  BY <1>1, <1>2, PTL DEF Spec

\* The rows of a delivery hold only states the schema knows.
THEOREM RowsAreTyped == Spec => []DeliveryRowsOK
<1>1. IInv => DeliveryRowsOK
  BY DEF IInv
<1> QED
  BY <1>1, Invariance, PTL

\* However many dispatches of the event overlap, and wherever their processes
\* die, the Bot API is called at most once.
THEOREM OneCall == Spec => []AtMostOneCall
<1>1. IInv => AtMostOneCall
  BY DEF IInv
<1> QED
  BY <1>1, Invariance, PTL

\* No delivery that is recorded as blocked, failed or unknown leaves a link
\* that can be opened.
THEOREM FailureRevokesTheLink == Spec => []ClosedLinkIsRevoked
<1>1. IInv => ClosedLinkIsRevoked
  BY DEF IInv
<1> QED
  BY <1>1, Invariance, PTL

\* A success is recorded in all rows or in none, whatever dispatches overlap;
\* only the event of a success may be closed over by one that met an outage.
THEOREM SuccessIsWhole == Spec => []SentIsWhole
<1>1. IInv => SentIsWhole
  BY DEF IInv
<1> QED
  BY <1>1, Invariance, PTL

\* A step away from a closed state leads to a closed state, never to "sent".
LEMMA ClosedStep ==
    ASSUME DeliveryRowsOK, [Next]_vars, state \in Closed
    PROVE  state' \in Closed /\ (state' = "sent" => state = "sent")
<1>1. ASSUME NEW d \in Dispatches, FinishTerminal(d)
      PROVE  state' \in Failures
  BY <1>1 DEF FinishTerminal, DeliveryRowsOK
<1>2. ASSUME NEW d \in Dispatches, Deliver(d) \/ Dispatch(d),
             ~FinishTerminal(d)
      PROVE  state' = state
  BY <1>2 DEF Deliver, Dispatch, Reserve, Reservable, RefuseReservation,
     MeetReservation, MeetSent, MeetFailure, Mint, MintFails, Call, Answer,
     FinishSent, FinishSentRaises, CloseEvent, Closed, Failures
<1>3. ASSUME NEW d \in Dispatches,
             HandlerRaises(d) \/ FinishSentLost(d) \/ Die(d)
      PROVE  state' = state
  BY <1>3 DEF HandlerRaises, FinishSentLost, Die
<1>4. ~Create /\ ~Confirm /\ ~BlockAtConfirm
  BY DEF Create, Confirm, BlockAtConfirm, Closed, Failures
<1>5. CASE UNCHANGED vars
  BY <1>5 DEF vars
<1> QED
  BY <1>1, <1>2, <1>3, <1>4, <1>5 DEF Next, Closed, Failures

\* A closed delivery stays closed, and a late dispatch cannot turn another
\* outcome into "sent".
THEOREM NoOutcomeImproves == Spec => ClosedStaysClosed
<1>1. IInv /\ [Next]_vars =>
        [(state \in Closed) =>
            /\ state' \in Closed
            /\ state' = "sent" => state = "sent"]_vars
  BY ClosedStep DEF IInv
<1> QED
  BY <1>1, Invariance, PTL DEF Spec, ClosedStaysClosed
=============================================================================
