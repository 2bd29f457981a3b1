-------------------------- MODULE DeepLinkDelivery --------------------------
(***************************************************************************)
(* One controlled delivery of a Mini App deep link                         *)
(* (services/stage07_telegram_deep_link_delivery.py): a request, its       *)
(* delivery row, its outbox event and the link minted for it.  A dispatch  *)
(* is one run of the worker's handler for the event; it is a sequence of   *)
(* transactions with the call to the Bot API between them, and each        *)
(* transaction locks the delivery, the request and the event.              *)
(*                                                                         *)
(* Dispatches overlap freely here: the code guards against a redelivered   *)
(* or twice-claimed event, and the outbox pipeline itself never delivers   *)
(* one twice (see OutboxPipeline).  Each check of the binding, the member, *)
(* the destination and the allowlist may come out either way: they change  *)
(* between the checks.  No code under src/ calls create and confirm yet    *)
(* but the tests; each is one transaction here.                            *)
(***************************************************************************)
EXTENDS Naturals

CONSTANTS
    Dispatches,    \* runs of the handler for the event
    MaxDeaths,     \* bound on the deaths of their processes
    MaxOutages     \* bound on the database errors inside a dispatch

ASSUME BudgetAssumption == MaxDeaths \in Nat /\ MaxOutages \in Nat

VARIABLES
    state,     \* dispatch_state of the delivery, "absent" without a row
    request,   \* status of the send request
    event,     \* status of the outbox event; "pending" until it is handled
    link,      \* status of the minted link, "none" without one
    pc,        \* dispatch -> where it stands
    verdict,   \* dispatch -> the terminal state it is about to record
    calls,     \* calls to the Bot API
    deaths, outages

vars == <<state, request, event, link, pc, verdict, calls, deaths, outages>>

-----------------------------------------------------------------------------
Failures == {"blocked", "failed", "delivery_unknown"}
Closed == Failures \cup {"sent"}
States == Closed \cup {"absent", "pending_confirmation", "dispatch_reserved"}
RequestStates ==
    {"absent", "pending_confirmation", "confirmed", "sent", "failed",
     "blocked"}
EventStates == {"absent", "pending", "processing", "processed", "dead_letter"}
LinkStates == {"none", "active", "revoked"}
Points ==
    {"idle", "reserving", "minting", "calling", "called", "accepted",
     "closing", "raised", "done", "dead"}
Running == Points \ {"idle", "done", "dead"}

dispatchVars == <<pc, verdict, calls>>
budgets == <<deaths, outages>>

Init ==
    /\ state = "absent"
    /\ request = "absent"
    /\ event = "absent"
    /\ link = "none"
    /\ pc = [d \in Dispatches |-> "idle"]
    /\ verdict = [d \in Dispatches |-> "failed"]
    /\ calls = 0
    /\ deaths = 0
    /\ outages = 0

Goto(d, point) == pc' = [pc EXCEPT ![d] = point] /\ UNCHANGED verdict

\* Roll back and go on to record s as the outcome.
Close(d, s) ==
    /\ pc' = [pc EXCEPT ![d] = "closing"]
    /\ verdict' = [verdict EXCEPT ![d] = s]

-----------------------------------------------------------------------------
\* create_stage07_telegram_deep_link_delivery; a refused one leaves no row.
Create ==
    /\ state = "absent"
    /\ state' = "pending_confirmation"
    /\ request' = "pending_confirmation"
    /\ UNCHANGED <<event, link, dispatchVars, budgets>>

\* confirm_stage07_telegram_deep_link_delivery, with its check passed.
Confirm ==
    /\ state = "pending_confirmation"
    /\ request = "pending_confirmation"
    /\ request' = "confirmed"
    /\ event' = "pending"
    /\ UNCHANGED <<state, link, dispatchVars, budgets>>

\* Faulty variant: a state the delivery row does not know.
CancelAtConfirm ==
    /\ state = "pending_confirmation"
    /\ request = "pending_confirmation"
    /\ state' = "cancelled"
    /\ request' = "blocked"
    /\ UNCHANGED <<event, link, dispatchVars, budgets>>

\* The same with its check failed: _block_delivery.
BlockAtConfirm ==
    /\ state = "pending_confirmation"
    /\ request = "pending_confirmation"
    /\ state' = "blocked"
    /\ request' = "blocked"
    /\ UNCHANGED <<event, link, dispatchVars, budgets>>

-----------------------------------------------------------------------------
(***************************************************************************)
(* The handler of the worker and dispatch_stage07_...: reserve, mint, call *)
(* the Bot API, finish.                                                    *)
(***************************************************************************)
Deliver(d) ==
    /\ pc[d] = "idle"
    /\ event # "absent"
    /\ Goto(d, "reserving")
    /\ UNCHANGED <<state, request, event, link, calls, budgets>>

\* Faulty variant: the reservation looks at the request only.
ReservableRequest == request = "confirmed"

Reservable == state = "pending_confirmation" /\ request = "confirmed"

Reserve(d) ==
    /\ pc[d] = "reserving"
    /\ Reservable
    /\ state' = "dispatch_reserved"
    /\ event' = "processing"
    /\ Goto(d, "minting")
    /\ UNCHANGED <<request, link, calls, budgets>>

\* The authority or the allowlist has changed since the confirmation.
RefuseReservation(d) ==
    /\ pc[d] = "reserving"
    /\ Reservable
    /\ Close(d, "blocked")
    /\ UNCHANGED <<state, request, event, link, calls, budgets>>

\* Another dispatch holds the reservation: nobody knows how far it came.
MeetReservation(d) ==
    /\ pc[d] = "reserving"
    /\ state = "dispatch_reserved"
    /\ Close(d, "delivery_unknown")
    /\ UNCHANGED <<state, request, event, link, calls, budgets>>

MeetSent(d) ==
    /\ pc[d] = "reserving"
    /\ state = "sent"
    /\ event' = "processed"
    /\ Goto(d, "done")
    /\ UNCHANGED <<state, request, link, calls, budgets>>

MeetFailure(d) ==
    /\ pc[d] = "reserving"
    /\ state \in Failures
    /\ Goto(d, "done")
    /\ UNCHANGED <<state, request, event, link, calls, budgets>>

\* Faulty variant: the reservation is not read again before minting.
MayAlwaysMint == TRUE

MayMint == state = "dispatch_reserved"

Mint(d) ==
    /\ pc[d] = "minting"
    /\ MayMint
    /\ link' = "active"
    /\ Goto(d, "calling")
    /\ UNCHANGED <<state, request, event, calls, budgets>>

\* Faulty variant: a failed mint returns without an outcome.
MintGivesUp(d) ==
    /\ pc[d] = "minting"
    /\ Goto(d, "done")
    /\ UNCHANGED <<state, request, event, link, calls, budgets>>

\* The reservation is gone, or a check of the binding or the link fails.
MintFails(d) ==
    /\ pc[d] = "minting"
    /\ Close(d, "failed")
    /\ UNCHANGED <<state, request, event, link, calls, budgets>>

\* send_main_mini_app_link, outside of every transaction.
Call(d) ==
    /\ pc[d] = "calling"
    /\ calls' = calls + 1
    /\ Goto(d, "called")
    /\ UNCHANGED <<state, request, event, link, budgets>>

Answer(d) ==
    /\ pc[d] = "called"
    /\ \/ Goto(d, "accepted")
       \/ Close(d, "failed")            \* Telegram says no
       \/ Close(d, "delivery_unknown")  \* no usable answer
    /\ UNCHANGED <<state, request, event, link, calls, budgets>>

\* Faulty variant: success is recorded over whatever outcome is there.
FinishSentAnyway(d) ==
    /\ pc[d] = "accepted"
    /\ state' = "sent"
    /\ request' = "sent"
    /\ event' = "processed"
    /\ Goto(d, "done")
    /\ UNCHANGED <<link, calls, budgets>>

FinishSent(d) ==
    /\ pc[d] = "accepted"
    /\ state = "dispatch_reserved"
    /\ state' = "sent"
    /\ request' = "sent"
    /\ event' = "processed"
    /\ Goto(d, "done")
    /\ UNCHANGED <<link, calls, budgets>>

\* The reservation was closed by another dispatch.
FinishSentRaises(d) ==
    /\ pc[d] = "accepted"
    /\ state # "dispatch_reserved"
    /\ Close(d, "delivery_unknown")
    /\ UNCHANGED <<state, request, event, link, calls, budgets>>

\* Faulty variant: a processed event is kept when the outcome is replaced.
FinishTerminalKeeping(d) ==
    /\ pc[d] = "closing"
    /\ state' = verdict[d]
    /\ link' = IF link = "active" THEN "revoked" ELSE link
    /\ request' = IF verdict[d] = "blocked" THEN "blocked" ELSE "failed"
    /\ event' = IF event = "processed" THEN event ELSE "dead_letter"
    /\ Goto(d, "done")
    /\ UNCHANGED <<calls, budgets>>

\* _finish_terminal_delivery: whatever the state is by now.
FinishTerminal(d) ==
    /\ pc[d] = "closing"
    /\ state' = verdict[d]
    /\ link' = IF link = "active" THEN "revoked" ELSE link
    /\ request' = IF verdict[d] = "blocked" THEN "blocked" ELSE "failed"
    /\ event' = "dead_letter"
    /\ Goto(d, "done")
    /\ UNCHANGED <<calls, budgets>>

(***************************************************************************)
(* A database error in a transaction that no branch of the dispatch        *)
(* catches.  The except branch of the handler rolls back, which drops the  *)
(* locks, and reads the event.  It closes an event that is not processed;  *)
(* one that is a dead letter already is not written again.                 *)
(***************************************************************************)
HandlerRaises(d) ==
    /\ pc[d] \in {"reserving", "closing"}
    /\ outages < MaxOutages
    /\ outages' = outages + 1
    /\ Goto(d, IF event \in {"processed", "dead_letter"}
               THEN "done" ELSE "raised")
    /\ UNCHANGED <<state, request, event, link, calls, deaths>>

\* Its write commits, over whatever another dispatch made of the event since.
CloseEvent(d) ==
    /\ pc[d] = "raised"
    /\ event' = "dead_letter"
    /\ Goto(d, "done")
    /\ UNCHANGED <<state, request, link, calls, budgets>>

\* The same in FinishSent is caught and leaves the outcome unknown.
FinishSentLost(d) ==
    /\ pc[d] = "accepted"
    /\ outages < MaxOutages
    /\ outages' = outages + 1
    /\ Close(d, "delivery_unknown")
    /\ UNCHANGED <<state, request, event, link, calls, deaths>>

Die(d) ==
    /\ pc[d] \in Running
    /\ deaths < MaxDeaths
    /\ deaths' = deaths + 1
    /\ Goto(d, "dead")
    /\ UNCHANGED <<state, request, event, link, calls, outages>>

-----------------------------------------------------------------------------
Dispatch(d) ==
    \/ Reserve(d)
    \/ RefuseReservation(d)
    \/ MeetReservation(d)
    \/ MeetSent(d)
    \/ MeetFailure(d)
    \/ Mint(d)
    \/ MintFails(d)
    \/ Call(d)
    \/ Answer(d)
    \/ FinishSent(d)
    \/ FinishSentRaises(d)
    \/ FinishTerminal(d)
    \/ CloseEvent(d)

Next ==
    \/ Create
    \/ Confirm
    \/ BlockAtConfirm
    \/ \E d \in Dispatches :
         Deliver(d) \/ Dispatch(d) \/ HandlerRaises(d) \/ FinishSentLost(d)
           \/ Die(d)

Spec == Init /\ [][Next]_vars

\* A dispatch that is running goes on; nobody has to create, confirm or
\* deliver anything.
FairSpec == Spec /\ \A d \in Dispatches : WF_vars(Dispatch(d))

-----------------------------------------------------------------------------
DeliveryRowsOK ==
    /\ state \in States
    /\ request \in RequestStates
    /\ event \in EventStates
    /\ link \in LinkStates
    /\ pc \in [Dispatches -> Points]
    /\ verdict \in [Dispatches -> Failures]
    /\ calls \in Nat
    /\ deaths \in 0 .. MaxDeaths
    /\ outages \in 0 .. MaxOutages

\* However often the event is delivered and whoever dies where, Telegram is
\* called at most once for one confirmed request.
AtMostOneCall == calls <= 1

\* A link can be opened only while its delivery is under way or after it was
\* sent: a delivery recorded as blocked, failed or unknown has no live link.
ClosedLinkIsRevoked == state \in Failures => link # "active"

(***************************************************************************)
(* The rows agree on a message that arrived: it was called for, its link   *)
(* lives, the request says so, and so does the event, unless a dispatch    *)
(* that met a database error closed the event over it; no other outcome    *)
(* claims a success.                                                       *)
(***************************************************************************)
SentIsWhole ==
    /\ state = "sent" =>
         /\ calls = 1
         /\ link = "active"
         /\ request = "sent"
         /\ \/ event = "processed"
            \/ event = "dead_letter" /\ outages > 0
    /\ event = "processed" => state = "sent"
    /\ request = "sent" => state = "sent"

\* A closed delivery is never opened again, and no other outcome is turned
\* into "sent" by a late dispatch.
ClosedStaysClosed ==
    [][(state \in Closed) =>
          /\ state' \in Closed
          /\ state' = "sent" => state = "sent"]_vars

\* A delivery whose reservation is not abandoned by a death or an outage is
\* closed, and its link with it.
ReservedIsClosed ==
    state = "dispatch_reserved" ~>
        state \in Closed \/ deaths > 0 \/ outages > 0
=============================================================================
