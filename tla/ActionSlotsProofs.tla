------------------------- MODULE ActionSlotsProofs -------------------------
(***************************************************************************)
(* Proofs about ActionSlots, for every set of slots, workers and requests: *)
(* slot, objective, draft and run agree, and a change reaches its record   *)
(* at most once.                                                           *)
(***************************************************************************)
EXTENDS ActionSlots, TLAPS

(***************************************************************************)
(* The parts of the inductive invariant.                                   *)
(*                                                                         *)
(* A worker that is proposing holds the run, so no decision commits and    *)
(* what it has read of its slot still holds.                               *)
(***************************************************************************)
JobInv ==
    \A w \in Workers :
        job[w].at = "proposing" =>
            /\ runLock = {w}
            /\ slot[job[w].slot] = job[w].status
            /\ job[w].status \in {"queued", "pending_confirmation"}

(***************************************************************************)
(* A decision holds its slot, which stays pending; whoever is drafting     *)
(* holds the draft, which stays pending too.                               *)
(***************************************************************************)
Deciding(q, s) ==
    call[q].at # "idle" /\ call[q].op \in Decisions /\ call[q].slot = s

Drafting(q, s) == call[q].at = "drafting" /\ call[q].slot = s

SlotHeld ==
    \A q \in Requests, s \in Slots :
        Deciding(q, s) =>
            /\ slot[s] = "pending_confirmation"
            /\ \A r \in Requests : Deciding(r, s) => r = q

DraftHeld ==
    \A q \in Requests, s \in Slots :
        Drafting(q, s) =>
            /\ draft[s] = "pending_confirmation"
            /\ \A r \in Requests : Drafting(r, s) => r = q

DraftOpsDraft ==
    \A q \in Requests :
        call[q].at # "idle" /\ call[q].op \in DraftOps
            => call[q].at = "drafting"

\* Drafts come with the proposal, and slots with the run.
DraftFollowsProposal ==
    \A s \in Slots :
        /\ slot[s] \in {"absent", "queued", "denied"} => draft[s] = "none"
        /\ draft[s] # "none" => s \in RecordSlots

SlotsFollowRun == run = "absent" => \A s \in Slots : slot[s] = "absent"

HoldInv == SlotHeld /\ DraftHeld /\ DraftOpsDraft

\* What slot, objective, draft and run tell of each other.
Story ==
    /\ DraftFollowsProposal
    /\ SlotsFollowRun
    /\ RunCompletesWithItsSlots
    /\ ObjectiveFollowsSlot
    /\ OutcomeMatchesDraft

IInv == SlotsTypeOK /\ JobInv /\ HoldInv /\ Story

-----------------------------------------------------------------------------
(***************************************************************************)
(* Jobs and calls as records.                                              *)
(***************************************************************************)
LEMMA JobFields ==
    ASSUME NEW j \in Jobs, j # NoJob
    PROVE  /\ j.at \in {"proposing", "acking"}
           /\ j.slot \in Slots
           /\ j.status \in SlotStates
           /\ [j EXCEPT !.at = "acking"] \in Jobs
           /\ [j EXCEPT !.at = "acking"].at = "acking"
BY DEF Jobs

LEMMA CallFields ==
    ASSUME NEW c \in Calls, c # NoCall
    PROVE  /\ c.at \in {"checked", "drafting"}
           /\ c.op \in Operations
           /\ c.slot \in Slots
           /\ c.seen \in Nat
           /\ [c EXCEPT !.at = "drafting"] \in Calls
           /\ [c EXCEPT !.at = "drafting"].at = "drafting"
           /\ [c EXCEPT !.at = "drafting"].op = c.op
           /\ [c EXCEPT !.at = "drafting"].slot = c.slot
BY DEF Calls

LEMMA IdleFields ==
    /\ NoJob \in Jobs /\ NoJob.at = "idle"
    /\ NoCall \in Calls /\ NoCall.at = "idle"
BY DEF Jobs, Calls, NoJob, NoCall

LEMMA BusyCall ==
    ASSUME SlotsTypeOK, NEW q \in Requests, call[q].at # "idle"
    PROVE  /\ call[q] # NoCall
           /\ call[q].at \in {"checked", "drafting"}
           /\ call[q].op \in Operations
           /\ call[q].slot \in Slots
           /\ call[q].seen \in Nat
<1>1. call[q] \in Calls /\ call[q] # NoCall
  BY IdleFields DEF SlotsTypeOK
<1> QED
  BY <1>1, CallFields

LEMMA BusyJob ==
    ASSUME SlotsTypeOK, NEW w \in Workers, job[w].at # "idle"
    PROVE  /\ job[w] # NoJob
           /\ job[w].slot \in Slots
           /\ job[w].status \in SlotStates
<1>1. job[w] \in Jobs /\ job[w] # NoJob
  BY IdleFields DEF SlotsTypeOK
<1> QED
  BY <1>1, JobFields

\* The call of q ends, and nothing else of the calls changes.
Ends(q) == call' = [call EXCEPT ![q] = NoCall]

LEMMA EndOfCall ==
    ASSUME SlotsTypeOK, NEW q \in Requests, Ends(q)
    PROVE  /\ call' \in [Requests -> Calls]
           /\ call'[q].at = "idle"
           /\ \A r \in Requests \ {q} : call'[r] = call[r]
BY IdleFields DEF SlotsTypeOK, Ends

LEMMA StartOfCall ==
    ASSUME SlotsTypeOK, NEW q \in Requests, NEW s \in Slots,
           NEW op \in Operations, NEW at \in {"checked", "drafting"},
           Enter(q, at, op, s)
    PROVE  /\ call' \in [Requests -> Calls]
           /\ call[q].at = "idle"
           /\ call'[q].at = at /\ call'[q].op = op /\ call'[q].slot = s
           /\ \A r \in Requests \ {q} : call'[r] = call[r]
<1>1. [at |-> at, op |-> op, slot |-> s, seen |-> version[s]] \in Calls
  BY DEF SlotsTypeOK, Calls
<1> QED
  BY <1>1, IdleFields DEF SlotsTypeOK, Enter

LEMMA HoldOfDraft ==
    ASSUME SlotsTypeOK, NEW q \in Requests, call[q].at = "checked",
           call' = [call EXCEPT ![q].at = "drafting"]
    PROVE  /\ call' \in [Requests -> Calls]
           /\ call'[q].at = "drafting"
           /\ call'[q].op = call[q].op /\ call'[q].slot = call[q].slot
           /\ \A r \in Requests \ {q} : call'[r] = call[r]
<1>1. call[q] \in Calls /\ call[q] # NoCall
  BY IdleFields DEF SlotsTypeOK
<1>2. call'[q] = [call[q] EXCEPT !.at = "drafting"]
  BY DEF SlotsTypeOK
<1>3. call' = [call EXCEPT ![q] = [call[q] EXCEPT !.at = "drafting"]]
  BY DEF SlotsTypeOK
<1>4. [call[q] EXCEPT !.at = "drafting"] \in Calls
  BY <1>1, CallFields
<1>5. call' \in [Requests -> Calls]
  BY <1>3, <1>4 DEF SlotsTypeOK
<1>6. \A r \in Requests \ {q} : call'[r] = call[r]
  BY <1>3 DEF SlotsTypeOK
<1> QED
  BY <1>1, <1>2, <1>5, <1>6, CallFields

LEMMA CommitOfJob ==
    ASSUME SlotsTypeOK, NEW w \in Workers, job[w].at = "proposing",
           Committed(w)
    PROVE  /\ job' \in [Workers -> Jobs]
           /\ job'[w].at = "acking"
           /\ \A x \in Workers \ {w} : job'[x] = job[x]
<1>1. job[w] \in Jobs /\ job[w] # NoJob
  BY IdleFields DEF SlotsTypeOK
<1>2. job' = [job EXCEPT ![w] = [job[w] EXCEPT !.at = "acking"]]
  BY DEF SlotsTypeOK, Committed
<1>3. [job[w] EXCEPT !.at = "acking"] \in Jobs
  BY <1>1, JobFields
<1>4. job' \in [Workers -> Jobs]
  BY <1>2, <1>3 DEF SlotsTypeOK
<1>5. \A x \in Workers \ {w} : job'[x] = job[x]
  BY <1>2 DEF SlotsTypeOK
<1>6. job'[w] = [job[w] EXCEPT !.at = "acking"]
  BY <1>2 DEF SlotsTypeOK
<1> QED
  BY <1>1, <1>4, <1>5, <1>6, JobFields

-----------------------------------------------------------------------------
(***************************************************************************)
(* Frames: what steps of one kind leave alone.                             *)
(***************************************************************************)
LEMMA StoryFrame ==
    ASSUME Story, UNCHANGED <<slot, objective, draft, applied, runVars>>
    PROVE  Story'
<1>1. DraftFollowsProposal' /\ SlotsFollowRun'
  BY DEF Story, DraftFollowsProposal, SlotsFollowRun, runVars
<1>2. RunCompletesWithItsSlots'
  BY DEF Story, RunCompletesWithItsSlots, runVars
<1>3. ObjectiveFollowsSlot'
  BY DEF Story, ObjectiveFollowsSlot
<1>4. OutcomeMatchesDraft'
  BY DEF Story, OutcomeMatchesDraft
<1> QED
  BY <1>1, <1>2, <1>3, <1>4 DEF Story

\* Requests that keep their calls keep what they hold.
LEMMA HoldFrame ==
    ASSUME HoldInv, UNCHANGED call,
           \A q \in Requests, s \in Slots :
               /\ Deciding(q, s) => slot'[s] = slot[s]
               /\ Drafting(q, s) => draft'[s] = draft[s]
    PROVE  HoldInv'
<1>1. \A q \in Requests, s \in Slots :
          Deciding(q, s)' = Deciding(q, s) /\ Drafting(q, s)' = Drafting(q, s)
  BY DEF Deciding, Drafting
<1>2. SlotHeld'
  BY <1>1 DEF HoldInv, SlotHeld
<1>3. DraftHeld'
  BY <1>1 DEF HoldInv, DraftHeld
<1>4. DraftOpsDraft'
  BY DEF HoldInv, DraftOpsDraft
<1> QED
  BY <1>2, <1>3, <1>4 DEF HoldInv

\* A call ends and takes its locks with it.
LEMMA HoldAfterEnd ==
    ASSUME SlotsTypeOK, HoldInv, NEW q \in Requests, Ends(q),
           \A r \in Requests \ {q}, s \in Slots :
               /\ Deciding(r, s) => slot'[s] = slot[s]
               /\ Drafting(r, s) => draft'[s] = draft[s]
    PROVE  HoldInv'
<1>1. /\ call'[q].at = "idle"
      /\ \A r \in Requests \ {q} : call'[r] = call[r]
  BY EndOfCall
<1>2. \A s \in Slots : ~Deciding(q, s)' /\ ~Drafting(q, s)'
  BY <1>1 DEF Deciding, Drafting
<1>3. \A r \in Requests \ {q}, s \in Slots :
          Deciding(r, s)' = Deciding(r, s) /\ Drafting(r, s)' = Drafting(r, s)
  BY <1>1 DEF Deciding, Drafting
<1>4. SlotHeld'
  <2> SUFFICES ASSUME NEW r \in Requests, NEW s \in Slots, Deciding(r, s)'
               PROVE  /\ slot'[s] = "pending_confirmation"
                      /\ \A x \in Requests : Deciding(x, s)' => x = r
    BY DEF SlotHeld, Deciding
  <2>1. r # q /\ Deciding(r, s)
    BY <1>2, <1>3
  <2> QED
    BY <2>1, <1>2, <1>3 DEF HoldInv, SlotHeld
<1>5. DraftHeld'
  <2> SUFFICES ASSUME NEW r \in Requests, NEW s \in Slots, Drafting(r, s)'
               PROVE  /\ draft'[s] = "pending_confirmation"
                      /\ \A x \in Requests : Drafting(x, s)' => x = r
    BY DEF DraftHeld, Drafting
  <2>1. r # q /\ Drafting(r, s)
    BY <1>2, <1>3
  <2> QED
    BY <2>1, <1>2, <1>3 DEF HoldInv, DraftHeld
<1>6. DraftOpsDraft'
  BY <1>1 DEF HoldInv, DraftOpsDraft
<1> QED
  BY <1>4, <1>5, <1>6 DEF HoldInv

\* A step of a request that only changes its call.
LEMMA RequestFrame ==
    ASSUME IInv, requestFrame, call' \in [Requests -> Calls], HoldInv'
    PROVE  IInv'
<1> USE DEF requestFrame
<1>1. SlotsTypeOK'
  BY DEF IInv, SlotsTypeOK, recordVars, runVars, queueVars, workVars
<1>2. JobInv'
  BY DEF IInv, JobInv, workVars
<1>3. Story'
  BY StoryFrame DEF IInv, recordVars
<1> QED
  BY <1>1, <1>2, <1>3 DEF IInv

-----------------------------------------------------------------------------
(***************************************************************************)
(* The steps of a request before it commits.                               *)
(***************************************************************************)
LEMMA CallEndsStep ==
    ASSUME IInv, NEW q \in Requests, Ends(q), requestFrame
    PROVE  IInv'
<1>1. call' \in [Requests -> Calls]
  BY EndOfCall DEF IInv
<1>2. HoldInv'
  BY HoldAfterEnd DEF IInv, requestFrame
<1> QED
  BY <1>1, <1>2, RequestFrame

LEMMA OpenSlotStep ==
    ASSUME IInv, NEW q \in Requests, NEW s \in Slots, NEW op \in Decisions,
           OpenSlot(q, s, op)
    PROVE  IInv'
<1>1. /\ call' \in [Requests -> Calls]
      /\ call[q].at = "idle"
      /\ call'[q].at = "checked" /\ call'[q].op = op /\ call'[q].slot = s
      /\ \A r \in Requests \ {q} : call'[r] = call[r]
  BY StartOfCall DEF IInv, OpenSlot, Operations
<1>2. /\ slot[s] = "pending_confirmation"
      /\ \A r \in Requests : ~Deciding(r, s)
      /\ UNCHANGED <<slot, draft>>
  BY DEF OpenSlot, SlotLocked, On, Deciding, requestFrame
<1>3. \A r \in Requests \ {q}, t \in Slots :
          Deciding(r, t)' = Deciding(r, t) /\ Drafting(r, t)' = Drafting(r, t)
  BY <1>1 DEF Deciding, Drafting
<1>4. \A t \in Slots : /\ Deciding(q, t)' => t = s
                       /\ ~Drafting(q, t)' /\ ~Deciding(q, t)
  BY <1>1 DEF Deciding, Drafting
<1>5. SlotHeld'
  <2> SUFFICES ASSUME NEW r \in Requests, NEW t \in Slots, Deciding(r, t)'
               PROVE  /\ slot'[t] = "pending_confirmation"
                      /\ \A x \in Requests : Deciding(x, t)' => x = r
    BY DEF SlotHeld, Deciding
  <2>1. CASE r = q
    BY <2>1, <1>2, <1>3, <1>4
  <2>2. CASE r # q
    BY <2>2, <1>2, <1>3, <1>4 DEF IInv, HoldInv, SlotHeld
  <2> QED
    BY <2>1, <2>2
<1>6. DraftHeld'
  <2> SUFFICES ASSUME NEW r \in Requests, NEW t \in Slots, Drafting(r, t)'
               PROVE  /\ draft'[t] = "pending_confirmation"
                      /\ \A x \in Requests : Drafting(x, t)' => x = r
    BY DEF DraftHeld, Drafting
  <2> QED
    BY <1>2, <1>3, <1>4 DEF IInv, HoldInv, DraftHeld
<1>7. DraftOpsDraft'
  BY <1>1 DEF IInv, HoldInv, DraftOpsDraft, Decisions, DraftOps
<1> QED
  BY <1>1, <1>5, <1>6, <1>7, RequestFrame DEF HoldInv, OpenSlot

LEMMA OpenEditStep ==
    ASSUME IInv, NEW q \in Requests, NEW s \in Slots, OpenEdit(q, s)
    PROVE  IInv'
<1>1. /\ call' \in [Requests -> Calls]
      /\ call'[q].at = "checked" /\ call'[q].op = "edit"
      /\ \A r \in Requests \ {q} : call'[r] = call[r]
  BY StartOfCall DEF IInv, OpenEdit, Operations
<1>2. UNCHANGED <<slot, draft>>
  BY DEF OpenEdit, requestFrame
<1>3. \A r \in Requests \ {q}, t \in Slots :
          Deciding(r, t)' = Deciding(r, t) /\ Drafting(r, t)' = Drafting(r, t)
  BY <1>1 DEF Deciding, Drafting
<1>4. \A t \in Slots : ~Drafting(q, t)' /\ ~Deciding(q, t)'
  BY <1>1 DEF Deciding, Drafting, Decisions
<1>5. SlotHeld'
  <2> SUFFICES ASSUME NEW r \in Requests, NEW t \in Slots, Deciding(r, t)'
               PROVE  /\ slot'[t] = "pending_confirmation"
                      /\ \A x \in Requests : Deciding(x, t)' => x = r
    BY DEF SlotHeld, Deciding
  <2> QED
    BY <1>2, <1>3, <1>4 DEF IInv, HoldInv, SlotHeld
<1>6. DraftHeld'
  <2> SUFFICES ASSUME NEW r \in Requests, NEW t \in Slots, Drafting(r, t)'
               PROVE  /\ draft'[t] = "pending_confirmation"
                      /\ \A x \in Requests : Drafting(x, t)' => x = r
    BY DEF DraftHeld, Drafting
  <2> QED
    BY <1>2, <1>3, <1>4 DEF IInv, HoldInv, DraftHeld
<1>7. DraftOpsDraft'
  BY <1>1 DEF IInv, HoldInv, DraftOpsDraft, DraftOps
<1> QED
  BY <1>1, <1>5, <1>6, <1>7, RequestFrame DEF HoldInv, OpenEdit

\* A call takes the lock of a draft that is pending and not locked.
LEMMA DraftTaken ==
    ASSUME SlotsTypeOK, HoldInv, NEW q \in Requests, NEW s \in Slots,
           ~DraftLocked(s), draft[s] = "pending_confirmation",
           UNCHANGED <<slot, draft>>,
           call'[q].at = "drafting", call'[q].slot = s,
           call'[q].op \in Decisions => Deciding(q, s),
           \A r \in Requests \ {q} : call'[r] = call[r]
    PROVE  HoldInv'
<1>1. \A r \in Requests : ~Drafting(r, s)
  BY DEF DraftLocked, On, Drafting
<1>2. \A r \in Requests \ {q}, t \in Slots :
          Deciding(r, t)' = Deciding(r, t) /\ Drafting(r, t)' = Drafting(r, t)
  BY DEF Deciding, Drafting
<1>3. \A t \in Slots : /\ Drafting(q, t)' => t = s
                       /\ Deciding(q, t)' => Deciding(q, t)
  BY DEF Deciding, Drafting
<1>4. SlotHeld'
  <2> SUFFICES ASSUME NEW r \in Requests, NEW t \in Slots, Deciding(r, t)'
               PROVE  /\ slot'[t] = "pending_confirmation"
                      /\ \A x \in Requests : Deciding(x, t)' => x = r
    BY DEF SlotHeld, Deciding
  <2> QED
    BY <1>2, <1>3 DEF HoldInv, SlotHeld
<1>5. DraftHeld'
  <2> SUFFICES ASSUME NEW r \in Requests, NEW t \in Slots, Drafting(r, t)'
               PROVE  /\ draft'[t] = "pending_confirmation"
                      /\ \A x \in Requests : Drafting(x, t)' => x = r
    BY DEF DraftHeld, Drafting
  <2> QED
    BY <1>1, <1>2, <1>3 DEF HoldInv, DraftHeld
<1>6. DraftOpsDraft'
  BY DEF HoldInv, DraftOpsDraft
<1> QED
  BY <1>4, <1>5, <1>6 DEF HoldInv

LEMMA HoldDraftStep ==
    ASSUME IInv, NEW q \in Requests, HoldDraft(q)
    PROVE  IInv'
<1> DEFINE s == call[q].slot
<1>1. /\ call[q].at = "checked" /\ call[q].op \in Decisions
      /\ ~DraftLocked(s) /\ draft[s] = "pending_confirmation"
      /\ requestFrame
  BY DEF HoldDraft
<1>2. s \in Slots
  BY <1>1, BusyCall DEF IInv
<1>3. /\ call' \in [Requests -> Calls]
      /\ call'[q].at = "drafting" /\ call'[q].slot = s
      /\ \A r \in Requests \ {q} : call'[r] = call[r]
  BY <1>1, HoldOfDraft DEF IInv, HoldDraft
<1>4. Deciding(q, s)
  BY <1>1 DEF Deciding
<1>5. UNCHANGED <<slot, draft>>
  BY <1>1 DEF requestFrame
<1>6. HoldInv'
  BY <1>1, <1>2, <1>3, <1>4, <1>5, DraftTaken DEF IInv
<1> QED
  BY <1>1, <1>3, <1>6, RequestFrame

LEMMA OpenDraftStep ==
    ASSUME IInv, NEW q \in Requests, NEW s \in Slots, NEW op \in DraftOps,
           OpenDraft(q, s, op)
    PROVE  IInv'
<1>1. /\ call' \in [Requests -> Calls]
      /\ call'[q].at = "drafting" /\ call'[q].op = op /\ call'[q].slot = s
      /\ \A r \in Requests \ {q} : call'[r] = call[r]
  BY StartOfCall DEF IInv, OpenDraft, Operations
<1>2. call'[q].op \notin Decisions
  BY <1>1 DEF DraftOps, Decisions
<1>3. /\ ~DraftLocked(s) /\ draft[s] = "pending_confirmation"
      /\ requestFrame /\ UNCHANGED <<slot, draft>>
  BY DEF OpenDraft, requestFrame
<1>4. HoldInv'
  BY <1>1, <1>2, <1>3, DraftTaken DEF IInv
<1> QED
  BY <1>1, <1>3, <1>4, RequestFrame

LEMMA EditStep ==
    ASSUME IInv, NEW q \in Requests, Edit(q)
    PROVE  IInv'
<1>1. /\ call[q].at # "idle" /\ Ends(q) /\ WriteRecord(q)
      /\ UNCHANGED <<slot, objective, draft, applied, run, completions, entry,
                     late, runLock, job>>
  BY DEF Edit, Ready, Ends, runVars, queueVars, workVars
<1>2. call[q].slot \in Slots /\ call[q].seen \in Nat
  BY <1>1, BusyCall DEF IInv
<1>3. version' \in [Slots -> Nat]
  <2>1. call[q].seen + 1 \in Nat
    BY <1>2
  <2> QED
    BY <1>1, <1>2, <2>1 DEF WriteRecord, IInv, SlotsTypeOK
<1>4. call' \in [Requests -> Calls]
  BY <1>1, EndOfCall DEF IInv
<1>5. SlotsTypeOK'
  BY <1>1, <1>3, <1>4 DEF IInv, SlotsTypeOK
<1>6. JobInv'
  BY <1>1 DEF IInv, JobInv
<1>7. HoldInv'
  BY <1>1, HoldAfterEnd DEF IInv
<1>8. Story'
  BY <1>1, StoryFrame DEF IInv, runVars
<1> QED
  BY <1>5, <1>6, <1>7, <1>8 DEF IInv

-----------------------------------------------------------------------------
(***************************************************************************)
(* The workers and the deadline.                                           *)
(***************************************************************************)
LEMMA ExpireStep ==
    ASSUME IInv, Expire
    PROVE  IInv'
<1> USE DEF Expire
<1>1. SlotsTypeOK'
  BY DEF IInv, SlotsTypeOK, recordVars, runVars, workVars
<1>2. JobInv'
  BY DEF IInv, JobInv, workVars
<1>3. HoldInv'
  BY HoldFrame DEF IInv
<1>4. Story'
  BY StoryFrame DEF IInv, recordVars
<1> QED
  BY <1>1, <1>2, <1>3, <1>4 DEF IInv

LEMMA TakeRunStep ==
    ASSUME IInv, NEW w \in Workers, NEW s \in Slots, TakeRun(w, s)
    PROVE  IInv'
<1>1. /\ runLock = {} /\ runLock' = {w}
      /\ slot[s] \in {"queued", "pending_confirmation"}
      /\ job' = [job EXCEPT ![w] =
                   [at |-> "proposing", slot |-> s, status |-> slot[s]]]
      /\ UNCHANGED <<slot, objective, draft, applied, version, run,
                     completions, entry, late, call>>
  BY DEF TakeRun, Deliverable, recordVars, runVars, queueVars
<1>2. [at |-> "proposing", slot |-> s, status |-> slot[s]] \in Jobs
  BY DEF IInv, SlotsTypeOK, Jobs
<1>3. SlotsTypeOK'
  BY <1>1, <1>2 DEF IInv, SlotsTypeOK
<1>4. JobInv'
  <2> SUFFICES ASSUME NEW x \in Workers, job'[x].at = "proposing"
               PROVE  /\ runLock' = {x}
                      /\ slot'[job'[x].slot] = job'[x].status
                      /\ job'[x].status \in {"queued", "pending_confirmation"}
    BY DEF JobInv
  <2>1. x = w
    BY <1>1 DEF IInv, SlotsTypeOK, JobInv
  <2>2. job'[w] = [at |-> "proposing", slot |-> s, status |-> slot[s]]
    BY <1>1 DEF IInv, SlotsTypeOK
  <2> QED
    BY <1>1, <2>1, <2>2
<1>5. HoldInv'
  BY <1>1, HoldFrame DEF IInv
<1>6. Story'
  BY <1>1, StoryFrame DEF IInv, runVars
<1> QED
  BY <1>3, <1>4, <1>5, <1>6 DEF IInv

LEMMA AckEntryStep ==
    ASSUME IInv, NEW w \in Workers, AckEntry(w)
    PROVE  IInv'
<1>1. /\ job[w].at = "acking"
      /\ entry' = [entry EXCEPT ![job[w].slot] = "acked"]
      /\ job' = [job EXCEPT ![w] = NoJob]
      /\ UNCHANGED <<slot, objective, draft, applied, version, run,
                     completions, late, runLock, call>>
  BY DEF AckEntry, recordVars, runVars
<1>2. job[w].slot \in Slots
  BY <1>1, BusyJob DEF IInv
<1>3. SlotsTypeOK'
  BY <1>1, <1>2, IdleFields DEF IInv, SlotsTypeOK, EntryStates
<1>4. JobInv'
  BY <1>1, IdleFields DEF IInv, SlotsTypeOK, JobInv
<1>5. HoldInv'
  BY <1>1, HoldFrame DEF IInv
<1>6. Story'
  BY <1>1, StoryFrame DEF IInv, runVars
<1> QED
  BY <1>3, <1>4, <1>5, <1>6 DEF IInv

LEMMA WorkerDiesStep ==
    ASSUME IInv, NEW w \in Workers, WorkerDies(w)
    PROVE  IInv'
<1>1. /\ runLock' = runLock \ {w}
      /\ job' = [job EXCEPT ![w] = NoJob]
      /\ UNCHANGED <<slot, objective, draft, applied, version, run,
                     completions, entry, late, call>>
  BY DEF WorkerDies, recordVars, runVars, queueVars
<1>2. SlotsTypeOK'
  BY <1>1, IdleFields DEF IInv, SlotsTypeOK
<1>3. JobInv'
  <2> SUFFICES ASSUME NEW x \in Workers, job'[x].at = "proposing"
               PROVE  /\ runLock' = {x}
                      /\ slot'[job'[x].slot] = job'[x].status
                      /\ job'[x].status \in {"queued", "pending_confirmation"}
    BY DEF JobInv
  <2>1. x # w /\ job'[x] = job[x]
    BY <1>1, IdleFields DEF IInv, SlotsTypeOK
  <2>2. runLock = {x}
    BY <2>1 DEF IInv, JobInv
  <2> QED
    BY <1>1, <2>1, <2>2 DEF IInv, JobInv
<1>4. HoldInv'
  BY <1>1, HoldFrame DEF IInv
<1>5. Story'
  BY <1>1, StoryFrame DEF IInv, runVars
<1> QED
  BY <1>2, <1>3, <1>4, <1>5 DEF IInv

\* No slot exists before the run: nothing is held and no draft is there.
LEMMA AdmitStep ==
    ASSUME IInv, NEW denied \in SUBSET Slots, Admit(denied)
    PROVE  IInv'
<1>1. /\ \A s \in Slots : slot[s] = "absent" /\ draft[s] = "none"
      /\ slot' = [s \in Slots |->
                    IF s \in denied THEN "denied" ELSE "queued"]
      /\ objective' = [s \in Slots |->
                    IF s \in denied THEN "denied" ELSE "queued"]
      /\ entry' = [s \in Slots |->
                    IF s \in denied THEN "absent" ELSE "waiting"]
      /\ run' = IF denied = Slots THEN "degraded" ELSE "queued"
      /\ UNCHANGED <<draft, applied, version, completions, late, runLock, job,
                     call>>
  BY DEF Admit, recordVars, workVars, IInv, Story, SlotsFollowRun,
         DraftFollowsProposal
<1>2. SlotsTypeOK'
  <2>1. /\ slot' \in [Slots -> SlotStates]
        /\ objective' \in [Slots -> ObjectiveStates]
    BY <1>1 DEF SlotStates, ObjectiveStates, Final
  <2>2. entry' \in [Slots -> EntryStates] /\ run' \in RunStates
    BY <1>1 DEF EntryStates, RunStates
  <2> QED
    BY <1>1, <2>1, <2>2 DEF IInv, SlotsTypeOK
<1>3. \A w \in Workers : job[w].at # "proposing"
  BY <1>1, BusyJob DEF IInv, JobInv
<1>4. JobInv'
  BY <1>1, <1>3 DEF JobInv
<1>5. HoldInv'
  <2>1. \A q \in Requests, s \in Slots : ~Deciding(q, s) /\ ~Drafting(q, s)
    BY <1>1 DEF IInv, HoldInv, SlotHeld, DraftHeld
  <2> QED
    BY <1>1, <2>1, HoldFrame DEF IInv
<1>6. DraftFollowsProposal' /\ SlotsFollowRun'
  BY <1>1 DEF DraftFollowsProposal, SlotsFollowRun
<1>7. RunCompletesWithItsSlots'
  <2>1. run # "completed" /\ completions = 0
    BY DEF IInv, Story, RunCompletesWithItsSlots, Admit
  <2>2. ~(/\ \A s \in Slots : slot'[s] \in Final
          /\ \E s \in Slots : slot'[s] # "denied")
    BY <1>1 DEF Final
  <2> QED
    BY <1>1, <2>1, <2>2 DEF RunCompletesWithItsSlots
<1>8. ObjectiveFollowsSlot'
  BY <1>1 DEF ObjectiveFollowsSlot
<1>9. OutcomeMatchesDraft'
  BY <1>1 DEF IInv, Story, OutcomeMatchesDraft, RecordSlots
<1> QED
  BY <1>2, <1>4, <1>5, <1>6, <1>7, <1>8, <1>9 DEF IInv, Story

\* The jobs after a worker has committed: none of them holds the run.
LEMMA JobsAfterCommit ==
    ASSUME IInv, NEW w \in Workers, job[w].at = "proposing", Committed(w)
    PROVE  /\ job' \in [Workers -> Jobs]
           /\ runLock' \subseteq Workers
           /\ \A x \in Workers : job'[x].at # "proposing"
<1>1. /\ job' \in [Workers -> Jobs]
      /\ job'[w].at = "acking"
      /\ \A x \in Workers \ {w} : job'[x] = job[x]
  BY CommitOfJob DEF IInv
<1>2. runLock = {w}
  BY DEF IInv, JobInv
<1>3. \A x \in Workers \ {w} : job[x].at # "proposing"
  BY <1>2 DEF IInv, JobInv
<1> QED
  BY <1>1, <1>2, <1>3 DEF Committed

LEMMA MaterializeStep ==
    ASSUME IInv, NEW w \in Workers, Materialize(w)
    PROVE  IInv'
<1> DEFINE s == job[w].slot
<1>1. /\ job[w].at = "proposing" /\ slot[s] = "queued"
      /\ slot' = [slot EXCEPT ![s] = "pending_confirmation"]
      /\ objective' = [objective EXCEPT ![s] = "proposed"]
      /\ draft' = IF s \in RecordSlots
                  THEN [draft EXCEPT ![s] = "pending_confirmation"]
                  ELSE draft
      /\ run' = "waiting_approval"
      /\ UNCHANGED <<applied, version, completions, entry, late, call>>
  BY DEF Materialize, recordVars, queueVars, IInv, JobInv
<1>2. s \in Slots
  BY <1>1, BusyJob DEF IInv
<1>3. /\ job' \in [Workers -> Jobs] /\ runLock' \subseteq Workers
      /\ \A x \in Workers : job'[x].at # "proposing"
  BY <1>1, JobsAfterCommit DEF Materialize
<1>4. draft[s] = "none"
  BY <1>1, <1>2 DEF IInv, Story, DraftFollowsProposal
<1>5. run # "completed" /\ completions = 0
  BY <1>1, <1>2 DEF IInv, Story, RunCompletesWithItsSlots, Final
<1>6. SlotsTypeOK'
  BY <1>1, <1>2, <1>3
     DEF IInv, SlotsTypeOK, SlotStates, ObjectiveStates, DraftStates,
         RunStates
<1>7. JobInv'
  BY <1>3 DEF JobInv
<1>8. HoldInv'
  <2>1. \A q \in Requests, t \in Slots :
            /\ Deciding(q, t) => t # s
            /\ Drafting(q, t) => t # s
    BY <1>1, <1>4 DEF IInv, HoldInv, SlotHeld, DraftHeld
  <2>2. \A t \in Slots \ {s} : slot'[t] = slot[t] /\ draft'[t] = draft[t]
    BY <1>1 DEF IInv, SlotsTypeOK
  <2> QED
    BY <1>1, <2>1, <2>2, HoldFrame DEF IInv
<1>9. DraftFollowsProposal' /\ SlotsFollowRun'
  BY <1>1, <1>2
     DEF IInv, SlotsTypeOK, Story, DraftFollowsProposal, SlotsFollowRun
<1>10. RunCompletesWithItsSlots'
  <2>1. slot'[s] = "pending_confirmation"
    BY <1>1, <1>2 DEF IInv, SlotsTypeOK
  <2> QED
    BY <1>1, <1>2, <1>5, <2>1 DEF RunCompletesWithItsSlots, Final
<1>11. ObjectiveFollowsSlot'
  BY <1>1, <1>2 DEF IInv, SlotsTypeOK, Story, ObjectiveFollowsSlot
<1>12. OutcomeMatchesDraft'
  BY <1>1, <1>2, <1>4
     DEF IInv, SlotsTypeOK, Story, OutcomeMatchesDraft, RecordSlots
<1> QED
  BY <1>6, <1>7, <1>8, <1>9, <1>10, <1>11, <1>12 DEF IInv, Story

\* The slot is still pending: its objective is "proposed" already.
LEMMA ReplayStep ==
    ASSUME IInv, NEW w \in Workers, Replay(w)
    PROVE  IInv'
<1> DEFINE s == job[w].slot
<1>1. /\ job[w].at = "proposing" /\ slot[s] = "pending_confirmation"
      /\ objective' = [objective EXCEPT ![s] = "proposed"]
      /\ UNCHANGED <<slot, draft, applied, version, run, completions, entry,
                     late, call>>
  BY DEF Replay, recordVars, runVars, queueVars, IInv, JobInv
<1>2. s \in Slots
  BY <1>1, BusyJob DEF IInv
<1>3. UNCHANGED objective
  BY <1>1, <1>2 DEF IInv, SlotsTypeOK, Story, ObjectiveFollowsSlot
<1>4. /\ job' \in [Workers -> Jobs] /\ runLock' \subseteq Workers
      /\ \A x \in Workers : job'[x].at # "proposing"
  BY <1>1, JobsAfterCommit DEF Replay
<1>5. SlotsTypeOK'
  BY <1>1, <1>3, <1>4 DEF IInv, SlotsTypeOK
<1>6. JobInv'
  BY <1>4 DEF JobInv
<1>7. HoldInv'
  BY <1>1, HoldFrame DEF IInv
<1>8. Story'
  BY <1>1, <1>3, StoryFrame DEF IInv, runVars
<1> QED
  BY <1>5, <1>6, <1>7, <1>8 DEF IInv

-----------------------------------------------------------------------------
(***************************************************************************)
(* The commits of requests.                                                *)
(***************************************************************************)
\* Whoever holds the draft finds it pending and never applied.
LEMMA DraftInHand ==
    ASSUME IInv, NEW q \in Requests, NEW s \in Slots, Drafting(q, s)
    PROVE  /\ s \in RecordSlots
           /\ draft[s] = "pending_confirmation"
           /\ applied[s] = 0
           /\ slot[s] \notin {"absent", "queued", "denied", "executed",
                              "rejected"}
           /\ \A r \in Requests : Drafting(r, s) => r = q
<1>1. /\ draft[s] = "pending_confirmation"
      /\ \A r \in Requests : Drafting(r, s) => r = q
  BY DEF IInv, HoldInv, DraftHeld
<1>2. s \in RecordSlots /\ slot[s] \notin {"absent", "queued", "denied"}
  BY <1>1 DEF IInv, Story, DraftFollowsProposal
<1> QED
  BY <1>1, <1>2 DEF IInv, Story, OutcomeMatchesDraft

LEMMA AppliedOnce ==
    ASSUME IInv, NEW q \in Requests, NEW s \in Slots, Drafting(q, s),
           call[q].slot = s, ApplyDraft(q)
    PROVE  /\ draft' = [draft EXCEPT ![s] = "confirmed"]
           /\ applied' = [applied EXCEPT ![s] = 1]
           /\ version' \in [Slots -> Nat]
<1>1. applied[s] = 0 /\ call[q].at # "idle"
  BY DraftInHand DEF Drafting
<1>2. call[q].seen \in Nat
  BY <1>1, BusyCall DEF IInv
<1>3. call[q].seen + 1 \in Nat
  BY <1>2
<1>4. version' \in [Slots -> Nat]
  BY <1>3 DEF ApplyDraft, WriteRecord, IInv, SlotsTypeOK
<1>5. applied[s] + 1 = 1
  BY <1>1
<1>6. applied' = [applied EXCEPT ![s] = applied[s] + 1]
  BY DEF ApplyDraft
<1> QED
  BY <1>4, <1>5, <1>6 DEF ApplyDraft

\* What a decision with this outcome makes of the draft of a record slot.
DraftOf(outcome) == IF outcome = "executed" THEN "confirmed" ELSE "rejected"

SettlesDraft(q, s, outcome) ==
    /\ Drafting(q, s)
    /\ draft' = [draft EXCEPT ![s] = DraftOf(outcome)]
    /\ applied' = IF outcome = "executed" THEN [applied EXCEPT ![s] = 1]
                  ELSE applied

\* A decision settles slot, objective, draft and run in one commit.
LEMMA DecideStep ==
    ASSUME IInv, NEW q \in Requests, NEW s \in Slots,
           NEW outcome \in {"executed", "rejected"},
           Deciding(q, s), Decide(q, outcome),
           \/ SettlesDraft(q, s, outcome)
           \/ s \notin RecordSlots /\ UNCHANGED <<draft, applied>>,
           version' \in [Slots -> Nat],
           UNCHANGED <<queueVars, workVars>>
    PROVE  IInv'
<1>1. /\ call[q].slot = s /\ runLock = {}
      /\ slot' = [slot EXCEPT ![s] = outcome]
      /\ objective' = [objective EXCEPT ![s] =
               IF outcome = "executed" THEN "completed" ELSE "denied"]
      /\ IF LastOpen(s)
         THEN run' = "completed" /\ completions' = completions + 1
         ELSE run' = "waiting_approval" /\ completions' = completions
      /\ Ends(q)
  BY DEF Deciding, Decide, Ends
<1>2. slot[s] = "pending_confirmation"
  BY DEF IInv, HoldInv, SlotHeld
<1>3. SettlesDraft(q, s, outcome) => applied[s] = 0
  BY DraftInHand DEF SettlesDraft
<1>4. run # "completed" /\ completions = 0
  BY <1>2 DEF IInv, Story, RunCompletesWithItsSlots, Final
<1>5. completions' \in {0, 1} /\ run' \in {"completed", "waiting_approval"}
  BY <1>1, <1>4
<1>6. SlotsTypeOK'
  <2>1. /\ slot' \in [Slots -> SlotStates]
        /\ objective' \in [Slots -> ObjectiveStates]
    BY <1>1 DEF IInv, SlotsTypeOK, SlotStates, Final, ObjectiveStates
  <2>2. draft' \in [Slots -> DraftStates] /\ applied' \in [Slots -> Nat]
    BY DEF SettlesDraft, DraftOf, IInv, SlotsTypeOK, DraftStates
  <2>3. call' \in [Requests -> Calls]
    BY <1>1, EndOfCall DEF IInv
  <2> QED
    BY <1>5, <2>1, <2>2, <2>3
       DEF IInv, SlotsTypeOK, RunStates, queueVars, workVars
<1>7. JobInv'
  BY <1>1 DEF IInv, JobInv, workVars
<1>8. HoldInv'
  <2>1. \A r \in Requests \ {q}, t \in Slots :
            Deciding(r, t) => slot'[t] = slot[t]
    BY <1>1 DEF IInv, SlotsTypeOK, HoldInv, SlotHeld
  <2>2. \A r \in Requests \ {q}, t \in Slots :
            Drafting(r, t) => draft'[t] = draft[t]
    BY DEF IInv, SlotsTypeOK, HoldInv, DraftHeld, SettlesDraft
  <2> QED
    BY <1>1, <2>1, <2>2, HoldAfterEnd DEF IInv
<1>9. DraftFollowsProposal'
  <2> SUFFICES ASSUME NEW t \in Slots
               PROVE  /\ slot'[t] \in {"absent", "queued", "denied"}
                           => draft'[t] = "none"
                      /\ draft'[t] # "none" => t \in RecordSlots
    BY DEF DraftFollowsProposal, RecordSlots
  <2>1. CASE t = s
    <3>1. slot'[s] = outcome
      BY <1>1 DEF IInv, SlotsTypeOK
    <3>2. draft'[s] # "none" => s \in RecordSlots
      BY DraftInHand DEF SettlesDraft, IInv, Story, DraftFollowsProposal
    <3> QED
      BY <2>1, <3>1, <3>2
  <2>2. CASE t # s
    <3>1. slot'[t] = slot[t] /\ draft'[t] = draft[t]
      BY <2>2, <1>1 DEF SettlesDraft, IInv, SlotsTypeOK
    <3> QED
      BY <3>1 DEF IInv, Story, DraftFollowsProposal
  <2> QED
    BY <2>1, <2>2
<1>10. SlotsFollowRun'
  BY <1>5 DEF SlotsFollowRun
<1>11. RunCompletesWithItsSlots'
  <2>1. /\ slot'[s] = outcome
        /\ \A t \in Slots \ {s} : slot'[t] = slot[t]
    BY <1>1 DEF IInv, SlotsTypeOK
  <2>2. CASE LastOpen(s)
    BY <2>1, <2>2, <1>1, <1>4 DEF LastOpen, RunCompletesWithItsSlots, Final
  <2>3. CASE ~LastOpen(s)
    BY <2>1, <2>3, <1>1, <1>4 DEF LastOpen, RunCompletesWithItsSlots
  <2> QED
    BY <2>2, <2>3
<1>12. ObjectiveFollowsSlot'
  BY <1>1 DEF IInv, SlotsTypeOK, Story, ObjectiveFollowsSlot
<1>13. OutcomeMatchesDraft'
  <2> SUFFICES ASSUME NEW t \in RecordSlots
               PROVE  /\ slot'[t] = "executed" => draft'[t] = "confirmed"
                      /\ slot'[t] = "rejected" => draft'[t] = "rejected"
                      /\ applied'[t] = IF draft'[t] = "confirmed"
                                       THEN 1 ELSE 0
    BY DEF OutcomeMatchesDraft, RecordSlots
  <2>1. t \in Slots
    BY DEF RecordSlots
  <2>2. CASE t = s
    BY <2>1, <2>2, <1>1, <1>3
       DEF SettlesDraft, DraftOf, IInv, SlotsTypeOK
  <2>3. CASE t # s
    <3>1. /\ slot'[t] = slot[t] /\ draft'[t] = draft[t]
          /\ applied'[t] = applied[t]
      BY <2>1, <2>3, <1>1 DEF SettlesDraft, IInv, SlotsTypeOK
    <3> QED
      BY <3>1 DEF IInv, Story, OutcomeMatchesDraft
  <2> QED
    BY <2>2, <2>3
<1> QED
  BY <1>6, <1>7, <1>8, <1>9, <1>10, <1>11, <1>12, <1>13 DEF IInv, Story

\* The locks a decision has when it commits.
LEMMA ReadyLocks ==
    ASSUME IInv, NEW q \in Requests, NEW op \in Operations, Ready(q, op)
    PROVE  /\ call[q].slot \in Slots
           /\ op \in Decisions => Deciding(q, call[q].slot)
           /\ op \in DraftOps => Drafting(q, call[q].slot)
           /\ op \in Decisions /\ call[q].slot \in RecordSlots
                => Drafting(q, call[q].slot)
<1>1. call[q].at # "idle" /\ call[q].op = op
  BY DEF Ready
<1> QED
  BY <1>1, BusyCall
     DEF IInv, HoldInv, DraftOpsDraft, Ready, Deciding, Drafting

LEMMA ConfirmStep ==
    ASSUME IInv, NEW q \in Requests, Confirm(q)
    PROVE  IInv'
<1> DEFINE s == call[q].slot
<1>1. Ready(q, "confirm") /\ Decide(q, "executed")
  BY DEF Confirm
<1>2. /\ s \in Slots /\ Deciding(q, s)
      /\ s \in RecordSlots => Drafting(q, s)
  BY <1>1, ReadyLocks DEF Operations, Decisions
<1>3. CASE s \in RecordSlots
  <2>1. ApplyDraft(q) /\ UNCHANGED <<queueVars, workVars>>
    BY <1>3 DEF Confirm
  <2>2. /\ SettlesDraft(q, s, "executed")
        /\ version' \in [Slots -> Nat]
    BY <1>2, <1>3, <2>1, AppliedOnce DEF SettlesDraft, DraftOf
  <2> QED
    BY <1>1, <1>2, <2>1, <2>2, DecideStep
<1>4. CASE s \notin RecordSlots
  <2>1. UNCHANGED <<draft, applied, version, queueVars, workVars>>
    BY <1>4 DEF Confirm, recordVars
  <2>2. version' \in [Slots -> Nat]
    BY <2>1 DEF IInv, SlotsTypeOK
  <2> QED
    BY <1>1, <1>2, <1>4, <2>1, <2>2, DecideStep
<1> QED
  BY <1>3, <1>4

LEMMA RejectStep ==
    ASSUME IInv, NEW q \in Requests, Reject(q)
    PROVE  IInv'
<1> DEFINE s == call[q].slot
<1>1. Ready(q, "reject") /\ Decide(q, "rejected")
  BY DEF Reject
<1>2. /\ s \in Slots /\ Deciding(q, s)
      /\ s \in RecordSlots => Drafting(q, s)
  BY <1>1, ReadyLocks DEF Operations, Decisions
<1>3. UNCHANGED <<applied, version, queueVars, workVars>>
  BY DEF Reject, recordVars
<1>4. \/ SettlesDraft(q, s, "rejected")
      \/ s \notin RecordSlots /\ UNCHANGED <<draft, applied>>
  BY <1>2, <1>3 DEF Reject, SettlesDraft, DraftOf
<1>5. version' \in [Slots -> Nat]
  BY <1>3 DEF IInv, SlotsTypeOK
<1> QED
  BY <1>1, <1>2, <1>3, <1>4, <1>5, DecideStep

\* A draft decided behind the back of its slot: no decision was given yet.
LEMMA DraftStep ==
    ASSUME IInv, NEW q \in Requests, NEW s \in Slots, Drafting(q, s), Ends(q),
           NEW outcome \in {"executed", "rejected"},
           SettlesDraft(q, s, outcome),
           version' \in [Slots -> Nat],
           UNCHANGED <<slot, objective, runVars, queueVars, workVars>>
    PROVE  IInv'
<1>1. /\ s \in RecordSlots /\ applied[s] = 0
      /\ slot[s] \notin {"absent", "queued", "denied", "executed", "rejected"}
      /\ \A r \in Requests : Drafting(r, s) => r = q
  BY DraftInHand
<1>2. \A t \in Slots \ {s} : draft'[t] = draft[t] /\ applied'[t] = applied[t]
  BY DEF SettlesDraft, IInv, SlotsTypeOK
<1>3. /\ draft'[s] = DraftOf(outcome)
      /\ applied'[s] = IF outcome = "executed" THEN 1 ELSE 0
  BY <1>1 DEF SettlesDraft, IInv, SlotsTypeOK
<1>4. SlotsTypeOK'
  <2>1. draft' \in [Slots -> DraftStates] /\ applied' \in [Slots -> Nat]
    BY DEF SettlesDraft, DraftOf, IInv, SlotsTypeOK, DraftStates
  <2>2. call' \in [Requests -> Calls]
    BY EndOfCall DEF IInv
  <2> QED
    BY <2>1, <2>2 DEF IInv, SlotsTypeOK, runVars, queueVars, workVars
<1>5. JobInv'
  BY DEF IInv, JobInv, workVars
<1>6. HoldInv'
  <2>1. \A r \in Requests \ {q}, t \in Slots :
            /\ Deciding(r, t) => slot'[t] = slot[t]
            /\ Drafting(r, t) => draft'[t] = draft[t]
    BY <1>1, <1>2
  <2> QED
    BY <2>1, HoldAfterEnd DEF IInv
<1>7. DraftFollowsProposal' /\ SlotsFollowRun'
  BY <1>1, <1>2
     DEF IInv, Story, DraftFollowsProposal, SlotsFollowRun, runVars
<1>8. RunCompletesWithItsSlots' /\ ObjectiveFollowsSlot'
  BY DEF IInv, Story, RunCompletesWithItsSlots, ObjectiveFollowsSlot, runVars
<1>9. OutcomeMatchesDraft'
  BY <1>1, <1>2, <1>3
     DEF DraftOf, IInv, Story, OutcomeMatchesDraft, RecordSlots
<1> QED
  BY <1>4, <1>5, <1>6, <1>7, <1>8, <1>9 DEF IInv, Story

LEMMA ConfirmDraftStep ==
    ASSUME IInv, NEW q \in Requests, ConfirmDraft(q)
    PROVE  IInv'
<1> DEFINE s == call[q].slot
<1>1. /\ Ready(q, "confirm_draft") /\ ApplyDraft(q) /\ Ends(q)
      /\ UNCHANGED <<slot, objective, runVars, queueVars, workVars>>
  BY DEF ConfirmDraft, Ends
<1>2. s \in Slots /\ Drafting(q, s)
  BY <1>1, ReadyLocks DEF Operations, DraftOps
<1>3. SettlesDraft(q, s, "executed") /\ version' \in [Slots -> Nat]
  BY <1>1, <1>2, AppliedOnce DEF SettlesDraft, DraftOf
<1> QED
  BY <1>1, <1>2, <1>3, DraftStep

LEMMA RejectDraftStep ==
    ASSUME IInv, NEW q \in Requests, RejectDraft(q)
    PROVE  IInv'
<1> DEFINE s == call[q].slot
<1>1. /\ Ready(q, "reject_draft") /\ Ends(q)
      /\ draft' = [draft EXCEPT ![s] = "rejected"]
      /\ UNCHANGED <<slot, objective, applied, version, runVars, queueVars,
                     workVars>>
  BY DEF RejectDraft, Ends, recordVars
<1>2. s \in Slots /\ Drafting(q, s)
  BY <1>1, ReadyLocks DEF Operations, DraftOps
<1>3. SettlesDraft(q, s, "rejected") /\ version' \in [Slots -> Nat]
  BY <1>1, <1>2 DEF SettlesDraft, DraftOf, IInv, SlotsTypeOK
<1> QED
  BY <1>1, <1>2, <1>3, DraftStep

-----------------------------------------------------------------------------
(***************************************************************************)
(* The invariant.                                                          *)
(***************************************************************************)
LEMMA InitInv == Init => IInv
<1> SUFFICES ASSUME Init
             PROVE  IInv
  OBVIOUS
<1>1. SlotsTypeOK
  BY IdleFields
     DEF Init, SlotsTypeOK, SlotStates, ObjectiveStates, DraftStates,
         RunStates, EntryStates, BaseVersion
<1>2. JobInv
  BY IdleFields DEF Init, JobInv
<1>3. HoldInv
  BY IdleFields
     DEF Init, HoldInv, SlotHeld, DraftHeld, DraftOpsDraft, Deciding, Drafting
<1>4. Story
  <2>1. DraftFollowsProposal /\ SlotsFollowRun
    BY DEF Init, DraftFollowsProposal, SlotsFollowRun
  <2>2. RunCompletesWithItsSlots /\ ObjectiveFollowsSlot
    BY DEF Init, RunCompletesWithItsSlots, ObjectiveFollowsSlot, Final
  <2>3. OutcomeMatchesDraft
    BY DEF Init, OutcomeMatchesDraft, RecordSlots
  <2> QED
    BY <2>1, <2>2, <2>3 DEF Story
<1> QED
  BY <1>1, <1>2, <1>3, <1>4 DEF IInv

LEMMA RequestDiesEnds ==
    ASSUME NEW q \in Requests, RequestDies(q)
    PROVE  Ends(q) /\ requestFrame
BY DEF RequestDies, Ends

\* The steps of Next, sorted by who takes them and what they settle.
QuietStep ==
    \/ Expire
    \/ \E w \in Workers : \/ \E s \in Slots : TakeRun(w, s)
                          \/ AckEntry(w) \/ WorkerDies(w)
    \/ \E q \in Requests :
         \/ \E s \in Slots :
              \/ \E op \in Decisions : OpenSlot(q, s, op)
              \/ \E op \in DraftOps : OpenDraft(q, s, op)
              \/ OpenEdit(q, s)
         \/ HoldDraft(q) \/ Refuse(q) \/ RequestDies(q) \/ Edit(q)

LEMMA StepSorts ==
    ASSUME Next
    PROVE  \/ QuietStep
           \/ \E denied \in SUBSET Slots : Admit(denied)
           \/ \E w \in Workers : Materialize(w) \/ Replay(w)
           \/ \E q \in Requests : \/ Confirm(q) \/ Reject(q)
                                  \/ ConfirmDraft(q) \/ RejectDraft(q)
BY DEF Next, QuietStep, WorkerStep, Finish, BreakDeadlock

LEMMA QuietInv ==
    ASSUME IInv, QuietStep
    PROVE  IInv'
<1>1. CASE Expire
  BY <1>1, ExpireStep
<1>2. ASSUME NEW w \in Workers,
             \/ \E s \in Slots : TakeRun(w, s)
             \/ AckEntry(w) \/ WorkerDies(w)
      PROVE  IInv'
  BY <1>2, TakeRunStep, AckEntryStep, WorkerDiesStep
<1>3. ASSUME NEW q \in Requests, NEW s \in Slots,
             \/ \E op \in Decisions : OpenSlot(q, s, op)
             \/ \E op \in DraftOps : OpenDraft(q, s, op)
             \/ OpenEdit(q, s)
      PROVE  IInv'
  BY <1>3, OpenSlotStep, OpenDraftStep, OpenEditStep
<1>4. ASSUME NEW q \in Requests,
             HoldDraft(q) \/ Refuse(q) \/ RequestDies(q) \/ Edit(q)
      PROVE  IInv'
  <2>1. CASE Refuse(q)
    BY <2>1, CallEndsStep DEF Refuse, Ends
  <2>2. CASE RequestDies(q)
    BY <2>2, RequestDiesEnds, CallEndsStep
  <2> QED
    BY <1>4, <2>1, <2>2, HoldDraftStep, EditStep
<1> QED
  BY <1>1, <1>2, <1>3, <1>4 DEF QuietStep

LEMMA StepInv ==
    ASSUME IInv, [Next]_vars
    PROVE  IInv'
<1>1. CASE UNCHANGED vars
  <2>1. SlotsTypeOK' /\ JobInv'
    BY <1>1 DEF vars, recordVars, runVars, queueVars, workVars, IInv,
                SlotsTypeOK, JobInv
  <2>2. HoldInv'
    BY <1>1, HoldFrame DEF vars, IInv
  <2>3. Story'
    BY <1>1, StoryFrame DEF vars, runVars, IInv
  <2> QED
    BY <2>1, <2>2, <2>3 DEF IInv
<1>2. CASE Next
  BY <1>2, StepSorts, QuietInv, AdmitStep, MaterializeStep, ReplayStep,
     ConfirmStep, RejectStep, ConfirmDraftStep, RejectDraftStep
<1> QED
  BY <1>1, <1>2

LEMMA Invariance == Spec => []IInv
<1> QED
  BY InitInv, StepInv, PTL DEF Spec

-----------------------------------------------------------------------------
(***************************************************************************)
(* Theorems.                                                               *)
(***************************************************************************)

\* Every variable keeps its type, whatever the workers and requests do.
THEOREM SlotsTypeCorrect == Spec => []SlotsTypeOK
<1>1. IInv => SlotsTypeOK
  BY DEF IInv
<1> QED
  BY <1>1, Invariance, PTL

\* Decisions of different slots commit in any order and between any steps of
\* the workers: the run is completed by the last of them, with one event.
THEOREM RunCompletesOnce == Spec => []RunCompletesWithItsSlots
<1>1. IInv => RunCompletesWithItsSlots
  BY DEF IInv, Story
<1> QED
  BY <1>1, Invariance, PTL

\* A worker that was given the command of a slot again never takes back the
\* objective of a slot the user has decided.
THEOREM ObjectiveStaysWithSlot == Spec => []ObjectiveFollowsSlot
<1>1. IInv => ObjectiveFollowsSlot
  BY DEF IInv, Story
<1> QED
  BY <1>1, Invariance, PTL

\* The outcome of a slot is the outcome of its draft, and a draft is applied
\* once, by whichever of the two routes comes first.
THEOREM OutcomeIsOfDraft == Spec => []OutcomeMatchesDraft
<1>1. IInv => OutcomeMatchesDraft
  BY DEF IInv, Story
<1> QED
  BY <1>1, Invariance, PTL

-----------------------------------------------------------------------------
(***************************************************************************)
(* A record slot as an item of AtMostOnce: admission submits or refuses    *)
(* it, the route of the draft performs it, a decision reports or drops it. *)
(***************************************************************************)
ItemMoves(s) ==
    LET a == StageOf(s)
        n == applied[s]
    IN  \/ Once!Submit(a, n, a', n') \/ Once!Refuse(a, n, a', n')
        \/ Once!Perform(a, n, a', n') \/ Once!Drop(a, n, a', n')
        \/ Once!Report(a, n, a', n') \/ Once!Rest(a, n, a', n')

LEMMA RestingItem ==
    ASSUME NEW s \in RecordSlots, slot'[s] = slot[s], applied'[s] = applied[s]
    PROVE  ItemMoves(s)
BY DEF ItemMoves, StageOf, Once!Rest

LEMMA AdmittedItem ==
    ASSUME IInv, NEW denied \in SUBSET Slots, Admit(denied),
           NEW s \in RecordSlots
    PROVE  ItemMoves(s)
<1>1. /\ s \in Slots /\ slot[s] = "absent" /\ applied'[s] = applied[s]
      /\ slot'[s] = IF s \in denied THEN "denied" ELSE "queued"
  BY DEF Admit, recordVars, IInv, Story, SlotsFollowRun, RecordSlots
<1> QED
  BY <1>1 DEF ItemMoves, StageOf, Once!Submit, Once!Refuse

LEMMA MaterializedItem ==
    ASSUME IInv, NEW w \in Workers, Materialize(w), NEW s \in RecordSlots
    PROVE  ItemMoves(s)
<1>1. /\ s \in Slots /\ slot[job[w].slot] = "queued" /\ UNCHANGED applied
      /\ slot' = [slot EXCEPT ![job[w].slot] = "pending_confirmation"]
  BY DEF Materialize, recordVars, IInv, JobInv, RecordSlots
<1>2. CASE s = job[w].slot
  <2>1. StageOf(s) = "waiting" /\ StageOf(s)' = "waiting"
    BY <1>1, <1>2 DEF StageOf, IInv, SlotsTypeOK
  <2> QED
    BY <1>1, <2>1 DEF ItemMoves, Once!Rest
<1>3. CASE s # job[w].slot
  BY <1>1, <1>3, RestingItem DEF IInv, SlotsTypeOK
<1> QED
  BY <1>2, <1>3

\* A decision: executed with its effect, or rejected without one.
LEMMA DecidedItem ==
    ASSUME IInv, NEW q \in Requests, Confirm(q) \/ Reject(q),
           NEW s \in RecordSlots
    PROVE  ItemMoves(s)
<1>1. s \in Slots
  BY DEF RecordSlots
<1> DEFINE t == call[q].slot
<1>2. CASE Confirm(q)
  <2>1. /\ t \in Slots /\ Deciding(q, t)
        /\ t \in RecordSlots => Drafting(q, t)
    BY <1>2, ReadyLocks DEF Confirm, Operations, Decisions
  <2>2. slot' = [slot EXCEPT ![t] = "executed"]
    BY <1>2 DEF Confirm, Decide
  <2>3. CASE s = t
    <3>1. ApplyDraft(q)
      BY <1>2, <2>3 DEF Confirm
    <3>2. applied' = [applied EXCEPT ![s] = 1] /\ applied[s] = 0
      BY <2>1, <2>3, <3>1, AppliedOnce, DraftInHand
    <3>3. slot[s] = "pending_confirmation"
      BY <2>1, <2>3 DEF IInv, HoldInv, SlotHeld
    <3>4. StageOf(s) = "waiting" /\ StageOf(s)' = "done" /\ applied'[s] = 1
      BY <1>1, <2>2, <2>3, <3>2, <3>3 DEF StageOf, IInv, SlotsTypeOK
    <3> QED
      BY <3>2, <3>4 DEF ItemMoves, Once!Report
  <2>4. CASE s # t
    <3>1. applied'[s] = applied[s]
      BY <1>2, <1>1, <2>4
         DEF Confirm, ApplyDraft, recordVars, IInv, SlotsTypeOK
    <3> QED
      BY <1>1, <2>2, <2>4, <3>1, RestingItem DEF IInv, SlotsTypeOK
  <2> QED
    BY <2>3, <2>4
<1>3. CASE Reject(q)
  <2>1. t \in Slots /\ Deciding(q, t)
    BY <1>3, ReadyLocks DEF Reject, Operations, Decisions
  <2>2. slot' = [slot EXCEPT ![t] = "rejected"] /\ UNCHANGED applied
    BY <1>3 DEF Reject, Decide, recordVars
  <2>3. CASE s = t
    <3>1. slot[s] = "pending_confirmation"
      BY <2>1, <2>3 DEF IInv, HoldInv, SlotHeld
    <3>2. StageOf(s) = "waiting" /\ StageOf(s)' = "dropped"
      BY <1>1, <2>2, <2>3, <3>1 DEF StageOf, IInv, SlotsTypeOK
    <3> QED
      BY <2>2, <3>2 DEF ItemMoves, Once!Drop
  <2>4. CASE s # t
    BY <1>1, <2>2, <2>4, RestingItem DEF IInv, SlotsTypeOK
  <2> QED
    BY <2>3, <2>4
<1> QED
  BY <1>2, <1>3

\* The route of the draft: the effect comes before its report.
LEMMA DraftedItem ==
    ASSUME IInv, NEW q \in Requests, ConfirmDraft(q) \/ RejectDraft(q),
           NEW s \in RecordSlots
    PROVE  ItemMoves(s)
<1>1. s \in Slots /\ UNCHANGED slot
  BY DEF RecordSlots, ConfirmDraft, RejectDraft
<1> DEFINE t == call[q].slot
<1>2. CASE ConfirmDraft(q)
  <2>1. /\ t \in Slots /\ Drafting(q, t) /\ ApplyDraft(q)
    BY <1>2, ReadyLocks DEF ConfirmDraft, Operations, DraftOps
  <2>2. applied' = [applied EXCEPT ![t] = 1]
    BY <2>1, AppliedOnce
  <2>3. CASE s = t
    <3>1. /\ applied[s] = 0 /\ slot[s] \in SlotStates
          /\ slot[s] \notin {"absent", "queued", "denied", "executed",
                             "rejected"}
      BY <1>1, <2>1, <2>3, DraftInHand DEF IInv, SlotsTypeOK
    <3>2. StageOf(s) = "waiting" /\ StageOf(s)' = "waiting"
      BY <1>1, <3>1 DEF StageOf
    <3>3. applied'[s] = 1
      BY <1>1, <2>2, <2>3 DEF IInv, SlotsTypeOK
    <3> QED
      BY <3>1, <3>2, <3>3 DEF ItemMoves, Once!Perform
  <2>4. CASE s # t
    BY <1>1, <2>2, <2>4, RestingItem DEF IInv, SlotsTypeOK
  <2> QED
    BY <2>3, <2>4
<1>3. CASE RejectDraft(q)
  BY <1>1, <1>3, RestingItem DEF RejectDraft, recordVars
<1> QED
  BY <1>2, <1>3

LEMMA EveryItemMoves ==
    ASSUME IInv, [Next]_vars, NEW s \in RecordSlots
    PROVE  ItemMoves(s)
<1>1. CASE UNCHANGED vars
  BY <1>1, RestingItem DEF vars, recordVars
<1>2. CASE QuietStep
  <2>1. UNCHANGED <<slot, applied>>
    BY <1>2 DEF QuietStep, Expire, TakeRun, AckEntry, WorkerDies, OpenSlot,
                OpenDraft, OpenEdit, HoldDraft, Refuse, RequestDies, Edit,
                requestFrame, recordVars
  <2> QED
    BY <2>1, RestingItem
<1>3. CASE \E denied \in SUBSET Slots : Admit(denied)
  BY <1>3, AdmittedItem
<1>4. ASSUME NEW w \in Workers, Materialize(w) \/ Replay(w)
      PROVE  ItemMoves(s)
  BY <1>4, MaterializedItem, RestingItem DEF Replay, recordVars
<1>5. CASE \E q \in Requests : \/ Confirm(q) \/ Reject(q)
                               \/ ConfirmDraft(q) \/ RejectDraft(q)
  BY <1>5, DecidedItem, DraftedItem
<1> QED
  BY <1>1, <1>2, <1>3, <1>4, <1>5, StepSorts

\* The durable actions keep the promise of AtMostOnce for record changes: a
\* change reaches its record at most once, it is reported executed only with
\* its effect, and no outcome is taken back, for every set of slots, workers
\* and requests.
THEOREM ActionsAreOnce == Spec => SlotOnceSpec
<1>1. Init => Once!AbsInit
  BY DEF Init, Once!AbsInit, StageOf, RecordSlots
<1>2. ASSUME IInv, IInv', [Next]_vars
      PROVE  Once!AbsNext
  <2>1. \A s \in RecordSlots : ItemMoves(s)
    BY <1>2, EveryItemMoves
  <2>2. \A s \in RecordSlots : /\ StageOf(s)' \in Once!Stages
                               /\ applied'[s] \in {0, 1}
    BY <1>2
       DEF StageOf, Once!Stages, IInv, Story, OutcomeMatchesDraft, RecordSlots
  <2> QED
    BY <2>1, <2>2 DEF Once!AbsNext, ItemMoves, RecordSlots
<1>3. ASSUME IInv, IInv', [Next]_vars
      PROVE  [Once!AbsNext]_<<[s \in RecordSlots |-> StageOf(s)],
                              [s \in RecordSlots |-> applied[s]]>>
  BY <1>2, <1>3
<1> QED
  BY <1>1, <1>3, Invariance, PTL DEF Spec, SlotOnceSpec, Once!AbsSpec

-----------------------------------------------------------------------------
(***************************************************************************)
(* Who waits for whom.  A request goes on when the lock it needs next is   *)
(* free: the row of the run to decide, the row of the draft before that.   *)
(* A worker goes on when no decision holds the row of its slot.  (These    *)
(* are the guards of HoldDraft, Refuse, Finish, WorkerStep and AckEntry.)  *)
(***************************************************************************)
GoesOn(q) ==
    \/ \E op \in Operations :
          Ready(q, op) /\ (op \in Decisions => runLock = {})
    \/ /\ call[q].at = "checked"
       /\ call[q].op \in Decisions
       /\ call[q].slot \in RecordSlots
       /\ ~DraftLocked(call[q].slot)

WorkerGoesOn(w) ==
    \/ job[w].at = "acking"
    \/ /\ job[w].at = "proposing"
       /\ job[w].status \in {"queued", "pending_confirmation"}
       /\ ~SlotLocked(job[w].slot)

\* q goes on, or whoever holds the draft of q does.
DraftWaitEnds(q) ==
    GoesOn(q) \/ \E r \in Requests : Drafting(r, call[q].slot) /\ GoesOn(r)

\* w goes on, or whoever decides on its slot does or is in a deadlock with w.
WorkerWaitEnds(w) ==
    \/ WorkerGoesOn(w)
    \/ \E q \in Requests :
          Deciding(q, job[w].slot) /\ (Deadlock(w, q) \/ DraftWaitEnds(q))

(***************************************************************************)
(* The only cycle of waits is the one PostgreSQL breaks: from every        *)
(* transaction the waits lead, over a draft, the run and a slot at most,   *)
(* to one that goes on or to a worker and a decision that hold the run     *)
(* and the slot the other wants.                                           *)
(***************************************************************************)
OneDeadlockOnly ==
    /\ \A w \in Workers : job[w] # NoJob => WorkerWaitEnds(w)
    /\ \A q \in Requests :
          call[q] # NoCall =>
              DraftWaitEnds(q) \/ \E w \in runLock : WorkerWaitEnds(w)

\* The lock of the run is held by a worker that is proposing.
RunIsHeld == \A w \in runLock : w \in Workers /\ job[w].at = "proposing"

LEMMA RunIsHeldStep ==
    ASSUME SlotsTypeOK, RunIsHeld, [Next]_vars
    PROVE  RunIsHeld'
<1> USE DEF RunIsHeld, SlotsTypeOK
<1>1. ASSUME UNCHANGED workVars
      PROVE  RunIsHeld'
  BY <1>1 DEF workVars
<1>2. ASSUME NEW w \in Workers, NEW s \in Slots, TakeRun(w, s)
      PROVE  RunIsHeld'
  BY <1>2 DEF TakeRun
<1>3. ASSUME NEW w \in Workers, AckEntry(w)
      PROVE  RunIsHeld'
  BY <1>3 DEF AckEntry
<1>4. ASSUME NEW w \in Workers, Materialize(w) \/ Replay(w) \/ WorkerDies(w)
      PROVE  RunIsHeld'
  BY <1>4 DEF Materialize, Replay, Committed, WorkerDies
<1>5. CASE \/ Expire \/ UNCHANGED vars
           \/ \E denied \in SUBSET Slots : Admit(denied)
  BY <1>1, <1>5 DEF Expire, Admit, vars, workVars
<1>6. ASSUME NEW q \in Requests,
             \/ \E s \in Slots :
                  \/ \E op \in Decisions : OpenSlot(q, s, op)
                  \/ \E op \in DraftOps : OpenDraft(q, s, op)
                  \/ OpenEdit(q, s)
             \/ HoldDraft(q) \/ Refuse(q) \/ Finish(q) \/ RequestDies(q)
      PROVE  RunIsHeld'
  <2>1. UNCHANGED workVars
    BY <1>6 DEF OpenSlot, OpenDraft, OpenEdit, HoldDraft, Refuse, RequestDies,
                requestFrame, Finish, Confirm, Reject, ConfirmDraft,
                RejectDraft, Edit
  <2> QED
    BY <1>1, <2>1
<1> QED
  BY <1>2, <1>3, <1>4, <1>5, <1>6 DEF Next, WorkerStep, BreakDeadlock

\* A request that needs a lock other than that of the run needs the draft,
\* and who has that goes on.
LEMMA DraftWaits ==
    ASSUME IInv, NEW q \in Requests, call[q].at # "idle"
    PROVE  DraftWaitEnds(q) \/ \E op \in Decisions : Ready(q, op)
<1>1. /\ call[q].at \in {"checked", "drafting"}
      /\ call[q].op \in Operations
      /\ call[q].slot \in Slots
  BY BusyCall DEF IInv
<1>2. CASE Ready(q, call[q].op)
  BY <1>1, <1>2 DEF DraftWaitEnds, GoesOn
<1>3. CASE ~Ready(q, call[q].op)
  <2>1. /\ call[q].at = "checked" /\ call[q].op \in Decisions
        /\ call[q].slot \in RecordSlots
    BY <1>1, <1>3 DEF Ready
  <2>2. ASSUME NEW r \in Requests, Drafting(r, call[q].slot)
        PROVE  GoesOn(r)
    <3>1. /\ call[r].at = "drafting" /\ call[r].slot = call[q].slot
          /\ call[r].op \in Operations
      BY <2>2, BusyCall DEF IInv, Drafting
    <3>2. call[r].op \notin Decisions
      BY <1>1, <2>1, <3>1 DEF IInv, HoldInv, SlotHeld, Deciding
    <3>3. Ready(r, call[r].op)
      BY <3>1 DEF Ready
    <3> QED
      BY <3>1, <3>2, <3>3 DEF GoesOn
  <2>3. CASE DraftLocked(call[q].slot)
    BY <2>2, <2>3 DEF DraftLocked, On, Drafting, DraftWaitEnds
  <2>4. CASE ~DraftLocked(call[q].slot)
    BY <2>1, <2>4 DEF GoesOn, DraftWaitEnds
  <2> QED
    BY <2>3, <2>4
<1> QED
  BY <1>2, <1>3

LEMMA WorkerWaits ==
    ASSUME IInv, NEW w \in Workers, job[w].at # "idle"
    PROVE  WorkerWaitEnds(w)
<1>1. job[w].at \in {"proposing", "acking"} /\ job[w].slot \in Slots
  BY BusyJob, JobFields DEF IInv, SlotsTypeOK
<1>2. CASE job[w].at = "proposing" /\ SlotLocked(job[w].slot)
  <2>1. PICK q \in Requests : Deciding(q, job[w].slot)
    BY <1>2 DEF SlotLocked, On, Deciding
  <2>2. runLock = {w} /\ On(q, job[w].slot) /\ call[q].at # "idle"
    BY <1>2, <2>1 DEF IInv, JobInv, Deciding, On
  <2>3. DraftWaitEnds(q) \/ Deadlock(w, q)
    BY <1>2, <2>2, DraftWaits DEF Deadlock
  <2> QED
    BY <2>1, <2>3 DEF WorkerWaitEnds
<1>3. CASE job[w].at = "proposing" /\ ~SlotLocked(job[w].slot)
  BY <1>3 DEF IInv, JobInv, WorkerWaitEnds, WorkerGoesOn
<1> QED
  BY <1>1, <1>2, <1>3 DEF WorkerWaitEnds, WorkerGoesOn

\* Every chain of waits ends, for every set of slots, workers and requests.
THEOREM WaitsHaveAnEnd == Spec => []OneDeadlockOnly
<1>1. Init => RunIsHeld
  BY DEF Init, RunIsHeld
<1>2. IInv /\ RunIsHeld /\ [Next]_vars => RunIsHeld'
  BY RunIsHeldStep DEF IInv
<1>3. IInv /\ RunIsHeld => OneDeadlockOnly
  <2> SUFFICES ASSUME IInv, RunIsHeld
               PROVE  OneDeadlockOnly
    OBVIOUS
  <2>1. ASSUME NEW w \in Workers, job[w] # NoJob
        PROVE  WorkerWaitEnds(w)
    BY <2>1, JobFields, WorkerWaits DEF IInv, SlotsTypeOK
  <2>2. ASSUME NEW q \in Requests, call[q] # NoCall
        PROVE  DraftWaitEnds(q) \/ \E w \in runLock : WorkerWaitEnds(w)
    <3>1. call[q].at # "idle"
      BY <2>2, CallFields DEF IInv, SlotsTypeOK
    <3>2. CASE runLock = {}
      BY <3>1, <3>2, DraftWaits DEF DraftWaitEnds, GoesOn, Operations
    <3>3. CASE runLock # {}
      BY <3>3, WorkerWaits DEF RunIsHeld
    <3> QED
      BY <3>2, <3>3
  <2> QED
    BY <2>1, <2>2 DEF OneDeadlockOnly
<1> QED
  BY <1>1, <1>2, <1>3, Invariance, PTL DEF Spec
=============================================================================
