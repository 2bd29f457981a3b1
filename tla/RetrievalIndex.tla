--------------------------- MODULE RetrievalIndex ---------------------------
(***************************************************************************)
(* The Retrieval V2 index of one authorized scope (one employee, one       *)
(* actor): how changes of the platform reach the indexed rows.             *)
(* - Platform requests change records, labels and field permissions and    *)
(*   write outbox events in the same commit (services/stage06_platform.py);*)
(* - a retrieval request registers its scope for fifteen minutes, or again *)
(*   (services/retrieval_v2_registration.py);                              *)
(* - the dispatcher (workers/retrieval_v2_outbox_runtime.py) handles the   *)
(*   events: a source change or a bootstrap page becomes projection        *)
(*   requests, a projection request becomes a row of the index (services/  *)
(*   retrieval_v2_indexing.py).                                            *)
(* Outbox keys are idempotent: an event that exists is not written again,  *)
(* whatever its status.                                                    *)
(*                                                                         *)
(* A handler reads, may wait for the embedding provider, and commits; the  *)
(* platform goes on in between.  The runtime starts one dispatcher; here   *)
(* it commits event by event and in any order, where the code takes up to  *)
(* twenty by created_at.  The schema generation stands for all that the    *)
(* proof of a registration covers.  The bridge of module OutboxPipeline    *)
(* also takes these events; here it does not run.                          *)
(***************************************************************************)
EXTENDS Naturals

CONSTANTS
    NumRecords,    \* records of the one table
    MaxVersion,    \* bound on the version of a record
    MaxSchema,     \* bound on the schema generation
    MaxGens,       \* bound on the generations of the registration
    PageSize,      \* sources of one bootstrap page
    MaxAttempts,   \* max_attempts of an event
    LabelMoves,    \* whether a change of fields may leave the visible ones as
                   \* they are (FALSE) or change them (TRUE)
    PolicyMoves,   \* the same of a change of permissions
    MaxFaults      \* bound on deaths of the dispatcher and on failures of
                   \* its reads and of the embedding provider

ASSUME BoundAssumption ==
    /\ NumRecords \in Nat
    /\ MaxVersion \in Nat \ {0}
    /\ MaxSchema \in Nat \ {0}
    /\ MaxGens \in Nat
    /\ PageSize \in Nat \ {0}
    /\ MaxAttempts \in Nat \ {0}
    /\ MaxFaults \in Nat
ASSUME MovesAssumption ==
    /\ LabelMoves \subseteq BOOLEAN
    /\ PolicyMoves \subseteq BOOLEAN

VARIABLES
    version,    \* record -> version
    schema,     \* stage12_schema_version, and the schema hash with it
    profile,    \* schema generation -> visibility profile
    reg,        \* status of the newest registration, "none" before the first
    gen,        \* its generation
    proof,      \* the schema generation it was made for, 0 when expires_at
                \* is over
    outbox,     \* event -> status, "absent" without a row
    attempts,   \* event -> attempts
    index,      \* key -> status of the row of the index, "none" without one
    text,       \* key -> schema generation its text was written with
    job,        \* what the dispatcher is doing
    faults      \* deaths and failures so far

vars == <<version, schema, profile, reg, gen, proof, outbox, attempts, index,
          text, job, faults>>

-----------------------------------------------------------------------------
Records == 1 .. NumRecords
Table == NumRecords + 1
Sources == 1 .. Table    \* in the order of the bootstrap cursor
Schemas == 1 .. MaxSchema
Versions == 1 .. (IF MaxVersion > MaxSchema THEN MaxVersion ELSE MaxSchema)
Profiles == Schemas    \* sets of visible fields, named by first generation
Keys == Sources \X Versions \X Profiles

Changes == [kind : {"changed"}, src : Sources, ver : Versions,
            why : {"data", "permission"}]
Pages == [kind : {"page"}, gen : 1 .. MaxGens, after : 0 .. Table]
Requests == [kind : {"wanted"}, src : Sources, ver : Versions, text : Schemas]
Events == Changes \cup Pages \cup Requests

EventStates == {"absent", "pending", "processed", "dead_letter"}
RowStates == {"none", "indexed", "stale", "revoked"}
RegStates == {"none", "active", "revoked"}

Change(s, v, w) == [kind |-> "changed", src |-> s, ver |-> v, why |-> w]
Page(g, s) == [kind |-> "page", gen |-> g, after |-> s]
Request(s, v, t) == [kind |-> "wanted", src |-> s, ver |-> v, text |-> t]

VersionOf(s) == IF s = Table THEN schema ELSE version[s]
CurrentRequest(s) == Request(s, VersionOf(s), schema)
CurrentKey(s) == <<s, VersionOf(s), profile[schema]>>

\* What a retrieval request releases of the source: the active row, if it is
\* the current projection.
Releasable(s) ==
    /\ index[CurrentKey(s)] = "indexed"
    /\ text[CurrentKey(s)] = schema

Usable == reg = "active" /\ proof = schema

\* The outbox with new events; one that exists is left as it is.
With(events) ==
    [e \in Events |-> IF e \in events /\ outbox[e] = "absent"
                      THEN "pending" ELSE outbox[e]]

RevokedRows ==
    [k \in Keys |-> IF index[k] = "none" THEN "none" ELSE "revoked"]

Idle == [at |-> "idle"]
Jobs == {Idle}
    \cup [at : {"revoking"}, ev : Events, gen : 1 .. MaxGens]
    \cup [at : {"embedding"}, ev : Requests, seen : SUBSET Keys]

platformVars == <<version, schema, profile>>
regVars == <<reg, gen, proof>>
indexVars == <<index, text>>

Init ==
    /\ version = [r \in Records |-> 1]
    /\ schema = 1
    /\ profile = [g \in Schemas |-> 1]
    /\ reg = "none"
    /\ gen = 0
    /\ proof = 0
    /\ outbox = [e \in Events |-> "absent"]
    /\ attempts = [e \in Events |-> 0]
    /\ index = [k \in Keys |-> "none"]
    /\ text = [k \in Keys |-> 1]
    /\ job = Idle
    /\ faults = 0

-----------------------------------------------------------------------------
(***************************************************************************)
(* The platform.                                                           *)
(***************************************************************************)

\* update_record.
Edit(r) ==
    /\ version[r] < MaxVersion
    /\ version' = [version EXCEPT ![r] = @ + 1]
    /\ outbox' = With({Change(r, version[r] + 1, "data")})
    /\ UNCHANGED <<schema, profile, regVars, attempts, indexVars, job,
                   faults>>

\* The profile of the next schema generation: visible fields stay, or move to a
\* new set or back to an earlier one.
NextProfile(moves) ==
    \E p \in 1 .. schema + 1 :
        /\ (p # profile[schema]) \in moves
        /\ profile' = [g \in Schemas |-> IF g > schema THEN p ELSE profile[g]]

\* A field is added, renamed or changed: other texts, and another profile if a
\* new field is visible.
Relabel ==
    /\ schema < MaxSchema
    /\ schema' = schema + 1
    /\ NextProfile(LabelMoves)
    /\ outbox' = With({Change(Table, schema + 1, "data")})
    /\ UNCHANGED <<version, regVars, attempts, indexVars, job, faults>>

\* The active rows of a source in a profile.
ActiveRows(s, p) ==
    {k \in Keys : k[1] = s /\ k[3] = p /\ index[k] = "indexed"}

Active(s) == \E p \in Profiles : ActiveRows(s, p) # {}

\* replace_field_permission_policy: the rows of a profile that has the field go
\* if a role lost it (hit is {} if none did) and one of them is active.
ChangePolicy(hit) ==
    /\ schema < MaxSchema
    /\ schema' = schema + 1
    /\ NextProfile(PolicyMoves)
    /\ index' = [k \in Keys |->
                   IF /\ k[3] \in hit
                      /\ ActiveRows(k[1], k[3]) # {}
                      /\ index[k] # "none"
                   THEN "revoked" ELSE index[k]]
    /\ outbox' = With({Change(Table, schema + 1, "permission")} \cup
                      {Change(r, version[r], "permission") :
                          r \in {q \in Records : Active(q)}})
    /\ UNCHANGED <<version, regVars, attempts, text, job, faults>>

\* expires_at passes.
Lapse ==
    /\ reg = "active"
    /\ proof # 0
    /\ proof' = 0
    /\ UNCHANGED <<platformVars, reg, gen, outbox, attempts, indexVars, job,
                   faults>>

(***************************************************************************)
(* register_authorized_retrieval_scope, in a retrieval request.  A usable  *)
(* registration is only refreshed: no step.  Any other is replaced.        *)
(***************************************************************************)
Register ==
    /\ ~Usable
    /\ gen < MaxGens
    /\ reg' = "active"
    /\ gen' = gen + 1
    /\ proof' = schema
    /\ outbox' = With({Page(gen + 1, 0)})
    /\ UNCHANGED <<platformVars, attempts, indexVars, job, faults>>

-----------------------------------------------------------------------------
(***************************************************************************)
(* The dispatcher.  A handler reads and commits.  Where requests are all   *)
(* that comes of it, that is one step: nothing the platform does in        *)
(* between would make a difference.                                        *)
(***************************************************************************)
Pending == {e \in Events : outbox[e] = "pending"}
Ready(e) == job = Idle /\ outbox[e] = "pending"

dispatcherFrame ==
    UNCHANGED <<platformVars, regVars, outbox, attempts, indexVars, faults>>

\* The registration an event goes by; a page goes by its own.
Governed(e) == reg = "active" /\ (e \in Pages => e.gen = gen)

\* A registration that has lapsed or drifted is to be revoked.
FindUnusable(e) ==
    /\ Ready(e)
    /\ Governed(e)
    /\ ~Usable
    /\ job' = [at |-> "revoking", ev |-> e, gen |-> gen]
    /\ dispatcherFrame

Settle(e, new) ==
    /\ outbox' = [With(new) EXCEPT ![e] = "processed"]
    /\ UNCHANGED <<platformVars, regVars, attempts, indexVars, job, faults>>

\* expand_retrieval_source_change_event: the projection of the source is
\* requested, if it still has the version of the event.
Expand(e) ==
    /\ Ready(e)
    /\ Governed(e) => Usable
    /\ Settle(e, IF Usable /\ VersionOf(e.src) = e.ver
                 THEN {CurrentRequest(e.src)} ELSE {})

\* Faulty variant: an event without attempts left waits for a retry.
RetryWithoutEnd(e) ==
    /\ attempts' = [attempts EXCEPT ![e] = @ + 1]
    /\ outbox' = [outbox EXCEPT ![e] = "retry"]

(***************************************************************************)
(* A handler raises.  RetryableOutboxError: the event waits for its next   *)
(* attempt, as pending here, or is a dead letter after the last one.       *)
(* NonRetryableOutboxError: it is a dead letter at once.  What the handler *)
(* wrote is rolled back with its savepoint.                                *)
(***************************************************************************)
RetryOrDrop(e) ==
    /\ attempts' = [attempts EXCEPT ![e] = @ + 1]
    /\ outbox' = IF attempts[e] + 1 >= MaxAttempts
                 THEN [outbox EXCEPT ![e] = "dead_letter"] ELSE outbox

Drop(e) ==
    /\ attempts' = [attempts EXCEPT ![e] = @ + 1]
    /\ outbox' = [outbox EXCEPT ![e] = "dead_letter"]

Fault == faults < MaxFaults /\ faults' = faults + 1

\* The projection of a change or of a request, or the bootstrap, cannot be read.
HandlerFails(e) ==
    /\ Ready(e)
    /\ Fault
    /\ RetryOrDrop(e)
    /\ UNCHANGED <<platformVars, regVars, indexVars, job>>

\* RetrievalRegistrationDenied in the bootstrap of a registration that stays
\* usable, as when its relations exceed their budget.
BootstrapDenied(e) ==
    /\ Ready(e)
    /\ Governed(e)
    /\ Usable
    /\ Fault
    /\ Drop(e)
    /\ UNCHANGED <<platformVars, regVars, indexVars, job>>

\* Faulty variant: the continuation starts behind its own first source.
OnPageSkipping(e) ==
    LET last == IF e.after + PageSize < Table THEN e.after + PageSize ELSE Table
    IN  {CurrentRequest(s) : s \in e.after + 1 .. last} \cup
        (IF last < Table THEN {Page(e.gen, last + 1)} ELSE {})

\* The requests of one page, and the page after it.
OnPage(e) ==
    LET last == IF e.after + PageSize < Table THEN e.after + PageSize ELSE Table
    IN  {CurrentRequest(s) : s \in e.after + 1 .. last} \cup
        (IF last < Table THEN {Page(e.gen, last)} ELSE {})

\* process_registered_scope_bootstrap; the page of a registration that is not
\* active any more is discarded.
Bootstrap(e) ==
    /\ Ready(e)
    /\ Governed(e) => Usable
    /\ Settle(e, IF Governed(e) THEN OnPage(e) ELSE {})

\* Faulty variant: the projection is not compared with the request.
ReadRequestOfAnyVersion(e) ==
    /\ Ready(e)
    /\ Usable
    /\ job' = [at |-> "embedding", ev |-> e,
               seen |-> ActiveRows(e.src, profile[e.text])]
    /\ dispatcherFrame

\* process_retrieval_projection_event, up to the embedding provider.
ReadRequest(e) ==
    /\ Ready(e)
    /\ Usable
    /\ e = CurrentRequest(e.src)
    /\ job' = [at |-> "embedding", ev |-> e,
               seen |-> ActiveRows(e.src, profile[e.text])]
    /\ dispatcherFrame

\* The same, for a request that is stale or has no registration.
Discard(e) ==
    /\ Ready(e)
    /\ Governed(e) => Usable /\ e # CurrentRequest(e.src)
    /\ Settle(e, {})

Processed(e) == [outbox EXCEPT ![e] = "processed"]

\* Faulty variant: _revoke_registration alone.
CommitRevocationOfRegistration ==
    /\ job.at = "revoking"
    /\ IF gen = job.gen THEN reg' = "revoked" /\ proof' = 0
                        ELSE UNCHANGED <<reg, proof>>
    /\ outbox' = Processed(job.ev)
    /\ job' = Idle
    /\ UNCHANGED <<platformVars, gen, attempts, indexVars, faults>>

\* _revoke_registration_scope: all rows of the scope, which a registration
\* of a later generation shares.
CommitRevocation ==
    /\ job.at = "revoking"
    /\ IF gen = job.gen THEN reg' = "revoked" /\ proof' = 0
                        ELSE UNCHANGED <<reg, proof>>
    /\ index' = RevokedRows
    /\ outbox' = Processed(job.ev)
    /\ job' = Idle
    /\ UNCHANGED <<platformVars, gen, attempts, text, faults>>

NewKey == <<job.ev.src, job.ev.ver, profile[job.ev.text]>>

\* activate_retrieval_source_version: rows the session saw active become
\* stale, even those that were revoked since.
Activated ==
    [k \in Keys |->
        IF k = NewKey THEN "indexed"
        ELSE IF k \in job.seen THEN "stale" ELSE index[k]]

CommitRow ==
    /\ job.at = "embedding"
    /\ index[NewKey] = "none"
    /\ index' = Activated
    /\ text' = [text EXCEPT ![NewKey] = job.ev.text]
    /\ outbox' = Processed(job.ev)
    /\ job' = Idle
    /\ UNCHANGED <<platformVars, regVars, attempts, faults>>

\* The unique key of the row is taken, or the provider fails, for now or for
\* good.
FailRow ==
    /\ job.at = "embedding"
    /\ \/ index[NewKey] # "none" /\ UNCHANGED faults /\ RetryOrDrop(job.ev)
       \/ Fault /\ (RetryOrDrop(job.ev) \/ Drop(job.ev))
    /\ job' = Idle
    /\ UNCHANGED <<platformVars, regVars, indexVars>>

DispatcherDies ==
    /\ job # Idle
    /\ Fault
    /\ job' = Idle
    /\ UNCHANGED <<platformVars, regVars, outbox, attempts, indexVars>>

-----------------------------------------------------------------------------
\* OutboxDispatcher._dispatch_event.
Handle(e) ==
    \/ FindUnusable(e)
    \/ HandlerFails(e)
    \/ e \in Changes /\ Expand(e)
    \/ e \in Pages /\ (Bootstrap(e) \/ BootstrapDenied(e))
    \/ e \in Requests /\ (ReadRequest(e) \/ Discard(e))

Dispatcher ==
    \/ job = Idle /\ \E e \in Pending : Handle(e)
    \/ CommitRevocation
    \/ CommitRow
    \/ FailRow

Platform ==
    \/ \E r \in Records : Edit(r)
    \/ Relabel
    \/ \E hit \in SUBSET Profiles : ChangePolicy(hit)
    \/ Lapse
    \/ Register

Next == Platform \/ Dispatcher \/ DispatcherDies

Spec == Init /\ [][Next]_vars

\* The dispatcher polls for ever; nobody has to change or to ask anything.
FairSpec == Spec /\ WF_vars(Dispatcher)
-----------------------------------------------------------------------------
IndexTypeOK ==
    /\ version \in [Records -> Versions]
    /\ schema \in Schemas
    /\ profile \in [Schemas -> Profiles]
    /\ reg \in RegStates
    /\ gen \in 0 .. MaxGens
    /\ proof \in 0 .. MaxSchema
    /\ outbox \in [Events -> EventStates]
    /\ attempts \in [Events -> Nat]
    /\ index \in [Keys -> RowStates]
    /\ text \in [Keys -> Schemas]
    /\ job \in Jobs
    /\ faults \in 0 .. MaxFaults

\* When the registration of a scope is revoked, nothing of the scope is active
\* and nothing becomes active, whatever the dispatcher had read before.
RevokedScopeIsDark ==
    reg # "active" => \A k \in Keys : index[k] # "indexed"

\* The active row of a source is its newest one in the profile: an embedding
\* that took long never brings an older version back over a newer one.
NewestIsActive ==
    \A k, l \in Keys :
        /\ k[1] = l[1] /\ k[3] = l[3]
        /\ index[k] = "indexed"
        /\ index[l] # "none"
        => l[2] <= k[2]

\* A dead letter that a request of the source, as it now is, could come from:
\* its change, or a page of the newest bootstrap up to its own.
SourceIsLost(s) ==
    \/ \E why \in {"data", "permission"} :
          outbox[Change(s, VersionOf(s), why)] = "dead_letter"
    \/ \E a \in 0 .. s - 1 : outbox[Page(gen, a)] = "dead_letter"

(***************************************************************************)
(* While a registration is usable, each source ends up released as it now  *)
(* is, or its request is settled for good.  Between platform, registration *)
(* and dispatcher no change and no page is lost, but for the event that is *)
(* itself a dead letter: it takes with it the source of the change, or the *)
(* sources from its page on, although the registration stays usable.       *)
(***************************************************************************)
EverySourceIsServed ==
    \A s \in Sources :
        Usable ~> \/ ~Usable
                  \/ Releasable(s)
                  \/ outbox[CurrentRequest(s)] \in {"processed", "dead_letter"}
                  \/ SourceIsLost(s)

\* A registered scope does not stay without its rows: while the registration
\* is usable, each source gets its row, or an event of its is a dead letter.
EverySourceIsIndexed ==
    \A s \in Sources :
        Usable ~> \/ ~Usable
                  \/ Releasable(s)
                  \/ outbox[CurrentRequest(s)] = "dead_letter"
                  \/ SourceIsLost(s)
=============================================================================
