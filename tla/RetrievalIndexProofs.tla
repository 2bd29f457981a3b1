------------------------ MODULE RetrievalIndexProofs ------------------------
(***************************************************************************)
(* Proofs about RetrievalIndex, for every number of records and every      *)
(* bound: a revoked scope is dark, and the active row of a source is its   *)
(* newest one.                                                             *)
(***************************************************************************)
EXTENDS RetrievalIndex, TLAPS

(***************************************************************************)
(* The inductive invariant.  While the dispatcher waits for the embedding  *)
(* provider the registration stays active, as only the dispatcher revokes  *)
(* one; what it has read of the source is as new as any row; and it has    *)
(* seen every row that is active still, as others only make rows inactive. *)
(***************************************************************************)
RowsAreOfThePast ==
    \A k \in Keys : index[k] # "none" => k[2] <= VersionOf(k[1])

JobIsCurrent ==
    job.at = "embedding" =>
        /\ reg = "active"
        /\ job.ev.text <= schema
        /\ job.ev.ver <= VersionOf(job.ev.src)
        /\ \A k \in Keys : k \in job.seen => index[k] # "none"
        /\ \A k \in Keys :
              k[1] = job.ev.src /\ k[3] = profile[job.ev.text] =>
                  /\ index[k] # "none" => k[2] <= job.ev.ver
                  /\ index[k] = "indexed" => k \in job.seen

\* There is no registration without a generation.
GenerationsCount == reg # "none" => gen >= 1

IndexInv ==
    /\ IndexTypeOK
    /\ GenerationsCount
    /\ RowsAreOfThePast
    /\ JobIsCurrent
    /\ RevokedScopeIsDark
    /\ NewestIsActive

\* The bounds of the two counters are versions.
LEMMA VersionsHold ==
    /\ 1 .. MaxVersion \subseteq Versions
    /\ Schemas \subseteq Versions
    /\ Versions \subseteq Nat
    /\ Schemas \subseteq Nat
BY BoundAssumption DEF Versions, Schemas

LEMMA SourcesHold ==
    /\ Records \subseteq Sources
    /\ Table \in Sources
    /\ Table \notin Records
BY BoundAssumption DEF Records, Sources, Table

\* The outbox keeps its type, whatever is written to it.
LEMMA WithIsTyped ==
    ASSUME outbox \in [Events -> EventStates], NEW new
    PROVE  With(new) \in [Events -> EventStates]
BY DEF With, EventStates

LEMMA ProcessedIsTyped ==
    ASSUME outbox \in [Events -> EventStates], NEW new, NEW e \in Events
    PROVE  /\ [With(new) EXCEPT ![e] = "processed"] \in [Events -> EventStates]
           /\ Processed(e) \in [Events -> EventStates]
BY DEF With, Processed, EventStates

\* What the job of a dispatcher at work holds.
LEMMA JobTyped ==
    ASSUME job \in Jobs
    PROVE  /\ job.at = "embedding" =>
                 /\ job.ev \in Requests
                 /\ job.ev \in Events
                 /\ job.ev.src \in Sources
                 /\ job.ev.ver \in Versions
                 /\ job.ev.text \in Schemas
           /\ job.at = "revoking" => job.ev \in Events
BY DEF Jobs, Idle, Requests, Events

LEMMA IdleIsTyped == Idle \in Jobs /\ Idle.at = "idle"
BY DEF Jobs, Idle

LEMMA Initially == Init => IndexInv
<1> SUFFICES ASSUME Init
    PROVE  IndexInv
  OBVIOUS
<1> USE BoundAssumption
<1>1. version \in [Records -> Versions]
  BY VersionsHold DEF Init
<1>2. IndexTypeOK
  BY <1>1, IdleIsTyped
  DEF Init, IndexTypeOK, Schemas, Profiles, RegStates, EventStates, RowStates
<1>3. RowsAreOfThePast /\ RevokedScopeIsDark /\ NewestIsActive
  BY DEF Init, RowsAreOfThePast, RevokedScopeIsDark, NewestIsActive
<1>4. JobIsCurrent /\ GenerationsCount
  BY IdleIsTyped DEF Init, JobIsCurrent, GenerationsCount
<1>5. QED
  BY <1>2, <1>3, <1>4 DEF IndexInv

-----------------------------------------------------------------------------
(***************************************************************************)
(* The steps that leave the rows and the platform alone.                   *)
(***************************************************************************)
LEMMA QuietStep ==
    ASSUME IndexInv, UNCHANGED <<platformVars, index>>,
           reg' \in {reg, "active"},
           job' = job \/ job'.at # "embedding"
    PROVE  RowsAreOfThePast' /\ JobIsCurrent' /\ RevokedScopeIsDark'
           /\ NewestIsActive'
<1>1. RowsAreOfThePast' /\ NewestIsActive'
  BY DEF IndexInv, RowsAreOfThePast, NewestIsActive, platformVars, VersionOf
<1>2. RevokedScopeIsDark'
  BY DEF IndexInv, RevokedScopeIsDark
<1>3. JobIsCurrent'
  BY DEF IndexInv, JobIsCurrent, platformVars, VersionOf
<1>4. QED
  BY <1>1, <1>2, <1>3

LEMMA SettleStep ==
    ASSUME IndexInv, NEW e \in Events, NEW new, Settle(e, new)
    PROVE  IndexInv'
<1>1. IndexTypeOK'
  BY ProcessedIsTyped
  DEF IndexInv, IndexTypeOK, Settle, platformVars, regVars, indexVars
<1>2. QED
  BY <1>1, QuietStep
  DEF IndexInv, GenerationsCount, Settle, platformVars, regVars, indexVars

LEMMA LapseStep == ASSUME IndexInv, Lapse PROVE IndexInv'
<1>1. IndexTypeOK'
  BY BoundAssumption DEF IndexInv, IndexTypeOK, Lapse, platformVars, indexVars
<1>2. QED
  BY <1>1, QuietStep
  DEF IndexInv, GenerationsCount, Lapse, platformVars, indexVars

LEMMA RegisterStep == ASSUME IndexInv, Register PROVE IndexInv'
<1>1. IndexTypeOK'
  <2>1. outbox' \in [Events -> EventStates]
    BY WithIsTyped DEF IndexInv, IndexTypeOK, Register
  <2>2. gen' \in 0 .. MaxGens /\ proof' \in 0 .. MaxSchema /\ reg' \in RegStates
    BY BoundAssumption
    DEF IndexInv, IndexTypeOK, Register, Schemas, RegStates
  <2>3. QED
    BY <2>1, <2>2
    DEF IndexInv, IndexTypeOK, Register, platformVars, indexVars
<1>2. GenerationsCount'
  BY DEF IndexInv, IndexTypeOK, GenerationsCount, Register
<1>3. QED
  BY <1>1, <1>2, QuietStep DEF IndexInv, Register, platformVars, indexVars

-----------------------------------------------------------------------------
(***************************************************************************)
(* The platform: versions and generations only grow, and rows only become  *)
(* inactive.                                                               *)
(***************************************************************************)
LEMMA EditStep ==
    ASSUME IndexInv, NEW r \in Records, Edit(r)
    PROVE  IndexInv'
<1>1. version' \in [Records -> Versions]
  <2>1. version[r] \in Nat /\ version[r] >= 1
    BY BoundAssumption DEF IndexInv, IndexTypeOK, Versions
  <2>2. version[r] + 1 \in 1 .. MaxVersion
    BY <2>1, BoundAssumption DEF Edit
  <2>3. version[r] + 1 \in Versions
    BY <2>2, VersionsHold
  <2>4. QED
    BY <2>3 DEF IndexInv, IndexTypeOK, Edit
<1>2. outbox' \in [Events -> EventStates]
  BY WithIsTyped DEF IndexInv, IndexTypeOK, Edit
<1>3. IndexTypeOK'
  BY <1>1, <1>2 DEF IndexInv, IndexTypeOK, Edit, regVars, indexVars
<1>4. \A s \in Sources :
         /\ VersionOf(s) \in Nat
         /\ VersionOf(s)' \in Nat
         /\ VersionOf(s) <= VersionOf(s)'
  <2> SUFFICES ASSUME NEW s \in Sources
      PROVE  /\ VersionOf(s) \in Nat
             /\ VersionOf(s)' \in Nat
             /\ VersionOf(s) <= VersionOf(s)'
    OBVIOUS
  <2>1. CASE s = Table
    BY <2>1, VersionsHold DEF IndexInv, IndexTypeOK, Edit, VersionOf
  <2>2. CASE s # Table
    <3>1. s \in Records
      BY <2>2, BoundAssumption DEF Sources, Records, Table
    <3>2. version[s] \in Nat /\ version'[s] \in Nat
      BY <1>1, <3>1, VersionsHold DEF IndexInv, IndexTypeOK
    <3>3. version'[s] = version[s] \/ version'[s] = version[s] + 1
      BY <3>1 DEF IndexInv, IndexTypeOK, Edit
    <3>4. version[s] <= version'[s]
      BY <3>2, <3>3
    <3>5. QED
      BY <2>2, <3>2, <3>4 DEF VersionOf
  <2>3. QED
    BY <2>1, <2>2
<1>5. RowsAreOfThePast'
  <2> SUFFICES ASSUME NEW k \in Keys, index[k] # "none"
      PROVE  k[2] <= VersionOf(k[1])'
    BY DEF RowsAreOfThePast, Edit, indexVars
  <2>1. k[1] \in Sources /\ k[2] \in Nat
    BY VersionsHold DEF Keys
  <2>2. k[2] <= VersionOf(k[1])
    BY DEF IndexInv, RowsAreOfThePast
  <2>3. QED
    BY <1>4, <2>1, <2>2
<1>6. RevokedScopeIsDark' /\ NewestIsActive' /\ GenerationsCount'
  BY DEF IndexInv, RevokedScopeIsDark, NewestIsActive, GenerationsCount, Edit,
         regVars, indexVars
<1>7. JobIsCurrent'
  <2>1. UNCHANGED <<reg, schema, profile, index, job>>
    BY DEF Edit, regVars, indexVars
  <2>2. job.at = "embedding" => job.ev.ver <= VersionOf(job.ev.src)'
    <3> SUFFICES ASSUME job.at = "embedding"
        PROVE  job.ev.ver <= VersionOf(job.ev.src)'
      OBVIOUS
    <3>1. job.ev.src \in Sources /\ job.ev.ver \in Nat
      BY JobTyped, VersionsHold DEF IndexInv, IndexTypeOK
    <3>2. job.ev.ver <= VersionOf(job.ev.src)
      BY DEF IndexInv, JobIsCurrent
    <3>3. QED
      BY <1>4, <3>1, <3>2, <2>1
  <2>3. QED
    BY <2>1, <2>2 DEF IndexInv, JobIsCurrent
<1>8. QED
  BY <1>3, <1>5, <1>6, <1>7 DEF IndexInv

\* A new schema generation and rows that, at most, become inactive.
LEMMA GenerationStep ==
    ASSUME IndexInv, schema < MaxSchema, schema' = schema + 1,
           profile' \in [Schemas -> Profiles],
           \A g \in Schemas : g <= schema => profile'[g] = profile[g],
           index' \in [Keys -> RowStates],
           \A k \in Keys : index'[k] # index[k] =>
                index[k] # "none" /\ index'[k] = "revoked",
           outbox' \in [Events -> EventStates],
           UNCHANGED <<version, regVars, attempts, text, job, faults>>
    PROVE  IndexInv'
<1>1. IndexTypeOK'
  BY BoundAssumption DEF IndexInv, IndexTypeOK, Schemas, regVars
<1>2. RowsAreOfThePast'
  <2> SUFFICES ASSUME NEW k \in Keys, index'[k] # "none"
      PROVE  k[2] <= VersionOf(k[1])'
    BY DEF RowsAreOfThePast
  <2>1. k[2] <= VersionOf(k[1])
    BY DEF IndexInv, RowsAreOfThePast
  <2>2. k[1] \in Sources /\ k[2] \in Nat /\ schema \in Nat
    BY VersionsHold DEF Keys, IndexInv, IndexTypeOK
  <2>3. QED
    BY <2>1, <2>2 DEF VersionOf
<1>3. JobIsCurrent'
  <2> SUFFICES ASSUME job.at = "embedding"
      PROVE  JobIsCurrent'
    BY DEF JobIsCurrent
  <2>1. job.ev.text \in Schemas /\ job.ev.text <= schema
    BY JobTyped DEF IndexInv, IndexTypeOK, JobIsCurrent
  <2>2. profile'[job.ev.text] = profile[job.ev.text]
    BY <2>1
  <2>3. job.ev.text <= schema'
    <3>1. job.ev.text \in Nat /\ schema \in Nat
      BY <2>1, VersionsHold DEF IndexInv, IndexTypeOK
    <3>2. QED
      BY <2>1, <3>1
  <2>4. \A k \in Keys :
           k[1] = job.ev.src /\ k[3] = profile'[job.ev.text] =>
               /\ index'[k] # "none" => k[2] <= job.ev.ver
               /\ index'[k] = "indexed" => k \in job.seen
    BY <2>2 DEF IndexInv, JobIsCurrent
  <2>5. job.ev.ver <= VersionOf(job.ev.src)'
    <3>1. job.ev.ver \in Nat /\ schema \in Nat
      BY JobTyped, VersionsHold DEF IndexInv, IndexTypeOK
    <3>2. job.ev.ver <= VersionOf(job.ev.src)
      BY DEF IndexInv, JobIsCurrent
    <3>3. QED
      BY <3>1, <3>2 DEF VersionOf
  <2>6. \A k \in Keys : k \in job.seen => index'[k] # "none"
    BY DEF IndexInv, JobIsCurrent
  <2>7. QED
    BY <2>3, <2>4, <2>5, <2>6 DEF IndexInv, JobIsCurrent, regVars
<1>4. RevokedScopeIsDark' /\ NewestIsActive' /\ GenerationsCount'
  BY DEF IndexInv, RevokedScopeIsDark, NewestIsActive, GenerationsCount,
         regVars
<1>5. QED
  BY <1>1, <1>2, <1>3, <1>4 DEF IndexInv

LEMMA NextProfileHolds ==
    ASSUME IndexInv, schema < MaxSchema, NEW moves, NextProfile(moves)
    PROVE  /\ profile' \in [Schemas -> Profiles]
           /\ \A g \in Schemas : g <= schema => profile'[g] = profile[g]
<1>1. schema \in Nat /\ schema + 1 \in Schemas /\ Schemas \subseteq Nat
  BY VersionsHold, BoundAssumption DEF IndexInv, IndexTypeOK, Schemas
<1>2. PICK p \in 1 .. schema + 1 :
         profile' = [g \in Schemas |-> IF g > schema THEN p ELSE profile[g]]
  BY DEF NextProfile
<1>3. p \in Profiles
  BY <1>1, <1>2, BoundAssumption DEF Profiles, Schemas
<1>4. profile' \in [Schemas -> Profiles]
  BY <1>2, <1>3 DEF IndexInv, IndexTypeOK
<1>5. \A g \in Schemas : g <= schema => profile'[g] = profile[g]
  <2> SUFFICES ASSUME NEW g \in Schemas, g <= schema
      PROVE  profile'[g] = profile[g]
    OBVIOUS
  <2>1. ~(g > schema)
    BY <1>1
  <2>2. QED
    BY <1>2, <2>1
<1>6. QED
  BY <1>4, <1>5

LEMMA RelabelStep == ASSUME IndexInv, Relabel PROVE IndexInv'
<1>1. outbox' \in [Events -> EventStates]
  BY WithIsTyped DEF IndexInv, IndexTypeOK, Relabel
<1>2. /\ profile' \in [Schemas -> Profiles]
      /\ \A g \in Schemas : g <= schema => profile'[g] = profile[g]
  BY NextProfileHolds DEF Relabel
<1>3. index' = index /\ index' \in [Keys -> RowStates]
  BY DEF IndexInv, IndexTypeOK, Relabel, indexVars
<1>4. QED
  BY <1>1, <1>2, <1>3, GenerationStep DEF Relabel, indexVars

LEMMA ChangePolicyStep ==
    ASSUME IndexInv, NEW hit \in SUBSET Profiles, ChangePolicy(hit)
    PROVE  IndexInv'
<1> DEFINE Hit(k) == /\ k[3] \in hit
                     /\ ActiveRows(k[1], k[3]) # {}
                     /\ index[k] # "none"
<1>1. outbox' \in [Events -> EventStates]
  BY DEF IndexInv, IndexTypeOK, ChangePolicy, With, EventStates
<1>2. /\ profile' \in [Schemas -> Profiles]
      /\ \A g \in Schemas : g <= schema => profile'[g] = profile[g]
  BY NextProfileHolds DEF ChangePolicy
<1>3. index' = [k \in Keys |-> IF Hit(k) THEN "revoked" ELSE index[k]]
  BY DEF ChangePolicy
<1>4. \A k \in Keys : Hit(k) => index[k] # "none"
  OBVIOUS
<1> HIDE DEF Hit
<1>5. index' \in [Keys -> RowStates]
  BY <1>3 DEF IndexInv, IndexTypeOK, RowStates
<1>6. \A k \in Keys : index'[k] # index[k] =>
                index[k] # "none" /\ index'[k] = "revoked"
  BY <1>3, <1>4
<1>7. QED
  BY <1>1, <1>2, <1>5, <1>6, GenerationStep DEF ChangePolicy

-----------------------------------------------------------------------------
(***************************************************************************)
(* The dispatcher.                                                         *)
(***************************************************************************)
LEMMA FindUnusableStep ==
    ASSUME IndexInv, NEW e \in Events, FindUnusable(e)
    PROVE  IndexInv'
<1>1. gen \in 1 .. MaxGens
  BY BoundAssumption
  DEF IndexInv, IndexTypeOK, GenerationsCount, FindUnusable, Governed
<1>2. job' \in Jobs /\ job'.at = "revoking"
  BY <1>1 DEF FindUnusable, Jobs
<1>3. IndexTypeOK' /\ GenerationsCount'
  BY <1>2
  DEF IndexInv, IndexTypeOK, GenerationsCount, FindUnusable, dispatcherFrame,
      platformVars, regVars, indexVars
<1>4. QED
  BY <1>2, <1>3, QuietStep
  DEF IndexInv, FindUnusable, dispatcherFrame, regVars, indexVars

LEMMA ReadRequestStep ==
    ASSUME IndexInv, NEW e \in Requests, ReadRequest(e)
    PROVE  IndexInv'
<1>1. ActiveRows(e.src, profile[e.text]) \in SUBSET Keys
  BY DEF ActiveRows
<1>2. job' \in Jobs
  BY <1>1 DEF ReadRequest, Jobs
<1>3. IndexTypeOK' /\ GenerationsCount'
  BY <1>2
  DEF IndexInv, IndexTypeOK, GenerationsCount, ReadRequest, dispatcherFrame,
      platformVars, regVars, indexVars
<1>4. RowsAreOfThePast' /\ RevokedScopeIsDark' /\ NewestIsActive'
  BY DEF IndexInv, RowsAreOfThePast, RevokedScopeIsDark, NewestIsActive,
         ReadRequest, dispatcherFrame, platformVars, regVars, indexVars,
         VersionOf
<1>5. JobIsCurrent'
  <2>1. /\ job'.ev = e
        /\ job'.seen = ActiveRows(e.src, profile[e.text])
        /\ UNCHANGED <<reg, schema, profile, index>>
    BY DEF ReadRequest, dispatcherFrame, platformVars, regVars, indexVars
  <2>2. reg = "active" /\ e.text = schema /\ e.ver = VersionOf(e.src)
    BY DEF ReadRequest, Usable, CurrentRequest, Request
  <2>3. schema <= schema
    BY VersionsHold DEF IndexInv, IndexTypeOK
  <2>4. ASSUME NEW k \in Keys, k[1] = e.src, k[3] = profile[e.text]
        PROVE  /\ index[k] # "none" => k[2] <= e.ver
               /\ index[k] = "indexed" =>
                     k \in ActiveRows(e.src, profile[e.text])
    BY <2>2, <2>4 DEF IndexInv, RowsAreOfThePast, ActiveRows
  <2>5. VersionOf(e.src)' = VersionOf(e.src) /\ e.ver <= e.ver
    <3>1. VersionOf(e.src)' = VersionOf(e.src)
      BY DEF ReadRequest, dispatcherFrame, platformVars, VersionOf
    <3>2. e.ver \in Nat
      BY VersionsHold DEF Requests
    <3>3. QED
      BY <3>1, <3>2
  <2>6. \A k \in Keys :
           k \in ActiveRows(e.src, profile[e.text]) => index[k] # "none"
    BY DEF ActiveRows
  <2>7. QED
    BY <2>1, <2>2, <2>3, <2>4, <2>5, <2>6 DEF JobIsCurrent
<1>6. QED
  BY <1>3, <1>4, <1>5 DEF IndexInv

LEMMA CommitRevocationStep ==
    ASSUME IndexInv, CommitRevocation
    PROVE  IndexInv'
<1>1. /\ index' = RevokedRows
      /\ job' = Idle
      /\ outbox' = Processed(job.ev)
      /\ UNCHANGED <<version, schema, profile, gen, attempts, text, faults>>
      /\ \/ reg' = "revoked" /\ proof' = 0 /\ gen = job.gen
         \/ UNCHANGED <<reg, proof>>
  BY DEF CommitRevocation, platformVars
<1>2. outbox' \in [Events -> EventStates]
  BY <1>1, JobTyped, ProcessedIsTyped
  DEF IndexInv, IndexTypeOK, CommitRevocation
<1>3. index' \in [Keys -> RowStates]
  BY <1>1 DEF RevokedRows, RowStates
<1>4. IndexTypeOK'
  BY <1>1, <1>2, <1>3, IdleIsTyped, BoundAssumption
  DEF IndexInv, IndexTypeOK, RegStates
<1>5. \A k \in Keys : index'[k] # "indexed" /\
                     (index'[k] # "none" => index[k] # "none")
  BY <1>1 DEF RevokedRows
<1>6. RowsAreOfThePast' /\ RevokedScopeIsDark' /\ NewestIsActive'
  BY <1>1, <1>5
  DEF IndexInv, RowsAreOfThePast, RevokedScopeIsDark, NewestIsActive, VersionOf
<1>7. JobIsCurrent'
  BY <1>1, IdleIsTyped DEF JobIsCurrent
<1>8. GenerationsCount'
  <2>1. gen = job.gen => gen >= 1
    BY DEF IndexInv, IndexTypeOK, CommitRevocation, Jobs, Idle
  <2>2. QED
    BY <1>1, <2>1 DEF IndexInv, GenerationsCount
<1>9. QED
  BY <1>4, <1>6, <1>7, <1>8 DEF IndexInv

LEMMA CommitRowStep == ASSUME IndexInv, CommitRow PROVE IndexInv'
<1> DEFINE e == job.ev
           new == NewKey
<1>1. /\ job.at = "embedding"
      /\ job' = Idle
      /\ index' = Activated
      /\ text' = [text EXCEPT ![new] = e.text]
      /\ outbox' = Processed(e)
      /\ UNCHANGED <<version, schema, profile, reg, gen, proof, attempts,
                     faults>>
  BY DEF CommitRow, platformVars, regVars
<1>2. /\ e \in Events
      /\ e.src \in Sources
      /\ e.ver \in Versions
      /\ e.text \in Schemas
  BY <1>1, JobTyped DEF IndexInv, IndexTypeOK
<1>3. /\ reg = "active"
      /\ e.ver <= VersionOf(e.src)
      /\ \A k \in Keys : k \in job.seen => index[k] # "none"
      /\ \A k \in Keys : k[1] = e.src /\ k[3] = profile[e.text] =>
            /\ index[k] # "none" => k[2] <= e.ver
            /\ index[k] = "indexed" => k \in job.seen
  BY <1>1 DEF IndexInv, JobIsCurrent
<1>4. profile[e.text] \in Profiles
  BY <1>2 DEF IndexInv, IndexTypeOK
<1>5. /\ new \in Keys
      /\ new[1] = e.src
      /\ new[2] = e.ver
      /\ new[3] = profile[e.text]
  BY <1>2, <1>4 DEF NewKey, Keys
<1>6. \A k \in Keys : index'[k] = IF k = new THEN "indexed"
                                  ELSE IF k \in job.seen THEN "stale"
                                  ELSE index[k]
  BY <1>1 DEF Activated
<1>7. IndexTypeOK'
  <2>1. outbox' \in [Events -> EventStates]
    BY <1>1, <1>2, ProcessedIsTyped DEF IndexInv, IndexTypeOK
  <2>2. index' \in [Keys -> RowStates]
    BY <1>1 DEF IndexInv, IndexTypeOK, Activated, RowStates
  <2>3. text' \in [Keys -> Schemas]
    BY <1>1, <1>2 DEF IndexInv, IndexTypeOK
  <2>4. QED
    BY <1>1, <2>1, <2>2, <2>3, IdleIsTyped DEF IndexInv, IndexTypeOK
<1>8. JobIsCurrent' /\ GenerationsCount' /\ RevokedScopeIsDark'
  BY <1>1, <1>3, IdleIsTyped
  DEF IndexInv, JobIsCurrent, GenerationsCount, RevokedScopeIsDark
<1>9. NewestIsActive'
  <2> SUFFICES ASSUME NEW k \in Keys, NEW l \in Keys,
                      k[1] = l[1], k[3] = l[3],
                      index'[k] = "indexed", index'[l] # "none"
      PROVE  l[2] <= k[2]
    BY DEF NewestIsActive
  <2>1. k[2] \in Nat /\ l[2] \in Nat
    BY VersionsHold DEF Keys
  <2>2. CASE k = new
    <3>1. CASE l = new
      BY <2>1, <2>2, <3>1
    <3>2. CASE l # new
      <4>1. l[1] = e.src /\ l[3] = profile[e.text] /\ k[2] = e.ver
        BY <1>5, <2>2
      <4>2. index[l] = "none" => index'[l] = "none" \/ l \in job.seen
        BY <1>6, <3>2
      <4>3. CASE index[l] # "none"
        BY <1>3, <4>1, <4>3
      <4>4. CASE index[l] = "none"
        BY <1>3, <4>2, <4>4
      <4>5. QED
        BY <4>3, <4>4
    <3>3. QED
      BY <3>1, <3>2
  <2>3. CASE k # new
    <3>1. index[k] = "indexed" /\ k \notin job.seen
      BY <1>6, <2>3
    <3>2. ~(k[1] = e.src /\ k[3] = profile[e.text])
      BY <1>3, <3>1
    <3>3. l # new
      BY <1>5, <3>2
    <3>4. index[l] # "none"
      BY <1>3, <1>6, <3>3
    <3>5. QED
      BY <3>1, <3>4 DEF IndexInv, NewestIsActive
  <2>4. QED
    BY <2>2, <2>3
<1>10. RowsAreOfThePast'
  <2> SUFFICES ASSUME NEW k \in Keys, index'[k] # "none"
      PROVE  k[2] <= VersionOf(k[1])'
    BY DEF RowsAreOfThePast
  <2>1. VersionOf(k[1])' = VersionOf(k[1])
    BY <1>1 DEF VersionOf
  <2>2. CASE k = new
    BY <1>3, <1>5, <2>1, <2>2
  <2>3. CASE k # new
    <3>1. index[k] # "none"
      BY <1>3, <1>6, <2>3
    <3>2. QED
      BY <2>1, <3>1 DEF IndexInv, RowsAreOfThePast
  <2>4. QED
    BY <2>2, <2>3
<1>11. QED
  BY <1>7, <1>8, <1>9, <1>10 DEF IndexInv

\* A handler that raises moves its own event and counts the attempt.
LEMMA RaisedIsTyped ==
    ASSUME IndexInv, NEW e \in Events, RetryOrDrop(e) \/ Drop(e)
    PROVE  /\ outbox' \in [Events -> EventStates]
           /\ attempts' \in [Events -> Nat]
<1>1. outbox' = outbox \/ outbox' = [outbox EXCEPT ![e] = "dead_letter"]
  BY DEF RetryOrDrop, Drop
<1>2. attempts' = [attempts EXCEPT ![e] = @ + 1]
  BY DEF RetryOrDrop, Drop
<1>3. attempts[e] + 1 \in Nat
  BY DEF IndexInv, IndexTypeOK
<1>4. QED
  BY <1>1, <1>2, <1>3 DEF IndexInv, IndexTypeOK, EventStates

LEMMA FaultIsTyped == IndexInv /\ Fault => faults' \in 0 .. MaxFaults
BY BoundAssumption DEF IndexInv, IndexTypeOK, Fault

LEMMA RaisedStep ==
    ASSUME IndexInv, NEW e \in Events, RetryOrDrop(e) \/ Drop(e),
           UNCHANGED faults \/ Fault,
           UNCHANGED <<platformVars, regVars, indexVars>>,
           job' \in {job, Idle}
    PROVE  IndexInv'
<1>1. faults' \in 0 .. MaxFaults
  BY FaultIsTyped DEF IndexInv, IndexTypeOK
<1>2. job' \in Jobs /\ (job' = job \/ job'.at # "embedding")
  BY IdleIsTyped DEF IndexInv, IndexTypeOK
<1>3. IndexTypeOK' /\ GenerationsCount'
  BY <1>1, <1>2, RaisedIsTyped
  DEF IndexInv, IndexTypeOK, GenerationsCount, platformVars, regVars,
      indexVars
<1>4. QED
  BY <1>2, <1>3, QuietStep DEF IndexInv, regVars, indexVars

LEMMA FailRowStep == ASSUME IndexInv, FailRow PROVE IndexInv'
<1>1. job.ev \in Events
  BY JobTyped DEF IndexInv, IndexTypeOK, FailRow
<1>2. QED
  BY <1>1, RaisedStep DEF FailRow

LEMMA DispatcherDiesStep == ASSUME IndexInv, DispatcherDies PROVE IndexInv'
<1>1. IndexTypeOK' /\ GenerationsCount'
  BY IdleIsTyped, FaultIsTyped
  DEF IndexInv, IndexTypeOK, GenerationsCount, DispatcherDies, platformVars,
      regVars, indexVars
<1>2. QED
  BY <1>1, IdleIsTyped, QuietStep
  DEF IndexInv, DispatcherDies, regVars, indexVars

LEMMA HandleStep ==
    ASSUME IndexInv, NEW e \in Events, Handle(e)
    PROVE  IndexInv'
<1>1. CASE FindUnusable(e)
  BY <1>1, FindUnusableStep
<1>2. CASE HandlerFails(e)
  BY <1>2, RaisedStep DEF HandlerFails
<1>3. CASE Expand(e)
  BY <1>3, SettleStep DEF Expand
<1>4. CASE Bootstrap(e)
  BY <1>4, SettleStep DEF Bootstrap
<1>5. CASE BootstrapDenied(e)
  BY <1>5, RaisedStep DEF BootstrapDenied
<1>6. CASE e \in Requests /\ ReadRequest(e)
  BY <1>6, ReadRequestStep
<1>7. CASE Discard(e)
  BY <1>7, SettleStep DEF Discard
<1>8. QED
  BY <1>1, <1>2, <1>3, <1>4, <1>5, <1>6, <1>7 DEF Handle

-----------------------------------------------------------------------------
LEMMA Step ==
    ASSUME IndexInv, [Next]_vars
    PROVE  IndexInv'
<1>1. CASE Platform
  BY <1>1, EditStep, RelabelStep, ChangePolicyStep, LapseStep, RegisterStep
  DEF Platform
<1>2. CASE Dispatcher
  <2>1. ASSUME NEW e \in Pending, Handle(e) PROVE IndexInv'
    BY <2>1, HandleStep DEF Pending
  <2>2. QED
    BY <1>2, <2>1, CommitRevocationStep, CommitRowStep, FailRowStep
    DEF Dispatcher
<1>3. CASE DispatcherDies
  BY <1>3, DispatcherDiesStep
<1>4. CASE UNCHANGED vars
  <2>1. IndexTypeOK' /\ GenerationsCount'
    BY <1>4 DEF IndexInv, IndexTypeOK, GenerationsCount, vars
  <2>2. QED
    BY <1>4, <2>1, QuietStep DEF IndexInv, vars, platformVars
<1>5. QED
  BY <1>1, <1>2, <1>3, <1>4 DEF Next

\* Every reachable state satisfies the inductive invariant.
THEOREM IndexIsSound == Spec => []IndexInv
BY Initially, Step, PTL DEF Spec

\* Each variable keeps its type, for every number of records and generations.
THEOREM IndexIsTyped == Spec => []IndexTypeOK
<1>1. IndexInv => IndexTypeOK
  BY DEF IndexInv
<1>2. QED
  BY <1>1, IndexIsSound, PTL

\* A projection that was in the dispatcher's hands when its registration came
\* to be revoked never leaves an active row behind.
THEOREM RevokedIsDark == Spec => []RevokedScopeIsDark
<1>1. IndexInv => RevokedScopeIsDark
  BY DEF IndexInv
<1>2. QED
  BY <1>1, IndexIsSound, PTL

\* However long the embedding takes, no older version becomes active beside or
\* over a newer one.
THEOREM NewestWins == Spec => []NewestIsActive
<1>1. IndexInv => NewestIsActive
  BY DEF IndexInv
<1>2. QED
  BY <1>1, IndexIsSound, PTL
=============================================================================
