-------------------------- MODULE ConsoleProofs ---------------------------
(***************************************************************************)
(* The console (apps/web/server), for every set of processes, skills,      *)
(* candidates, editors and proposals.                                      *)
(***************************************************************************)
EXTENDS ReleasePreview, SourceSubmission, FiniteSetTheorems, TLAPS

-----------------------------------------------------------------------------
(***************************************************************************)
(* The review store keeps every history a chain, answers only what it has  *)
(* committed and adopts only what is approved; a release preview beside it *)
(* binds only approved versions.                                           *)
(***************************************************************************)

(* The mutation lock: one command at a time runs.                          *)
OneRuns == /\ mutex = {p \in Proc : pc[p] # "idle"}
           /\ \A p, q \in Proc : pc[p] # "idle" /\ pc[q] # "idle" => p = q

StoreTypes == /\ batches \subseteq Batch
              /\ catalog \in [Skill -> Version \cup {Absent}]

(* Every batch is at the revisions that its request expected to reach.     *)
FollowsExpected ==
  \A b \in batches : \A s \in DOMAIN b.revision : b.revision[s] = b.request.expected[s] + 1

StoreOK == StoreTypes /\ IsFiniteSet(batches) /\ FollowsExpected /\ HistoryIsChain

(* What each place of the running command knows.                           *)
Known(p) ==
  /\ pc[p] \in {"decide", "write"} => command[p] \in Request
  /\ pc[p] \in {"approve", "adopt"} => command[p] \in Candidate
  /\ pc[p] = "write" => /\ pending[p] = newBatch(command[p])
                        /\ ~ committed(command[p])
                        /\ fresh(command[p]) /\ withinBound(command[p])
  /\ pc[p] = "reply" /\ command[p] \in Request => committed(command[p])
  /\ pc[p] = "adopt" => approvedFor(command[p])

IInv == TypeOK /\ OneRuns /\ StoreOK /\ \A p \in Proc : Known(p)

-----------------------------------------------------------------------------
(* What the fields of a request and of a batch are.                        *)
LEMMA RequestFields ==
  ASSUME NEW r \in Request
  PROVE  /\ r.candidate \in Candidate
         /\ DOMAIN r.expected = SkillsOf[r.candidate]
         /\ DOMAIN r.expected \subseteq Skill
         /\ r.expected \in [DOMAIN r.expected -> 0 .. MaxRevision]
  BY CandidateAssumption DEF Request

LEMMA BatchFields ==
  ASSUME NEW b \in Batch
  PROVE  /\ b.request \in Request
         /\ DOMAIN b.revision = DOMAIN b.request.expected
         /\ b.revision \in [DOMAIN b.request.expected -> 1 .. MaxRevision]
         /\ b.previous \in [DOMAIN b.request.expected -> Request \cup {Absent}]
  BY DEF Batch

LEMMA IsBatch ==
  ASSUME NEW r \in Request,
         NEW f \in [DOMAIN r.expected -> 1 .. MaxRevision],
         NEW g \in [DOMAIN r.expected -> Request \cup {Absent}]
  PROVE  [request |-> r, revision |-> f, previous |-> g] \in Batch
  BY DEF Batch

(* The latest review of a chain is its last: its revision is the length.   *)
LEMMA LatestOfChain ==
  ASSUME StoreTypes, IsFiniteSet(batches), NEW s \in Skill, contiguous(s)
  PROVE  /\ IsFiniteSet(reviewsOf(s))
         /\ Cardinality(reviewsOf(s)) \in Nat
         /\ currentRevision(s) = Cardinality(reviewsOf(s))
         /\ reviewsOf(s) = {} => latest(s) = Absent
         /\ reviewsOf(s) # {} => latest(s) \in reviewsOf(s)
  <1> DEFINE R == reviewsOf(s)
             n == Cardinality(R)
  <1>1. R \subseteq batches
    BY DEF reviewsOf
  <1>2. IsFiniteSet(R) /\ n \in Nat
    BY <1>1, FS_Subset, FS_CardinalityType
  <1>3. CASE R = {}
    <2>1. n = 0 /\ latest(s) = Absent
      BY <1>3, FS_EmptySet DEF latest
    <2> QED
      BY <1>2, <1>3, <2>1 DEF currentRevision
  <1>4. CASE R # {}
    <2>1. n # 0
      BY <1>2, <1>4, FS_EmptySet
    <2>2. {b.revision[s] : b \in R} = 1 .. n
      BY DEF contiguous
    <2>3. PICK b \in R : b.revision[s] = n
      BY <1>2, <2>1, <2>2
    <2>4. \A c \in R : c.revision[s] \in 1 .. n
      BY <2>2
    <2>5. \A c \in R : c.revision[s] <= b.revision[s]
      BY <1>2, <2>3, <2>4
    <2>6. latest(s) \in R /\ \A c \in R : c.revision[s] <= latest(s).revision[s]
      BY <1>4, <2>3, <2>5 DEF latest
    <2>7. latest(s).revision[s] = n
      BY <1>2, <2>3, <2>4, <2>6
    <2>8. latest(s) # Absent
      BY <1>1, <2>6, KindAssumption DEF StoreTypes
    <2> QED
      BY <1>2, <1>4, <2>6, <2>7, <2>8 DEF currentRevision
  <1> QED
    BY <1>3, <1>4

(* A new batch is a batch, at the revisions that its request expected.     *)
LEMMA NewBatchIsBatch ==
  ASSUME StoreOK, NEW r \in Request, withinBound(r)
  PROVE  newBatch(r) \in Batch
  <1> DEFINE D == DOMAIN r.expected
  <1>1. \A s \in D : s \in Skill /\ contiguous(s)
    BY RequestFields DEF StoreOK, HistoryIsChain, readable
  <1>2. \A s \in D : currentRevision(s) \in Nat
    BY <1>1, LatestOfChain DEF StoreOK
  <1>3. [s \in D |-> currentRevision(s) + 1] \in [D -> 1 .. MaxRevision]
    BY <1>2, BoundAssumption DEF withinBound
  <1>4. \A s \in D : latestRequest(s) \in Request \cup {Absent}
    BY <1>1, LatestOfChain, BatchFields DEF StoreOK, StoreTypes, latestRequest, reviewsOf
  <1>5. [s \in D |-> latestRequest(s)] \in [D -> Request \cup {Absent}]
    BY <1>4
  <1> QED
    BY <1>3, <1>5, IsBatch DEF newBatch

-----------------------------------------------------------------------------
(* Writing a new batch extends each chain it touches by its last element,  *)
(* and changes no batch that is there.                                     *)
LEMMA WriteExtendsChains ==
  ASSUME StoreOK, NEW r \in Request, ~ committed(r), fresh(r), withinBound(r),
         batches' = {b \in batches : b.request # r} \cup {newBatch(r)},
         catalog' = catalog
  PROVE  StoreOK' /\ batches \subseteq batches' /\ newBatch(r) \in batches'
  <1> DEFINE nb == newBatch(r)
  <1>1. batches' = batches \cup {nb}
    BY DEF committed
  <1>2. nb \in Batch
    BY NewBatchIsBatch
  <1>3. StoreTypes'
    BY <1>1, <1>2 DEF StoreOK, StoreTypes
  <1>4. IsFiniteSet(batches')
    BY <1>1, FS_AddElement DEF StoreOK
  <1>5. FollowsExpected'
    BY <1>1, RequestFields DEF StoreOK, FollowsExpected, newBatch, fresh
  <1>6. ASSUME NEW s \in Skill PROVE contiguous(s)'
    <2> DEFINE R == reviewsOf(s)
               n == Cardinality(R)
    <2>0. contiguous(s)
      BY DEF StoreOK, HistoryIsChain, readable
    <2>1. CASE s \notin DOMAIN r.expected
      <3>1. reviewsOf(s)' = R
        BY <1>1, <2>1 DEF reviewsOf, newBatch
      <3> QED
        BY <2>0, <3>1 DEF contiguous
    <2>2. CASE s \in DOMAIN r.expected
      <3>1. /\ IsFiniteSet(R) /\ n \in Nat /\ currentRevision(s) = n
            /\ R = {} => latest(s) = Absent
            /\ R # {} => latest(s) \in R
        BY <2>0, LatestOfChain DEF StoreOK
      <3>2. nb.revision[s] = n + 1 /\ nb.previous[s] = latestRequest(s)
        BY <2>2, <3>1 DEF newBatch
      <3>3. reviewsOf(s)' = R \cup {nb}
        BY <1>1, <2>2 DEF reviewsOf, newBatch
      <3>4. {b.revision[s] : b \in R} = 1 .. n
        BY <2>0 DEF contiguous
      <3>5. nb \notin R
        BY <3>1, <3>2, <3>4
      <3>6. Cardinality(R \cup {nb}) = n + 1
        BY <3>1, <3>5, FS_AddElement
      <3>7. {b.revision[s] : b \in R \cup {nb}} = 1 .. (n + 1)
        <4>1. {b.revision[s] : b \in R \cup {nb}}
                = {b.revision[s] : b \in R} \cup {nb.revision[s]}
          OBVIOUS
        <4> QED
          BY <3>1, <3>2, <3>4, <4>1
      <3>8. ASSUME NEW b \in R \cup {nb}
            PROVE  IF b.revision[s] = 1 THEN b.previous[s] = Absent
                   ELSE \E c \in R \cup {nb} : /\ c.revision[s] + 1 = b.revision[s]
                                               /\ b.previous[s] = c.request
        <4>1. CASE b \in R
          BY <2>0, <4>1 DEF contiguous
        <4>2. CASE b = nb /\ R = {}
          <5>1. n = 0
            BY <3>1, <4>2, FS_EmptySet
          <5> QED
            BY <3>1, <3>2, <4>2, <5>1 DEF latestRequest
        <4>3. CASE b = nb /\ R # {}
          <5>1. n # 0 /\ latest(s) \in R /\ latest(s) # Absent
            BY <3>1, <4>3, FS_EmptySet, KindAssumption DEF reviewsOf, StoreOK, StoreTypes
          <5>2. latest(s).revision[s] = n
            BY <3>1, <5>1 DEF currentRevision
          <5> QED
            BY <3>1, <3>2, <4>3, <5>1, <5>2 DEF latestRequest
        <4> QED
          BY <4>1, <4>2, <4>3
      <3> QED
        BY <3>3, <3>6, <3>7, <3>8 DEF contiguous
    <2> QED
      BY <2>1, <2>2
  <1> QED
    BY <1>1, <1>3, <1>4, <1>5, <1>6 DEF StoreOK, HistoryIsChain, readable

(* Initially nothing is reviewed or adopted.                               *)
LEMMA IInvInit == Init => IInv
  <1> SUFFICES ASSUME Init PROVE IInv
    OBVIOUS
  <1> USE DEF Init
  <1>1. TypeOK /\ OneRuns
    BY DEF TypeOK, OneRuns
  <1>2. \A s \in Skill : reviewsOf(s) = {}
    BY DEF reviewsOf
  <1>3. StoreOK
    BY <1>2, FS_EmptySet DEF StoreOK, StoreTypes, FollowsExpected, HistoryIsChain, readable,
       contiguous
  <1>4. ASSUME NEW p \in Proc PROVE Known(p)
    BY DEF Known
  <1> QED
    BY <1>1, <1>3, <1>4 DEF IInv

(* The formulas about the store are the same where the store is.           *)
LEMMA SameStore ==
  ASSUME batches' = batches
  PROVE  /\ (readable <=> readable')
         /\ \A r : (committed(r) <=> committed(r)') /\ newBatch(r)' = newBatch(r)
                   /\ (fresh(r) <=> fresh(r)') /\ (withinBound(r) <=> withinBound(r)')
         /\ \A c : approvedFor(c) <=> approvedFor(c)'
  BY DEF readable, contiguous, reviewsOf, committed, newBatch, fresh, withinBound, approvedFor,
     latest, latestRequest, currentRevision

(* A step of the running command need only be checked for the store and    *)
(* for what it then knows: the others are idle.                            *)
LEMMA RunningStep ==
  ASSUME IInv, NEW p \in Proc, pc[p] # "idle",
         NEW at \in {"decide", "write", "reply", "refused", "approve", "adopt"},
         pc' = [pc EXCEPT ![p] = at], mutex' = mutex, command' = command,
         pending' \in [Proc -> Batch \cup {Absent}],
         StoreOK', Known(p)'
  PROVE  IInv'
  <1> USE DEF IInv
  <1>1. /\ pc'[p] # "idle"
        /\ \A q \in Proc \ {p} : pc'[q] = pc[q] /\ pc[q] = "idle"
    BY DEF TypeOK, OneRuns
  <1>2. TypeOK'
    BY <1>1 DEF TypeOK, StoreOK, StoreTypes
  <1>3. OneRuns'
    BY <1>1 DEF OneRuns
  <1>4. ASSUME NEW q \in Proc \ {p} PROVE Known(q)'
    BY <1>1 DEF Known
  <1> QED
    BY <1>2, <1>3, <1>4

(* Every step preserves the invariant.                                     *)
LEMMA IInvStep == IInv /\ [Next]_vars => IInv'
  <1> SUFFICES ASSUME IInv, [Next]_vars PROVE IInv'
    OBVIOUS
  <1>a. TypeOK /\ OneRuns /\ StoreOK
    BY DEF IInv
  <1>b. ASSUME batches' = batches, catalog' \in [Skill -> Version \cup {Absent}] PROVE StoreOK'
    BY <1>a, <1>b, SameStore DEF StoreOK, StoreTypes, FollowsExpected, HistoryIsChain
  <1>1. CASE UNCHANGED vars
    BY <1>1, <1>a, <1>b, SameStore DEF vars, store, IInv, TypeOK, OneRuns, Known
  <1>2. ASSUME NEW p \in Proc, Review(p) \/ Apply(p) PROVE IInv'
    <2>1. /\ pc' \in [Proc -> {"idle", "decide", "approve"}]
          /\ \A q \in Proc \ {p} : pc'[q] = "idle"
          /\ pc'[p] \in {"decide", "approve"}
          /\ pc'[p] = "decide" => command'[p] \in Request
          /\ pc'[p] = "approve" => command'[p] \in Candidate
          /\ command' \in [Proc -> Request \cup Candidate \cup {Absent}]
          /\ mutex' = {p}
          /\ UNCHANGED <<batches, catalog, pending>>
      BY <1>2, <1>a DEF Review, Apply, go, M!Acquire, M!Free, TypeOK, OneRuns
    <2>2. TypeOK' /\ OneRuns'
      BY <1>a, <2>1 DEF TypeOK, OneRuns
    <2>3. \A q \in Proc : Known(q)'
      BY <2>1 DEF Known
    <2> QED
      BY <1>a, <1>b, <2>1, <2>2, <2>3 DEF IInv, TypeOK
  <1>3. ASSUME NEW p \in Proc, Decide(p) PROVE IInv'
    <2>1. PICK at \in {"write", "reply", "refused"} : pc' = [pc EXCEPT ![p] = at]
      BY <1>3 DEF Decide, go
    <2>2. pc[p] = "decide" /\ pc'[p] = at /\ command[p] \in Request
      BY <1>3, <1>a, <2>1 DEF Decide, TypeOK, IInv, Known
    <2>3. /\ at = "reply" => committed(command[p])
          /\ at = "write" => /\ ~ committed(command[p])
                             /\ fresh(command[p]) /\ withinBound(command[p])
      BY <1>3, <1>a, <2>1, <2>2 DEF Decide, go, TypeOK
    <2>4. /\ batches' = batches /\ catalog' = catalog /\ mutex' = mutex /\ command' = command
          /\ pending' = [pending EXCEPT ![p] = IF at = "write" THEN newBatch(command[p])
                                                               ELSE Absent]
      BY <1>3, <2>2 DEF Decide, store
    <2>5. pending' \in [Proc -> Batch \cup {Absent}]
      BY <1>a, <2>2, <2>3, <2>4, NewBatchIsBatch DEF TypeOK
    <2>6. Known(p)'
      BY <1>a, <2>2, <2>3, <2>4, SameStore DEF Known, TypeOK
    <2> QED
      BY <1>a, <1>b, <2>1, <2>2, <2>4, <2>5, <2>6, RunningStep DEF TypeOK
  <1>4. ASSUME NEW p \in Proc, WriteBatch(p) PROVE IInv'
    <2>1. /\ pc[p] = "write" /\ pc' = [pc EXCEPT ![p] = "reply"]
          /\ mutex' = mutex /\ catalog' = catalog /\ command' = command
      BY <1>4 DEF WriteBatch, go
    <2>2. /\ command[p] \in Request /\ pending[p] = newBatch(command[p])
          /\ ~ committed(command[p]) /\ fresh(command[p]) /\ withinBound(command[p])
      BY <2>1 DEF IInv, Known
    <2>3. StoreOK' /\ newBatch(command[p]) \in batches'
      BY <1>4, <1>a, <2>1, <2>2, WriteExtendsChains DEF WriteBatch
    <2>4. Known(p)'
      BY <1>a, <2>1, <2>2, <2>3 DEF Known, TypeOK, committed, newBatch
    <2>5. pending' \in [Proc -> Batch \cup {Absent}]
      BY <1>4, <1>a DEF WriteBatch, TypeOK
    <2> QED
      BY <2>1, <2>3, <2>4, <2>5, RunningStep
  <1>5. ASSUME NEW p \in Proc, RequireCandidateApproval(p) PROVE IInv'
    <2>1. PICK at \in {"adopt", "refused"} : /\ pc' = [pc EXCEPT ![p] = at]
                                             /\ at = "adopt" => approvedFor(command[p])
      BY <1>5 DEF RequireCandidateApproval, go
    <2>2. /\ pc[p] = "approve" /\ pc'[p] = at
          /\ batches' = batches /\ catalog' = catalog
          /\ mutex' = mutex /\ command' = command /\ pending' = pending
      BY <1>5, <1>a, <2>1 DEF RequireCandidateApproval, store, TypeOK
    <2>3. Known(p)'
      BY <2>1, <2>2, SameStore DEF Known, IInv
    <2> QED
      BY <1>a, <1>b, <2>1, <2>2, <2>3, RunningStep DEF TypeOK
  <1>6. ASSUME NEW p \in Proc, Adopt(p) PROVE IInv'
    <2>1. /\ pc[p] = "adopt" /\ pc' = [pc EXCEPT ![p] = "reply"] /\ pc'[p] = "reply"
          /\ batches' = batches /\ mutex' = mutex /\ command' = command /\ pending' = pending
      BY <1>6, <1>a DEF Adopt, go, TypeOK
    <2>2. command[p] \in Candidate /\ command[p] \notin Request
      BY <2>1, KindAssumption DEF IInv, Known
    <2>3. \A s \in SkillsOf[command[p]] : VersionOf[command[p]][s] \in Version
      BY <2>2 DEF Version
    <2>4. catalog' \in [Skill -> Version \cup {Absent}]
      BY <1>6, <1>a, <2>3 DEF Adopt, TypeOK
    <2>5. Known(p)'
      BY <2>1, <2>2 DEF Known
    <2> QED
      BY <1>a, <1>b, <2>1, <2>4, <2>5, RunningStep DEF TypeOK
  <1>7. ASSUME NEW s \in Skill, Update(s) PROVE IInv'
    <2>1. catalog' \in [Skill -> Version \cup {Absent}]
      BY <1>7, <1>a DEF Update, TypeOK, Version
    <2> QED
      BY <1>7, <1>a, <1>b, <2>1, SameStore DEF Update, IInv, TypeOK, OneRuns, Known
  <1>8. ASSUME NEW p \in Proc, End(p) PROVE IInv'
    <2>1. /\ mutex' = {} /\ \A q \in Proc : pc'[q] = "idle"
          /\ pc' \in [Proc -> {"idle"}]
          /\ batches' = batches /\ catalog' = catalog
          /\ command' \in [Proc -> Request \cup Candidate \cup {Absent}]
          /\ pending' \in [Proc -> Batch \cup {Absent}]
      BY <1>8, <1>a DEF End, TypeOK, OneRuns
    <2>2. TypeOK' /\ OneRuns'
      BY <1>a, <2>1 DEF TypeOK, OneRuns
    <2>3. \A q \in Proc : Known(q)'
      BY <2>1 DEF Known
    <2> QED
      BY <1>a, <1>b, <2>1, <2>2, <2>3 DEF IInv, TypeOK
  <1> QED
    BY <1>1, <1>2, <1>3, <1>4, <1>5, <1>6, <1>7, <1>8 DEF Next

(* The invariant holds throughout.                                         *)
THEOREM IInvariance == Spec => []IInv
  BY IInvInit, IInvStep, PTL DEF Spec

-----------------------------------------------------------------------------
(* Every variable keeps to its type.                                       *)
THEOREM TypeCorrect == Spec => []TypeOK
  <1>1. IInv => TypeOK
    BY DEF IInv
  <1> QED
    BY <1>1, IInvariance, PTL

(* Whoever crashes or retries, the reviews of each skill form one chain.   *)
THEOREM HistoriesAreChains == Spec => []HistoryIsChain
  <1>1. IInv => HistoryIsChain
    BY DEF IInv, StoreOK
  <1> QED
    BY <1>1, IInvariance, PTL

(* A reviewer who is answered has the decision committed, at the revision  *)
(* after the one that was expected, also when it is a late retry.          *)
THEOREM RepliesAreCommitted == Spec => []ReplyIsCommitted
  <1>1. IInv => ReplyIsCommitted
    BY DEF IInv, Known, StoreOK, FollowsExpected, ReplyIsCommitted, committed
  <1> QED
    BY <1>1, IInvariance, PTL

(* Nothing is adopted that is not approved at that moment.                 *)
THEOREM AdoptionsAreApproved == Spec => []AdoptsOnlyApproved
  <1>1. IInv => AdoptsOnlyApproved
    BY DEF IInv, Known, AdoptsOnlyApproved
  <1> QED
    BY <1>1, IInvariance, PTL

(* The store is append-only.                                               *)
THEOREM StoreIsAppendOnly == Spec => BatchesAreImmutable
  <1>1. IInv /\ [Next]_vars => [batches \subseteq batches']_vars
    <2> SUFFICES ASSUME IInv, Next PROVE batches \subseteq batches'
      OBVIOUS
    <2>1. ASSUME NEW p \in Proc, WriteBatch(p) PROVE batches \subseteq batches'
      BY <2>1, WriteExtendsChains DEF WriteBatch, go, IInv, Known
    <2>2. CASE ~ \E p \in Proc : WriteBatch(p)
      BY <2>2 DEF Next, Review, Decide, Apply, RequireCandidateApproval, Adopt, End, Update,
         store
    <2> QED
      BY <2>1, <2>2
  <1> QED
    BY <1>1, IInvariance, PTL DEF Spec, BatchesAreImmutable

-----------------------------------------------------------------------------
(* The revision of a skill counts its reviews, and the latest is one.      *)
LEMMA RevisionIsCount ==
  IInv => \A s \in Skill : /\ IsFiniteSet(reviewsOf(s)) /\ Cardinality(reviewsOf(s)) \in Nat
                           /\ currentRevision(s) = Cardinality(reviewsOf(s))
                           /\ latest(s) # Absent => latest(s) \in reviewsOf(s)
  BY LatestOfChain DEF IInv, StoreOK, HistoryIsChain, readable

(* Reviews are only added, so revisions never go back.                     *)
LEMMA StoreGrows ==
  ASSUME IInv, IInv', [Next]_vars
  PROVE  /\ \A s \in Skill : reviewsOf(s) \subseteq reviewsOf(s)'
         /\ \A s \in Skill : /\ currentRevision(s) \in Nat /\ currentRevision(s)' \in Nat
                             /\ currentRevision(s) <= currentRevision(s)'
  <1>1. batches \subseteq batches'
    <2>1. ASSUME NEW p \in Proc, WriteBatch(p) PROVE batches \subseteq batches'
      BY <2>1, WriteExtendsChains DEF WriteBatch, go, IInv, Known
    <2>2. CASE ~ \E p \in Proc : WriteBatch(p)
      BY <2>2 DEF Next, Review, Decide, Apply, RequireCandidateApproval, Adopt, End, Update,
         store, vars
    <2> QED
      BY <2>1, <2>2
  <1>2. \A s \in Skill : reviewsOf(s) \subseteq reviewsOf(s)'
    BY <1>1 DEF reviewsOf
  <1>3. IInv' => (\A s \in Skill :
                    /\ IsFiniteSet(reviewsOf(s)) /\ Cardinality(reviewsOf(s)) \in Nat
                    /\ currentRevision(s) = Cardinality(reviewsOf(s))
                    /\ latest(s) # Absent => latest(s) \in reviewsOf(s))'
    BY RevisionIsCount, PTL
  <1>4. ASSUME NEW s \in Skill
        PROVE  /\ currentRevision(s) \in Nat /\ currentRevision(s)' \in Nat
               /\ currentRevision(s) <= currentRevision(s)'
    <2>1. /\ IsFiniteSet(reviewsOf(s)') /\ currentRevision(s)' = Cardinality(reviewsOf(s)')
          /\ currentRevision(s) = Cardinality(reviewsOf(s))
          /\ currentRevision(s) \in Nat /\ currentRevision(s)' \in Nat
      BY <1>3, RevisionIsCount
    <2>2. Cardinality(reviewsOf(s)) <= Cardinality(reviewsOf(s)')
      BY <1>2, <2>1, FS_Subset
    <2> QED
      BY <2>1, <2>2
  <1> QED
    BY <1>2, <1>4

-----------------------------------------------------------------------------
(* Each review that a preflight holds is in the store, and is no older     *)
(* than the decisions that were there when the build had read all skills.  *)
Backed(f) == \A s \in Skill : f.reviews[s] = Absent
               \/ \E b \in reviewsOf(s) : /\ b.request = f.reviews[s].request
                                          /\ b.revision[s] = f.reviews[s].revision

NotOlder(f) == \A s \in Skill : f.reviews[s] = Absent \/ f.reviews[s].revision >= floor[s]

FloorIsPast == /\ floor \in [Skill -> Nat]
               /\ \A s \in Skill : floor[s] <= currentRevision(s)

PreviewInv == /\ FloorIsPast
              /\ stage = "create" => Backed(final) /\ NotOlder(final)
              /\ output # Absent => /\ Backed(output) /\ NotOlder(output) /\ ready(output)
                                    /\ stage \in {"idle", "verify", "end"}

(* A preflight made now is backed and not older than any earlier moment.   *)
LEMMA PreflightNow ==
  ASSUME IInv, FloorIsPast, NEW versions
  PROVE  Backed(preflightOf(versions)) /\ NotOlder(preflightOf(versions))
  <1> DEFINE f == preflightOf(versions)
  <1>1. ASSUME NEW s \in Skill, f.reviews[s] # Absent
        PROVE  /\ latest(s) \in reviewsOf(s)
               /\ f.reviews[s].request = latest(s).request
               /\ f.reviews[s].revision = latest(s).revision[s]
               /\ f.reviews[s].revision = currentRevision(s)
    <2>1. latest(s) # Absent /\ f.reviews[s] = latestReview(s)
      BY <1>1 DEF preflightOf, latestReview
    <2> QED
      BY <2>1, RevisionIsCount DEF latestReview, currentRevision
  <1>2. Backed(f)
    <2>1. ASSUME NEW s \in Skill, f.reviews[s] # Absent
          PROVE  \E b \in reviewsOf(s) : /\ b.request = f.reviews[s].request
                                         /\ b.revision[s] = f.reviews[s].revision
      <3> HIDE DEF f
      <3> QED
        BY <1>1, <2>1
    <2> QED
      BY <2>1 DEF Backed
  <1>3. NotOlder(f)
    BY <1>1, RevisionIsCount DEF NotOlder, FloorIsPast
  <1> QED
    BY <1>2, <1>3

(* What is backed stays backed while others review, adopt and update.      *)
LEMMA PreviewInvBeside ==
  ASSUME IInv, IInv', PreviewInv, [Next]_vars, UNCHANGED preview
  PROVE  PreviewInv'
  <1>1. \A f : Backed(f) => Backed(f)'
    BY StoreGrows DEF Backed
  <1>2. FloorIsPast'
    BY StoreGrows, RevisionIsCount DEF PreviewInv, FloorIsPast, preview
  <1> QED
    BY <1>1, <1>2 DEF PreviewInv, preview, NotOlder, ready, blocked, reviewed

(* Every step of the preview keeps what it knows.                          *)
LEMMA PreviewInvStep ==
  ASSUME IInv, PreviewInv, Preview
  PROVE  PreviewInv'
  <1> USE DEF PreviewInv, to, files
  <1>1. Preview => UNCHANGED vars
    BY DEF Preview, Start, ReadSkill, Preflight, FinalPreflight, Write, Verify, EndPreview, Export
  <1>2. /\ \A s : reviewsOf(s)' = reviewsOf(s) /\ currentRevision(s)' = currentRevision(s)
        /\ \A f : Backed(f) <=> Backed(f)'
    BY <1>1 DEF vars, store, reviewsOf, currentRevision, latest, Backed
  <1>3. CASE \E s \in Skill : ReadSkill(s)
    <2>1. floor' = [t \in Skill |-> currentRevision(t)] /\ output = Absent /\ output' = Absent
          /\ stage' \notin {"create"}
      BY <1>3 DEF ReadSkill
    <2>2. FloorIsPast'
      BY <1>2, <2>1, RevisionIsCount DEF FloorIsPast
    <2> QED
      BY <2>1, <2>2
  <1>4. CASE FinalPreflight
    <2>1. Backed(final') /\ NotOlder(final')
      BY <1>4, PreflightNow DEF FinalPreflight
    <2>2. /\ Backed(final)' /\ NotOlder(final)' /\ FloorIsPast'
          /\ output' = Absent
      BY <1>2, <1>4, <2>1 DEF FinalPreflight, Backed, NotOlder, FloorIsPast
    <2> QED
      BY <2>2
  <1>5. CASE Write
    BY <1>2, <1>5 DEF Write, Backed, NotOlder, FloorIsPast, ready, blocked, reviewed
  <1>6. CASE Start \/ Preflight \/ Verify \/ EndPreview \/ Export
    BY <1>2, <1>6 DEF Start, Preflight, Verify, EndPreview, Export, Backed, NotOlder,
       FloorIsPast, ready, blocked, reviewed
  <1> QED
    BY <1>3, <1>4, <1>5, <1>6 DEF Preview

(* The invariants of the store and of the preview hold together.           *)
THEOREM PreviewInvariance == PreviewSpec => [](IInv /\ PreviewInv)
  <1>1. PreviewInit => IInv /\ PreviewInv
    <2> SUFFICES ASSUME PreviewInit PROVE PreviewInv
      BY IInvInit DEF PreviewInit
    <2>1. \A s \in Skill : currentRevision(s) = 0
      BY DEF PreviewInit, Init, currentRevision, latest, reviewsOf
    <2> QED
      BY <2>1 DEF PreviewInit, PreviewInv, FloorIsPast
  <1>2. IInv /\ PreviewInv /\ [Preview \/ (Next /\ UNCHANGED preview)]_<<vars, preview>>
          => IInv' /\ PreviewInv'
    <2> SUFFICES ASSUME IInv, PreviewInv,
                        [Preview \/ (Next /\ UNCHANGED preview)]_<<vars, preview>>
                 PROVE  IInv' /\ PreviewInv'
      OBVIOUS
    <2>1. CASE Preview
      <3>1. UNCHANGED vars
        BY <2>1 DEF Preview, Start, ReadSkill, Preflight, FinalPreflight, Write, Verify,
           EndPreview, Export
      <3> QED
        BY <2>1, <3>1, IInvStep, PreviewInvStep
    <2>2. CASE [Next]_vars /\ UNCHANGED preview
      BY <2>2, IInvStep, PreviewInvBeside
    <2> QED
      BY <2>1, <2>2
  <1> QED
    BY <1>1, <1>2, PTL DEF PreviewSpec

(* A governed candidate has for each released skill an approving review of *)
(* that very version, however reviews, adoptions and updates ran beside.   *)
THEOREM CandidatesAreApproved == PreviewSpec => []CandidateIsApproved
  <1>1. PreviewInv => CandidateIsApproved
    BY DEF PreviewInv, CandidateIsApproved, released, Backed, ready, blocked, reviewed
  <1> QED
    BY <1>1, PreviewInvariance, PTL

(* No decision that was there when the release build had read all of its   *)
(* skills is passed over for an older one.                                 *)
THEOREM LateDecisionsCount == PreviewSpec => []NoDecisionPassedOver
  <1>1. PreviewInv => NoDecisionPassedOver
    BY DEF PreviewInv, NoDecisionPassedOver, released, NotOlder, ready, blocked
  <1> QED
    BY <1>1, PreviewInvariance, PTL

-----------------------------------------------------------------------------
(***************************************************************************)
(* What editors are told was submitted is what they had compared, the      *)
(* protocol implements the board, and a defect of main needs proposals     *)
(* that overlap.                                                           *)
(***************************************************************************)

Places == {"idle", "refused", "lost", "answered", "submit", "ref", "main1", "commit", "main2",
           "branch", "verify", "find", "open", "confirm"}

(* The places of a request that has a proposal, one that was computed and  *)
(* found without errors, a commit, one that holds the proposal, a branch.  *)
Drafted == Places \ {"idle", "refused"}
Planned == Drafted \ {"lost", "submit"}
Headed == {"main2", "branch", "verify", "find", "open", "confirm"}
Verified == Headed \ {"verify"}
Created == Headed \ {"main2", "branch"}

Object == [tree : Catalog, parent : Nat, merged : Branch \cup {None}]

(* The repository only refers to commits that it has.                      *)
RepositoryOK ==
  /\ commits \in Seq(Object)
  /\ Len(commits) \in Commit
  /\ main \in 1 .. Len(commits)
  /\ branch \in [Branch -> 0 .. Len(commits)]
  /\ pr \in [Branch -> {"none", "open", "closed", "merged"}]
  /\ \A b \in Branch : branch[b] # 0 => b.base <= Len(commits)
  /\ \A b \in Branch : pr[b] # "none" => branch[b] # 0

RequestTypes ==
  /\ progress \in [Editors -> Places]
  /\ draft \in [Editors -> Branch \cup {None}]
  /\ head \in [Editors -> Nat]
  /\ DOMAIN answer = Editors

(* What each place of a request knows.                                     *)
Informed(e) ==
  /\ progress[e] \in Drafted => draft[e] \in Branch /\ draft[e].base <= Len(commits)
  /\ progress[e] \in Planned => submittable(draft[e])
  /\ progress[e] \in Headed => head[e] \in 1 .. Len(commits)
  /\ progress[e] \in Verified => holdsProposal(e, head[e])
  /\ progress[e] \in Created => branch[draft[e]] # 0
  /\ progress[e] = "answered" => /\ answer[e].branch = draft[e]
                           /\ answer[e].head \in 1 .. Len(commits)
                           /\ holdsProposal(e, answer[e].head)

SubmissionIInv == /\ RepositoryOK
        /\ RequestTypes
        /\ \A e \in Editors : Informed(e)

-----------------------------------------------------------------------------
(* A skill with another text, other links and other aliases is a skill.    *)
LEMMA Rewritten ==
  ASSUME NEW k \in SkillRecord, NEW t \in Texts, NEW L \in SUBSET Skills, NEW A \in (SUBSET Aliases) \cup {Keep}
  PROVE  [k EXCEPT !.text = t, !.links = L, !.aliases = IF A = Keep THEN k.aliases ELSE A] \in SkillRecord
  <1> DEFINE aliases == IF A = Keep THEN k.aliases ELSE A
  <1>1. aliases \in SUBSET Aliases
    <2>1. k.aliases \in SUBSET Aliases
      BY DEF SkillRecord
    <2>2. CASE A = Keep
      BY <2>1, <2>2
    <2>3. CASE A # Keep
      BY <2>3
    <2> QED
      BY <2>2, <2>3
  <1> HIDE DEF aliases
  <1>2. [k EXCEPT !.text = t, !.links = L, !.aliases = aliases] \in SkillRecord
    BY <1>1 DEF SkillRecord
  <1> QED
    BY <1>2 DEF aliases

(* A plan for a catalog gives a catalog.                                   *)
LEMMA PlanType ==
  ASSUME NEW c \in Catalog, NEW p \in Proposal
  PROVE  plan(c, p).after \in Catalog
  <1> USE DEF Catalog
  <1>1. CASE p.operation = "add"
    <2>1. p.name \in Skills /\ p.skill \in SkillRecord /\ p.from \in Imports \cup {NoImport}
      BY <1>1 DEF Proposal
    <2>2. normalized(p) \in SkillRecord
      <3>1. CASE p.from = NoImport
        BY <2>1, <3>1 DEF normalized, SkillRecord
      <3>2. CASE p.from # NoImport
        <4>1. imported(p) \in Texts
          BY <2>1, <3>2, ImportAssumption DEF imported
        <4> QED
          BY <2>1, <3>2, <4>1 DEF normalized, SkillRecord
      <3> QED
        BY <3>1, <3>2
    <2>3. plan(c, p).after = [c EXCEPT ![p.name] = normalized(p)]
      BY <1>1 DEF plan, planOriginalAdd
    <2> QED
      BY <2>1, <2>2, <2>3
  <1>2. CASE p.operation = "update"
    <2>1. /\ p.name \in Skills /\ p.text \in Texts /\ p.links \in SUBSET Skills
          /\ p.aliases \in (SUBSET Aliases) \cup {Keep}
      BY <1>2 DEF Proposal
    <2>2. CASE p.name \notin recorded(c)
      BY <1>2, <2>2 DEF plan, planSkillUpdate
    <2>3. CASE p.name \in recorded(c)
      <3> DEFINE new == [c[p.name] EXCEPT !.text = p.text, !.links = p.links,
                                          !.aliases = IF p.aliases = Keep THEN c[p.name].aliases ELSE p.aliases]
      <3>1. c[p.name] \in SkillRecord
        BY <2>1, <2>3 DEF recorded
      <3>2. new \in SkillRecord
        BY <2>1, <3>1, Rewritten
      <3>3. plan(c, p).after = [c EXCEPT ![p.name] = new]
        BY <1>2, <2>3 DEF plan, planSkillUpdate
      <3> QED
        BY <2>1, <3>2, <3>3
    <2> QED
      BY <2>2, <2>3
  <1>3. CASE p.operation = "remove"
    <2>1. plan(c, p).after = [c EXCEPT ![p.name] = Missing]
      BY <1>3 DEF plan, planSkillRemoval
    <2> QED
      BY <2>1
  <1> QED
    BY <1>1, <1>2, <1>3 DEF Proposal

(* What the repository has at a base is a catalog, and a commit of the     *)
(* proposal of it is one.                                                  *)
LEMMA TreeType ==
  ASSUME RepositoryOK, NEW c \in 1 .. Len(commits)
  PROVE  tree(c) \in Catalog
  <1>1. commits[c] \in Object
    BY DEF RepositoryOK
  <1> QED
    BY <1>1 DEF tree, Object

LEMMA PreviewType ==
  ASSUME RepositoryOK, NEW b \in Branch, b.base <= Len(commits)
  PROVE  buildPreview(b).after \in Catalog
  <1>1. b.base \in 1 .. Len(commits) /\ proposalOf[b.edit] \in Proposal
    BY EditorAssumption DEF Branch, Commit, RepositoryOK
  <1> QED
    BY <1>1, TreeType, PlanType DEF buildPreview

LEMMA BaseType ==
  ASSUME NEW b \in Branch
  PROVE  b.base \in Nat \ {0} /\ b.edit \in Edits
  BY CommitAssumption DEF Branch, Commit

(* A merge of three catalogs is one.                                       *)
LEMMA MergedSkillType ==
  ASSUME NEW base \in SkillRecord \cup {Missing}, NEW ours \in SkillRecord \cup {Missing},
         NEW theirs \in SkillRecord \cup {Missing}
  PROVE  mergedSkill(base, ours, theirs) \in SkillRecord \cup {Missing}
  <1>1. CASE Missing \in {base, ours, theirs}
    BY <1>1 DEF mergedSkill, taken
  <1>2. CASE Missing \notin {base, ours, theirs}
    BY <1>2 DEF mergedSkill, taken, SkillRecord
  <1> QED
    BY <1>1, <1>2

LEMMA MergedType ==
  ASSUME RepositoryOK, NEW b \in Branch, branch[b] # 0
  PROVE  mergedTree(b) \in Catalog
  <1>1. b.base \in 1 .. Len(commits) /\ main \in 1 .. Len(commits) /\ branch[b] \in 1 .. Len(commits)
    BY BaseType DEF RepositoryOK
  <1>2. tree(b.base) \in Catalog /\ tree(main) \in Catalog /\ tree(branch[b]) \in Catalog
    BY <1>1, TreeType
  <1>3. ASSUME NEW s \in Skills
        PROVE  mergedSkill(tree(b.base)[s], tree(main)[s], tree(branch[b])[s]) \in SkillRecord \cup {Missing}
    BY <1>2, MergedSkillType DEF Catalog
  <1> QED
    BY <1>3 DEF mergedTree, Catalog

LEMMA SubmissionIInvInit == SubmissionInit => SubmissionIInv
  <1> SUFFICES ASSUME SubmissionInit PROVE SubmissionIInv
    OBVIOUS
  <1> USE DEF SubmissionInit
  <1>1. RepositoryOK
    BY FirstCatalogAssumption, CommitAssumption DEF RepositoryOK, Commit, Object
  <1>2. RequestTypes
    BY DEF RequestTypes, Places
  <1>3. ASSUME NEW e \in Editors PROVE Informed(e)
    BY DEF Informed, Drafted, Planned, Headed, Verified, Created
  <1> QED
    BY <1>1, <1>2, <1>3 DEF SubmissionIInv
(* A step that leaves the repository alone, or only adds to it, and one    *)
(* editor's request alone keeps what that request knows.                   *)
LEMMA KnownKept ==
  ASSUME SubmissionIInv, RepositoryOK', NEW e \in Editors,
         Len(commits) <= Len(commits'), \A c \in 1 .. Len(commits) : commits'[c] = commits[c],
         \A b \in Branch : branch[b] # 0 => branch'[b] # 0,
         progress'[e] = progress[e], draft'[e] = draft[e], head'[e] = head[e], answer'[e] = answer[e]
  PROVE  Informed(e)'
  <1> USE DEF SubmissionIInv
  <1>1. Informed(e) /\ Len(commits) \in Nat /\ Len(commits') \in Nat
    BY DEF RepositoryOK, Commit
  <1>2. ASSUME progress[e] \in Drafted
        PROVE  /\ buildPreview(draft[e]) = buildPreview(draft[e])'
               /\ tree(draft[e].base)' = tree(draft[e].base)
    <2>1. draft[e].base \in 1 .. Len(commits)
      BY <1>1, <1>2 DEF Informed, Branch, Commit
    <2> QED
      BY <2>1 DEF buildPreview, tree
  <1>3. progress[e] \in Drafted => draft'[e] \in Branch /\ draft'[e].base <= Len(commits')
    BY <1>1 DEF Informed, Branch, Commit
  <1>4. ASSUME progress[e] \in Planned PROVE submittable(draft[e])'
    BY <1>1, <1>2, <1>4 DEF Informed, submittable, Planned
  <1>5. ASSUME progress[e] \in Planned, NEW c \in 1 .. Len(commits), holdsProposal(e, c)
        PROVE  holdsProposal(e, c)'
    BY <1>1, <1>2, <1>5 DEF holdsProposal, Planned, tree
  <1>6. progress[e] \in Headed => head[e] \in 1 .. Len(commits')
    BY <1>1 DEF Informed
  <1>7. progress[e] \in Verified => holdsProposal(e, head[e])'
    BY <1>1, <1>5 DEF Informed, Verified, Headed, Planned, Drafted, Places
  <1>8. progress[e] = "answered" => /\ answer[e].head \in 1 .. Len(commits')
                              /\ holdsProposal(e, answer[e].head)'
    BY <1>1, <1>5 DEF Informed, Planned, Drafted, Places
  <1>9. progress[e] \in Created => branch'[draft[e]] # 0
    BY <1>1 DEF Informed, Created, Headed, Drafted, Places
  <1> QED
    BY <1>1, <1>3, <1>4, <1>6, <1>7, <1>8, <1>9 DEF Informed, holdsProposal

(* The places from which a request stops.                                  *)
LEMMA StopStep ==
  ASSUME SubmissionIInv, NEW e \in Editors, NEW place \in {"refused", "lost"},
         progress[e] \in Drafted, Goto(e, place), UNCHANGED <<hub, draft, answer>>,
         head' = [head EXCEPT ![e] = 0]
  PROVE  SubmissionIInv'
  <1> USE DEF SubmissionIInv, Goto, hub
  <1>1. RepositoryOK'
    BY DEF RepositoryOK
  <1>2. RequestTypes'
    BY DEF RequestTypes, Places
  <1>3. Informed(e)'
    BY DEF Informed, RequestTypes, Drafted, Planned, Headed, Verified, Created
  <1>4. ASSUME NEW f \in Editors \ {e} PROVE Informed(f)'
    BY <1>1, KnownKept DEF RequestTypes, RepositoryOK, Commit
  <1> QED
    BY <1>1, <1>2, <1>3, <1>4
(* The steps of one editor.  A refused or lost request stops; the others   *)
(* go on with what they have found.                                        *)
LEMMA SubmissionIInvRequest ==
  ASSUME SubmissionIInv, NEW e \in Editors, PreviewProposal(e) \/ Retry(e) \/ LoseAnswer(e) \/ Step(e)
  PROVE  SubmissionIInv'
  <1> USE DEF SubmissionIInv
  <1> DEFINE Quiet == UNCHANGED hub
  <1>0. Informed(e) /\ RequestTypes /\ RepositoryOK /\ Len(commits) \in Nat
    BY DEF RepositoryOK, Commit
  (* Most steps change only what this request knows.                       *)
  <1>1. ASSUME UNCHANGED hub, RequestTypes', Informed(e)',
               \A f \in Editors \ {e} : /\ progress'[f] = progress[f] /\ draft'[f] = draft[f]
                                         /\ head'[f] = head[f] /\ answer'[f] = answer[f]
        PROVE  SubmissionIInv'
    <2>1. RepositoryOK'
      BY <1>1 DEF RepositoryOK, hub
    <2>2. ASSUME NEW f \in Editors \ {e} PROVE Informed(f)'
      BY <1>0, <1>1, <2>1, KnownKept DEF hub
    <2> QED
      BY <1>1, <2>1, <2>2
  <1>2. CASE Refuse(e) /\ progress[e] \in Drafted
    BY <1>2, StopStep DEF Refuse
  <1>3. CASE LoseAnswer(e)
    <2>1. progress[e] \in Drafted
      BY <1>0, <1>3 DEF LoseAnswer, RequestTypes, Drafted, Places
    <2> QED
      BY <1>3, <2>1, StopStep DEF LoseAnswer, Lose, hub
  <1>4. CASE PreviewProposal(e)
    <2>1. PICK edit \in Wants[e] : draft' = [draft EXCEPT ![e] = [base |-> main, edit |-> edit]]
      BY <1>4 DEF PreviewProposal
    <2>2. [base |-> main, edit |-> edit] \in Branch
      BY <1>0, <2>1, EditorAssumption, CommitAssumption DEF Branch, Commit, RepositoryOK
    <2>3. RequestTypes'
      BY <1>0, <1>4, <2>1, <2>2 DEF PreviewProposal, RequestTypes, Goto, Places
    <2>4. Informed(e)'
      BY <1>0, <1>4, <2>1, <2>2 DEF PreviewProposal, RequestTypes, Goto, Informed, Drafted, Planned, Headed, Verified, Created, Places, hub, RepositoryOK
    <2>5. \A f \in Editors \ {e} : /\ progress'[f] = progress[f] /\ draft'[f] = draft[f]
                                     /\ head'[f] = head[f] /\ answer'[f] = answer[f]
      BY <1>0, <1>4, <2>1 DEF PreviewProposal, RequestTypes, Goto
    <2> QED
      BY <1>1, <1>4, <2>3, <2>4, <2>5 DEF PreviewProposal
  <1>5. CASE Retry(e)
    <2>1. RequestTypes'
      BY <1>0, <1>5 DEF Retry, RequestTypes, Goto, Places
    <2>2. Informed(e)'
      BY <1>0, <1>5 DEF Retry, RequestTypes, Goto, Informed, Drafted, Planned, Headed, Verified, Created, Places, hub
    <2> QED
      BY <1>0, <1>1, <1>5, <2>1, <2>2 DEF Retry, RequestTypes, Goto
  <1>6. CASE SubmitProposal(e) /\ ~ Refuse(e)
    <2>1. RequestTypes'
      BY <1>0, <1>6 DEF SubmitProposal, RequestTypes, Goto, Places
    <2>2. draft' = draft /\ UNCHANGED hub /\ progress'[e] = "ref" /\ submittable(draft[e]) /\ progress[e] = "submit"
      BY <1>0, <1>6 DEF SubmitProposal, RequestTypes, Goto
    <2>3. submittable(draft[e])'
      BY <2>2 DEF submittable, buildPreview, tree, hub
    <2>4. Informed(e)'
      BY <1>0, <2>2, <2>3 DEF Informed, Drafted, Planned, Headed, Verified, Created, Places, hub
    <2> QED
      BY <1>0, <1>1, <1>6, <2>1, <2>2, <2>4 DEF SubmitProposal, RequestTypes, Goto
  <1>7. CASE ReadRef(e)
    <2>1. RequestTypes'
      BY <1>0, <1>7 DEF ReadRef, RequestTypes, Goto, Places, RepositoryOK, Informed, Drafted
    <2>2. branch[draft[e]] \in 0 .. Len(commits) /\ submittable(draft[e])'
      BY <1>0, <1>7 DEF ReadRef, Informed, Drafted, Planned, Places, RepositoryOK, submittable, buildPreview, tree, hub
    <2>3. Informed(e)'
      BY <1>0, <1>7, <2>2 DEF ReadRef, RequestTypes, Goto, Informed, Drafted, Planned, Headed, Verified, Created, Places, hub
    <2> QED
      BY <1>0, <1>1, <1>7, <2>1, <2>3 DEF ReadRef, RequestTypes, Goto
  <1>8. CASE VerifyHead(e) /\ ~ Refuse(e)
    <2>1. RequestTypes'
      BY <1>0, <1>8 DEF VerifyHead, RequestTypes, Goto, Places
    <2>2. submittable(draft[e])' /\ holdsProposal(e, head[e])'
      BY <1>0, <1>8 DEF VerifyHead, Informed, Planned, Drafted, Places, submittable, holdsProposal, buildPreview, tree, hub
    <2>3. Informed(e)'
      BY <1>0, <1>8, <2>2 DEF VerifyHead, RequestTypes, Goto, Informed, Drafted, Planned, Headed, Verified, Created, Places, hub
    <2> QED
      BY <1>0, <1>1, <1>8, <2>1, <2>3 DEF VerifyHead, RequestTypes, Goto
  <1>9. CASE CheckMain(e) /\ ~ Refuse(e)
    <2>1. RequestTypes'
      BY <1>0, <1>9 DEF CheckMain, RequestTypes, Goto, Places
    <2>2. /\ submittable(draft[e])'
          /\ progress[e] = "main2" => holdsProposal(e, head[e])'
      BY <1>0, <1>9 DEF CheckMain, Informed, Planned, Drafted, Headed, Verified, Created, Places, submittable, holdsProposal, buildPreview, tree, hub
    <2>3. Informed(e)'
      BY <1>0, <1>9, <2>2 DEF CheckMain, RequestTypes, Goto, Informed, Drafted, Planned, Headed, Verified, Created, Places, hub
    <2> QED
      BY <1>0, <1>1, <1>9, <2>1, <2>3 DEF CheckMain, RequestTypes, Goto
  <1>10. CASE PostCommit(e)
    <2> DEFINE new == [tree |-> buildPreview(draft[e]).after, parent |-> draft[e].base, merged |-> None]
    <2>1. draft[e] \in Branch /\ draft[e].base \in 1 .. Len(commits) /\ submittable(draft[e])
      BY <1>0, <1>10 DEF PostCommit, Informed, Drafted, Planned, Places, Branch, Commit
    <2>2. new \in Object
      BY <1>0, <2>1, PreviewType DEF Object
    <2>3. commits' = Append(commits, new) /\ UNCHANGED <<main, branch, pr, draft, answer>>
      BY <1>10 DEF PostCommit
    <2> HIDE DEF new
    <2>4. /\ Len(commits') = Len(commits) + 1
          /\ \A c \in 1 .. Len(commits) : commits'[c] = commits[c]
          /\ commits'[Len(commits) + 1] = new
          /\ commits' \in Seq(Object)
      BY <1>0, <2>2, <2>3 DEF RepositoryOK
    <2>5. RepositoryOK'
      <3>1. Len(commits') \in Commit /\ main \in 1 .. Len(commits')
        BY <1>0, <1>10, <2>4, CommitAssumption DEF RepositoryOK, PostCommit, Commit
      <3>2. branch \in [Branch -> 0 .. Len(commits')]
        BY <1>0, <2>4 DEF RepositoryOK
      <3>3. \A b \in Branch : branch[b] # 0 => b.base <= Len(commits')
        BY <1>0, <2>4, BaseType DEF RepositoryOK
      <3>4. main' = main /\ branch' = branch /\ pr' = pr
        BY <2>3
      <3>5. /\ pr \in [Branch -> {"none", "open", "closed", "merged"}]
            /\ \A b \in Branch : pr[b] # "none" => branch[b] # 0
        BY <1>0 DEF RepositoryOK
      <3> QED
        BY <2>4, <3>1, <3>2, <3>3, <3>4, <3>5 DEF RepositoryOK
    <2>6. RequestTypes'
      <3>1. \/ head' = [head EXCEPT ![e] = Len(commits) + 1] /\ Goto(e, "main2")
            \/ Lose(e) /\ UNCHANGED head
        BY <1>10 DEF PostCommit
      <3>2. progress' \in [Editors -> Places] /\ head' \in [Editors -> Nat]
        BY <1>0, <3>1 DEF Lose, RequestTypes, Goto, Places
      <3> QED
        BY <1>0, <2>3, <3>2 DEF RequestTypes
    <2>7. submittable(draft[e])' /\ buildPreview(draft[e])' = buildPreview(draft[e])
      BY <1>0, <2>1, <2>3, <2>4 DEF submittable, buildPreview, tree
    <2>8. Informed(e)'
      <3>1. CASE Lose(e) /\ UNCHANGED head
        BY <1>0, <2>1, <2>3, <2>4, <3>1 DEF Lose, RequestTypes, Goto, Informed, Drafted, Planned, Headed, Verified, Created, Places
      <3>2. CASE head' = [head EXCEPT ![e] = Len(commits) + 1] /\ Goto(e, "main2")
        <4>1. head'[e] = Len(commits) + 1 /\ progress'[e] = "main2" /\ draft'[e] = draft[e]
          BY <1>0, <2>3, <3>2 DEF RequestTypes, Goto
        <4>2. holdsProposal(e, head[e])'
          BY <2>4, <2>7, <4>1 DEF holdsProposal, tree, new
        <4> QED
          BY <1>0, <2>1, <2>4, <2>7, <4>1, <4>2 DEF Informed, Drafted, Planned, Headed, Verified, Created, Places
      <3> QED
        BY <1>10, <3>1, <3>2 DEF PostCommit
    <2>9. ASSUME NEW f \in Editors \ {e} PROVE Informed(f)'
      <3>1. progress'[f] = progress[f] /\ draft'[f] = draft[f] /\ head'[f] = head[f] /\ answer'[f] = answer[f]
        BY <1>0, <1>10 DEF PostCommit, Lose, RequestTypes, Goto
      <3> QED
        BY <1>0, <2>3, <2>4, <2>5, <3>1, KnownKept
    <2> QED
      BY <2>5, <2>6, <2>8, <2>9
  <1>11. CASE PostRef(e)
    <2>1. draft[e] \in Branch /\ submittable(draft[e]) /\ head[e] \in 1 .. Len(commits) /\ holdsProposal(e, head[e])
      BY <1>0, <1>11 DEF PostRef, Informed, Drafted, Planned, Headed, Verified, Created, Places
    <2>2. commits' = commits /\ UNCHANGED <<main, pr, draft, answer>>
      BY <1>11 DEF PostRef
    <2>3. RepositoryOK' /\ \A b \in Branch : branch[b] # 0 => branch'[b] # 0
      BY <1>0, <1>11, <2>1, <2>2 DEF PostRef, RepositoryOK, Informed, Drafted, Places
    <2>4. branch[draft[e]] \in 0 .. Len(commits)
      BY <1>0, <2>1 DEF RepositoryOK
    <2>5. RequestTypes'
      BY <1>0, <1>11, <2>4 DEF PostRef, Lose, RequestTypes, Goto, Places
    <2>6. submittable(draft[e])' /\ (head'[e] = head[e] => holdsProposal(e, head[e])')
      BY <2>1, <2>2 DEF submittable, holdsProposal, buildPreview, tree
    <2>7. Informed(e)'
      <3>1. draft'[e] = draft[e] /\ draft[e] \in Branch /\ draft[e].base <= Len(commits)
        BY <1>0, <1>11, <2>2 DEF PostRef, Informed, Drafted, Places
      <3>2. CASE branch[draft[e]] = 0
        <4>1. branch'[draft[e]] = head[e]
          BY <1>0, <1>11, <2>1, <3>2 DEF PostRef, RepositoryOK
        <4> QED
          BY <1>0, <1>11, <2>1, <2>2, <2>6, <3>1, <3>2, <4>1
             DEF PostRef, Lose, RequestTypes, Goto, Informed, Drafted, Planned, Headed, Verified, Created, Places
      <3>3. CASE branch[draft[e]] # 0
        BY <1>0, <1>11, <2>2, <2>4, <2>6, <3>1, <3>3
           DEF PostRef, RequestTypes, Goto, Informed, Drafted, Planned, Headed, Verified, Created, Places
      <3> QED
        BY <3>2, <3>3
    <2>8. ASSUME NEW f \in Editors \ {e} PROVE Informed(f)'
      <3>1. progress'[f] = progress[f] /\ draft'[f] = draft[f] /\ head'[f] = head[f] /\ answer'[f] = answer[f]
        BY <1>0, <1>11 DEF PostRef, Lose, RequestTypes, Goto
      <3> QED
        BY <1>0, <2>2, <2>3, <3>1, KnownKept
    <2> QED
      BY <2>3, <2>5, <2>7, <2>8
  <1>12. CASE Answer(e) /\ progress[e] \in {"find", "confirm"}
    <2>1. submittable(draft[e]) /\ head[e] \in 1 .. Len(commits) /\ holdsProposal(e, head[e])
      BY <1>0, <1>12 DEF Informed, Drafted, Planned, Headed, Verified, Created, Places
    <2>2. /\ progress'[e] = "answered" /\ answer'[e] = [branch |-> draft[e], head |-> head[e]]
          /\ UNCHANGED hub /\ draft' = draft
      BY <1>0, <1>12 DEF Answer, RequestTypes, Goto
    <2>3. RequestTypes'
      BY <1>0, <1>12 DEF Answer, RequestTypes, Goto, Places
    <2>4. submittable(draft[e])' /\ holdsProposal(e, answer[e].head)'
      BY <2>1, <2>2 DEF submittable, holdsProposal, buildPreview, tree, hub
    <2>5. Informed(e)'
      BY <1>0, <1>12, <2>1, <2>2, <2>4 DEF Informed, Drafted, Planned, Headed, Verified, Created, Places, hub
    <2> QED
      BY <1>0, <1>1, <1>12, <2>3, <2>5 DEF Answer, RequestTypes, Goto
  <1>13. CASE FindPr(e) /\ Goto(e, "open") /\ UNCHANGED <<hub, draft, head, answer, lost>>
    <2>1. RequestTypes'
      BY <1>0, <1>13 DEF RequestTypes, Goto, Places
    <2>2. submittable(draft[e])' /\ holdsProposal(e, head[e])'
      BY <1>0, <1>13 DEF FindPr, Informed, Planned, Drafted, Headed, Verified, Created, Places, submittable, holdsProposal, buildPreview, tree, hub
    <2>3. Informed(e)'
      BY <1>0, <1>13, <2>2 DEF FindPr, RequestTypes, Goto, Informed, Drafted, Planned, Headed, Verified, Created, Places, hub
    <2> QED
      BY <1>0, <1>1, <1>13, <2>1, <2>3 DEF RequestTypes, Goto
  <1>14. CASE PostPr(e)
    <2>1. submittable(draft[e]) /\ head[e] \in 1 .. Len(commits) /\ holdsProposal(e, head[e])
      BY <1>0, <1>14 DEF PostPr, Informed, Drafted, Planned, Headed, Verified, Created, Places
    <2>2. commits' = commits /\ UNCHANGED <<main, branch, draft, answer>>
      BY <1>14 DEF PostPr
    <2>3. RepositoryOK'
      <3>1. draft[e] \in Branch /\ branch[draft[e]] # 0
        BY <1>0, <1>14 DEF PostPr, Informed, Drafted, Planned, Headed, Created, Places
      <3>2. pr' = [pr EXCEPT ![draft[e]] = IF @ = "merged" THEN @ ELSE "open"]
        BY <1>14 DEF PostPr
      <3> QED
        BY <1>0, <2>2, <3>1, <3>2 DEF RepositoryOK
    <2>4. RequestTypes'
      BY <1>0, <1>14 DEF PostPr, Lose, RequestTypes, Goto, Places
    <2>5. submittable(draft[e])' /\ (head'[e] = head[e] => holdsProposal(e, head[e])')
      BY <2>1, <2>2 DEF submittable, holdsProposal, buildPreview, tree
    <2>6. Informed(e)'
      BY <1>0, <1>14, <2>1, <2>2, <2>5 DEF PostPr, Lose, RequestTypes, Goto, Informed, Drafted, Planned, Headed, Verified, Created, Places
    <2>7. ASSUME NEW f \in Editors \ {e} PROVE Informed(f)'
      <3>1. progress'[f] = progress[f] /\ draft'[f] = draft[f] /\ head'[f] = head[f] /\ answer'[f] = answer[f]
        BY <1>0, <1>14 DEF PostPr, Lose, RequestTypes, Goto
      <3> QED
        BY <1>0, <2>2, <2>3, <3>1, KnownKept
    <2> QED
      BY <2>3, <2>4, <2>6, <2>7
  <1>15. progress[e] \in {"submit", "verify", "main1", "main2", "find", "confirm"} => progress[e] \in Drafted
    BY DEF Drafted, Places
  <1>16. CASE SubmitProposal(e) \/ VerifyHead(e) \/ CheckMain(e)
    BY <1>2, <1>6, <1>8, <1>9, <1>15, <1>16 DEF SubmitProposal, VerifyHead, CheckMain
  <1>17. CASE FindPr(e) \/ ConfirmPr(e)
    BY <1>2, <1>12, <1>13, <1>15, <1>17 DEF FindPr, ConfirmPr
  <1> QED
    BY <1>3, <1>4, <1>5, <1>7, <1>10, <1>11, <1>14, <1>16, <1>17 DEF Step

(* What other people do on GitHub changes no commit that exists.           *)
LEMMA SubmissionIInvOthers ==
  ASSUME SubmissionIInv, NEW b \in Branch, Merge(b) \/ Close(b) \/ Push(b)
  PROVE  SubmissionIInv'
  <1> USE DEF SubmissionIInv
  <1>0. Len(commits) \in Nat
    BY DEF RepositoryOK, Commit
  <1>1. UNCHANGED <<progress, draft, head, answer>>
    BY DEF Merge, Close, Push
  <1>2. /\ RepositoryOK'
        /\ Len(commits) <= Len(commits')
        /\ \A c \in 1 .. Len(commits) : commits'[c] = commits[c]
        /\ \A d \in Branch : branch[d] # 0 => branch'[d] # 0
    <2>1. CASE Merge(b)
      <3> DEFINE new == [tree |-> mergedTree(b), parent |-> main, merged |-> b]
      <3>1. new \in Object
        BY <2>1, MergedType DEF Merge, RepositoryOK, Object
      <3>2. commits' = Append(commits, new)
        BY <2>1 DEF Merge
      <3> HIDE DEF new
      <3>3. /\ Len(commits') = Len(commits) + 1
            /\ \A c \in 1 .. Len(commits) : commits'[c] = commits[c]
            /\ commits' \in Seq(Object)
        BY <3>1, <3>2 DEF RepositoryOK
      <3>4. Len(commits') \in Commit /\ main' \in 1 .. Len(commits')
        BY <1>0, <2>1, <3>3, CommitAssumption DEF Merge, RepositoryOK, Commit
      <3>5. branch' = branch /\ branch' \in [Branch -> 0 .. Len(commits')]
        BY <1>0, <2>1, <3>3 DEF Merge, RepositoryOK
      <3> QED
        BY <1>0, <2>1, <3>3, <3>4, <3>5, BaseType DEF Merge, RepositoryOK
    <2>2. CASE Close(b)
      BY <2>2 DEF Close, RepositoryOK
    <2>3. CASE Push(b)
      <3> DEFINE s == proposalOf[b.edit].name
                 old == tree(branch[b])
      <3>1. PICK t \in Texts : commits' = Append(commits, [tree |-> [old EXCEPT ![s].text = t], parent |-> branch[b], merged |-> None])
        BY <2>3 DEF Push
      <3>2. branch[b] \in 1 .. Len(commits) /\ s \in recorded(old)
        BY <1>0, <2>3 DEF Push, RepositoryOK
      <3>3. old \in Catalog /\ s \in Skills /\ old[s] \in SkillRecord
        BY <3>2, TreeType DEF recorded, Catalog
      <3>4. [old[s] EXCEPT !.text = t] \in SkillRecord
        BY <3>3 DEF SkillRecord
      <3>5. [tree |-> [old EXCEPT ![s].text = t], parent |-> branch[b], merged |-> None] \in Object
        BY <1>0, <3>2, <3>3, <3>4 DEF Object, Catalog
      <3>6. /\ Len(commits') = Len(commits) + 1
            /\ \A c \in 1 .. Len(commits) : commits'[c] = commits[c]
            /\ commits' \in Seq(Object)
        BY <3>1, <3>5 DEF RepositoryOK
      <3>7. Len(commits') \in Commit /\ main' \in 1 .. Len(commits')
        BY <1>0, <2>3, <3>6, CommitAssumption DEF Push, RepositoryOK, Commit
      <3>8. branch' \in [Branch -> 0 .. Len(commits')] /\ branch' = [branch EXCEPT ![b] = Len(commits) + 1]
        BY <1>0, <2>3, <3>6 DEF Push, RepositoryOK
      <3> QED
        BY <1>0, <2>3, <3>6, <3>7, <3>8, BaseType DEF Push, RepositoryOK
    <2> QED
      BY <2>1, <2>2, <2>3
  <1>3. RequestTypes'
    BY <1>1 DEF RequestTypes
  <1>4. ASSUME NEW e \in Editors PROVE Informed(e)'
    BY <1>1, <1>2, KnownKept
  <1> QED
    BY <1>2, <1>3, <1>4

LEMMA SubmissionIInvStep == SubmissionIInv /\ [SubmissionNext]_submissionVars => SubmissionIInv'
  <1> SUFFICES ASSUME SubmissionIInv, [SubmissionNext]_submissionVars PROVE SubmissionIInv'
    OBVIOUS
  <1>1. CASE UNCHANGED submissionVars
    <2>1. RepositoryOK' /\ RequestTypes'
      BY <1>1 DEF SubmissionIInv, submissionVars, RepositoryOK, RequestTypes
    <2>2. ASSUME NEW e \in Editors PROVE Informed(e)'
      BY <1>1, <2>1, KnownKept DEF SubmissionIInv, submissionVars, RepositoryOK, Commit
    <2> QED
      BY <2>1, <2>2 DEF SubmissionIInv
  <1> QED
    BY <1>1, SubmissionIInvRequest, SubmissionIInvOthers DEF SubmissionNext, Others

THEOREM SubmissionInvariance == SubmissionSpec => []SubmissionIInv
  BY SubmissionIInvInit, SubmissionIInvStep, PTL DEF SubmissionSpec

(* Editors are only told of commits that hold their proposal.              *)
THEOREM SubmittedAsPreviewed == SubmissionSpec => []AnswersHoldProposals
  <1>1. SubmissionIInv => AnswersHoldProposals
    BY DEF SubmissionIInv, Informed, AnswersHoldProposals, holdsProposal, submittable, Planned, Drafted, Places
  <1> QED
    BY <1>1, SubmissionInvariance, PTL
-----------------------------------------------------------------------------
(* What the board sees of the protocol.                                    *)
Filed == [b \in Branch |-> CASE pr[b] = "none" -> "no" [] pr[b] = "open" -> "open" [] OTHER -> "closed"]
Told == [e \in Editors |-> IF answer[e] = None THEN None ELSE answer[e].branch]

LEMMA SameBoard == UNCHANGED <<pr, answer>> => UNCHANGED <<Filed, Told>>
  BY DEF Filed, Told

(* Only an open pull request is told of, and it is filed once.             *)
LEMMA BoardRequest ==
  ASSUME SubmissionIInv, NEW e \in Editors, PreviewProposal(e) \/ Retry(e) \/ LoseAnswer(e) \/ Step(e)
  PROVE  [Board!Next]_<<Filed, Told>>
  <1>0. DOMAIN answer = Editors /\ Informed(e) /\ RepositoryOK
    BY DEF SubmissionIInv, RequestTypes
  <1>1. CASE UNCHANGED <<pr, answer>>
    BY <1>1, SameBoard
  <1>2. CASE Retry(e)
    <2>1. Filed' = Filed
      BY <1>2 DEF Retry, hub, Filed
    <2>2. Told' = [Told EXCEPT ![e] = None]
      BY <1>0, <1>2 DEF Retry, Told
    <2> QED
      BY <2>1, <2>2 DEF Board!Next, Board!Forget, Filed, Told
  <1>3. CASE (FindPr(e) \/ ConfirmPr(e)) /\ foundPr(e) /\ Answer(e)
    <2>1. draft[e] \in Branch /\ pr[draft[e]] = "open" /\ UNCHANGED hub
      BY <1>0, <1>3 DEF FindPr, ConfirmPr, Informed, Drafted, Places, foundPr, Answer
    <2>2. Filed' = Filed /\ Filed[draft[e]] = "open"
      BY <2>1 DEF hub, Filed
    <2>3. Told' = [Told EXCEPT ![e] = draft[e]] \/ Told' = [Told EXCEPT ![e] = None]
      BY <1>0, <1>3 DEF Answer, Told
    <2> QED
      BY <2>1, <2>2, <2>3 DEF Board!Next, Board!Forget, Board!Tell, Filed, Told
  <1>4. CASE PostPr(e)
    <2>1. draft[e] \in Branch /\ pr' = [pr EXCEPT ![draft[e]] = IF @ = "merged" THEN @ ELSE "open"]
      BY <1>0, <1>4 DEF PostPr, Informed, Drafted, Places
    <2>2. Told' = Told
      BY <1>4 DEF PostPr, Told
    <2>3. CASE pr[draft[e]] \in {"merged", "open"}
      <3>1. pr' = pr
        BY <1>0, <2>1, <2>3 DEF RepositoryOK
      <3> QED
        BY <2>2, <3>1 DEF Filed
    <2>4. CASE pr[draft[e]] \notin {"merged", "open"}
      <3>1. Filed[draft[e]] # "open" /\ Filed' = [Filed EXCEPT ![draft[e]] = "open"]
        BY <1>0, <2>1, <2>4 DEF RepositoryOK, Filed
      <3> QED
        BY <2>1, <2>2, <3>1 DEF Board!Next, Board!File, Filed, Told
    <2> QED
      BY <2>3, <2>4
  <1> QED
    BY <1>1, <1>2, <1>3, <1>4
       DEF PreviewProposal, LoseAnswer, Lose, Step, SubmitProposal, ReadRef, VerifyHead, CheckMain, PostCommit,
           PostRef, FindPr, ConfirmPr, Refuse, hub

LEMMA BoardOthers ==
  ASSUME SubmissionIInv, NEW b \in Branch, Merge(b) \/ Close(b) \/ Push(b)
  PROVE  [Board!Next]_<<Filed, Told>>
  <1>0. RepositoryOK
    BY DEF SubmissionIInv
  <1>1. Told' = Told
    BY DEF Merge, Close, Push, Told
  <1>2. CASE Merge(b) \/ Close(b)
    <2>1. Filed[b] = "open" /\ Filed' = [Filed EXCEPT ![b] = "closed"]
      BY <1>0, <1>2 DEF Merge, Close, RepositoryOK, Filed
    <2> QED
      BY <1>1, <2>1 DEF Board!Next, Board!Close, Filed, Told
  <1>3. CASE Push(b)
    <2>1. Filed' = Filed
      BY <1>0, <1>3 DEF Push, RepositoryOK, Filed
    <2> QED
      BY <1>1, <2>1
  <1> QED
    BY <1>2, <1>3

(* Every behaviour of the protocol is one of the board.                    *)
THEOREM SubmissionImplementsBoard == SubmissionSpec => ImplementsBoard
  <1>1. SubmissionInit => Board!Init
    BY DEF SubmissionInit, Board!Init
  <1>2. SubmissionIInv /\ [SubmissionNext]_submissionVars => [Board!Next]_<<Filed, Told>>
    BY BoardRequest, BoardOthers, SameBoard DEF SubmissionNext, Others, submissionVars
  <1> QED
    BY <1>1, <1>2, SubmissionInvariance, PTL DEF SubmissionSpec, ImplementsBoard, Board!Spec, Filed, Told

-----------------------------------------------------------------------------
(* An alias has at most one owner in a catalog that validates.             *)
owners(c, a) == {s \in recorded(c) : a \in c[s].aliases}

LEMMA OneOwner ==
  ASSUME NEW c \in Catalog, contested(c) = {}, NEW a \in Aliases, NEW s \in owners(c, a), NEW t \in owners(c, a)
  PROVE  s = t
  <1> SUFFICES ASSUME s # t PROVE FALSE
    OBVIOUS
  <1>1. IsFiniteSet(owners(c, a))
    <2>1. owners(c, a) \in SUBSET Skills
      BY DEF owners, recorded
    <2> QED
      BY <2>1, SkillsAssumption, FS_Subset
  <1>2. Cardinality(owners(c, a)) \in Nat
    BY <1>1, FS_CardinalityType
  <1>3. Cardinality(owners(c, a)) # 0
    BY <1>1, FS_EmptySet
  <1>4. Cardinality(owners(c, a)) # 1
    BY <1>1, FS_Singleton
  <1>5. Cardinality(owners(c, a)) > 1
    BY <1>2, <1>3, <1>4
  <1> QED
    BY <1>5 DEF contested, owners

-----------------------------------------------------------------------------
(* What a skill of a catalog owns, names and links to.                     *)
owns(c, s, a) == s \in recorded(c) /\ a \in c[s].aliases
names(c, s, t) == s \in recorded(c) /\ t \in c[s].neighbours
links(c, s, t) == s \in recorded(c) /\ t \in c[s].links

(* What a proposal wants its skill to own, name and link to.               *)
toOwn(p, a) == \/ p.operation = "add" /\ a \in p.skill.aliases
               \/ p.operation = "update" /\ p.aliases # Keep /\ a \in p.aliases
toName(p, t) == p.operation = "add" /\ t \in p.skill.neighbours
toLink(p, t) == \/ p.operation = "add" /\ t \in p.skill.links
                \/ p.operation = "update" /\ t \in p.links

(* A proposal without errors has looked at its base: an alias it wants has *)
(* no owner, a skill it names exists, one it removes is not referred to.   *)
LEMMA Checked ==
  ASSUME NEW c \in Catalog, NEW p \in Proposal, plan(c, p).errors = {}
  PROVE  /\ \A a \in Aliases : toOwn(p, a) => \A t \in Skills \ {p.name} : ~ owns(c, t, a)
         /\ \A t \in Skills : toName(p, t) => t \in recorded(c)
         /\ p.operation = "remove" => \A s \in Skills \ {p.name} : ~ names(c, s, p.name) /\ ~ links(c, s, p.name)
  <1>1. CASE p.operation = "add"
    <2>1. plan(c, p).errors = planOriginalAdd(c, p).errors
      BY <1>1 DEF plan
    <2>2. p.skill.neighbours \subseteq recorded(c) /\ takenAliases(c, p.name, p.skill.aliases) = {}
      BY <2>1 DEF planOriginalAdd
    <2> QED
      BY <1>1, <2>2 DEF takenAliases, owns, toOwn, toName
  <1>2. CASE p.operation = "update"
    <2>1. plan(c, p) = planSkillUpdate(c, p)
      BY <1>2 DEF plan
    <2>2. takenAliases(c, p.name, IF p.aliases = Keep THEN {} ELSE p.aliases) = {}
      BY <2>1 DEF planSkillUpdate, updateErrors
    <2> QED
      BY <1>2, <2>2 DEF takenAliases, owns, toOwn, toName
  <1>3. CASE p.operation = "remove"
    <2>1. plan(c, p).errors = planSkillRemoval(c, p).errors
      BY <1>3 DEF plan
    <2>2. dependents(c, p.name) = {}
      BY <2>1 DEF planSkillRemoval
    <2> QED
      BY <1>3, <2>2 DEF dependents, names, links, toOwn, toName
  <1> QED
    BY <1>1, <1>2, <1>3 DEF Proposal

-----------------------------------------------------------------------------
(* A skill up to its wording, which people correct.                        *)
Reworded(k, l) ==
  \/ k = l
  \/ /\ k \in SkillRecord /\ l \in SkillRecord
     /\ k.aliases = l.aliases /\ k.neighbours = l.neighbours /\ k.links = l.links

(* A branch holds a proposal without errors, perhaps reworded.             *)
Carries(b) ==
  LET name == proposalOf[b.edit].name
      after == buildPreview(b).after
  IN  /\ submittable(b)
      /\ \A s \in Skills \ {name} : tree(branch[b])[s] = after[s]
      /\ Reworded(tree(branch[b])[name], after[name])

(* What a merge gives main comes from the proposal.                        *)
Gives(p, old, new) ==
  /\ \A s \in Skills, a \in Aliases : owns(new, s, a) => owns(old, s, a) \/ (s = p.name /\ toOwn(p, a))
  /\ \A s \in Skills, t \in Skills : names(new, s, t) => names(old, s, t) \/ (s = p.name /\ toName(p, t))
  /\ \A s \in Skills, t \in Skills : links(new, s, t) => links(old, s, t) \/ (s = p.name /\ toLink(p, t))
  /\ \A t \in recorded(old) : t \in recorded(new) \/ (t = p.name /\ p.operation = "remove")

(* A side that left a skill alone gets the other's.                        *)
LEMMA OneSide ==
  ASSUME NEW k \in SkillRecord \cup {Missing}, NEW ours \in SkillRecord \cup {Missing}
  PROVE  mergedSkill(k, ours, k) = ours
  <1>1. CASE Missing \in {k, ours}
    BY <1>1 DEF mergedSkill, taken
  <1>2. CASE Missing \notin {k, ours}
    BY <1>2 DEF mergedSkill, taken, SkillRecord
  <1> QED
    BY <1>1, <1>2

LEMMA MissingIsNoSkill == Missing \notin SkillRecord
  BY SkillAssumption DEF SkillRecord

(* It is enough to look at the proposal's own skill.                       *)
LEMMA GivesHere ==
  ASSUME NEW p \in Proposal, NEW old \in Catalog, NEW new \in Catalog,
         \A s \in Skills \ {p.name} : new[s] = old[s],
         \/ new[p.name] = old[p.name]
         \/ new[p.name] = Missing /\ p.operation = "remove"
         \/ /\ new[p.name] \in SkillRecord
            /\ \A a \in new[p.name].aliases : owns(old, p.name, a) \/ toOwn(p, a)
            /\ \A t \in new[p.name].neighbours : names(old, p.name, t) \/ toName(p, t)
            /\ \A t \in new[p.name].links : links(old, p.name, t) \/ toLink(p, t)
  PROVE  Gives(p, old, new)
  <1>1. ASSUME NEW s \in Skills \ {p.name}
        PROVE  /\ \A x : owns(new, s, x) <=> owns(old, s, x)
               /\ \A x : names(new, s, x) <=> names(old, s, x)
               /\ \A x : links(new, s, x) <=> links(old, s, x)
               /\ s \in recorded(new) <=> s \in recorded(old)
    BY DEF owns, names, links, recorded
  <1>2. p.name \in Skills
    BY DEF Proposal
  <1>3. /\ \A a \in Aliases : owns(new, p.name, a) => owns(old, p.name, a) \/ toOwn(p, a)
        /\ \A t \in Skills : names(new, p.name, t) => names(old, p.name, t) \/ toName(p, t)
        /\ \A t \in Skills : links(new, p.name, t) => links(old, p.name, t) \/ toLink(p, t)
        /\ p.name \in recorded(old) => p.name \in recorded(new) \/ p.operation = "remove"
    <2>1. CASE new[p.name] = old[p.name]
      BY <2>1 DEF owns, names, links, recorded
    <2>2. CASE new[p.name] = Missing /\ p.operation = "remove"
      BY <2>2 DEF owns, names, links, recorded
    <2>3. CASE /\ new[p.name] \in SkillRecord
               /\ \A a \in new[p.name].aliases : owns(old, p.name, a) \/ toOwn(p, a)
               /\ \A t \in new[p.name].neighbours : names(old, p.name, t) \/ toName(p, t)
               /\ \A t \in new[p.name].links : links(old, p.name, t) \/ toLink(p, t)
      <3>1. p.name \in recorded(new)
        BY <1>2, <2>3, MissingIsNoSkill DEF recorded
      <3>2. /\ \A a : owns(new, p.name, a) => a \in new[p.name].aliases
            /\ \A t : names(new, p.name, t) => t \in new[p.name].neighbours
            /\ \A t : links(new, p.name, t) => t \in new[p.name].links
        BY DEF owns, names, links
      <3> QED
        BY <2>3, <3>1, <3>2
    <2> QED
      BY <2>1, <2>2, <2>3
  <1>4. recorded(old) \subseteq Skills
    BY DEF recorded
  <1> QED
    BY <1>1, <1>3, <1>4 DEF Gives

LEMMA MergeGives ==
  ASSUME RepositoryOK, NEW b \in Branch, branch[b] # 0, Carries(b),
         \A s \in Skills : ~ clashes(tree(b.base)[s], tree(main)[s], tree(branch[b])[s])
  PROVE  Gives(proposalOf[b.edit], tree(main), mergedTree(b))
  <1> DEFINE p == proposalOf[b.edit]
             n == p.name
             base == tree(b.base)
             old == tree(main)
             theirs == tree(branch[b])
             after == buildPreview(b).after
             new == mergedTree(b)
  <1>1. p \in Proposal /\ n \in Skills
    BY BaseType, EditorAssumption DEF Proposal
  <1>2. base \in Catalog /\ old \in Catalog /\ theirs \in Catalog /\ after \in Catalog /\ new \in Catalog
    <2>1. b.base \in 1 .. Len(commits) /\ main \in 1 .. Len(commits) /\ branch[b] \in 1 .. Len(commits)
      BY BaseType DEF RepositoryOK
    <2> QED
      BY <2>1, TreeType, PreviewType, MergedType
  <1>3. \A s \in Skills : new[s] = mergedSkill(base[s], old[s], theirs[s])
    BY DEF mergedTree
  <1>4. plan(base, p).errors = {} /\ after = plan(base, p).after
    BY DEF Carries, submittable, buildPreview
  <1>5. /\ \A s \in Skills \ {n} : theirs[s] = after[s]
        /\ Reworded(theirs[n], after[n])
        /\ ~ clashes(base[n], old[n], theirs[n])
    BY <1>1 DEF Carries
  <1> SUFFICES Gives(p, old, new)
    OBVIOUS
  <1> HIDE DEF p, n, base, old, theirs, after, new
  <1>6. ASSUME \A s \in Skills \ {n} : after[s] = base[s]
        PROVE  \A s \in Skills \ {n} : new[s] = old[s]
    BY <1>2, <1>3, <1>5, <1>6, OneSide DEF Catalog
  <1>7. n = p.name
    BY DEF n
  <1>8. CASE p.operation = "add"
    <2>1. p.skill \in SkillRecord /\ p.from \in Imports \cup {NoImport}
      BY <1>1, <1>8 DEF Proposal
    <2>2. after = [base EXCEPT ![n] = normalized(p)] /\ n \notin recorded(base)
      BY <1>4, <1>7, <1>8 DEF plan, planOriginalAdd
    <2>3. base[n] = Missing /\ after[n] = normalized(p) /\ \A s \in Skills \ {n} : after[s] = base[s]
      BY <1>1, <1>2, <2>2 DEF Catalog, recorded
    <2>4. /\ normalized(p).aliases = p.skill.aliases
          /\ normalized(p).neighbours = p.skill.neighbours
          /\ normalized(p).links = p.skill.links
      BY <2>1 DEF normalized, SkillRecord
    <2>5. normalized(p) \in SkillRecord
      <3>1. after[n] \in SkillRecord \cup {Missing}
        BY <1>1, <1>2 DEF Catalog
      <3>2. normalized(p) # Missing
        <4>1. CASE p.from = NoImport
          BY <2>1, <4>1, MissingIsNoSkill DEF normalized, SkillRecord
        <4>2. CASE p.from # NoImport
          <5>1. imported(p) \in Texts
            BY <2>1, <4>2, ImportAssumption DEF imported
          <5> QED
            BY <2>1, <4>2, <5>1, MissingIsNoSkill DEF normalized, SkillRecord
        <4> QED
          BY <4>1, <4>2
      <3> QED
        BY <2>3, <3>1, <3>2
    <2>6. /\ theirs[n] \in SkillRecord
          /\ theirs[n].aliases = p.skill.aliases
          /\ theirs[n].neighbours = p.skill.neighbours
          /\ theirs[n].links = p.skill.links
      BY <1>5, <2>3, <2>4, <2>5 DEF Reworded
    <2>7. new[n] = theirs[n]
      BY <1>1, <1>3, <2>3, <2>6, MissingIsNoSkill DEF mergedSkill, taken
    <2>8. new[n] \in SkillRecord /\ (\A a \in new[n].aliases : toOwn(p, a))
          /\ (\A t \in new[n].neighbours : toName(p, t)) /\ (\A t \in new[n].links : toLink(p, t))
      BY <1>8, <2>6, <2>7 DEF toOwn, toName, toLink
    <2> QED
      BY <1>1, <1>2, <1>6, <1>7, <2>3, <2>8, GivesHere
  <1>9. CASE p.operation = "update"
    <2>1. p.text \in Texts /\ p.links \in SUBSET Skills /\ p.aliases \in (SUBSET Aliases) \cup {Keep}
      BY <1>1, <1>9 DEF Proposal
    <2>2. plan(base, p) = planSkillUpdate(base, p)
      BY <1>9 DEF plan
    <2>3. n \in recorded(base) /\ base[n] \in SkillRecord
      BY <1>1, <1>2, <1>4, <1>7, <2>2 DEF planSkillUpdate, recorded, Catalog
    <2> DEFINE rewritten == [base[n] EXCEPT !.text = p.text, !.links = p.links,
                                            !.aliases = IF p.aliases = Keep THEN base[n].aliases ELSE p.aliases]
    <2>4. after = [base EXCEPT ![n] = rewritten]
      BY <1>4, <1>7, <2>2, <2>3 DEF planSkillUpdate
    <2>5. after[n] = rewritten /\ \A s \in Skills \ {n} : after[s] = base[s]
      BY <1>1, <1>2, <2>4 DEF Catalog
    <2>6. rewritten \in SkillRecord
      BY <2>1, <2>3, Rewritten
    <2>7. /\ rewritten.aliases = IF p.aliases = Keep THEN base[n].aliases ELSE p.aliases
          /\ rewritten.neighbours = base[n].neighbours
          /\ rewritten.links = p.links
      BY <2>3 DEF SkillRecord
    <2> HIDE DEF rewritten
    <2>8. /\ theirs[n] \in SkillRecord
          /\ theirs[n].aliases = IF p.aliases = Keep THEN base[n].aliases ELSE p.aliases
          /\ theirs[n].neighbours = base[n].neighbours
          /\ theirs[n].links = p.links
      BY <1>5, <2>5, <2>6, <2>7 DEF Reworded
    <2>9. CASE old[n] = Missing
      <3>1. theirs[n] = base[n]
        BY <1>5, <2>3, <2>8, <2>9, MissingIsNoSkill DEF clashes, conflict
      <3>2. new[n] = old[n]
        BY <1>1, <1>2, <1>3, <3>1, OneSide DEF Catalog
      <3> QED
        BY <1>1, <1>2, <1>6, <1>7, <2>5, <3>2, GivesHere
    <2>10. CASE old[n] # Missing
      <3>1. old[n] \in SkillRecord /\ n \in recorded(old)
        BY <1>1, <1>2, <2>10 DEF Catalog, recorded
      <3>2. /\ new[n].aliases = taken(base[n].aliases, old[n].aliases, theirs[n].aliases)
            /\ new[n].neighbours = taken(base[n].neighbours, old[n].neighbours, theirs[n].neighbours)
            /\ new[n].links = taken(base[n].links, old[n].links, theirs[n].links)
            /\ new[n] # Missing
        <4>1. Missing \notin {base[n], old[n], theirs[n]}
          BY <2>3, <2>8, <3>1, MissingIsNoSkill
        <4>2. mergedSkill(base[n], old[n], theirs[n]) \in SkillRecord
          BY <2>3, <2>8, <3>1, <4>1 DEF mergedSkill, taken, SkillRecord
        <4> QED
          BY <1>1, <1>3, <4>1, <4>2, MissingIsNoSkill DEF mergedSkill
      <3>3. /\ new[n].aliases = old[n].aliases \/ (p.aliases # Keep /\ new[n].aliases = p.aliases)
            /\ new[n].neighbours = old[n].neighbours
            /\ new[n].links = old[n].links \/ new[n].links = p.links
        BY <2>8, <3>2 DEF taken
      <3>4. new[n] \in SkillRecord
        BY <1>1, <1>2, <3>2 DEF Catalog
      <3>5. /\ \A a \in new[n].aliases : owns(old, n, a) \/ toOwn(p, a)
            /\ \A t \in new[n].neighbours : names(old, n, t) \/ toName(p, t)
            /\ \A t \in new[n].links : links(old, n, t) \/ toLink(p, t)
        BY <1>9, <3>1, <3>3 DEF owns, names, links, toOwn, toLink
      <3> QED
        BY <1>1, <1>2, <1>6, <1>7, <2>5, <3>4, <3>5, GivesHere
    <2> QED
      BY <2>9, <2>10
  <1>10. CASE p.operation = "remove"
    <2>1. after = [base EXCEPT ![n] = Missing] /\ n \in recorded(base)
      BY <1>1, <1>4, <1>7, <1>10 DEF plan, planSkillRemoval
    <2>2. after[n] = Missing /\ \A s \in Skills \ {n} : after[s] = base[s]
      BY <1>1, <1>2, <2>1 DEF Catalog
    <2>3. theirs[n] = Missing
      BY <1>5, <2>2, MissingIsNoSkill DEF Reworded
    <2>4. new[n] = Missing
      BY <1>1, <1>3, <2>1, <2>3 DEF mergedSkill, taken, recorded
    <2> QED
      BY <1>1, <1>2, <1>6, <1>7, <1>10, <2>2, <2>4, GivesHere
  <1> QED
    BY <1>1, <1>8, <1>9, <1>10 DEF Proposal
-----------------------------------------------------------------------------
(* The commits that main was at.                                           *)
Mainline == {1} \cup merges

MainlineOK ==
  /\ main \in Mainline
  /\ \A m \in merges : m <= main /\ commits[m].merged \in Branch /\ baseOf(m) \in Mainline /\ baseOf(m) < m

(* Proposals are made on main, as it is or was.                            *)
MadeOnMain ==
  /\ \A e \in Editors : progress[e] \in Drafted => draft[e].base \in Mainline
  /\ \A b \in Branch : branch[b] # 0 => b.base \in Mainline /\ Carries(b)

(* What main has gained and lost since a commit was merged with proposals. *)
OwnsSince(c) ==
  \A s \in Skills, a \in Aliases :
     owns(tree(main), s, a) => owns(tree(c), s, a) \/ \E m \in merges : c < m /\ claims(m, s, a)
NamesSince(c) ==
  \A s \in Skills, t \in Skills :
     names(tree(main), s, t) => names(tree(c), s, t) \/ \E m \in merges : c < m /\ refers(m, s, t)
LinksSince(c) ==
  \A s \in Skills, t \in Skills :
     links(tree(main), s, t) => links(tree(c), s, t) \/ \E m \in merges : c < m /\ linksTo(m, s, t)
RemovedSince(c) ==
  \A t \in recorded(tree(c)) : t \in recorded(tree(main)) \/ \E m \in merges : c < m /\ removes(m, t)

Since(c) == OwnsSince(c) /\ NamesSince(c) /\ LinksSince(c) /\ RemovedSince(c)

(* DefectsNeedOverlap, in the same words.                                  *)
ContestExplained ==
  \A s \in Skills, t \in Skills, a \in Aliases : owns(tree(main), s, a) /\ owns(tree(main), t, a) /\ s # t =>
     \E m, n \in merges : claims(m, s, a) /\ claims(n, t, a) /\ overlap(m, n)
StrayExplained ==
  \A s \in Skills, t \in Skills : names(tree(main), s, t) /\ t \notin recorded(tree(main)) =>
     \E m \in merges : refers(m, s, t) /\ removedBeside(m, t)
BrokenExplained ==
  \A s \in Skills, t \in Skills : links(tree(main), s, t) /\ t \notin recorded(tree(main)) =>
     \E m \in merges : linksTo(m, s, t) /\ (t \in recorded(tree(baseOf(m))) => removedBeside(m, t))

DefectsExplained == ContestExplained /\ StrayExplained /\ BrokenExplained

HistoryInv == /\ MainlineOK
              /\ MadeOnMain
              /\ \A c \in Mainline : Since(c)
              /\ DefectsExplained

LEMMA MainlineType ==
  ASSUME RepositoryOK
  PROVE  /\ merges \subseteq 1 .. Len(commits)
         /\ Mainline \subseteq 1 .. Len(commits)
         /\ Len(commits) \in Nat
  BY DEF RepositoryOK, Commit, merges, Mainline

(* Steps that add no merge leave everything that was said of merges.       *)
LEMMA SameMerges ==
  ASSUME RepositoryOK, RepositoryOK', MainlineOK, Len(commits) <= Len(commits'),
         \A c \in 1 .. Len(commits) : commits'[c] = commits[c]
  PROVE  /\ \A c \in 1 .. Len(commits) : tree(c)' = tree(c)
         /\ merges \subseteq merges'
         /\ \A m \in merges : baseOf(m)' = baseOf(m) /\ proposalIn(m)' = proposalIn(m)
         /\ \A m \in merges : tree(baseOf(m))' = tree(baseOf(m))
         /\ \A m \in merges : \A s, x : /\ claims(m, s, x)' = claims(m, s, x)
                                        /\ refers(m, s, x)' = refers(m, s, x)
                                        /\ linksTo(m, s, x)' = linksTo(m, s, x)
                                        /\ removes(m, s)' = removes(m, s)
         /\ \A m, n \in merges : overlap(m, n)' = overlap(m, n)
         /\ \A m \in merges : \A t : removedBeside(m, t) => removedBeside(m, t)'
  <1>1. \A c \in 1 .. Len(commits) : tree(c)' = tree(c)
    BY DEF tree
  <1>2. merges \subseteq merges'
    BY MainlineType DEF merges
  <1>3. \A m \in merges : m \in 1 .. Len(commits) /\ commits'[m] = commits[m]
    BY MainlineType
  <1>4. \A m \in merges : baseOf(m)' = baseOf(m) /\ proposalIn(m)' = proposalIn(m)
    BY <1>3 DEF baseOf, proposalIn
  <1>5. \A m \in merges : tree(baseOf(m))' = tree(baseOf(m))
    <2>1. \A m \in merges : baseOf(m) \in 1 .. Len(commits)
      BY MainlineType DEF MainlineOK
    <2> QED
      BY <1>4, <2>1 DEF tree
  <1>6. \A m \in merges : \A s, x : /\ claims(m, s, x)' = claims(m, s, x)
                                    /\ refers(m, s, x)' = refers(m, s, x)
                                    /\ linksTo(m, s, x)' = linksTo(m, s, x)
                                    /\ removes(m, s)' = removes(m, s)
    BY <1>4 DEF claims, refers, linksTo, removes, adds, updates
  <1>7. \A m, n \in merges : overlap(m, n)' = overlap(m, n)
    BY <1>4 DEF overlap
  <1>8. \A m \in merges : \A t : removedBeside(m, t) => removedBeside(m, t)'
    BY <1>2, <1>6, <1>7 DEF removedBeside
  <1> QED
    BY <1>1, <1>2, <1>4, <1>5, <1>6, <1>7, <1>8

LEMMA HistoryBeside ==
  ASSUME RepositoryOK, RepositoryOK', HistoryInv, main' = main, Len(commits) <= Len(commits'),
         \A c \in 1 .. Len(commits) : commits'[c] = commits[c],
         \A c \in 1 .. Len(commits') : c > Len(commits) => commits'[c].merged = None
  PROVE  Mainline' = Mainline /\ (MadeOnMain' => HistoryInv')
  <1> USE DEF HistoryInv
  <1>1. merges' = merges
    <2>1. merges \subseteq merges'
      BY SameMerges
    <2>2. merges' \subseteq merges
      <3>1. Len(commits) \in Nat /\ Len(commits') \in Nat
        BY DEF RepositoryOK, Commit
      <3> QED
        BY <3>1 DEF merges
    <2> QED
      BY <2>1, <2>2
  <1>2. Mainline' = Mainline
    BY <1>1 DEF Mainline
  <1>3. tree(main)' = tree(main) /\ \A c \in Mainline : tree(c)' = tree(c)
    BY SameMerges, MainlineType DEF RepositoryOK, tree
  <1>4. MainlineOK'
    <2>1. \A m \in merges : m \in 1 .. Len(commits) /\ commits'[m] = commits[m]
      BY MainlineType
    <2> QED
      BY <1>1, <1>2, <2>1 DEF MainlineOK, baseOf
  <1>5. ASSUME NEW c \in Mainline PROVE Since(c)'
    <2>1. Since(c)
      OBVIOUS
    <2>2. tree(main)' = tree(main) /\ tree(c)' = tree(c)
      BY <1>3
    <2>3. OwnsSince(c)'
      BY <1>1, <2>1, <2>2, SameMerges DEF Since, OwnsSince
    <2>4. NamesSince(c)'
      BY <1>1, <2>1, <2>2, SameMerges DEF Since, NamesSince
    <2>5. LinksSince(c)'
      BY <1>1, <2>1, <2>2, SameMerges DEF Since, LinksSince
    <2>6. RemovedSince(c)'
      BY <1>1, <2>1, <2>2, SameMerges DEF Since, RemovedSince
    <2> QED
      BY <2>3, <2>4, <2>5, <2>6 DEF Since
  <1>6. DefectsExplained'
    <2>1. tree(main)' = tree(main)
      BY <1>3
    <2>2. ContestExplained'
      BY <1>1, <2>1, SameMerges DEF DefectsExplained, ContestExplained
    <2>3. StrayExplained'
      BY <1>1, <2>1, SameMerges DEF DefectsExplained, StrayExplained
    <2>4. BrokenExplained'
      BY <1>1, <2>1, SameMerges DEF DefectsExplained, BrokenExplained
    <2> QED
      BY <2>2, <2>3, <2>4 DEF DefectsExplained
  <1> QED
    BY <1>2, <1>4, <1>5, <1>6

(* A branch that nobody pushes to carries what it did.                     *)
LEMMA CarriesKept ==
  ASSUME RepositoryOK, NEW b \in Branch, branch[b] # 0, branch'[b] = branch[b], Carries(b),
         \A c \in 1 .. Len(commits) : commits'[c] = commits[c]
  PROVE  Carries(b)'
  <1>1. b.base \in 1 .. Len(commits) /\ branch[b] \in 1 .. Len(commits)
    BY BaseType DEF RepositoryOK
  <1>2. tree(b.base)' = tree(b.base) /\ tree(branch[b])' = tree(branch[b])
    BY <1>1 DEF tree
  <1>3. buildPreview(b)' = buildPreview(b) /\ submittable(b)' = submittable(b)
    BY <1>2 DEF buildPreview, submittable
  <1> QED
    BY <1>2, <1>3 DEF Carries

(* What a merge is about, and what it brings.                              *)
LEMMA MergeBrings ==
  ASSUME RepositoryOK, HistoryInv, NEW b \in Branch, Merge(b), NEW k \in Nat, k = Len(commits) + 1
  PROVE  LET p == proposalOf[b.edit]
         IN  /\ p \in Proposal
             /\ b.base \in Mainline /\ branch[b] # 0
             /\ Len(commits') = k /\ \A c \in 1 .. Len(commits) : commits'[c] = commits[c]
             /\ main' = k /\ tree(main)' = mergedTree(b) /\ tree(k)' = mergedTree(b)
             /\ commits'[k].merged = b
             /\ merges' = merges \cup {k}
             /\ Gives(p, tree(main), mergedTree(b))
             /\ plan(tree(b.base), p).errors = {}
             /\ tree(b.base) \in Catalog
  <1> DEFINE new == [tree |-> mergedTree(b), parent |-> main, merged |-> b]
  <1>1. branch[b] # 0 /\ b.base \in Mainline /\ Carries(b)
    BY DEF Merge, RepositoryOK, HistoryInv, MadeOnMain
  <1>2. proposalOf[b.edit] \in Proposal
    BY BaseType, EditorAssumption
  <1>3. commits' = Append(commits, new) /\ main' = k
    BY DEF Merge
  <1>4. new.tree = mergedTree(b) /\ new.merged = b
    OBVIOUS
  <1> HIDE DEF new
  <1>5. /\ Len(commits') = k /\ \A c \in 1 .. Len(commits) : commits'[c] = commits[c]
        /\ commits'[k] = new
        /\ Len(commits) \in Nat
    BY <1>3 DEF RepositoryOK
  <1>6. merges' = merges \cup {k}
    <2>1. b # None
      BY NoneAssumption
    <2> QED
      BY <1>4, <1>5, <2>1 DEF merges
  <1>7. Gives(proposalOf[b.edit], tree(main), mergedTree(b))
    BY <1>1, MergeGives DEF Merge
  <1>8. plan(tree(b.base), proposalOf[b.edit]).errors = {} /\ tree(b.base) \in Catalog
    <2>1. b.base \in 1 .. Len(commits)
      BY <1>1, MainlineType
    <2> QED
      BY <1>1, <2>1, TreeType DEF Carries, submittable, buildPreview
  <1> QED
    BY <1>1, <1>2, <1>3, <1>4, <1>5, <1>6, <1>7, <1>8 DEF tree

LEMMA MergeStep ==
  ASSUME RepositoryOK, RepositoryOK', HistoryInv, NEW b \in Branch, Merge(b),
         NEW k \in Nat, k = Len(commits) + 1
  PROVE  HistoryInv'
  <1> DEFINE p == proposalOf[b.edit]
             old == tree(main)
             new == mergedTree(b)
             base == tree(b.base)
  <1>1. /\ p \in Proposal
        /\ b.base \in Mainline /\ branch[b] # 0
        /\ Len(commits') = k /\ \A c \in 1 .. Len(commits) : commits'[c] = commits[c]
        /\ main' = k /\ tree(main)' = new /\ tree(k)' = new
        /\ commits'[k].merged = b
        /\ merges' = merges \cup {k}
    BY MergeBrings
  <1>2. Len(commits) \in Nat /\ merges \subseteq 1 .. Len(commits) /\ Mainline \subseteq 1 .. Len(commits)
    BY MainlineType
  <1>3. baseOf(k)' = b.base /\ proposalIn(k)' = p
    BY <1>1 DEF baseOf, proposalIn
  <1>4. Mainline' = Mainline \cup {k}
    BY <1>1 DEF Mainline
  (* The new merge in the words of its proposal.                           *)
  <1>5. /\ \A s, a : claims(k, s, a)' <=> s = p.name /\ toOwn(p, a)
        /\ \A s, t : refers(k, s, t)' <=> s = p.name /\ toName(p, t)
        /\ \A s, t : linksTo(k, s, t)' <=> s = p.name /\ toLink(p, t)
        /\ \A t : removes(k, t)' <=> t = p.name /\ p.operation = "remove"
    BY <1>3 DEF claims, refers, linksTo, removes, adds, updates, toOwn, toName, toLink
  <1>6. /\ merges \subseteq merges'
        /\ \A m \in merges : \A s, x : /\ claims(m, s, x)' = claims(m, s, x)
                                       /\ refers(m, s, x)' = refers(m, s, x)
                                       /\ linksTo(m, s, x)' = linksTo(m, s, x)
                                       /\ removes(m, s)' = removes(m, s)
        /\ \A m, n \in merges : overlap(m, n)' = overlap(m, n)
        /\ \A m \in merges : \A t : removedBeside(m, t) => removedBeside(m, t)'
        /\ \A m \in merges : baseOf(m)' = baseOf(m) /\ tree(baseOf(m))' = tree(baseOf(m))
        /\ \A c \in 1 .. Len(commits) : tree(c)' = tree(c)
    BY <1>1, <1>2, SameMerges DEF HistoryInv
  <1>7. /\ \A s \in Skills, a \in Aliases : owns(new, s, a) => owns(old, s, a) \/ (s = p.name /\ toOwn(p, a))
        /\ \A s \in Skills, t \in Skills : names(new, s, t) => names(old, s, t) \/ (s = p.name /\ toName(p, t))
        /\ \A s \in Skills, t \in Skills : links(new, s, t) => links(old, s, t) \/ (s = p.name /\ toLink(p, t))
        /\ \A t \in recorded(old) : t \in recorded(new) \/ (t = p.name /\ p.operation = "remove")
    BY MergeBrings DEF Gives
  <1>8. /\ \A a \in Aliases : toOwn(p, a) => \A t \in Skills \ {p.name} : ~ owns(base, t, a)
        /\ \A t \in Skills : toName(p, t) => t \in recorded(base)
        /\ p.operation = "remove" => \A s \in Skills \ {p.name} : ~ names(base, s, p.name) /\ ~ links(base, s, p.name)
    BY MergeBrings, Checked
  (* A proposal that was merged after this one was made overlaps with it.  *)
  <1>9. \A m \in merges : b.base < m => overlap(k, m)' /\ overlap(m, k)'
    <2>1. ASSUME NEW m \in merges, b.base < m PROVE baseOf(m)' < k /\ baseOf(k)' < m
      <3>1. baseOf(m) < m /\ baseOf(m) \in 1 .. Len(commits) /\ m \in 1 .. Len(commits)
        BY <1>2, <2>1 DEF HistoryInv, MainlineOK
      <3> QED
        BY <1>2, <1>3, <1>6, <2>1, <3>1
    <2> QED
      BY <2>1 DEF overlap
  <1>10. Since(b.base) /\ DefectsExplained
    BY <1>1 DEF HistoryInv
  <1>11. MainlineOK'
    <2>1. main' \in Mainline'
      BY <1>1, <1>4
    <2>2. ASSUME NEW m \in merges
          PROVE  m <= k /\ commits'[m].merged \in Branch /\ baseOf(m)' \in Mainline' /\ baseOf(m)' < m
      <3>1. m \in 1 .. Len(commits) /\ commits[m].merged \in Branch /\ baseOf(m) \in Mainline /\ baseOf(m) < m
        BY <1>2 DEF HistoryInv, MainlineOK
      <3> QED
        BY <1>1, <1>2, <1>4, <1>6, <3>1
    <2>3. k <= k /\ commits'[k].merged \in Branch /\ baseOf(k)' \in Mainline' /\ baseOf(k)' < k
      <3>0. b.base \in Mainline
        BY <1>1
      <3>1. b.base \in 1 .. Len(commits) /\ b.base < k
        <4>1. b.base \in 1 .. Len(commits)
          BY <1>2, <3>0
        <4> QED
          BY <1>2, <4>1
      <3>2. baseOf(k)' \in Mainline' /\ baseOf(k)' < k
        BY <1>1, <1>3, <1>4, <3>1
      <3>3. commits'[k].merged \in Branch
        BY <1>1
      <3> QED
        BY <3>2, <3>3
    <2> QED
      BY <1>1, <2>1, <2>2, <2>3 DEF MainlineOK
  <1>12. MadeOnMain'
    <2>1. UNCHANGED <<progress, draft, branch>>
      BY DEF Merge
    <2>2. ASSUME NEW d \in Branch, branch[d] # 0 PROVE d.base \in Mainline' /\ Carries(d)'
      BY <1>1, <1>4, <2>1, <2>2, CarriesKept DEF HistoryInv, MadeOnMain
    <2>3. ASSUME NEW e \in Editors, progress[e] \in Drafted PROVE draft[e].base \in Mainline'
      BY <1>4, <2>3 DEF HistoryInv, MadeOnMain
    <2> QED
      BY <2>1, <2>2, <2>3 DEF MadeOnMain
  <1> HIDE DEF p, old, new, base
  <1>13. ASSUME NEW c \in Mainline PROVE Since(c)'
    <2>1. Since(c) /\ c < k /\ tree(c)' = tree(c)
      BY <1>2, <1>6 DEF HistoryInv
    <2>2. OwnsSince(c)'
      BY <1>1, <1>5, <1>6, <1>7, <2>1 DEF Since, OwnsSince, old
    <2>3. NamesSince(c)'
      BY <1>1, <1>5, <1>6, <1>7, <2>1 DEF Since, NamesSince, old
    <2>4. LinksSince(c)'
      BY <1>1, <1>5, <1>6, <1>7, <2>1 DEF Since, LinksSince, old
    <2>5. RemovedSince(c)'
      <3>1. ASSUME NEW t \in recorded(tree(c))
            PROVE  t \in recorded(new) \/ \E m \in merges' : c < m /\ removes(m, t)'
        <4>1. CASE t \in recorded(old)
          BY <1>1, <1>5, <1>7, <2>1, <4>1
        <4>2. CASE t \notin recorded(old)
          <5>1. PICK m \in merges : c < m /\ removes(m, t)
            BY <2>1, <4>2 DEF Since, RemovedSince, old
          <5> QED
            BY <1>6, <5>1
        <4> QED
          BY <4>1, <4>2
      <3> QED
        BY <1>1, <2>1, <3>1 DEF RemovedSince
    <2> QED
      BY <2>2, <2>3, <2>4, <2>5 DEF Since
  <1>14. Since(k)'
    BY <1>1 DEF Since, OwnsSince, NamesSince, LinksSince, RemovedSince
  (* An alias that the new merge brings had no other owner at its base.    *)
  <1>15. ContestExplained'
    <2>1. ASSUME NEW s \in Skills, NEW t \in Skills, NEW a \in Aliases, s # t, s = p.name, toOwn(p, a), owns(old, t, a)
          PROVE  \E m \in merges : claims(m, t, a) /\ overlap(k, m)' /\ overlap(m, k)'
      <3>1. ~ owns(base, t, a)
        BY <1>8, <2>1
      <3>2. PICK m \in merges : b.base < m /\ claims(m, t, a)
        BY <1>10, <2>1, <3>1 DEF Since, OwnsSince, old, base
      <3> QED
        BY <1>9, <3>2
    <2>2. ASSUME NEW s \in Skills, NEW t \in Skills, NEW a \in Aliases, owns(new, s, a), owns(new, t, a), s # t
          PROVE  \E m, n \in merges' : claims(m, s, a)' /\ claims(n, t, a)' /\ overlap(m, n)'
      <3>1. CASE owns(old, s, a) /\ owns(old, t, a)
        <4>1. PICK m \in merges, n \in merges : claims(m, s, a) /\ claims(n, t, a) /\ overlap(m, n)
          BY <1>10, <2>2, <3>1 DEF DefectsExplained, ContestExplained, old
        <4> QED
          BY <1>6, <4>1
      <3>2. CASE s = p.name /\ toOwn(p, a) /\ owns(old, t, a)
        BY <1>1, <1>5, <1>6, <2>1, <2>2, <3>2
      <3>3. CASE t = p.name /\ toOwn(p, a) /\ owns(old, s, a)
        BY <1>1, <1>5, <1>6, <2>1, <2>2, <3>3
      <3> QED
        BY <1>7, <2>2, <3>1, <3>2, <3>3
    <2> QED
      BY <1>1, <2>2 DEF ContestExplained
  (* A skill that is gone went with a proposal merged beside the other.    *)
  <1>16. \A t : p.operation = "remove" /\ t = p.name => \A m \in merges : b.base < m => removedBeside(m, t)'
    BY <1>1, <1>5, <1>9 DEF removedBeside
  <1>17. \A t \in Skills : t \in recorded(base) /\ t \notin recorded(new) /\ p.operation # "remove" => removedBeside(k, t)'
    <2>1. ASSUME NEW t \in Skills, t \in recorded(base), t \notin recorded(new), p.operation # "remove"
          PROVE  removedBeside(k, t)'
      <3>1. t \notin recorded(old)
        BY <1>7, <2>1
      <3>2. PICK m \in merges : b.base < m /\ removes(m, t)
        BY <1>10, <2>1, <3>1 DEF Since, RemovedSince, old, base
      <3> QED
        BY <1>6, <1>9, <3>2 DEF removedBeside
    <2> QED
      BY <2>1
  <1>18. StrayExplained'
    <2>1. ASSUME NEW s \in Skills, NEW t \in Skills, names(new, s, t), t \notin recorded(new)
          PROVE  \E m \in merges' : refers(m, s, t)' /\ removedBeside(m, t)'
      <3>1. CASE names(old, s, t) /\ t \notin recorded(old)
        <4>1. PICK m \in merges : refers(m, s, t) /\ removedBeside(m, t)
          BY <1>10, <3>1 DEF DefectsExplained, StrayExplained, old
        <4> QED
          BY <1>6, <4>1
      <3>2. CASE names(old, s, t) /\ t \in recorded(old)
        <4>1. p.operation = "remove" /\ t = p.name /\ s # t
          BY <1>7, <2>1, <3>2 DEF names
        <4>2. ~ names(base, s, t)
          BY <1>8, <4>1
        <4>3. PICK m \in merges : b.base < m /\ refers(m, s, t)
          BY <1>10, <3>2, <4>2 DEF Since, NamesSince, old, base
        <4> QED
          BY <1>6, <1>16, <4>1, <4>3
      <3>3. CASE s = p.name /\ toName(p, t)
        <4>1. p.operation # "remove" /\ t \in recorded(base)
          BY <1>8, <3>3 DEF toName
        <4>2. refers(k, s, t)' /\ removedBeside(k, t)'
          BY <1>5, <1>17, <2>1, <3>3, <4>1
        <4> QED
          BY <1>1, <4>2
      <3> QED
        BY <1>7, <2>1, <3>1, <3>2, <3>3
    <2> QED
      BY <1>1, <2>1 DEF StrayExplained
  <1>19. BrokenExplained'
    <2>1. ASSUME NEW s \in Skills, NEW t \in Skills, links(new, s, t), t \notin recorded(new)
          PROVE  \E m \in merges' : linksTo(m, s, t)' /\ (t \in recorded(tree(baseOf(m)))' => removedBeside(m, t)')
      <3>1. CASE links(old, s, t) /\ t \notin recorded(old)
        <4>1. PICK m \in merges : linksTo(m, s, t) /\ (t \in recorded(tree(baseOf(m))) => removedBeside(m, t))
          BY <1>10, <3>1 DEF DefectsExplained, BrokenExplained, old
        <4>2. tree(baseOf(m))' = tree(baseOf(m)) /\ linksTo(m, s, t)' /\ m \in merges'
          BY <1>6, <4>1
        <4>3. removedBeside(m, t) => removedBeside(m, t)'
          BY <1>6
        <4> QED
          BY <4>1, <4>2, <4>3
      <3>2. CASE links(old, s, t) /\ t \in recorded(old)
        <4>1. p.operation = "remove" /\ t = p.name /\ s # t
          BY <1>7, <2>1, <3>2 DEF links
        <4>2. ~ links(base, s, t)
          BY <1>8, <4>1
        <4>3. PICK m \in merges : b.base < m /\ linksTo(m, s, t)
          BY <1>10, <3>2, <4>2 DEF Since, LinksSince, old, base
        <4> QED
          BY <1>6, <1>16, <4>1, <4>3
      <3>3. CASE s = p.name /\ toLink(p, t)
        <4>1. p.operation # "remove"
          BY <3>3 DEF toLink
        <4>2. tree(baseOf(k))' = base
          BY <1>2, <1>1, <1>3, <1>6 DEF tree, base
        <4>3. linksTo(k, s, t)' /\ (t \in recorded(tree(baseOf(k)))' => removedBeside(k, t)')
          BY <1>5, <1>17, <2>1, <3>3, <4>1, <4>2
        <4> QED
          BY <1>1, <4>3
      <3> QED
        BY <1>7, <2>1, <3>1, <3>2, <3>3
    <2> QED
      BY <1>1, <2>1 DEF BrokenExplained
  <1> QED
    BY <1>4, <1>11, <1>12, <1>13, <1>14, <1>15, <1>18, <1>19 DEF HistoryInv, DefectsExplained

(* The steps that do not merge: requests, closing and pushing.             *)
LEMMA HistoryStep ==
  ASSUME SubmissionIInv, SubmissionIInv', HistoryInv, [SubmissionNext]_submissionVars
  PROVE  HistoryInv'
  <1>0. RepositoryOK /\ RepositoryOK' /\ RequestTypes /\ Len(commits) \in Nat /\ \A e \in Editors : Informed(e)
    BY DEF SubmissionIInv, RepositoryOK, Commit
  <1>1. ASSUME main' = main,
               commits' = commits \/ \E x \in Object : x.merged = None /\ commits' = Append(commits, x),
               \A e \in Editors : progress'[e] \in Drafted =>
                  \/ progress[e] \in Drafted /\ draft'[e] = draft[e]
                  \/ draft'[e].base = main,
               \A b \in Branch : branch'[b] = branch[b] \/ (b.base \in Mainline /\ Carries(b)')
        PROVE  HistoryInv'
    <2>1. /\ Len(commits) <= Len(commits')
          /\ \A c \in 1 .. Len(commits) : commits'[c] = commits[c]
          /\ \A c \in 1 .. Len(commits') : c > Len(commits) => commits'[c].merged = None
      <3>1. CASE commits' = commits
        BY <1>0, <3>1
      <3>2. ASSUME NEW x \in Object, x.merged = None, commits' = Append(commits, x)
            PROVE  /\ Len(commits) <= Len(commits')
                   /\ \A c \in 1 .. Len(commits) : commits'[c] = commits[c]
                   /\ \A c \in 1 .. Len(commits') : c > Len(commits) => commits'[c].merged = None
        <4>1. /\ Len(commits') = Len(commits) + 1
              /\ \A c \in 1 .. Len(commits) : commits'[c] = commits[c]
              /\ commits'[Len(commits) + 1] = x
          BY <1>0, <3>2 DEF RepositoryOK
        <4>2. \A c \in 1 .. Len(commits') : c > Len(commits) => c = Len(commits) + 1
          BY <1>0, <4>1
        <4> QED
          BY <1>0, <3>2, <4>1, <4>2
      <3> QED
        BY <1>1, <3>1, <3>2
    <2>2. Mainline' = Mainline /\ (MadeOnMain' => HistoryInv')
      BY <1>0, <1>1, <2>1, HistoryBeside
    <2>3. ASSUME NEW e \in Editors, progress'[e] \in Drafted PROVE draft'[e].base \in Mainline
      BY <1>1, <2>3 DEF HistoryInv, MainlineOK, MadeOnMain
    <2>4. ASSUME NEW b \in Branch, branch'[b] # 0 PROVE b.base \in Mainline /\ Carries(b)'
      <3>1. CASE branch'[b] = branch[b]
        BY <1>0, <2>1, <2>4, <3>1, CarriesKept DEF HistoryInv, MadeOnMain
      <3> QED
        BY <1>1, <3>1
    <2> QED
      BY <2>2, <2>3, <2>4 DEF MadeOnMain
  <1>2. CASE UNCHANGED submissionVars
    BY <1>1, <1>2 DEF submissionVars
  <1>3. ASSUME NEW e \in Editors, PreviewProposal(e) PROVE HistoryInv'
    <2>1. UNCHANGED <<commits, main, branch>>
      BY <1>3 DEF PreviewProposal, hub
    <2>2. PICK edit \in Wants[e] : draft' = [draft EXCEPT ![e] = [base |-> main, edit |-> edit]]
      BY <1>3 DEF PreviewProposal
    <2>3. ASSUME NEW f \in Editors, progress'[f] \in Drafted
          PROVE  (progress[f] \in Drafted /\ draft'[f] = draft[f]) \/ draft'[f].base = main
      <3>1. CASE f = e
        BY <1>0, <2>2, <3>1 DEF RequestTypes
      <3>2. CASE f # e
        BY <1>0, <1>3, <2>2, <2>3, <3>2 DEF RequestTypes, PreviewProposal, Goto
      <3> QED
        BY <3>1, <3>2
    <2> QED
      BY <1>1, <2>1, <2>3
  <1>4. ASSUME NEW e \in Editors, progress[e] \in Drafted, draft' = draft,
               \A f \in Editors \ {e} : progress'[f] = progress[f]
        PROVE  \A f \in Editors : progress'[f] \in Drafted => progress[f] \in Drafted /\ draft'[f] = draft[f]
    BY <1>4
  <1>5. ASSUME NEW e \in Editors, Retry(e) \/ LoseAnswer(e) \/ SubmitProposal(e) \/ ReadRef(e) \/ VerifyHead(e)
                                    \/ CheckMain(e) \/ FindPr(e) \/ PostPr(e) \/ ConfirmPr(e)
        PROVE  HistoryInv'
    <2>1. UNCHANGED <<commits, main, branch, draft>>
      BY <1>5 DEF Retry, LoseAnswer, SubmitProposal, ReadRef, VerifyHead, CheckMain, FindPr, PostPr, ConfirmPr, Refuse, Answer, hub
    <2>2. progress[e] \in Drafted
      BY <1>0, <1>5 DEF Retry, LoseAnswer, SubmitProposal, ReadRef, VerifyHead, CheckMain, FindPr, PostPr, ConfirmPr,
                        RequestTypes, Drafted, Places
    <2>3. \A f \in Editors \ {e} : progress'[f] = progress[f]
      BY <1>0, <1>5 DEF Retry, LoseAnswer, Lose, SubmitProposal, ReadRef, VerifyHead, CheckMain, FindPr, PostPr, ConfirmPr,
                        Refuse, Answer, Goto, RequestTypes
    <2> QED
      BY <1>1, <1>4, <2>1, <2>2, <2>3
  <1>6. ASSUME NEW e \in Editors, PostCommit(e) PROVE HistoryInv'
    <2> DEFINE new == [tree |-> buildPreview(draft[e]).after, parent |-> draft[e].base, merged |-> None]
    <2>1. progress[e] \in Drafted /\ UNCHANGED <<main, branch, draft>> /\ commits' = Append(commits, new)
      BY <1>6 DEF PostCommit, Drafted, Places
    <2>2. draft[e] \in Branch /\ draft[e].base <= Len(commits)
      BY <1>0, <2>1 DEF Informed
    <2>3. new \in Object /\ new.merged = None
      BY <1>0, <2>2, PreviewType, BaseType DEF Object
    <2> HIDE DEF new
    <2>4. \A f \in Editors \ {e} : progress'[f] = progress[f]
      BY <1>0, <1>6 DEF PostCommit, Lose, Goto, RequestTypes
    <2> QED
      BY <1>1, <1>4, <2>1, <2>3, <2>4
  <1>7. ASSUME NEW e \in Editors, PostRef(e) PROVE HistoryInv'
    <2>1. progress[e] = "branch" /\ progress[e] \in Drafted /\ UNCHANGED <<commits, main, draft>>
      BY <1>7 DEF PostRef, Drafted, Places
    <2>2. /\ draft[e] \in Branch /\ submittable(draft[e]) /\ head[e] \in 1 .. Len(commits)
          /\ holdsProposal(e, head[e])
      BY <1>0, <2>1 DEF Informed, Drafted, Planned, Headed, Verified, Places
    <2>3. \A f \in Editors \ {e} : progress'[f] = progress[f]
      BY <1>0, <1>7 DEF PostRef, Lose, Goto, RequestTypes
    <2>4. ASSUME NEW b \in Branch, branch'[b] # branch[b] PROVE b.base \in Mainline /\ Carries(b)'
      <3>1. b = draft[e] /\ branch'[b] = head[e]
        BY <1>0, <1>7, <2>2, <2>4 DEF PostRef, RepositoryOK
      <3>2. b.base \in Mainline
        BY <2>1, <3>1 DEF HistoryInv, MadeOnMain
      <3>3. tree(head[e]) = buildPreview(b).after /\ submittable(b)
        BY <2>2, <3>1 DEF holdsProposal
      <3>4. tree(branch[b])' = buildPreview(b).after /\ submittable(b)' /\ buildPreview(b)' = buildPreview(b)
        BY <2>1, <3>1, <3>3 DEF submittable, buildPreview, tree
      <3> QED
        BY <3>2, <3>4 DEF Carries, Reworded
    <2> QED
      BY <1>1, <1>4, <2>1, <2>3, <2>4
  <1>8. ASSUME NEW b \in Branch, Close(b) PROVE HistoryInv'
    BY <1>1, <1>8 DEF Close
  <1>9. ASSUME NEW b \in Branch, Push(b) PROVE HistoryInv'
    <2> DEFINE s == proposalOf[b.edit].name
               old == tree(branch[b])
               after == buildPreview(b).after
    <2>1. UNCHANGED <<main, progress, draft>> /\ branch[b] # 0 /\ s \in recorded(old)
      BY <1>9 DEF Push
    <2>2. PICK t \in Texts : commits' = Append(commits, [tree |-> [old EXCEPT ![s].text = t], parent |-> branch[b],
                                                        merged |-> None])
      BY <1>9 DEF Push
    <2> DEFINE new == [tree |-> [old EXCEPT ![s].text = t], parent |-> branch[b], merged |-> None]
    <2>3. branch[b] \in 1 .. Len(commits) /\ b.base \in 1 .. Len(commits)
      BY <1>0, <2>1, BaseType DEF RepositoryOK
    <2>4. old \in Catalog /\ s \in Skills /\ old[s] \in SkillRecord
      BY <1>0, <2>1, <2>3, TreeType DEF recorded, Catalog
    <2>5. [old[s] EXCEPT !.text = t] \in SkillRecord
      BY <2>4 DEF SkillRecord
    <2>6. new \in Object /\ new.merged = None /\ new.tree = [old EXCEPT ![s].text = t]
      BY <1>0, <2>3, <2>4, <2>5 DEF Object, Catalog
    <2>7. /\ new.tree[s] \in SkillRecord
          /\ new.tree[s].aliases = old[s].aliases
          /\ new.tree[s].neighbours = old[s].neighbours
          /\ new.tree[s].links = old[s].links
          /\ \A u \in Skills \ {s} : new.tree[u] = old[u]
      BY <2>4, <2>5, <2>6 DEF Catalog, SkillRecord
    <2>8. Carries(b) /\ b.base \in Mainline
      BY <2>1 DEF HistoryInv, MadeOnMain
    <2>9. Reworded(old[s], after[s]) /\ \A u \in Skills \ {s} : old[u] = after[u]
      BY <2>8 DEF Carries
    <2>10. commits' = Append(commits, new)
      BY <2>2
    <2> HIDE DEF new
    <2>11. commits'[Len(commits) + 1] = new /\ \A c \in 1 .. Len(commits) : commits'[c] = commits[c]
      BY <1>0, <2>6, <2>10 DEF RepositoryOK
    <2>12. branch'[b] = Len(commits) + 1 /\ \A d \in Branch \ {b} : branch'[d] = branch[d]
      BY <1>0, <1>9 DEF Push, RepositoryOK
    <2>13. tree(branch[b])' = new.tree
      BY <2>11, <2>12 DEF tree
    <2>14. buildPreview(b)' = buildPreview(b) /\ submittable(b)' = submittable(b)
      BY <2>3, <2>11 DEF buildPreview, submittable, tree
    <2>15. Reworded(new.tree[s], after[s]) /\ \A u \in Skills \ {s} : new.tree[u] = after[u]
      BY <2>4, <2>7, <2>9 DEF Reworded
    <2>16. Carries(b)'
      BY <2>8, <2>13, <2>14, <2>15 DEF Carries
    <2>17. \A e \in Editors : progress'[e] \in Drafted => progress[e] \in Drafted /\ draft'[e] = draft[e]
      BY <2>1
    <2>18. \A d \in Branch : branch'[d] = branch[d] \/ (d.base \in Mainline /\ Carries(d)')
      BY <2>8, <2>12, <2>16
    <2>19. commits' = commits \/ \E x \in Object : x.merged = None /\ commits' = Append(commits, x)
      BY <2>6, <2>10
    <2>20. main' = main
      BY <2>1
    <2> HIDE DEF s, old, after
    <2> QED
      BY <1>1, <2>17, <2>18, <2>19, <2>20
  <1>10. ASSUME NEW b \in Branch, Merge(b) PROVE HistoryInv'
    <2>1. PICK k \in Nat : k = Len(commits) + 1
      BY <1>0
    <2> QED
      BY <1>0, <1>10, <2>1, MergeStep
  <1> QED
    BY <1>2, <1>3, <1>5, <1>6, <1>7, <1>8, <1>9, <1>10 DEF SubmissionNext, Step, Others

LEMMA HistoryInit ==
  ASSUME validateCatalog(FirstCatalog) = {}, SubmissionInit
  PROVE  HistoryInv
  <1>1. /\ Len(commits) = 1 /\ commits[1].merged = None /\ main = 1 /\ tree(main) = FirstCatalog
        /\ \A c \in 1 .. Len(commits) : c = 1
    BY DEF SubmissionInit, tree
  <1>2. merges = {} /\ Mainline = {1}
    BY <1>1 DEF merges, Mainline
  <1>3. MainlineOK /\ Since(1)
    BY <1>1, <1>2 DEF MainlineOK, Since, OwnsSince, NamesSince, LinksSince, RemovedSince
  <1>4. MadeOnMain
    BY DEF SubmissionInit, MadeOnMain, Drafted
  <1>5. ContestExplained
    BY <1>1, FirstCatalogAssumption, OneOwner DEF ContestExplained, validateCatalog, owns, owners
  <1>6. StrayExplained /\ BrokenExplained
    BY <1>1 DEF StrayExplained, BrokenExplained, validateCatalog, strayNeighbours, brokenLinks, names, links
  <1> QED
    BY <1>2, <1>3, <1>4, <1>5, <1>6 DEF HistoryInv, DefectsExplained

LEMMA Explained ==
  ASSUME SubmissionIInv, DefectsExplained
  PROVE  DefectsNeedOverlap
  <1>1. tree(main) \in Catalog
    BY TreeType DEF SubmissionIInv, RepositoryOK
  <1> DEFINE now == tree(main)
  <1>2. ASSUME NEW s \in recorded(now)
        PROVE  /\ s \in Skills
               /\ now[s].aliases \subseteq Aliases /\ now[s].neighbours \subseteq Skills /\ now[s].links \subseteq Skills
               /\ \A a \in now[s].aliases : owns(now, s, a)
               /\ \A t \in now[s].neighbours : names(now, s, t)
               /\ \A t \in now[s].links : links(now, s, t)
    <2>1. s \in Skills /\ now[s] \in SkillRecord
      BY <1>1, <1>2 DEF recorded, Catalog
    <2> QED
      BY <1>2, <2>1 DEF SkillRecord, owns, names, links
  <1>3. \A s, t \in recorded(now) : \A a \in (now[s].aliases \cap now[t].aliases) : s # t =>
           \E m, n \in merges : claims(m, s, a) /\ claims(n, t, a) /\ overlap(m, n)
    BY <1>2 DEF DefectsExplained, ContestExplained
  <1>4. \A s \in recorded(now) : \A t \in now[s].neighbours \ recorded(now) :
           \E m \in merges : refers(m, s, t) /\ removedBeside(m, t)
    BY <1>2 DEF DefectsExplained, StrayExplained
  <1>5. \A s \in recorded(now) : \A t \in now[s].links \ recorded(now) :
           \E m \in merges : linksTo(m, s, t) /\ (t \in recorded(tree(baseOf(m))) => removedBeside(m, t))
    BY <1>2 DEF DefectsExplained, BrokenExplained
  <1> QED
    BY <1>3, <1>4, <1>5 DEF DefectsNeedOverlap

(* From a first catalog that validates, whatever is proposed and merged    *)
(* when: a defect of main that the plans look for comes of two proposals   *)
(* that overlap, neither of which saw the other.                           *)
THEOREM DefectsOfMain ==
  ASSUME validateCatalog(FirstCatalog) = {}
  PROVE  SubmissionSpec => []DefectsNeedOverlap
  <1>1. SubmissionInit => HistoryInv
    BY HistoryInit
  <1>2. SubmissionIInv /\ SubmissionIInv' /\ HistoryInv /\ [SubmissionNext]_submissionVars => HistoryInv'
    BY HistoryStep
  <1>3. SubmissionIInv /\ HistoryInv => DefectsNeedOverlap
    BY Explained DEF HistoryInv
  <1> QED
    BY <1>1, <1>2, <1>3, SubmissionInvariance, PTL DEF SubmissionSpec
=============================================================================
