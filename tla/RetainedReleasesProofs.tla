----------------------- MODULE RetainedReleasesProofs -----------------------
(***************************************************************************)
(* Operators are told only what was published, promotions keep what was    *)
(* reviewed, and the manifest is a ledger, for every set of operators,     *)
(* candidates and deployments and whatever dies or is damaged.             *)
(***************************************************************************)
EXTENDS RetainedReleases, TLAPS

Manifest == [publication_revision : Nat, deployment_id : Deployments, default : Releases,
             entry : [Releases -> Candidates \cup {None}]]

(* The default is retained, and each release by a candidate of its own.    *)
ManifestOK ==
  /\ manifest \in Manifest
  /\ manifest.entry[manifest.default] # None
  /\ \A r \in Releases : manifest.entry[r] # None => releaseOf[manifest.entry[r]] = r

Publication == [rollback : BOOLEAN, release : Releases, candidate : Candidates, deployment : Deployments]

(* The history is as long as the manifest counts, and its end is what the  *)
(* manifest has.                                                           *)
HistoryOK ==
  /\ history \in Seq(Publication)
  /\ Len(history) = manifest.publication_revision
  /\ Len(history) > 0
  /\ history[Len(history)].release = manifest.default
  /\ history[Len(history)].deployment = manifest.deployment_id
  /\ history[Len(history)].candidate = manifest.entry[manifest.default]

(* What the operator of a published command may be told.                   *)
Told(p) ==
  LET n == op[p].expected + 1 IN
  /\ n <= Len(history)
  /\ history[n].deployment = op[p].deployment
  /\ IF op[p].rollback THEN history[n].release = op[p].release
                       ELSE history[n].candidate = op[p].candidate

(* What each place of a command knows.                                     *)
Known(p) ==
  /\ pc[p] # "idle" => op[p] \in Command
  /\ pc[p] = "write" => /\ op[p].rollback => op[p].release \in retainedIn(seen[p])
                        /\ casUpdateStable(op[p], seen[p])
                        /\ forwardPublication(op[p], seen[p])
  /\ pc[p] \in {"written", "answered"} => Told(p)

Places == {"idle", "answered", "write", "written", "dead"}

IInv == /\ pc \in [Operators -> Places]
        /\ DOMAIN op = Operators
        /\ DOMAIN seen = Operators
        /\ ManifestOK
        /\ HistoryOK
        /\ \A p \in Operators : Known(p)
        /\ ForwardIsReviewed

-----------------------------------------------------------------------------
LEMMA CommandFields ==
  ASSUME NEW o \in Command
  PROVE  /\ o.rollback \in BOOLEAN
         /\ o.expected \in Nat
         /\ o.deployment \in Deployments
         /\ o.rollback => o.release \in Releases
         /\ ~ o.rollback => o.candidate \in Candidates
  <1>1. Expected \subseteq Nat
    BY BoundAssumption DEF Expected
  <1>2. CASE o \in [rollback : {TRUE}, release : Releases, legacy : BOOLEAN, expected : Expected,
                   deployment : Deployments]
    BY <1>1, <1>2
  <1>3. CASE o \in [rollback : {FALSE}, candidate : Candidates \ reviewed, legacy : BOOLEAN,
                   expected : Expected, deployment : Deployments]
    BY <1>1, <1>3
  <1>4. CASE o \in [rollback : {FALSE}, candidate : reviewed, legacy : {FALSE},
                   expected : Expected, deployment : Deployments]
    BY <1>1, <1>4, CandidateAssumption
  <1> QED
    BY <1>2, <1>3, <1>4 DEF Command

LEMMA ReleasesOfCandidates ==
  /\ \A c \in Candidates : releaseOf[c] \in Releases
  /\ Releases \subseteq Release
  /\ \A r \in Releases : WellFormed(r)
  BY CandidateAssumption DEF Releases

(* What a command publishes on top of the manifest is a candidate of the   *)
(* release that it names.                                                  *)
LEMMA CandidateOfCommand ==
  ASSUME ManifestOK, NEW o \in Command, o.rollback => o.release \in retainedIn(manifest)
  PROVE  /\ candidate(o, manifest) \in Candidates
         /\ release(o, manifest) \in Releases
         /\ o.rollback => release(o, manifest) = o.release
         /\ ~ o.rollback => candidate(o, manifest) = o.candidate
  BY CommandFields, ReleasesOfCandidates DEF ManifestOK, Manifest, candidate, release, retainedIn

(* A command that finds itself published already is the last publication.  *)
LEMMA PublishedIsLast ==
  ASSUME ManifestOK, HistoryOK, NEW o \in Command,
         o.rollback => o.release \in retainedIn(manifest), alreadyPublished(o, manifest)
  PROVE  /\ o.expected + 1 = Len(history)
         /\ history[Len(history)].deployment = o.deployment
         /\ IF o.rollback THEN history[Len(history)].release = o.release
                          ELSE history[Len(history)].candidate = o.candidate
  BY CommandFields, CandidateOfCommand DEF HistoryOK, alreadyPublished

-----------------------------------------------------------------------------
(* Every initial state is one: a verified manifest, nobody running          *)
(* (retained.ts, before a promotion begins).                               *)
THEOREM Initially == Init => IInv
  <1> SUFFICES ASSUME Init
               PROVE  IInv
    OBVIOUS
  <1> DEFINE first == [rollback |-> FALSE, release |-> releaseOf[First], candidate |-> First,
                       deployment |-> manifest.deployment_id]
  <1>1. releaseOf[First] \in Releases /\ First \in Candidates /\ First # None
    BY CandidateAssumption, NoneAssumption, ReleasesOfCandidates
  <1>2. ManifestOK
    <2>1. manifest \in Manifest
      BY <1>1 DEF Init, Manifest
    <2>2. manifest.entry = [r \in Releases |-> IF r = releaseOf[First] THEN First ELSE None]
      BY DEF Init
    <2>3. manifest.default = releaseOf[First]
      BY DEF Init
    <2> QED
      BY <1>1, <2>1, <2>2, <2>3 DEF ManifestOK
  <1>3. history = <<first>> /\ first \in Publication
    BY <1>1 DEF Init, Publication
  <1>4. HistoryOK
    <2>1. Len(history) = 1 /\ history[1] = first /\ history \in Seq(Publication)
      BY <1>3
    <2>2. manifest.publication_revision = 1 /\ manifest.default = releaseOf[First]
          /\ manifest.entry[releaseOf[First]] = First
      BY <1>1 DEF Init
    <2> QED
      BY <2>1, <2>2 DEF HistoryOK
  <1>5. \A p \in Operators : pc[p] = "idle"
    BY DEF Init
  <1>6. ForwardIsReviewed
    BY <1>3 DEF ForwardIsReviewed
  <1> QED
    BY <1>2, <1>4, <1>5, <1>6 DEF Init, IInv, Known, Places

(* A step that publishes nothing keeps the invariant, if what the moving   *)
(* operator knows is true of the manifest that stays.                      *)
LEMMA KeepsManifest ==
  ASSUME IInv, UNCHANGED <<manifest, history>>, NEW p \in Operators,
         pc' \in [Operators -> Places], DOMAIN op' = Operators, DOMAIN seen' = Operators,
         \A q \in Operators \ {p} : pc'[q] = pc[q] /\ op'[q] = op[q] /\ seen'[q] = seen[q],
         Known(p)'
  PROVE  IInv'
  <1>1. ManifestOK' /\ HistoryOK' /\ ForwardIsReviewed'
    BY DEF IInv, ManifestOK, HistoryOK, ForwardIsReviewed
  <1>2. ASSUME NEW q \in Operators \ {p} PROVE Known(q)'
    BY <1>2 DEF IInv, Known, Told
  <1> QED
    BY <1>1, <1>2 DEF IInv

LEMMA BeginStep ==
  ASSUME IInv, NEW p \in Operators, NEW o \in Command, Begin(p, o)
  PROVE  IInv'
  <1>1. o.rollback => o.release \in retainedIn(manifest)
    BY DEF Begin, verifiedCandidate
  <1>2. op'[p] = o
    BY DEF Begin, IInv
  <1>3. CASE alreadyPublished(o, manifest)
    <2>1. pc'[p] = "answered" /\ seen' = seen /\ UNCHANGED history
      BY <1>3 DEF Begin, Goto, IInv
    <2>2. Told(p)'
      BY <1>1, <1>2, <1>3, <2>1, PublishedIsLast, CommandFields DEF Told, IInv, HistoryOK
    <2>3. Known(p)'
      BY <1>2, <2>1, <2>2 DEF Known
    <2> QED
      BY <1>3, <2>1, <2>3, KeepsManifest DEF Begin, Goto, IInv, Places
  <1>4. CASE ~ alreadyPublished(o, manifest)
    <2>1. pc'[p] = "write" /\ seen'[p] = manifest /\ UNCHANGED history
      BY <1>4 DEF Begin, Goto, IInv
    <2>2. Known(p)'
      BY <1>1, <1>2, <1>4, <2>1 DEF Known, Begin
    <2> QED
      BY <1>4, <2>1, <2>2, KeepsManifest DEF Begin, Goto, IInv, Places
  <1> QED
    BY <1>3, <1>4

(* A publication is the end of the history, on top of the manifest that    *)
(* the operator has seen.                                                  *)
LEMMA WriteStep ==
  ASSUME IInv, NEW p \in Operators, WriteManifest(p)
  PROVE  IInv' /\ Ledger!Next
  <1> DEFINE o == op[p]
             r == release(o, manifest)
             c == candidate(o, manifest)
             publication == [rollback |-> o.rollback, release |-> r, candidate |-> c,
                             deployment |-> o.deployment]
  <1>1. /\ o \in Command
        /\ o.rollback => o.release \in retainedIn(manifest)
        /\ casUpdateStable(o, manifest)
        /\ forwardPublication(o, manifest)
    BY DEF WriteManifest, IInv, Known
  <1>2. /\ c \in Candidates /\ r \in Releases /\ releaseOf[c] = r
        /\ o.rollback => r = o.release
        /\ ~ o.rollback => c = o.candidate
    BY <1>1, CandidateOfCommand DEF IInv, release
  <1>3. o.expected = manifest.publication_revision /\ o.expected = Len(history)
    BY <1>1 DEF casUpdateStable, IInv, HistoryOK
  <1>4. /\ manifest' = nextManifest(o, manifest)
        /\ history' = Append(history, publication)
        /\ pc' = [pc EXCEPT ![p] = "written"]
        /\ UNCHANGED <<op, seen>>
    BY DEF WriteManifest, Goto
  <1>5. publication \in Publication /\ o.deployment \in Deployments
    BY <1>1, <1>2, CommandFields DEF Publication
  <1>6. /\ manifest'.publication_revision = Len(history) + 1
        /\ manifest'.default = r
        /\ manifest'.deployment_id = o.deployment
        /\ manifest'.entry = [manifest.entry EXCEPT ![r] = c]
    BY <1>3, <1>4 DEF nextManifest
  <1>7. manifest.entry \in [Releases -> Candidates \cup {None}]
    BY DEF IInv, ManifestOK, Manifest
  <1>8. ManifestOK'
    <2>1. manifest' \in Manifest
      BY <1>2, <1>3, <1>4, <1>5, <1>7 DEF nextManifest, Manifest, IInv, HistoryOK
    <2>2. manifest'.entry[r] = c /\ c # None
      BY <1>2, <1>6, <1>7, NoneAssumption
    <2>3. \A x \in Releases \ {r} : manifest'.entry[x] = manifest.entry[x]
      BY <1>6, <1>7
    <2> QED
      BY <1>2, <1>6, <2>1, <2>2, <2>3 DEF ManifestOK, IInv
  <1>9. /\ history' \in Seq(Publication)
        /\ Len(history') = Len(history) + 1
        /\ history'[Len(history) + 1] = publication
        /\ \A n \in 1 .. Len(history) : history'[n] = history[n]
    BY <1>4, <1>5 DEF IInv, HistoryOK
  <1>10. HistoryOK'
    BY <1>2, <1>6, <1>7, <1>9 DEF HistoryOK, IInv
  <1>11. ASSUME NEW q \in Operators PROVE Known(q)'
    <2>1. CASE q = p
      <3>1. pc'[q] = "written" /\ op'[q] = o
        BY <1>4, <2>1 DEF IInv
      <3>2. Told(q)'
        BY <1>2, <1>3, <1>9, <3>1 DEF Told
      <3> QED
        BY <1>1, <3>1, <3>2 DEF Known
    <2>2. CASE q # p
      <3>1. pc'[q] = pc[q] /\ op'[q] = op[q] /\ seen'[q] = seen[q] /\ Known(q)
        BY <1>4, <2>2 DEF IInv
      <3>2. ASSUME pc[q] # "idle", Told(q) PROVE Told(q)'
        <4>1. op[q].expected \in Nat /\ op[q].expected + 1 \in 1 .. Len(history)
          BY <3>1, <3>2, CommandFields DEF Known, Told, IInv, HistoryOK
        <4> QED
          BY <1>9, <3>1, <3>2, <4>1 DEF Told, IInv, HistoryOK
      <3> QED
        BY <3>1, <3>2 DEF Known
    <2> QED
      BY <2>1, <2>2
  <1>12. ForwardIsReviewed'
    <2> SUFFICES ASSUME NEW n \in 2 .. Len(history'), ~ history'[n].rollback
                 PROVE  LET before == history'[n - 1].release
                            now == history'[n].release
                        IN /\ \A s \in before.bound : now.version[s] \in {Absent, before.version[s]}
                           /\ \A s \in before.bound : now.version[s] # Absent => s \in now.bound
                           /\ before.governed => now.governed
                           /\ now.governed => previousOf[history'[n].candidate] = before
      BY DEF ForwardIsReviewed
    <2>1. CASE n <= Len(history)
      <3>1. n \in 2 .. Len(history) /\ n - 1 \in 1 .. Len(history) /\ n \in 1 .. Len(history)
        BY <1>9, <2>1
      <3>2. history'[n] = history[n] /\ history'[n - 1] = history[n - 1]
        BY <1>9, <3>1
      <3> QED
        BY <3>1, <3>2 DEF IInv, ForwardIsReviewed
    <2>2. CASE ~ n <= Len(history)
      <3>1. n = Len(history) + 1 /\ Len(history) \in 1 .. Len(history) /\ n - 1 = Len(history)
        BY <1>9, <2>2 DEF IInv, HistoryOK
      <3>2. history'[n] = publication /\ history'[n - 1] = history[Len(history)]
        BY <1>9, <3>1
      <3>3. history'[n - 1].release = manifest.default /\ history'[n].release = r
            /\ history'[n].candidate = c /\ ~ o.rollback
        BY <3>2 DEF IInv, HistoryOK
      <3>4. WellFormed(manifest.default)
        BY ReleasesOfCandidates DEF IInv, ManifestOK, Manifest
      <3>5. r.governed \/ manifest.default.governed =>
              /\ r.governed
              /\ previousOf[c] = manifest.default
              /\ verifyInvocationTransition(manifest.default, r)
        BY <1>1, <3>3 DEF forwardPublication
      <3> QED
        BY <3>3, <3>4, <3>5 DEF WellFormed, verifyInvocationTransition
    <2> QED
      BY <2>1, <2>2
  <1>13. Ledger!Next
    <2>1. retainedIn(manifest)' = retainedIn(manifest) \cup {r}
      BY <1>2, <1>6, <1>7, NoneAssumption DEF retainedIn
    <2>2. Ledger!Publish(r, o.deployment)
      BY <1>3, <1>6, <2>1 DEF Ledger!Publish
    <2> QED
      BY <1>2, <1>5, <2>2 DEF Ledger!Next
  <1>14. pc' \in [Operators -> Places] /\ DOMAIN op' = Operators /\ DOMAIN seen' = Operators
    BY <1>4 DEF IInv, Places
  <1> QED
    BY <1>8, <1>10, <1>11, <1>12, <1>13, <1>14 DEF IInv

(* Every step keeps the invariant, and only a publication moves the ledger.*)
LEMMA Step ==
  ASSUME IInv, [Next]_vars
  PROVE  IInv' /\ (Ledger!Next \/ UNCHANGED manifest)
  <1>1. CASE UNCHANGED vars
    <2>1. IInv'
      BY <1>1 DEF vars, IInv, ManifestOK, HistoryOK, ForwardIsReviewed, Known, Told
    <2> QED
      BY <1>1, <2>1 DEF vars
  <1>2. ASSUME NEW p \in Operators, Start(p) PROVE IInv' /\ UNCHANGED manifest
    BY <1>2, BeginStep DEF Start, Begin
  <1>3. ASSUME NEW p \in Operators, Retry(p) PROVE IInv' /\ UNCHANGED manifest
    <2>1. op[p] \in Command
      BY <1>3 DEF Retry, IInv, Known
    <2> QED
      BY <1>3, <2>1, BeginStep DEF Retry, Begin
  <1>4. ASSUME NEW p \in Operators, WriteManifest(p) PROVE IInv' /\ Ledger!Next
    BY <1>4, WriteStep
  <1>5. ASSUME NEW p \in Operators, Return(p) PROVE IInv' /\ UNCHANGED manifest
    <2>1. pc'[p] = "answered" /\ op' = op /\ UNCHANGED <<manifest, history>>
      BY <1>5 DEF Return, Leave, Goto, IInv
    <2>2. Known(p)'
      BY <1>5, <2>1 DEF Return, Known, Told, IInv
    <2> QED
      BY <1>5, <2>1, <2>2, KeepsManifest DEF Return, Leave, Goto, IInv, Places
  <1>6. ASSUME NEW p \in Operators, Crash(p) PROVE IInv' /\ UNCHANGED manifest
    <2>1. pc'[p] = "dead" /\ op' = op /\ UNCHANGED <<manifest, history>>
      BY <1>6 DEF Crash, Leave, Goto, IInv
    <2>2. Known(p)'
      BY <1>6, <2>1 DEF Crash, Known, IInv
    <2> QED
      BY <1>6, <2>1, <2>2, KeepsManifest DEF Crash, Leave, Goto, IInv, Places
  <1>7. ASSUME NEW c \in Candidates, Damage(c) PROVE IInv' /\ UNCHANGED manifest
    BY <1>7 DEF Damage, IInv, ManifestOK, HistoryOK, ForwardIsReviewed, Known, Told
  <1> QED
    BY <1>1, <1>2, <1>3, <1>4, <1>5, <1>6, <1>7 DEF Next

(* The manifest, the candidates and what each operator knows fit together  *)
(* after every step of every operator (retained.ts).                       *)
THEOREM Inductive == Spec => []IInv
  BY Initially, Step, PTL DEF Spec

-----------------------------------------------------------------------------
(* An operator who is told of success is told the truth, whatever was      *)
(* published since and by whom (retained.ts, the revision compare-and-swap *)
(* and alreadyPublished).                                                  *)
THEOREM AnswersTrue == Spec => []AnswersWerePublished
  <1>1. IInv => AnswersWerePublished
    BY DEF IInv, Known, Told, AnswersWerePublished
  <1> QED
    BY <1>1, Inductive, PTL

(* Promotions keep the bindings that were reviewed, in any interleaving    *)
(* with other promotions and rollbacks (retained.ts, forwardPublication).  *)
THEOREM Governance == Spec => []ForwardIsReviewed
  <1>1. IInv => ForwardIsReviewed
    BY DEF IInv
  <1> QED
    BY <1>1, Inductive, PTL

(* The manifest is a ledger: publications one after the other, from which  *)
(* no release is taken away (retained.ts, createRetainedManifest).         *)
THEOREM Refines == Spec => ImplementsLedger
  <1>1. Init => Ledger!Init
    BY Initially, CandidateAssumption, NoneAssumption, ReleasesOfCandidates
    DEF Init, Ledger!Init, retainedIn, IInv, ManifestOK, Manifest
  <1>2. UNCHANGED manifest => UNCHANGED Ledger!ledger
    BY DEF Ledger!ledger, retainedIn
  <1>3. IInv /\ [Next]_vars => [Ledger!Next]_(Ledger!ledger)
    BY <1>2, Step
  <1> QED
    BY <1>1, <1>3, Inductive, PTL DEF Spec, ImplementsLedger, Ledger!Spec
=============================================================================
