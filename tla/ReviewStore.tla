---------------------------- MODULE ReviewStore ----------------------------
(***************************************************************************)
(* The append-only review store of a Hub and the adoption gate on it:      *)
(* writeCandidateReview, readReviewRecords, requireCandidateApproval       *)
(* (packages/project/src/intake/review-store.ts).                          *)
(*                                                                         *)
(* A decision on a candidate covers all of its skills and is one file,     *)
(* named after the request and renamed into place under the mutation lock. *)
(* The digest of a review stands for the request of its batch.  Actor and  *)
(* reason only distinguish requests and are left out.                      *)
(***************************************************************************)
EXTENDS Naturals, FiniteSets

CONSTANTS Proc,         \* the processes that review or adopt
          Skill,        \* Skill IDs
          Candidate,    \* staged candidates
          SkillsOf,     \* the skills of a candidate
          VersionOf,    \* the version of each of them
          Absent,       \* no request, no version, no file
          MaxRevision   \* bound on the revisions of a skill

Version == UNION {{VersionOf[c][s] : s \in SkillsOf[c]} : c \in Candidate}

ASSUME CandidateAssumption ==
  /\ SkillsOf \in [Candidate -> SUBSET Skill]
  /\ \A c \in Candidate : SkillsOf[c] # {} /\ DOMAIN VersionOf[c] = SkillsOf[c]
ASSUME BoundAssumption == MaxRevision \in Nat

Decision == {"APPROVED", "REJECTED"}

(* The request id hashes the decision and the revisions the client expects.*)
Request == UNION {[candidate : {c}, decision : Decision,
                   expected : [SkillsOf[c] -> 0 .. MaxRevision]] : c \in Candidate}

(* A batch: the request it carries out, and for each skill its revision    *)
(* and the request whose review it follows.                                *)
Batch == UNION {[request : {r}, revision : [DOMAIN r.expected -> 1 .. MaxRevision],
                 previous : [DOMAIN r.expected -> Request \cup {Absent}]] : r \in Request}

ASSUME KindAssumption == Candidate \cap Request = {} /\ Absent \notin Batch

VARIABLES mutex,     \* holders of `.hub.lock`
          batches,   \* intake/review-batches
          catalog,   \* the version of each skill the Hub has adopted
          command,   \* per process, its request or the candidate it applies
          pending,   \* per process, the batch it is about to write
          pc         \* per process, its place in the command

store == <<mutex, batches, catalog>>
vars == <<store, command, pending, pc>>

M == INSTANCE Mutex WITH holders <- mutex

Init == /\ mutex = {}
        /\ batches = {}
        /\ catalog = [s \in Skill |-> Absent]
        /\ command = [p \in Proc |-> Absent]
        /\ pending = [p \in Proc |-> Absent]
        /\ pc = [p \in Proc |-> "idle"]

-----------------------------------------------------------------------------
(* Histories.                                                              *)

reviewsOf(s) == {b \in batches : s \in DOMAIN b.revision}

(* The review with the highest revision; Absent if there is none.          *)
latest(s) ==
  IF reviewsOf(s) = {} THEN Absent
  ELSE CHOOSE b \in reviewsOf(s) : \A c \in reviewsOf(s) : c.revision[s] <= b.revision[s]

currentRevision(s) == IF latest(s) = Absent THEN 0 ELSE latest(s).revision[s]

latestRequest(s) == IF latest(s) = Absent THEN Absent ELSE latest(s).request

(* Each skill's revisions are 1 to n, each with the digest of the one      *)
(* before; readReviewRecords refuses any other store.                      *)
contiguous(s) ==
  /\ {b.revision[s] : b \in reviewsOf(s)} = 1 .. Cardinality(reviewsOf(s))
  /\ \A b \in reviewsOf(s) :
       IF b.revision[s] = 1 THEN b.previous[s] = Absent
       ELSE \E c \in reviewsOf(s) : /\ c.revision[s] + 1 = b.revision[s]
                                    /\ b.previous[s] = c.request
readable == \A s \in Skill : contiguous(s)

(* What requireCandidateApproval asks of the latest reviews.               *)
approvedFor(c) ==
  \A s \in SkillsOf[c] : /\ latest(s) # Absent
                         /\ latest(s).request.candidate = c
                         /\ latest(s).request.decision = "APPROVED"

-----------------------------------------------------------------------------
(* writeCandidateReview.                                                   *)

go(p, from, to) == pc[p] = from /\ pc' = [pc EXCEPT ![p] = to]

\* Mutant: decisions are taken without the mutation lock.
ReviewUnlocked(p) == /\ go(p, "idle", "decide")
                     /\ \E r \in Request : command' = [command EXCEPT ![p] = r]
                     /\ UNCHANGED <<store, pending>>

Review(p) == /\ go(p, "idle", "decide")
             /\ M!Acquire(p)
             /\ \E r \in Request : command' = [command EXCEPT ![p] = r]
             /\ UNCHANGED <<batches, catalog, pending>>

newBatch(r) == [request |-> r,
                revision |-> [s \in DOMAIN r.expected |-> currentRevision(s) + 1],
                previous |-> [s \in DOMAIN r.expected |-> latestRequest(s)]]

committed(r) == \E b \in batches : b.request = r

fresh(r) == \A s \in DOMAIN r.expected : currentRevision(s) = r.expected[s]

withinBound(r) == \A s \in DOMAIN r.expected : currentRevision(s) < MaxRevision

\* Mutant: the expected revisions are not compared.
DecideWithoutCas(p) ==
  /\ pc[p] = "decide"
  /\ withinBound(command[p]) \/ committed(command[p])
  /\ go(p, "decide", IF ~ readable THEN "refused"
                     ELSE IF committed(command[p]) THEN "reply" ELSE "write")
  /\ pending' = [pending EXCEPT ![p] = newBatch(command[p])]
  /\ UNCHANGED <<store, command>>

(* A retry of a committed request is answered before any revision is       *)
(* compared; otherwise each revision must be the expected one.             *)
Decide(p) ==
  LET r == command[p]
  IN  /\ pc[p] = "decide"
      /\ go(p, "decide", IF ~ readable THEN "refused"
                         ELSE IF committed(r) THEN "reply"
                         ELSE IF fresh(r) /\ withinBound(r) THEN "write" ELSE "refused")
      /\ pending' = [pending EXCEPT ![p] = IF pc'[p] = "write" THEN newBatch(r) ELSE Absent]
      /\ UNCHANGED <<store, command>>

(* The rename of the temporary file, which replaces a file of that name.   *)
WriteBatch(p) ==
  /\ go(p, "write", "reply")
  /\ batches' = {b \in batches : b.request # command[p]} \cup {pending[p]}
  /\ pending' = [pending EXCEPT ![p] = Absent]
  /\ UNCHANGED <<mutex, catalog, command>>

-----------------------------------------------------------------------------
(* applyAdoptionPlan, of which HubAdoption has the transaction.            *)

Apply(p) == /\ go(p, "idle", "approve")
            /\ M!Acquire(p)
            /\ \E c \in Candidate : command' = [command EXCEPT ![p] = c]
            /\ UNCHANGED <<batches, catalog, pending>>

\* Mutant: any approval of the skills will do.
RequireAnyApproval(p) ==
  /\ pc[p] = "approve"
  /\ go(p, "approve",
        IF \A s \in SkillsOf[command[p]] :
             latest(s) # Absent /\ latest(s).request.decision = "APPROVED"
        THEN "adopt" ELSE "refused")
  /\ UNCHANGED <<store, command, pending>>

RequireCandidateApproval(p) ==
  /\ pc[p] = "approve"
  /\ go(p, "approve", IF readable /\ approvedFor(command[p]) THEN "adopt" ELSE "refused")
  /\ UNCHANGED <<store, command, pending>>

Adopt(p) ==
  /\ go(p, "adopt", "reply")
  /\ catalog' = [s \in Skill |-> IF s \in SkillsOf[command[p]]
                                 THEN VersionOf[command[p]][s] ELSE catalog[s]]
  /\ UNCHANGED <<mutex, batches, command, pending>>

(* An update of an adopted source changes versions without any review.     *)
Update(s) == /\ M!Free
             /\ catalog[s] # Absent
             /\ \E c \in Candidate : /\ s \in SkillsOf[c]
                                    /\ catalog' = [catalog EXCEPT ![s] = VersionOf[c][s]]
             /\ UNCHANGED <<mutex, batches, command, pending, pc>>

-----------------------------------------------------------------------------

(* The command answers, or throws, or is killed: the client may not learn  *)
(* what became of it.                                                      *)
End(p) == /\ pc[p] # "idle"
          /\ pc' = [pc EXCEPT ![p] = "idle"]
          /\ mutex' = mutex \ {p}
          /\ command' = [command EXCEPT ![p] = Absent]
          /\ pending' = [pending EXCEPT ![p] = Absent]
          /\ UNCHANGED <<batches, catalog>>

Next == \/ \E p \in Proc : \/ Review(p) \/ Decide(p) \/ WriteBatch(p)
                           \/ Apply(p) \/ RequireCandidateApproval(p) \/ Adopt(p)
                           \/ End(p)
        \/ \E s \in Skill : Update(s)

Spec == Init /\ [][Next]_vars

-----------------------------------------------------------------------------
(* Properties.                                                             *)

(* Every variable keeps to its type.                                       *)
TypeOK == /\ mutex \subseteq Proc
          /\ batches \subseteq Batch
          /\ catalog \in [Skill -> Version \cup {Absent}]
          /\ command \in [Proc -> Request \cup Candidate \cup {Absent}]
          /\ pending \in [Proc -> Batch \cup {Absent}]
          /\ pc \in [Proc -> {"idle", "decide", "write", "reply", "refused", "approve", "adopt"}]

(* The store stays readable: every skill has one contiguous chain of       *)
(* reviews, whoever crashes or retries.                                    *)
HistoryIsChain == readable

(* A committed decision is never changed or lost, not even by its retry.   *)
BatchesAreImmutable == [][batches \subseteq batches']_vars

(* A client that is answered has its decision in the store, at the         *)
(* revision after the one it expected, also when it retries much later.    *)
ReplyIsCommitted ==
  \A p \in Proc : pc[p] = "reply" /\ command[p] \in Request =>
    \E b \in batches : /\ b.request = command[p]
                       /\ \A s \in DOMAIN b.revision :
                            b.revision[s] = command[p].expected[s] + 1

(* What is being adopted is approved at that very moment: no rejection     *)
(* slips in between the check and the adoption.                            *)
AdoptsOnlyApproved ==
  \A p \in Proc : pc[p] = "adopt" => approvedFor(command[p])
=============================================================================
