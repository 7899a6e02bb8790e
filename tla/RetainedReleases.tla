-------------------------- MODULE RetainedReleases --------------------------
(***************************************************************************)
(* Operators promote release candidates and roll back to retained releases *)
(* (retained.ts): under the lock of the manifest, with a compare-and-swap  *)
(* on its revision, and again if they never saw the answer.  The lock is   *)
(* the owner-token lock that HubLock models, here with what it promises.   *)
(***************************************************************************)
EXTENDS InvocationProfile, Integers, Sequences

CONSTANTS
    Operators,      \* processes that publish
    Candidates,     \* candidate directories
    releaseOf,      \* releaseOf[c]: the release in c
    previousOf,     \* previousOf[c]: the release that c was prepared to follow
    reviewed,       \* the candidates with a publication preflight (schema 2 or 3)
    Deployments,    \* ids of deployments
    First,          \* the candidate of the first manifest
    None,
    MaxRevision,    \* bound: revisions of the manifest
    MaxLosses       \* bound: operators that die, artifacts that are damaged

ASSUME CandidateAssumption ==
    /\ releaseOf \in [Candidates -> Release]
    /\ previousOf \in [Candidates -> Release]
    /\ \A c \in Candidates : WellFormed(releaseOf[c]) /\ (releaseOf[c].governed => c \in reviewed)
    /\ First \in Candidates
    /\ reviewed \subseteq Candidates
ASSUME NoneAssumption == None \notin Candidates
ASSUME BoundAssumption == MaxRevision \in Nat /\ MaxLosses \in Nat

Releases == {releaseOf[c] : c \in Candidates}

VARIABLES
    manifest,   \* the manifest file
    holders,    \* who holds the lock of the manifest
    damaged,    \* candidates whose files fail verification
    pc,         \* where each operator is
    op,         \* op[p]: the arguments of its command
    seen,       \* seen[p]: the manifest as p has loaded it
    losses,
    history     \* history[n]: what revision n was published as (for properties)

vars == <<manifest, holders, damaged, pc, op, seen, losses, history>>

Lock == INSTANCE Mutex WITH Proc <- Operators

\* A manifest has a default, and for each retained release the directory and
\* digest of its candidate.
retainedIn(m) == {r \in Releases : m.entry[r] # None}

Expected == 1 .. MaxRevision - 1

\* What may be asked for; legacy is for candidates without a preflight, also
\* when it is rolled back to one.
Command ==
    [rollback : {FALSE}, candidate : reviewed, legacy : {FALSE}, expected : Expected, deployment : Deployments]
        \cup [rollback : {FALSE}, candidate : Candidates \ reviewed, legacy : BOOLEAN,
              expected : Expected, deployment : Deployments]
        \cup [rollback : {TRUE}, release : Releases, legacy : BOOLEAN, expected : Expected, deployment : Deployments]

----------------------------------------------------------------------------
Goto(p, place) == pc' = [pc EXCEPT ![p] = place]

\* The lock is released on every way out.
Leave(p, place) == /\ Lock!Leave(p)
                   /\ Goto(p, place)
                   /\ seen' = [seen EXCEPT ![p] = None]

\* loadRetainedReleaseSet: every retained artifact is verified.
loadable(m) == \A r \in retainedIn(m) : m.entry[r] \notin damaged

\* What command o publishes on top of manifest m.  A rollback publishes the
\* candidate that the manifest has for the release.
candidate(o, m) == IF o.rollback THEN m.entry[o.release] ELSE o.candidate
release(o, m) == releaseOf[candidate(o, m)]

verifiedCandidate(o, m) == /\ o.rollback => o.release \in retainedIn(m)
                           /\ candidate(o, m) \notin damaged
                           /\ candidate(o, m) \in reviewed \/ o.legacy

\* Mutant: the deployment is not compared.
alreadyPublishedAnywhere(o, m) ==
    /\ m.publication_revision = o.expected + 1
    /\ m.default = release(o, m)
    /\ m.entry[release(o, m)] = candidate(o, m)

\* The manifest is what this command makes of its expected revision.
alreadyPublished(o, m) ==
    /\ m.publication_revision = o.expected + 1
    /\ m.default = release(o, m)
    /\ m.deployment_id = o.deployment
    /\ m.entry[release(o, m)] = candidate(o, m)

\* Mutant: the transition is verified from the release the candidate names.
forwardPublicationOfOld(o, m) ==
    \/ o.rollback
    \/ /\ release(o, m).tstack => release(o, m).governed
       /\ release(o, m).governed \/ m.default.governed =>
             /\ release(o, m).governed
             /\ verifyInvocationTransition(previousOf[candidate(o, m)], release(o, m))

\* A governed release follows the default it was prepared against.
forwardPublication(o, m) ==
    \/ o.rollback
    \/ /\ release(o, m).tstack => release(o, m).governed
       /\ release(o, m).governed \/ m.default.governed =>
             /\ release(o, m).governed
             /\ previousOf[candidate(o, m)] = m.default
             /\ verifyInvocationTransition(m.default, release(o, m))

\* The compare-and-swap of the stable pointer.
casUpdateStable(o, m) == m.publication_revision = o.expected

\* acquireManifestLock, and under the lock all that is read and compared before
\* the manifest is written; nothing changes meanwhile.  A command that finds the
\* lock taken, or is refused, releases the lock and has changed nothing.
Begin(p, o) ==
    /\ Lock!Free
    /\ loadable(manifest) /\ verifiedCandidate(o, manifest)
    /\ \/ /\ alreadyPublished(o, manifest)
          /\ Goto(p, "answered")
          /\ UNCHANGED <<holders, seen>>
       \/ /\ ~ alreadyPublished(o, manifest)
          /\ casUpdateStable(o, manifest)
          /\ forwardPublication(o, manifest)
          /\ Lock!Acquire(p)
          /\ Goto(p, "write")
          /\ seen' = [seen EXCEPT ![p] = manifest]
    /\ op' = [op EXCEPT ![p] = o]
    /\ UNCHANGED <<manifest, damaged, losses, history>>

Start(p) == /\ pc[p] \in {"idle", "answered"}
            /\ \E o \in Command : Begin(p, o)

\* The answer never came: the same command again, for as long as it is refused.
Retry(p) == pc[p] = "dead" /\ Begin(p, op[p])

\* Mutant: the manifest lists the releases that are still wanted.
nextManifestOnly(o, m) ==
    [publication_revision |-> o.expected + 1,
     deployment_id |-> o.deployment,
     default |-> release(o, m),
     entry |-> [r \in Releases |-> IF r = release(o, m) THEN candidate(o, m)
                                   ELSE IF r = m.default THEN m.entry[r] ELSE None]]

\* createRetainedManifest: the entry of the release is new or replaced, all
\* the others stay.
nextManifest(o, m) ==
    [publication_revision |-> o.expected + 1,
     deployment_id |-> o.deployment,
     default |-> release(o, m),
     entry |-> [m.entry EXCEPT ![release(o, m)] = candidate(o, m)]]

\* The manifest is read once more, which under the lock finds what it found
\* before, and replaced atomically.
WriteManifest(p) ==
    LET o == op[p] IN
    /\ pc[p] = "write"
    /\ manifest.publication_revision < MaxRevision
    /\ manifest = seen[p]
    /\ manifest' = nextManifest(o, manifest)
    /\ history' = Append(history, [rollback |-> o.rollback, release |-> release(o, manifest),
                                   candidate |-> candidate(o, manifest), deployment |-> o.deployment])
    /\ Goto(p, "written")
    /\ UNCHANGED <<holders, damaged, op, seen, losses>>

Return(p) == /\ pc[p] = "written"
             /\ Leave(p, "answered")
             /\ UNCHANGED <<manifest, damaged, op, losses, history>>

----------------------------------------------------------------------------
\* An operator dies; the next one finds the owner of the lock dead.
Crash(p) == /\ losses < MaxLosses
            /\ pc[p] \in {"write", "written"}
            /\ Leave(p, "dead")
            /\ losses' = losses + 1
            /\ UNCHANGED <<manifest, damaged, op, history>>

\* The files of a candidate are edited or lost.
Damage(c) == /\ losses < MaxLosses
             /\ damaged' = damaged \cup {c}
             /\ losses' = losses + 1
             /\ UNCHANGED <<manifest, holders, pc, op, seen, history>>

Init == /\ manifest \in [publication_revision : {1}, deployment_id : Deployments, default : {releaseOf[First]},
                         entry : {[r \in Releases |-> IF r = releaseOf[First] THEN First ELSE None]}]
        /\ Lock!Init
        /\ damaged = {}
        /\ pc = [p \in Operators |-> "idle"]
        /\ op = [p \in Operators |-> None]
        /\ seen = [p \in Operators |-> None]
        /\ losses = 0
        /\ history = <<[rollback |-> FALSE, release |-> releaseOf[First], candidate |-> First,
                        deployment |-> manifest.deployment_id]>>

Next == \/ \E p \in Operators : \/ Start(p) \/ Retry(p) \/ WriteManifest(p) \/ Return(p) \/ Crash(p)
        \/ \E c \in Candidates : Damage(c)

Spec == Init /\ [][Next]_vars

----------------------------------------------------------------------------
(***************************************************************************)
(* Properties.                                                             *)
(***************************************************************************)

\* An operator who is told of success, at once or when repeating a command whose
\* answer was lost, is told the truth: the revision after the expected one is
\* this release in this deployment, whatever was published since or by whom.
AnswersWerePublished ==
    \A p \in Operators : pc[p] = "answered" =>
        LET n == op[p].expected + 1 IN
        /\ n <= Len(history)
        /\ history[n].deployment = op[p].deployment
        /\ IF op[p].rollback THEN history[n].release = op[p].release
                             ELSE history[n].candidate = op[p].candidate

\* Governance survives concurrent promotions: a release that follows a governed
\* one, or is governed itself, was prepared against exactly its predecessor and
\* keeps every bound skill at its reviewed version, unless an operator rolled back.
ForwardIsReviewed ==
    \A n \in 2 .. Len(history) :
        LET before == history[n - 1].release
            now == history[n].release IN
        ~ history[n].rollback =>
            /\ \A s \in before.bound : now.version[s] \in {Absent, before.version[s]}
            /\ \A s \in before.bound : now.version[s] # Absent => s \in now.bound
            /\ before.governed => now.governed
            /\ now.governed => previousOf[history[n].candidate] = before

\* Readers of the manifest see a ledger: one publication after the other, each
\* on top of the one before, with every release ever published still there.
Ledger == INSTANCE ReleaseLedger WITH
    revision <- manifest.publication_revision,
    default <- manifest.default,
    deployment <- manifest.deployment_id,
    retained <- retainedIn(manifest)

ImplementsLedger == Ledger!Spec

=============================================================================
