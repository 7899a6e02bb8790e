------------------------------ MODULE HubBuild -----------------------------
(***************************************************************************)
(* The Hub builder beside the update: buildHub                             *)
(* (packages/project/src/hub/builder.ts) reads the adopted state without   *)
(* taking the mutation lock, while commands of HubUpdate may run.          *)
(*                                                                         *)
(* Its reads are spread over time: the journal, the lock, every tree once  *)
(* for its digests and once more for its skills.  The skills of a source   *)
(* stand for the tree they were read from.                                 *)
(***************************************************************************)
EXTENDS HubUpdate

VARIABLES at,         \* the place of the builder
          adopted,    \* the lock it read
          verified,   \* the sources whose digests it has checked
          skills,     \* per source, the tree its skills were read from
          disturbed   \* history: the Hub has changed since the build began

build == <<at, adopted, verified, skills, disturbed>>

BuildInit == /\ at = "idle"
             /\ adopted = Absent
             /\ verified = {}
             /\ skills = [s \in Source |-> Absent]
             /\ disturbed = FALSE

moves(from, to) == /\ at = from
                   /\ at' = to

\* Mutant: the builder does not look for a journal.
BuildAnyway == /\ moves("idle", "readLock")
               /\ disturbed' = FALSE
               /\ UNCHANGED <<vars, adopted, verified, skills>>

(* requireReadableJournal: any journal refuses the build.                  *)
BuildHub == /\ moves("idle", "readLock")
            /\ journal = Absent
            /\ disturbed' = FALSE
            /\ UNCHANGED <<vars, adopted, verified, skills>>

ReadLock == /\ moves("readLock", "verify")
            /\ adopted' = liveLock
            /\ UNCHANGED <<vars, verified, skills, disturbed>>

VerifyTree(s) == /\ at = "verify" /\ s \notin verified
                 /\ liveTree[s] = TreeOf[adopted[s]]
                 /\ verified' = verified \cup {s}
                 /\ UNCHANGED <<vars, at, adopted, skills, disturbed>>

Import(s) == /\ at = "verify" /\ verified = Source
             /\ skills[s] = Absent
             /\ skills' = [skills EXCEPT ![s] = liveTree[s]]
             /\ UNCHANGED <<vars, at, adopted, verified, disturbed>>

VerifyCatalog == /\ moves("verify", "built")
                 /\ \A s \in Source : skills[s] # Absent
                 /\ UNCHANGED <<vars, adopted, verified, skills, disturbed>>

(* The build returns, or throws: a digest mismatch, a failing import.      *)
BuildEnds == /\ at # "idle" /\ at' = "idle"
             /\ adopted' = Absent
             /\ verified' = {}
             /\ skills' = [s \in Source |-> Absent]
             /\ disturbed' = FALSE
             /\ UNCHANGED vars

Build == \/ BuildHub \/ ReadLock \/ VerifyCatalog \/ BuildEnds
         \/ \E s \in Source : VerifyTree(s) \/ Import(s)

Mutate == /\ Next
          /\ disturbed' = (at # "idle" /\ (disturbed \/ hub' # hub))
          /\ UNCHANGED <<at, adopted, verified, skills>>

BuildSpec == Init /\ BuildInit /\ [][Build \/ Mutate]_<<vars, build>>

-----------------------------------------------------------------------------
(* Properties.                                                             *)

attests == \A s \in Source : skills[s] = TreeOf[adopted[s]]

(* A build during which the Hub did not change attests the adopted state   *)
(* as the contract counts it: never a hand-edited tree, never an update    *)
(* that crashed before its commit and will be rolled back.                 *)
QuietBuildAttestsAdopted ==
  at = "built" /\ ~ disturbed => attests /\ adopted = adoptedRecord /\ skills = adoptedTree

=============================================================================
