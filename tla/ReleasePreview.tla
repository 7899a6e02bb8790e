-------------------------- MODULE ReleasePreview ---------------------------
(***************************************************************************)
(* From the reviewed Hub to a governed release candidate beside reviewers  *)
(* and mutations: preflightPublication (intake/publication.ts),            *)
(* createReleaseCandidate, writeReleaseCandidate, verifyReleaseCandidate,  *)
(* exportReleaseCandidate (hub/release-candidate.ts), in the order of      *)
(* runHubReleasePreview (packages/cli/src/commands.ts).                    *)
(*                                                                         *)
(* Nothing here holds the mutation lock.  A build reads one skill after    *)
(* the other (HubBuild has the finer steps); the committed reviews are     *)
(* read in one step, being immutable files that appear by rename.          *)
(***************************************************************************)
EXTENDS ReviewStore

VARIABLES stage,      \* the place of the preview
          built,      \* the skill versions of the running build
          unbuilt,    \* the skills it has not read yet
          preflight,  \* the preflight made before the release build
          final,      \* the preflight of the release build
          output,     \* the candidate in the destination directory
          intact,     \* whether the files copied with it are those of the build
          verified,   \* whether the writer has verified the destination
          exported,   \* the candidate in the export directory
          floor       \* history: the revision of each skill when the build had read it all

preview == <<stage, built, unbuilt, preflight, final, output, intact, verified, exported, floor>>
files == <<output, intact, verified, exported>>

Versions == [Skill -> Version \cup {Absent}]

PreviewInit == /\ Init
               /\ stage = "idle"
               /\ built = [s \in Skill |-> Absent] /\ unbuilt = Skill
               /\ preflight = Absent /\ final = Absent
               /\ output = Absent /\ exported = Absent
               /\ intact = FALSE /\ verified = FALSE
               /\ floor = [s \in Skill |-> 0]

to(from, next) == stage = from /\ stage' = next

(* A preflight holds the versions and the latest review of each skill.     *)
latestReview(s) == IF latest(s) = Absent THEN Absent
              ELSE [request |-> latest(s).request, revision |-> latest(s).revision[s]]

preflightOf(versions) ==
  [versions |-> versions,
   reviews |-> [s \in Skill |-> IF versions[s] = Absent THEN Absent ELSE latestReview(s)]]

reviewed(r, s) == VersionOf[r.request.candidate][s]

\* Mutant: an approval of any version of the skill counts.
blockedUnlessApproved(f, s) ==
  f.versions[s] # Absent /\ (f.reviews[s] = Absent \/ f.reviews[s].request.decision # "APPROVED")

(* MISSING_APPROVAL, STALE_APPROVAL, REJECTED.                             *)
blocked(f, s) ==
  /\ f.versions[s] # Absent
  /\ \/ f.reviews[s] = Absent
     \/ reviewed(f.reviews[s], s) # f.versions[s]
     \/ f.reviews[s].request.decision # "APPROVED"

ready(f) == \A s \in Skill : ~ blocked(f, s)

-----------------------------------------------------------------------------

Start == /\ to("idle", "build")
         /\ output = Absent
         /\ UNCHANGED <<vars, built, unbuilt, preflight, final, files, floor>>

(* buildHub, for the first preflight and again for the release.            *)
ReadSkill(s) == /\ stage \in {"build", "rebuild"} /\ s \in unbuilt
                /\ built' = [built EXCEPT ![s] = catalog[s]]
                /\ unbuilt' = unbuilt \ {s}
                /\ floor' = [t \in Skill |-> currentRevision(t)]
                /\ UNCHANGED <<vars, stage, preflight, final, files>>

Preflight == /\ stage = "build" /\ unbuilt = {} /\ readable
             /\ preflight' = preflightOf(built)
             /\ to("build", IF ready(preflight') THEN "rebuild" ELSE "end")
             /\ unbuilt' = Skill
             /\ UNCHANGED <<vars, built, final, files, floor>>

\* Mutant: the first preflight is bound to the candidate without a second one.
FinalPreflightSkipped ==
  /\ stage = "rebuild" /\ unbuilt = {}
  /\ final' = [preflight EXCEPT !.versions = built]
  /\ to("rebuild", "create")
  /\ UNCHANGED <<vars, built, unbuilt, preflight, files, floor>>

(* A changed digest: "publication preflight became stale".                 *)
FinalPreflight == /\ stage = "rebuild" /\ unbuilt = {} /\ readable
                  /\ final' = preflightOf(built)
                  /\ to("rebuild", IF final' = preflight THEN "create" ELSE "end")
                  /\ UNCHANGED <<vars, built, unbuilt, preflight, files, floor>>

(* createReleaseCandidate, then the copy into a temporary directory, which *)
(* may go wrong, and the rename to a fresh destination.                    *)
Write == /\ stage = "create"
         /\ to("create", IF ready(final) /\ final.versions = built THEN "verify" ELSE "end")
         /\ IF ready(final) /\ final.versions = built
            THEN output' = final /\ intact' \in BOOLEAN
            ELSE UNCHANGED <<output, intact>>
         /\ verified' = FALSE
         /\ UNCHANGED <<vars, built, unbuilt, preflight, final, exported, floor>>

Verify == /\ to("verify", "end")
          /\ verified' = intact
          /\ UNCHANGED <<vars, built, unbuilt, preflight, final, output, intact, exported, floor>>

(* The preview returns, throws or is killed.                               *)
EndPreview == /\ stage # "idle" /\ stage' = "idle"
        /\ built' = [s \in Skill |-> Absent] /\ unbuilt' = Skill
        /\ preflight' = Absent /\ final' = Absent
        /\ UNCHANGED <<vars, files, floor>>

(* hub release export: verify, copy, verify; a copy that fails is removed  *)
(* or refused again.                                                       *)
Export == /\ output # Absent /\ exported = Absent
          /\ intact
          /\ exported' = output
          /\ UNCHANGED <<vars, stage, built, unbuilt, preflight, final, output, intact, verified, floor>>

Preview == \/ Start \/ Preflight \/ FinalPreflight \/ Write \/ Verify \/ EndPreview \/ Export
           \/ \E s \in Skill : ReadSkill(s)

PreviewSpec == PreviewInit /\ [][Preview \/ (Next /\ UNCHANGED preview)]_<<vars, preview>>

-----------------------------------------------------------------------------
(* Properties.                                                             *)

released == {s \in Skill : output.versions[s] # Absent}

(* Contract R1: a governed candidate has "one matching APPROVED review for *)
(* every released Skill ID", of that very version, and the review is in    *)
(* the store, however adoptions, updates and reviews ran beside the        *)
(* preview.                                                                *)
CandidateIsApproved ==
  output # Absent =>
    \A s \in released : \E b \in reviewsOf(s) :
      /\ b.request = output.reviews[s].request
      /\ b.request.decision = "APPROVED"
      /\ reviewed(b, s) = output.versions[s]

(* A decision that was committed before the release build had read all of  *)
(* its skills is not passed over for an older one.                         *)
NoDecisionPassedOver ==
  output # Absent => \A s \in released : output.reviews[s].revision >= floor[s]

=============================================================================
