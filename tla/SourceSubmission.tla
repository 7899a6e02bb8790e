-------------------------- MODULE SourceSubmission --------------------------
(***************************************************************************)
(* Editors preview proposals and submit them as pull requests: service.ts  *)
(* and the GitHub adapter (github.ts) behind the routes, against a GitHub  *)
(* whose main branch moves, whose branches other people push to, and whose *)
(* answers get lost.  A step is one request.                               *)
(*                                                                         *)
(* Branch names contain a digest of base commit, operation, name,          *)
(* provenance and changes: a branch is identified with its proposal.       *)
(***************************************************************************)
EXTENDS SourceCatalog, Sequences

CONSTANTS
    Editors,        \* callers with a session
    Subjects,       \* those who are configured as editors
    Edits,          \* names of the proposals that may be made
    Wants,          \* Wants[e]: those that e makes
    proposalOf,     \* proposalOf[d]: the proposal of that name
    FirstCatalog,   \* the tree of the first commit of main
    None,
    MaxCommits,     \* bound: commits in the repository
    MaxWritten,     \* bound: the later ones are merges
    MaxLost         \* bound: requests whose answer is lost

ASSUME EditorAssumption == /\ Subjects \subseteq Editors
                           /\ Wants \in [Editors -> SUBSET Edits] 
                           /\ proposalOf \in [Edits -> Proposal]
ASSUME FirstCatalogAssumption == FirstCatalog \in Catalog
ASSUME CommitAssumption == MaxCommits \in Nat \ {0} /\ MaxWritten \in 0 .. MaxCommits /\ MaxLost \in Nat

VARIABLES
    commits,    \* the repository: a sequence of [tree, parent, merged]; merged is the
                \* branch that a merge brought to main (history)
    main,       \* the commit that main points to
    branch,     \* branch[b]: the commit a proposal branch points to, or 0
    pr,         \* pr[b]: the pull request of b: "none", "open", "closed" or "merged"
    progress,   \* where the request of each editor is
    draft,      \* draft[e]: the branch (base and edit) e works on
    head,       \* head[e]: the commit a running submission is about
    answer,     \* answer[e]: branch and head in the answer that e reads
    lost        \* how many answers were lost

submissionVars == <<commits, main, branch, pr, progress, draft, head, answer, lost>>
hub == <<commits, main, branch, pr>>

Commit == 1 .. MaxCommits
Branch == [base : Commit, edit : Edits]

ASSUME NoneAssumption == None \notin Branch

tree(c) == commits[c].tree

----------------------------------------------------------------------------
(***************************************************************************)
(* Requests.  One that fails leaves the editor to try again.               *)
(***************************************************************************)

Goto(e, place) == progress' = [progress EXCEPT ![e] = place]

\* 409 and 422: the proposal must be looked at again.
Refuse(e) == /\ Goto(e, "refused")
             /\ head' = [head EXCEPT ![e] = 0]
             /\ UNCHANGED <<hub, draft, answer, lost>>

\* The connection breaks, the answer is too large, GitHub is busy: 502 or 503.
Lose(e) == /\ lost < MaxLost
           /\ lost' = lost + 1
           /\ Goto(e, "lost")

LoseAnswer(e) == /\ progress[e] \notin {"idle", "refused", "lost", "answered"}
                 /\ Lose(e)
                 /\ head' = [head EXCEPT ![e] = 0]
                 /\ UNCHANGED <<hub, draft, answer>>

\* An account outside the configured subjects gets no further than this.
authorizeEditor(e) == e \in Subjects

----------------------------------------------------------------------------
(***************************************************************************)
(* Preview and submission up to the adapter: service.ts.                   *)
(***************************************************************************)

\* Main must be the base that the editor's console had read.
upToDate(e) == main = draft[e].base

\* What a proposal makes of its base.  Base and imports are commits, which do
\* not change: computing it again gives the digest that the preview had.
buildPreview(b) == plan(tree(b.base), proposalOf[b.edit])

\* The editor compares a proposal with main as it is; a console that had read
\* an older main would be refused here and reads again.
PreviewProposal(e) == /\ progress[e] \in {"idle", "refused"}
                      /\ authorizeEditor(e)
                      /\ \E edit \in Wants[e] : draft' = [draft EXCEPT ![e] = [base |-> main, edit |-> edit]]
                      /\ Goto(e, "submit")
                      /\ UNCHANGED <<hub, head, answer, lost>>

\* The same request again, after an answer that was lost or that came.
Retry(e) == /\ progress[e] \in {"lost", "answered"}
            /\ Goto(e, "submit")
            /\ answer' = [answer EXCEPT ![e] = None]
            /\ UNCHANGED <<hub, draft, head, lost>>

\* Everything is computed again; errors and a proposal without changes refuse.
submittable(b) == /\ buildPreview(b).errors = {}
                  /\ buildPreview(b).after # tree(b.base)

SubmitProposal(e) == /\ progress[e] = "submit"
                     /\ IF upToDate(e) /\ submittable(draft[e])
                        THEN /\ Goto(e, "ref")
                             /\ UNCHANGED <<hub, draft, head, answer, lost>>
                        ELSE Refuse(e)

----------------------------------------------------------------------------
(***************************************************************************)
(* SourceGithub.submit.  The blobs and the tree it posts first have no     *)
(* effect of their own: the tree is the one of the preview.                *)
(***************************************************************************)

\* Mutant: the name of the branch is trusted to identify its content.
holdsAnything(e, c) == c # 0

\* A commit is what the proposal makes of its base, and nothing else.
holdsProposal(e, c) == tree(c) = buildPreview(draft[e]).after /\ commits[c].parent = draft[e].base

\* Is there a branch of this name already?
ReadRef(e) == /\ progress[e] = "ref"
              /\ head' = [head EXCEPT ![e] = branch[draft[e]]]
              /\ Goto(e, IF branch[draft[e]] = 0 THEN "main1" ELSE "verify")
              /\ UNCHANGED <<hub, draft, answer, lost>>

\* Mutant: a branch that exists is somebody else's.
VerifyHeadStrictly(e) == progress[e] = "verify" /\ Refuse(e)

\* The branch found, at first or after a lost race.
VerifyHead(e) == /\ progress[e] = "verify"
                 /\ IF holdsProposal(e, head[e])
                    THEN Goto(e, "find") /\ UNCHANGED <<hub, draft, head, answer, lost>>
                    ELSE Refuse(e)

\* Main is compared before and after the commit is made.
CheckMain(e) == /\ progress[e] \in {"main1", "main2"}
                /\ IF upToDate(e)
                   THEN /\ Goto(e, IF progress[e] = "main1" THEN "commit" ELSE "branch")
                        /\ UNCHANGED <<hub, draft, head, answer, lost>>
                   ELSE Refuse(e)

\* Every commit object carries its time: two are never the same.
PostCommit(e) ==
    /\ progress[e] = "commit"
    /\ Len(commits) < MaxWritten
    /\ commits' = Append(commits, [tree |-> buildPreview(draft[e]).after, parent |-> draft[e].base,
                                   merged |-> None])
    /\ \/ /\ head' = [head EXCEPT ![e] = Len(commits) + 1]
          /\ Goto(e, "main2")
          /\ UNCHANGED lost
       \/ Lose(e) /\ UNCHANGED head
    /\ UNCHANGED <<main, branch, pr, draft, answer>>

\* The branch is created; if it exists by now, the race was lost.
PostRef(e) ==
    LET b == draft[e] IN
    /\ progress[e] = "branch"
    /\ \/ /\ branch[b] = 0
          /\ branch' = [branch EXCEPT ![b] = head[e]]
          /\ \/ Goto(e, "find") /\ UNCHANGED <<lost, head>>
             \/ Lose(e) /\ head' = [head EXCEPT ![e] = 0]
       \/ /\ branch[b] # 0
          /\ head' = [head EXCEPT ![e] = branch[b]]
          /\ Goto(e, "verify")
          /\ UNCHANGED <<branch, lost>>
    /\ UNCHANGED <<commits, main, pr, draft, answer>>

\* findPr: an open pull request of the branch, whose head must be the one
\* that was verified.
foundPr(e) == pr[draft[e]] = "open" /\ branch[draft[e]] = head[e]
mismatch(e) == pr[draft[e]] = "open" /\ branch[draft[e]] # head[e]

Answer(e) == /\ answer' = [answer EXCEPT ![e] = [branch |-> draft[e], head |-> head[e]]]
             /\ Goto(e, "answered")
             /\ head' = [head EXCEPT ![e] = 0]
             /\ UNCHANGED <<hub, draft, lost>>

FindPr(e) == /\ progress[e] = "find"
             /\ \/ foundPr(e) /\ Answer(e)
                \/ mismatch(e) /\ Refuse(e)
                \/ /\ pr[draft[e]] # "open"
                   /\ Goto(e, "open")
                   /\ UNCHANGED <<hub, draft, head, answer, lost>>

\* A pull request that exists, or a branch with nothing left to merge, answers
\* 409, which is tolerated.
PostPr(e) == /\ progress[e] = "open"
             /\ pr' = [pr EXCEPT ![draft[e]] = IF @ = "merged" THEN @ ELSE "open"]
             /\ \/ Goto(e, "confirm") /\ UNCHANGED <<lost, head>>
                \/ Lose(e) /\ head' = [head EXCEPT ![e] = 0]
             /\ UNCHANGED <<commits, main, branch, draft, answer>>

\* Mutant: what was posted is not looked up.
ConfirmPrBlindly(e) == progress[e] = "confirm" /\ Answer(e)

ConfirmPr(e) == /\ progress[e] = "confirm"
                /\ \/ foundPr(e) /\ Answer(e)
                   \/ mismatch(e) /\ Refuse(e)
                   \/ pr[draft[e]] # "open" /\ Refuse(e)

----------------------------------------------------------------------------
(***************************************************************************)
(* Other people, on GitHub.  They merge a pull request, whatever main has  *)
(* become since its proposal was made, close one, or push a correction of  *)
(* the proposed text to its branch.  A merge is three-way, on the base of  *)
(* the proposal; where two proposals only add to the same shared file, it  *)
(* keeps both.                                                             *)
(***************************************************************************)

\* Both sides changed the same thing, in different ways.
conflict(base, ours, theirs) == theirs # base /\ ours # base /\ ours # theirs
taken(base, ours, theirs) == IF theirs = base THEN ours ELSE theirs

\* One skill is merged file by file, unless it comes or goes on one side.
clashes(base, ours, theirs) ==
    IF Missing \in {base, ours, theirs} THEN conflict(base, ours, theirs)
    ELSE \E f \in DOMAIN base : conflict(base[f], ours[f], theirs[f])

mergedSkill(base, ours, theirs) ==
    IF Missing \in {base, ours, theirs} THEN taken(base, ours, theirs)
    ELSE [mode |-> taken(base.mode, ours.mode, theirs.mode),
          text |-> taken(base.text, ours.text, theirs.text),
          aliases |-> taken(base.aliases, ours.aliases, theirs.aliases),
          neighbours |-> taken(base.neighbours, ours.neighbours, theirs.neighbours),
          links |-> taken(base.links, ours.links, theirs.links)]

\* What a branch, off its base, makes of main.
mergedTree(b) ==
    [s \in Skills |-> mergedSkill(tree(b.base)[s], tree(main)[s], tree(branch[b])[s])]

Merge(b) == /\ pr[b] = "open"
            /\ Len(commits) < MaxCommits
            /\ \A s \in Skills : ~ clashes(tree(b.base)[s], tree(main)[s], tree(branch[b])[s])
            /\ commits' = Append(commits, [tree |-> mergedTree(b), parent |-> main, merged |-> b])
            /\ main' = Len(commits) + 1
            /\ pr' = [pr EXCEPT ![b] = "merged"]
            /\ UNCHANGED <<branch, progress, draft, head, answer, lost>>

Close(b) == /\ pr[b] = "open"
            /\ pr' = [pr EXCEPT ![b] = "closed"]
            /\ UNCHANGED <<commits, main, branch, progress, draft, head, answer, lost>>

Push(b) ==
    LET s == proposalOf[b.edit].name
        old == tree(branch[b]) IN
    /\ branch[b] # 0
    /\ Len(commits) < MaxWritten
    /\ s \in recorded(old)
    /\ \E t \in Texts \ {old[s].text} :
          commits' = Append(commits, [tree |-> [old EXCEPT ![s].text = t], parent |-> branch[b],
                                       merged |-> None])
    /\ branch' = [branch EXCEPT ![b] = Len(commits) + 1]
    /\ pr' = [pr EXCEPT ![b] = IF @ = "merged" THEN "closed" ELSE @]
    /\ UNCHANGED <<main, progress, draft, head, answer, lost>>

----------------------------------------------------------------------------
SubmissionInit == /\ commits = <<[tree |-> FirstCatalog, parent |-> 0, merged |-> None]>>
                  /\ main = 1
                  /\ branch = [b \in Branch |-> 0]
                  /\ pr = [b \in Branch |-> "none"]
                  /\ progress = [e \in Editors |-> "idle"]
                  /\ draft = [e \in Editors |-> None]
                  /\ head = [e \in Editors |-> 0]
                  /\ answer = [e \in Editors |-> None]
                  /\ lost = 0

Step(e) == \/ SubmitProposal(e) \/ ReadRef(e) \/ VerifyHead(e)
           \/ CheckMain(e) \/ PostCommit(e) \/ PostRef(e) \/ FindPr(e)
           \/ PostPr(e) \/ ConfirmPr(e)

Others == \E b \in Branch : Merge(b) \/ Close(b) \/ Push(b)

SubmissionNext == \/ \E e \in Editors : PreviewProposal(e) \/ Retry(e) \/ Step(e) \/ LoseAnswer(e)
                  \/ Others

SubmissionSpec == SubmissionInit /\ [][SubmissionNext]_submissionVars

\* A request that runs goes on, and an editor whose answer was lost sends it
\* again.  Nobody has to look at an answer twice, to merge, push or close.
FairSubmissionSpec == SubmissionSpec /\ \A e \in Editors :
                       WF_submissionVars(Step(e)) /\ WF_submissionVars(progress[e] = "lost" /\ Retry(e))

----------------------------------------------------------------------------
(***************************************************************************)
(* Properties.                                                             *)
(***************************************************************************)

\* What an editor is told was submitted is what the preview had shown: the
\* head in the answer is one commit, on the base the editor had compared, with
\* exactly the proposed catalog, whoever else created, raced for or pushed to
\* the branch of that name, and however often the request was sent.
AnswersHoldProposals ==
    \A e \in Editors : progress[e] = "answered" =>
        /\ tree(answer[e].head) = buildPreview(answer[e].branch).after
        /\ buildPreview(answer[e].branch).errors = {}
        /\ commits[answer[e].head].parent = answer[e].branch.base

\* Each proposal is checked against the main it was made on, and main may be
\* another when it is merged.  A defect of main comes from two such proposals,
\* each made before the other was merged: two that claim the same alias, or one
\* that refers to a skill and one that removes it.  A link may be broken without
\* that, as the plans of additions and updates do not look at links.
merges == {m \in 1 .. Len(commits) : commits[m].merged # None}
baseOf(m) == commits[m].merged.base
proposalIn(m) == proposalOf[commits[m].merged.edit]

overlap(m, n) == baseOf(m) < n /\ baseOf(n) < m

adds(m, s) == proposalIn(m).operation = "add" /\ proposalIn(m).name = s
updates(m, s) == proposalIn(m).operation = "update" /\ proposalIn(m).name = s
removes(m, s) == proposalIn(m).operation = "remove" /\ proposalIn(m).name = s

claims(m, s, a) ==
    \/ adds(m, s) /\ a \in proposalIn(m).skill.aliases
    \/ updates(m, s) /\ proposalIn(m).aliases # Keep /\ a \in proposalIn(m).aliases

refers(m, s, t) == adds(m, s) /\ t \in proposalIn(m).skill.neighbours

linksTo(m, s, t) == \/ adds(m, s) /\ t \in proposalIn(m).skill.links
                    \/ updates(m, s) /\ t \in proposalIn(m).links

removedBeside(m, t) == \E n \in merges : removes(n, t) /\ overlap(m, n)

DefectsNeedOverlap ==
    LET now == tree(main) IN
    /\ \A s, t \in recorded(now) : \A a \in (now[s].aliases \cap now[t].aliases) : s # t =>
          \E m, n \in merges : claims(m, s, a) /\ claims(n, t, a) /\ overlap(m, n)
    /\ \A s \in recorded(now) : \A t \in now[s].neighbours \ recorded(now) :
          \E m \in merges : refers(m, s, t) /\ removedBeside(m, t)
    /\ \A s \in recorded(now) : \A t \in now[s].links \ recorded(now) :
          \E m \in merges : linksTo(m, s, t) /\ (t \in recorded(tree(baseOf(m))) => removedBeside(m, t))

\* An editor whose answers get lost, also one of two who race with the same
\* proposal, is told of the pull request in the end, unless something changed:
\* main moved, or somebody pushed to or closed what was proposed.
Untouched ==
    /\ main = 1
    /\ Len(commits) < MaxWritten
    /\ \A b \in Branch : pr[b] # "closed" /\ (branch[b] # 0 => commits[branch[b]].parent = 1)

RetriesConverge ==
    \A e \in Editors :
        []Untouched => [](progress[e] = "ref" => <>(progress[e] = "answered"))

\* The protocol implements the board: an answer is given only while the pull
\* request of the proposal is open, and a retry does not open a second one.
Board == INSTANCE ProposalBoard WITH
    Proposals <- Branch,
    Nothing <- None,
    filed <- [b \in Branch |-> CASE pr[b] = "none" -> "no" [] pr[b] = "open" -> "open" [] OTHER -> "closed"],
    told <- [e \in Editors |-> IF answer[e] = None THEN None ELSE answer[e].branch]

ImplementsBoard == Board!Spec

=============================================================================
