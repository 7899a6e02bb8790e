# EGA Skills in TLA+

EGA Skills keeps a *Hub*: a Git repository of agent skills that are vendored
from upstream sources or owned by the operator, reviewed, built into an
immutable release, published to a retained set, and served to agents by a
router and an MCP server. This directory holds the models of that program,
what TLC checks about them on small instances, and what TLAPS proves about them
for all instances.

`PROJECT.json` has the machine-readable side: components, runs, mutants, the
lines each definition models (`map`), hazards, theorems.

Contents: 1 inventory; 2 modules and how they correspond to the code; 3 runs,
bounds, fairness; 4 what is proved and how; 5 divergences of code and text;
6 what is left out; 7 plan.

## 1. Inventory

### The Hub (packages/project/src/hub, packages/project/src/intake)

All Hub state is files in one directory, changed by short-lived Node processes:
commands of the CLI that an operator, a script or CI starts, possibly at once,
and that may be killed at any system call.

| Component | State | Operations | What is hard | What makes it correct |
|---|---|---|---|---|
| Mutation lock (`mutation-lock.ts`, `acquireHubLock`) | `.hub.lock/` with an owner file; an older format is one file | acquire with up to three attempts, reclaim of a dead owner, release | no atomic compare-and-delete on a file system; pids are reused; death between `mkdir` and the owner file | exclusion; nobody removes a live owner's files; only a death or a failing file-system call of a cleanup leaves a lock behind |
| Update (`apply.ts`, `journal.ts`) | `external/<source>/repo`, `sources.lock.yaml`, `.hub-journal.json`, `.staging`, `.backup` | `applyUpdatePlan`, `recoverIfNeeded` | crash between any two renames, also in recovery; failing calls; hand edits | a tree and its lock record change together or not at all; recovery ends, and succeeds unless its one copy of the old state was torn or edited |
| Adoption (`intake/adopt.ts`, `journal.ts`) | three contract files, a tree and a receipt for each source, a journal, copies of the old paths | `applyAdoptionPlan`, `applyOwnedDerivativeCandidate`, `recoverAdoptionIfNeeded` | a transaction over several paths; recovery that is interrupted | all paths or none; no adopted content is ever lost |
| Builder (`builder.ts`) | none of its own | `buildHub` | reads for a long time without the lock | a build attests the digests it lists |
| Reviews (`intake/review-store.ts`) | one immutable file for each decision | `writeCandidateReview`, `requireCandidateApproval` | retries after a lost answer, stale expectations, a rejection racing an adoption | one contiguous chain for each skill; only what is approved is adopted |
| Publication and candidate (`intake/publication.ts`, `release-candidate.ts`, `runHubReleasePreview`) | a candidate directory and its export | preview, verify, export | two builds and two preflights without a lock | a candidate binds an approval of every version in it |
| Update planning, release artifacts, configuration, inspection | scratch directories | `checkForUpdates`, derivations, reports | a ref that moves while it is fetched | a plan names exactly what was fetched |

The parts meet in the file system. Update, adoption and review take the
mutation lock first and run recovery before anything else. Builder, preflight
and candidate only *look* for a journal and take no lock.

### Around the Hub

| Component | State | Operations | What is hard | What makes it correct |
|---|---|---|---|---|
| Source manager (`apps/web/server/source-manager`) | none; a Git repository behind GitHub's API | preview and submit: add, update, remove | retries after a lost answer, two editors with one proposal, `main` moving between two requests and before a merge | one open pull request for each proposal; an answer names one that holds the proposal and nothing else; the plans rule out every defect of the catalog except those of two proposals that could not see each other, and links |
| Retained releases (`packages/mcp/src/retained.ts`) | the manifest: revision, default, retained artifacts | promote, roll back | concurrent and repeated commands, death after the write, damaged artifacts | answers are true; governed releases follow what they were reviewed against; nothing retained is lost |
| Invocation profile (`hub/invocation-*.ts`) | part of a release | transition check | a policy that outlives the versions it bound | bound skills keep their version |
| Hosted runtime (`hosted*.ts`) | requests in flight; a memo for each request | tool requests | access revoked and releases published during a request | what was taken away stays away; one release for each answer |
| Registry (`packages/registry`) | blob cache, SQLite database, full-text index | import | crash between blobs and transaction, two writers of a blob | every recorded version can be read |
| Project (`packages/project/src`) | `.egaskills.yaml`, the lock | lock, refresh | a lock older than the configuration | a denied skill is not served |
| MCP tools (`packages/mcp/src`) | none | `search`, `get_content` | what was found is fetched in a later request | found is fetchable |
| Remote lock plans (`remote-projects.ts`) | the lock, a guard directory with an owner marker | make a plan, apply it | two appliers, reclaiming a dead one's guard, a failing sync or release | a plan replaces what it was reviewed against; answers say what happened |
| Router (`packages/router`) | none | `resolveSkills` | limit, budget, uniqueness and redundancy interact in rank order | the selection is lawful, and what is left out has a reason |
| Telemetry buffer (`telemetry.ts`) | queue, counters, timers | submit, settle, time out | a deadline racing an answer | exact counters; nobody waits for ever |
| Hashing, schema, control plane, object store, context store, preferences, console, scripts, migrations | see `components` in PROJECT.json | | | |

`packages/mcp/artifact`, `catalog`, `fixtures` and `docs/evidence` are data.

## 2. Modules

```
Mutex  <--implements-- HubLock, RemoteLock      used by HubUpdate, HubAdoption, ReviewStore, RetainedReleases
AdoptedHub    <--implements-- HubUpdate         extended by HubBuild
AdoptedPlans  <--implements-- HubAdoption
                              ReviewStore       extended by ReleasePreview
ProposalBoard <--implements-- SourceSubmission  extends SourceCatalog
ReleaseLedger <--implements-- RetainedReleases  extends InvocationProfile
      `-- used by HostedRequests
                              SkillRegistry     extended by ProjectContents
                              TelemetryBuffer, Router
```

A step of a model is one durable effect or one observation: a file-system call
(HubLock, RemoteLock), a rename or a durable write (HubUpdate, HubAdoption,
ReviewStore, RetainedReleases), a request to GitHub (SourceSubmission), a read
of the database or of the manifest (HostedRequests), a blob or a transaction
(SkillRegistry), a handler of the event loop (TelemetryBuffer), a row of a loop
(Router). Between any two steps others run; where the code can die or fail, a
process dies (`Crash`), a call fails (`Fail`), or an answer is lost (`Lose`).
Data is reduced to what the properties tell apart: a tree is a value, a lock
record a value that binds a tree and a commit, digests are the thing they digest.

**Mutex** is the abstract lock: at most one holder, who leaves by releasing or
dying. **HubLock** is the protocol. `Enter`, `Mkdir`, `OpenOwner`, `WriteOwner`
are `create`; `Readdir`, `ReadOwner` are `snapshot`; `Probe`, `Hook`, `RmOwner`,
`Rmdir`, `Recreate` are the reclaim loop; `Release`, `RelSnapshot`, `RelRm`,
`RelRmdir` are `release`; the `Legacy*` actions deal with the older lock file.
`Crash` kills a process anywhere and `Restart` gives its pid to a new process,
so a probe may take a stranger for the owner. Tokens are never reused.
Every removal of the cleanup, of the reclaim and of the release may fail
(`fails`, `removeDir`, `RelRm`, `FailRm`, `RmOwner`), where the code swallows the
error or throws it; either way the directory stays without a process responsible
for it. `left` is a history variable: the place at which the last process
responsible for the directory died or failed to give it up.

**AdoptedHub** says what an update promises: record and tree of one source
change together, from the adopted state only. **HubUpdate** is
`applyUpdatePlan` (`Check` to `Finish`, in the order of the code) and
`recoverIfNeededLocked` (`Recover` chooses by the journal, then `VerifyBackup`,
`RemoveLive`, `RenameBackup`, `RestoreLock`, `VerifyLive`, `DropStaging`,
`DropBackup`, `ClearJournal`). Trees are removed and copied through a torn
state; the backup lock is written in place and can be torn; the live lock and
the journal are replaced by a rename and cannot. `Edit` and `EditBackup` are
changes by hand between commands, also between a crash and the recovery that
follows it: of a live tree, or of the tree in the backup (`Edited` stands for a
changed or a removed one); nobody undoes an edit. `adoptedRecord` and
`adoptedTree` are the refinement mapping: as long as the journal is not
COMMITTED, what the backup preserves is the state of the Hub.

**AdoptedPlans** says that a plan changes all of its paths at once.
**HubAdoption** is the transaction and its recovery. The contents of a contract
file are the plans it names, so that "the contracts agree" is a comparison of
sets. The code swaps the paths in sorted order; the model takes any order,
which includes the code's. Each entry's stage is copied and removed in one step
because an abandoned stage is never read.

**HubBuild** adds the builder to HubUpdate: it reads the journal, then the lock,
then each tree for its digests, then each tree again for its skills. The
history variable `disturbed` records that the Hub changed meanwhile.

**ReviewStore** is `writeCandidateReview` (`Review`, `Decide` with its branches
*already committed*, *fresh* and *stale*, `WriteBatch`) and the gate of the
adoption (`Apply`, `RequireCandidateApproval`, `Adopt`). `Update` changes the
adopted version of a skill without any review, as an update does.
**ReleasePreview** extends it with a preview: build, preflight, build again,
final preflight, write, verify, export.

**SourceCatalog** has the three plans of the source manager (`planOriginalAdd`,
`planSkillUpdate`, `planSkillRemoval`) and `validateCatalog` as operators on a
catalog: skills with their provenance, aliases, neighbours and links.
**SourceSubmission** is `service.ts` and `SourceGithub.submit`, one action for
each request (`ReadRef`, `VerifyHead`, `CheckMain` before and after `PostCommit`,
`PostRef`, then finding or opening the pull request and reading the answer),
against a GitHub where others push, merge and close and where answers get lost
after they took effect. A branch name contains a digest of base and proposal, so
a branch *is* its base and edit. An update replaces the links of its skill
together with its text, since both are in `SKILL.md` and the references, and as
in the code nothing looks at them. `Merge` is git's three-way merge of a branch
into whatever main has become (`mergedSkill`, `clashes`), on the base of the
proposal as with a squash merge: nothing in this repository asks for a branch
that is up to date. In the shared files (the index, the trigger cases) two
additions meet at the same place, and people are taken to keep both. Each merge
is a commit that records its branch in `merged`, a history field.
**ProposalBoard** is what an editor may rely on.

**InvocationProfile** has releases as far as publishing one after another is
concerned. **RetainedReleases** is `promoteRetainedRelease` and
`rollbackRetainedRelease`: `Begin` is all that is read and compared under the
lock, `WriteManifest` the replacement, `Return` the release of the lock; `Retry`
repeats a command whose operator died. `history` is what each revision was
published as. **ReleaseLedger** is what readers of the manifest may rely on:
revisions that grow by one and a retained set from which nothing is taken.

**HostedRequests** is the life of a tool request against that ledger: the
concurrency limit (`Arrive`), `SelectSnapshot` with the three reads of the
context resolver, `Guard` with the first authorization and the deny lists,
`Body`, and `Final`, which asks the store again before content leaves. `facts`
and `defaults` are history: what was true, and what was the default, at some
time since the request came.

**SkillRegistry** is an import: one action for each blob (`putCacheBlob`,
`renameSync`), one for the transaction (`Commit`) with the version lifecycle,
the aliases and the index. **ProjectContents** extends it with a project, whose
owner edits the configuration, refreshes the lock (`runLock`,
`writeLockAtomically`), and with agents that search and fetch, one action for
each read.

**RemoteLock** is `applyRemoteLockPlan`: the guard (`Mkdir`, `Readdir`,
`ReadOwner`, `Recheck`, `Probe`, `Verify`, `RmOwner`, `Rmdir`, `Open`, `Write` and
the two failures of the marker), the second look and the replacement under it,
and the release; `Refresh` is `lock --refresh`, which takes no guard.

**Router** is `resolveSkills` as a sequence of stages over rows chosen at the
start: the named skills, the hard filters, the ranking, redundancy row by row,
composition row by row, confidence, assembly. Evidence, tiers, the sort key and
the coverage relation are operators.

**TelemetryBuffer** is `BoundedTelemetrySink`. `WriteExecution` covers the
refusals, the eviction loop and the drain; `Settle` and `Deadline` are the two
ends of a write, of which the first one releases the slot. A sink that throws
at once is a choice inside `Drain`. `inFlight` and `abandoned` know the truth
that the counter `pending` must reflect.

Definitions that start with "Mutant:" in their comment are plausible bugs; they
are used by no specification. For each property of a run, one of them is put in
place of the definition it varies, and TLC then finds the property violated.

## 3. Runs

| Run | Instance | Question |
|---|---|---|
| `hub_lock` | 3 processes, 3 creations for each pid | Is the lock whole through races, failed writes and removals, deaths and reused pids; what leaves it behind, and can that be reclaimed; does it implement Mutex? |
| `hub_update` | 2 processes, 2 sources, 3 records, 2 trees | Are updates atomic; does a build ever meet a half-swapped Hub; when does recovery refuse, also after edits by hand; does it converge otherwise? |
| `hub_adoption` | 2 processes, an adoption and a derivative, 2 contract files | Is the transaction atomic, loses it nothing, and when does its recovery refuse? |
| `hub_build` | 1 mutating process, 1 builder, 2 sources | Does an undisturbed build attest the adopted state? |
| `release_preview` | 2 processes, 1 preview, 2 skills, 2 overlapping candidates, revisions up to 2 | Are the histories chains, retries answered truthfully, adoptions and candidates approved? |
| `telemetry_buffer` | 2 slots, 3 places, 4 bytes, 7 submissions of 1, 2, 3 or 5 bytes | Are the counters exact, and does nobody wait for ever? |
| `source_submission` | 2 editors and a stranger, 4 skills, 3 proposals, 5 commits of which 4 are not merges, 1 lost answer | Does an answer hold its proposal, what does a defect of main take, is the board implemented, do retries converge? |
| `retained_releases` | 2 operators, 5 candidates of 4 releases, 2 deployments, revisions up to 4, 1 loss | Are answers true, is governance kept, is the ledger implemented? |
| `hosted_requests` | 2 requests, 9 kinds of calls, 3 releases, 1 slot, 1 publication, 2 revocations | Do revocations hold, is an answer of one release, do denials leak? |
| `project_contents` | 2 importers, 3 packages that share blobs and an alias, 1 agent with 2 requests, a crash, a damage, an edit, a refresh | Is what is recorded readable, what was found fetchable, what is denied not served? |
| `remote_lock` | 3 processes with 2 calls each, 2 contents, 1 refresh | Does the guard admit one, do plans replace what they were reviewed against, are answers true? |
| `router` | 7 kinds of rows for 4 skills under 14 requests: all assignments | Is the selection lawful and maximal, confidence earned, nothing rejected shown? |

**Bounds.** HubLock: three processes are the least with which a dead owner, a
reclaimer and a late second reclaimer meet; `MaxGeneration = 3` lets a pid own
the lock, die, come back and contend again. HubUpdate: two sources show that
the other source stays untouched; a third record binds the *same* tree as
another, so that a record can change while the tree does not, the case in which
comparing trees alone tells nothing; two processes let a second command start
after any crash. Only one command runs at a time, so more processes add
nothing but their names. HubAdoption: with two plans one can be adopted on top
of the other; the adoption owns the two contract files and a tree, the
derivative a tree and a receipt.
ReleasePreview: a candidate of two skills and another of one version of the
second skill, so that decisions overlap in part; two revisions are enough for a
decision, the one that supersedes it and a stale third that is refused.
TelemetryBuffer: more submissions than slots and places together, so that the
queue fills, evicts and drains; a record of 3 bytes evicts several small ones,
one of 5 never fits.
SourceSubmission: an addition that names the skill a removal takes away, and an
update that wants the alias of the addition and links to the other two, so that
each pair of proposals is compatible with the base and not with the other. Five
commits allow two proposals and two merges, in any order, or one proposal, a
push of somebody else and a merge (`MaxWritten`: the fifth can only be a merge).
All three kinds of defects do occur on main in this instance, so
`DefectsNeedOverlap` has something to explain.
RetainedReleases: a plain release, a governed one, the same release prepared
twice against different predecessors, one that extends it and one that needs a
policy and has none; four revisions allow forward, back and forward again with a
late retry. HostedRequests: one slot and two requests reach the limit; one
release is denied, one skill is denied, one source is denied, one skill is in no
release. ProjectContents: two versions of one skill share a blob; a second skill
claims the alias of the first; one configuration denies a skill and requires a
lock. RemoteLock: as with HubLock three processes are needed for a late
reclaimer. Router: the kinds of rows are chosen so that each rule of the router
decides some case (`MCRow`), the requests so that the limits bind or do not.
Bounds are in the guards (`MaxGeneration`, `MaxRevision`, `MaxSubmissions`,
`MaxCommits`, `MaxWritten`, `MaxLost`, `MaxLosses`, `MaxRevocations`, `MaxImports`, `MaxCrashes`,
`MaxDamages`, `MaxEdits`, `MaxRefreshes`, `MaxRequests`, `MaxCalls`); no state
constraint is used. `SYMMETRY` is used only where every property of the run is an
invariant, an action property or a refinement of one, and not with liveness.

**Deadlock** is checked except where the system may stop: at a bound on a
counter (HubLock, TelemetryBuffer, SourceSubmission, RetainedReleases,
ProjectContents, RemoteLock) or when all requests are answered (HostedRequests,
Router).

**Fairness.** `HubUpdate!FairSpec` assumes that a command that runs goes on
running (its calls are synchronous); nobody has to start one, and crashes stay
possible for ever. `RecoveryConverges` therefore has its premise inside: if from
some time on nothing crashes or fails and recovery is started again and again,
the journal goes away, unless the update is `Blocked`: its backup lock is torn,
or the one copy of the previous tree was edited. `TelemetryBuffer!FairBufferSpec` assumes only that the timers
of a running process fire; no sink is assumed to answer.
`SourceSubmission!FairSubmissionSpec` assumes that a submission goes on with its next
request and that an editor who lost an answer repeats the same request; the
number of lost answers is bounded. `RetriesConverge` has in its premise that
nobody merged, pushed or closed meanwhile.

## 4. Proofs

Eight modules hold theorems. They hold for every set of processes, sources,
records, trees, candidates, packages and so on, and for every bound. The
argument is the same everywhere: an invariant `IInv` that says what each place of
a process knows (`Known`), a lemma for each action, a theorem that `IInv` always
holds, and from it, in a line or two each, the properties.

**HubLockProofs.** `IInv` adds to the type: at most one process is *custodian*
of the directory (made it, or emptied a dead owner's, and has not given it up)
and at most one owner file exists; what is in the directory at each place of the
custodian (`CustodyIntact`); tokens in the directory have been drawn by their
pid, so a new one is never in it (`TokensDrawn`); a process that has found the
owner of its snapshot dead will only remove a token that no living process holds
(`ObservedDead`). The last part carries the argument: tokens are not reused, so
although pids are, the removal of an owner file is safe however late it comes.
That a removal may fail weakens `CustodyIntact` only where a failed acquisition
gives up: an owner file that is still there then is one whose removal failed
(`FaultKnown`). Proved from it: `TypeOK`, `MutualExclusion`, `HolderIntact`,
`LeakOnlyByFault` (a lock that nobody is responsible for was left by a death or a
failed removal; and if it was left while it was held, at the entry of the release
included, it still names exactly one owner, which is what a reclaim needs), and
that the protocol implements Mutex (`LockImplementsMutex`).

**HubUpdateProofs.** `IInv` says that one command runs (the lock), what is
always true of the files (`QuietWithoutJournal`, `EmptyBackup`,
`OthersUntouched`, `CommittedIsCoherent`, `TornBackup`), and what a command
knows at each of its places (`Known`). Its preservation has one case for each
action, each with its types, files and places. From it: `TypeOK`,
`NoJournalCoherent`, `BackupIsJournaled`, also when files are edited under a
running command. For the refinement a second invariant, `OldStateKept`, says
that as long as an update is incomplete its old record and tree are the adopted
ones, unless somebody edited that tree; `AdoptedStateStep` shows that every step but the commit and an edit leaves
the adopted state alone, `CommitStep` that the commit is the abstract `Update`.
`RefusalMeansTornOrEdited` and `UpdateImplementsAdoptedHub` assume
`~ EditsDuringApply`, which cannot be dropped (see 5.3): edits between commands,
with or without a journal, are covered, edits beside a running one are not. The builder gets an
invariant of its own, `BuildInv`: until the Hub changes there is no journal, the
lock it read is the live one, and every tree it has verified or read is still
there. With the invariant of the update, `QuietBuildAttestsAdopted` follows.

**HubAdoptionProofs.** `IInv` says of the files: without a journal the Hub agrees
(`NoJournalAgree`); a journal leads from one Hub that agrees to another and names
every path in which they differ (`JournalLeads`); an incomplete adoption has
intact copies of the old paths or has been restored (`Recoverable`); a committed
one has landed. `Recoverable` is the disjunction that carries the argument: the
swap and the restoration rely on the copies, the removal of the copies on the
restoration, and the journal goes last. `WithAgrees` shows that adding a plan
whose own paths are free keeps the contract in agreement, for a derivative only
if the contract files exist, which is why its guard asks for them. From `IInv`:
the three invariants of the run, and the refinement of AdoptedPlans, with
`CommitStep` as its one abstract step and `OtherSteps` for the rest.

**ConsoleProofs.** For ReviewStore, `IInv` has the lock, the store (finite, every review
follows the revisions its request expected, every history a contiguous chain)
and what a command knows. `LatestOfChain` computes the latest review of a chain,
`WriteExtendsChains` shows that a fresh batch lengthens the chain of each of its
skills by one. From it: all five properties of the store. For ReleasePreview,
`PreviewInv` adds that every review a preflight holds is in the store and at
least as new as the decisions that were there when the build had read all of its
skills; because the store only grows (`StoreGrows`), whatever runs beside the
preview keeps that. From it: `CandidateIsApproved` and `NoDecisionPassedOver`.

For SourceSubmission, `SubmissionIInv` types the repository (it refers
only to commits that it has, and what has a pull request has a branch) and at each place of a submission what its editor has been told (`Informed`);
other people only add commits, which leaves that true (`KnownKept`,
`SubmissionIInvOthers`). From it: `AnswersHoldProposals`, and the refinement of
ProposalBoard, with one case for each request that files or answers.
For `DefectsNeedOverlap` a second invariant, `HistoryInv`, speaks of the commits
that main was at (`Mainline`). Proposals are made on one of them, and a branch
carries its proposal, perhaps reworded (`MadeOnMain`, `Carries`). `Since(c)`
accounts for what main has gained and lost since commit `c`: every alias,
neighbour and link that is new, and every skill that is gone, comes from a
proposal merged after `c`. One merge gives main only what its proposal asks for
(`MergeGives`, from the three-way merge and the plans), and a proposal without
errors has looked at its base (`Checked`). `MergeStep` puts the two together: if
the merge contradicts something on main that its base did not have, then `Since`
of that base names the other proposal, which was made before this one was merged
and merged after this one was made. `DefectsOfMain` assumes only that the first
catalog validates.

**RetainedReleasesProofs.** The history is as long as the revision, its last
entry is the manifest, and an operator between lock and write has seen the
manifest as it is. From it: `AnswersWerePublished` (a command that finds its own
publication has found revision *expected + 1*, which nobody rewrites),
`ForwardIsReviewed`, and the refinement of the ledger.

**McpProofs.** For HostedRequests, what a request has selected, read and been told at each
phase, and which facts it may have relied on. Every outsider's step only adds to
the facts of a running request, except that reading content starts *current*
anew. From it: `OneReleasePerRequest`, `AnswersRespectRevocation`,
`DenialsDoNotLeak`. These are about any number of slots, requests and releases.

For TelemetryBuffer, `bytesOf` is a sum over a queue of any length. Since no
induction theorem with a predicate parameter can be used, `EveryNatural` states
induction for *sets* of naturals (`LeastNatural` is its contrapositive), and
`SumsExist`, `BytesOfAppend` and `BytesOfParts` use it on the set of lengths for
which the recursion has a value. `BufferIInv` says that the counters add up
(`CountersAreExact`), and that records are numbered in the order of
acceptance (`Numbered`), so that those in the queue are the last ones and those
in flight come before (`DrainStep`, `Evicted`, `AcceptStep`). From it:
`CountersAreExact`.

**ProjectProofs.** For ProjectContents, two invariants, one for the registry (a recorded
version has its blobs, an importer between its blobs and its transaction has put
those it passed) and one for the agent and the lock. From them:
`RecordedIsReadable`, `FoundIsFetchable`, `DeniedIsNotServed`. The last one rests
on `LockAssumption`: a lock that came with the project was generated from the
configuration it names.

For Router, the sort comes first. `arranged` takes the row that has i - 1 rows
before it as the i-th; `ArrangedOrder` shows that, if the order is total on a
finite set, there is exactly one such row for every i (the count of rows before
is an injection into as many numbers as there are rows, so it is onto), hence
nothing is dropped and nothing is repeated. `BeforeIsOrder` and `PrecedesIsOrder`
show that the comparison of `assignTiers` is such an order; this needs the last
rule, the identifier, since all others may tie. `RouterIInv` then says, stage by
stage, how the rows are distributed: during redundancy, what is kept, what is
ahead and what is covered by a row kept before it are the ranked rows
(`Suppressing`, `Covered`); during composition every row looked at is selected or
a candidate with its verdict, and what is ahead ranks after it (`Partition`,
`Account`), the spent budget is the sum over the selected ones, and whoever was
passed over has no place (`NoPlace`). The
crucial fact is `PlacesStayTaken`: a reason for having no place stays true when
later rows are selected, because it only counts rows that rank before.
Confidence comes from a useful row in play (`ConfidenceIsEarned`); together with
`NoPlace` such a row implies a selection. From it: `SelectionIsLawful`,
`LeftOutForAReason`, `ConfidentAnswersSelect`, `RejectedIsNotRecommended`. Assumed
are finite rows and hits, and one to three places (`RequestAssumption`; the code
refuses any other number, `resolver.ts:403`).

**RemoteLockProofs.** At most one process is at a place where the guard is its
own to remove, and the only marker in the guard is then its own; a process that
verified a dead owner knows that the observed markers belong to the dead. From
it: `GuardIsMutex` (a refinement of Mutex), `PlansFollowReviews`,
`AnswersAreTrue`.

Assumptions on constants are named in the modules that declare them
(`RecordAssumption`, `CandidateAssumption`, `NoneAssumption`, `PackageAssumption`
and so on). They say that special values such as `Absent`, `Torn` and `None` are
none of the contents and that the given functions have their types; TLC
evaluates them.

**Only model-checked**: liveness (`RecoveryConverges`, `NobodyWaitsForEver`,
`RetriesConverge`), which is out of the provers' reach. Every other property of a
run is stated by a theorem.

## 5. Where the code and its texts differ

Met while modelling; the models follow the code.

1. *A stale Hub lock.* The comment of `acquireHubLock` (`apply.ts:55`) says to run
   recovery and then remove a stale lock. Recovery first takes the lock, and
   after a death between `mkdir` and the complete owner file, or in a release
   between its two removals, nobody can. The removals may also fail: the release
   and the cleanup of a failed creation swallow the error
   (`mutation-lock.ts:106`, `:149`), a reclaim throws it (`:133`). If the owner
   file went and the directory did not, or the owner file was never complete, the
   directory blocks every later command for ever; if the owner file stayed, it
   blocks them until that process ends, although it has released the lock
   (`LeakOnlyByFault`).
2. *A torn backup.* The lock is copied into the backup in place (`apply.ts:520`).
   A crash in that write leaves a torn copy which recovery prefers to the intact
   live lock; every later command refuses. The other way to that is meant: if the
   one copy of the previous tree was edited after the crash,
   `verifyAdoptedState` refuses (`journal.ts:464`, `:477`; asserted by
   `tests/project/hub-recovery-idempotence.test.mjs:174`).
   `RefusesOnlyTornOrEdited` shows that there is no third.
3. *Edits during an update.* An edit made between the freshness check
   (`apply.ts:495`) and the rename is moved into the backup and deleted with it.
   An edit of the live tree after a crash that left a backup is removed by the
   recovery, which restores the backup over it; `UpdateIsAtomic` counts the
   adopted state, which such an edit is no part of.
4. *Interrupted recovery of an adoption.* It removes the backup before the journal
   and demands the whole backup again when it is interrupted between
   (`journal.ts:331`). The Hub is then the previous one (`RefusesOnlyRestored`).
5. *A build that overlaps an update* checks digests and imports skills in separate
   reads without the lock (`builder.ts:122`) and may list the old digests with
   the new skills; `QuietBuildAttestsAdopted` is what remains true.
6. *A candidate is exposed before it is verified* (`release-candidate.ts:151`),
   while the release contract names the other order.
7. *`lock --refresh` takes no guard*: a refresh between the second look of an
   application and its rename is overwritten. `PlansFollowReviews` names the
   exception.
8. *A guard that nobody repairs.* A death between `mkdir` and the marker, or
   between the two removals, and a failed removal at the release leave a guard
   that every later application refuses; a failing release also hides the answer
   of an application that took effect.
9. *Locked mode does not ask the deny list again* in `get_content`: a hand-edited
   lock with the right configuration hash that lists a denied skill would be
   served, although search hides it.
10. *The router.* The comment at the head of `composition.ts` names a deferral for
    missing counts which is unreachable through the resolver, since `assignTiers`
    turns a missing count into 0; redundancy runs before composition, so that a
    row that can never be selected (invoked by the user only, oversized, over
    budget) may suppress one that could; a skill that was named and refused can
    appear twice in `rejected`.
11. *Proposals that do not see each other.* The alias check (`service.ts:91`), the
    neighbour check of an addition and the reference checks of a removal look at
    the base of a proposal. Two that overlap can both be merged and then contest
    an alias or leave a reference to a removed skill; an update may link to
    anything (`planner.ts:148`, `:172`). `source-skill-manager.md:36-45` leaves
    this to the CI of the other repository, which also checks a synthetic merge
    result. That CI is not modelled; the model merges whatever git can merge.
12. *Abandoned telemetry writes* are not bounded (`telemetry.ts:411`), a documented
    choice.

## 6. What the models leave out

* Shape checks, digests, parsing and the prospective build are *verdicts*: a
  command may fail there, before it changes anything, or pass.
* Durability is that of `fsync` in program order; a file system that reorders
  synced renames is not modelled.
* Hand edits of the Hub fall between commands (`EditsDuringApply = FALSE`), also
  between a crash and the recovery, and concern the live trees and the tree in
  the backup. Lock files and the journal are as the commands wrote them, and
  nobody removes the backup directory by hand.
* People on GitHub reword a proposal on its branch; a push that changes anything
  else of it, and commits made on main without a pull request, are not modelled.
* The re-reading of the live lock's text under the mutation lock finds it equal,
  since everything that writes it holds the lock.
* `.hub-journal.json` and `.adoption-journal.json` are modelled in separate
  modules; a Hub in which both exist is in the plan.
* Stages that a crash leaves under another plan's name are forgotten.
* A preflight reads the committed reviews in one step: they are immutable files
  that appear by rename. Reviews in the older one-file-per-review form, which
  nothing writes any more, are not modelled.
* GitHub's blobs and trees, which have no effect of their own before a commit
  names them; the sessions and tokens of the console.
* RetainedReleases takes the lock of the manifest as Mutex: it is the protocol of
  HubLock with another file name. A dead owner is found dead at once.
* HostedRequests leaves out start-up, body and response limits, and the
  verification of tokens; a failing or slow store is an answer that authorizes
  nobody.
* The ranking of the full-text search is SQLite's: a search returns any visible
  rows that match, the router gets any given order of hits.
* Project contexts and the change lists of remote lock plans.

**Not modelled**, with the reasons in PROJECT.json: update planning, release
artifacts, configuration and guards, intake inspection, the project context
store, the telemetry writer, the object store, hashing and schema, the command
line, the console's read-only routes and its client, the preferences and the
migrations (their meaning is PostgreSQL's), and the release scripts. Most of the
source lines of the repository are in these: validation, parsing, presentation
and read-only queries, which keep no state that two actors could disagree about.

## 7. Plan

What would come next, most valuable first: **Hub**, both journals in one
directory, composed of HubUpdate and HubAdoption; **UpdatePlanning** with a ref
that moves between its resolution and its fetch; `resolve` and `inspect` beside
`get_content`, composing Router with ProjectContents; the console's
**preferences**; the **object store** and the **context store**, whose hazards
are listed and covered by no property, but which nothing except their tests uses
yet.
