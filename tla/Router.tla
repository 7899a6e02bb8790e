-------------------------------- MODULE Router --------------------------------
(***************************************************************************)
(* How the router chooses skills for a task (packages/router/src): the     *)
(* skills that the user names, the hard filters, the tiers and their       *)
(* order, the suppression of redundant skills, the composition under a     *)
(* limit and a budget, and the confidence of the answer.                   *)
(*                                                                         *)
(* The stages run one after another; the two that walk through ranked rows *)
(* take one row per step.  Skills are numbered in the order of their       *)
(* canonical ids.  A phrase of a skill is a term, which a task has or not; *)
(* of its versions only the loaded one counts, which the policy for        *)
(* invocations binds, does not bind, or contradicts.                       *)
(***************************************************************************)
EXTENDS Integers, Sequences, FiniteSets

CONSTANTS
    Skill,          \* the known skills, as numbers
    Row,            \* rows of the registry that may be loaded for a skill
    Request,        \* tasks with their project, policy and budget
    Nothing         \* no row, or no count

ASSUME SkillAssumption == Skill \subseteq Nat /\ IsFiniteSet(Skill)
ASSUME RowAssumption ==
    /\ Nothing \notin Row \cup Nat
    /\ \A r \in Row : /\ IsFiniteSet(r.frameworks) /\ IsFiniteSet(r.platforms)
                      /\ IsFiniteSet(r.triggers) /\ IsFiniteSet(r.domains)
                      /\ r.l1 \in Nat \cup {Nothing} /\ r.l2 \in Nat
ASSUME RequestAssumption ==
    \A q \in Request : q.maxSkills \in 1..3 /\ q.maxTokens \in Nat /\ q.hits \in Seq(Skill)

VARIABLES
    request,
    rows,           \* rows[s]: the row loaded for s, or Nothing
    stage,
    explicit,       \* the skills that the user named and gets
    refused,        \* those that the user named and does not get
    passed,         \* the skills that pass the hard filters
    rejected,       \* those that do not, and those suppressed later
    ahead,          \* the ranked rows that the stage has not looked at
    kept,           \* the rows that are not redundant
    selected,       \* the recommended skills, in rank order
    candidates,     \* the others, each with the reason why not
    remaining,      \* what is left of the budget
    covered,        \* the topics of the first two selections
    confidence

inputs == <<request, rows>>
named == <<explicit, refused>>
filtered == <<passed, rejected>>
composed == <<selected, candidates, remaining, covered>>
routerVars == <<inputs, stage, named, filtered, ahead, kept, composed, confidence>>

Members(seq) == {seq[i] : i \in DOMAIN seq}

\* The members of S in the order R, which is total on S.
arranged(S, R) ==
    [i \in 1..Cardinality(S) |-> CHOOSE s \in S : Cardinality({t \in S : <<t, s>> \in R}) = i - 1]

\* What is in S of a sequence, and its first three entries.
those(seq, S) ==
    LET places == {i \in DOMAIN seq : seq[i] \in S}
        order == arranged(places, {p \in places \X places : p[1] < p[2]})
    IN [i \in DOMAIN order |-> seq[order[i]]]

firstThree(seq) == SubSeq(seq, 1, IF Len(seq) < 3 THEN Len(seq) ELSE 3)

----------------------------------------------------------------------------
(***************************************************************************)
(* Evidence, tiers and their order.                                        *)
(***************************************************************************)

governed(s) == request.binding[s] = "bound"

\* collectEvidence.  The preference of the project counts only for a skill that
\* something else speaks for; an intent names its skill, so that the intents of
\* two skills are never the same; `intents` are the skills with one.
evidenceWith(s, intents) ==
    LET matches(category, terms, with) == {category} \X (terms \cap with)
        found == matches("FRAMEWORK", rows[s].frameworks, request.frameworks)
            \cup matches("PLATFORM", rows[s].platforms, request.platforms)
            \cup matches("TASK_TRIGGER", rows[s].triggers, request.task)
            \cup matches("DOMAIN", rows[s].domains, request.task)
            \cup matches("NAME_DESCRIPTION", {rows[s].name}, request.task)
            \cup (IF s \in Members(request.hits) THEN {<<"LEXICAL", "task">>} ELSE {})
            \cup (IF s \in intents THEN {<<"WORKFLOW_INTENT", "rule">>} ELSE {})
    IN found \cup IF found # {} /\ s \in request.prefer THEN {<<"PROJECT_PREFERENCE", "id">>} ELSE {}

intended == {s \in request.intents : governed(s)}
evidence(s) == evidenceWith(s, intended)

of(e, categories) == {r \in e : r[1] \in categories}

Project == {"FRAMEWORK", "PLATFORM"}
Topic == {"TASK_TRIGGER", "DOMAIN"}
Intent == {"WORKFLOW_INTENT"}
Task == Topic \cup {"NAME_DESCRIPTION"} \cup Intent

\* The tiers A, B and C as numbers, the strongest first.
tierOf(e) == IF of(e, Task) = {} THEN 3 ELSE IF of(e, Project) = {} THEN 2 ELSE 1
tier(s) == tierOf(evidence(s))

distinctStrongValues(e) == Cardinality({r[2] : r \in of(e, Project \cup Task)})

useL1(s) == rows[s].l1 # Nothing
recommendedTokens(s) == IF useL1(s) THEN rows[s].l1 ELSE rows[s].l2

\* How many hits come before the first that is s.
ftsRank(s) == Cardinality({i \in DOMAIN request.hits : \A j \in 1..i : request.hits[j] # s})

sortKey(s, intents) ==
    LET e == evidenceWith(s, intents)
    IN << tierOf(e), IF of(e, {"PROJECT_PREFERENCE"}) # {} THEN 0 ELSE 1,
          -distinctStrongValues(e), ftsRank(s), recommendedTokens(s), s >>

before(k, l) == \E i \in 1..6 : k[i] < l[i] /\ \A j \in 1..(i-1) : k[j] = l[j]
precedes(s, t) == before(sortKey(s, intended), sortKey(t, intended))

\* The skills of S in their order.
ranked(S, intents) ==
    LET key == [s \in S |-> sortKey(s, intents)]
    IN arranged(S, {p \in S \X S : before(key[p[1]], key[p[2]])})

\* Governed skills that only the user invokes, or whose intent is not confirmed.
separated == {s \in passed : governed(s) /\ (rows[s].userOnly \/ s \notin intended)}

----------------------------------------------------------------------------
(***************************************************************************)
(* The stages.                                                             *)
(***************************************************************************)

loaded == {s \in Skill : rows[s] # Nothing}

\* A registry whose versions the policy contradicts is not used at all, unless
\* a lock chose the versions.
mismatch == ~request.locked /\ \E s \in loaded : request.binding[s] = "contradicted"

\* resolveExplicitSkills: what is denied, missing or contradicted is refused.
resolveExplicitSkills ==
    /\ stage = "explicit"
    /\ IF mismatch
       THEN stage' = "failed" /\ UNCHANGED named
       ELSE /\ stage' = "filter"
            /\ explicit' = {s \in request.references :
                   s \notin request.denied /\ s \in loaded /\ request.binding[s] # "contradicted"}
            /\ refused' = request.references \ explicit'
    /\ UNCHANGED <<inputs, filtered, ahead, kept, composed, confidence>>

\* Mutant: a skill whose loaded version is not the bound one stays in the pool.
poolUnbound == loaded \ explicit

\* What the user gets anyway is not recommended, nor what the policy contradicts.
pool == {s \in loaded \ explicit : request.binding[s] # "contradicted"}

platformMismatch(s) == /\ request.platforms # {} /\ rows[s].platforms # {}
                       /\ request.platforms \cap rows[s].platforms = {}

passes(s) == /\ s \notin request.denied
             /\ ~platformMismatch(s)
             /\ rows[s].antiTriggers \cap request.task = {}

applyAutomaticFilters ==
    /\ stage = "filter"
    /\ stage' = "rank"
    /\ passed' = {s \in pool : passes(s)}
    /\ rejected' = pool \ passed'
    /\ UNCHANGED <<inputs, named, ahead, kept, composed, confidence>>

\* Separated rows do not take part in the ranking of the others.
assignTiers ==
    /\ stage = "rank"
    /\ stage' = "suppress"
    /\ ahead' = ranked(passed \ separated, intended)
    /\ UNCHANGED <<inputs, named, filtered, kept, composed, confidence>>

\* coveredBy: `earlier` is at least as strong, brings something, and has all
\* that `s` has.  An intent covers only what is governed, and is never covered.
coveredBy(earlier, s) ==
    LET cover(x) == of(evidence(x), Project \cup Topic)
    IN /\ of(evidence(earlier), Intent) # {} => governed(s)
       /\ tier(earlier) <= tier(s)
       /\ of(evidence(earlier), Project \cup Topic \cup Intent) # {}
       /\ cover(s) \subseteq cover(earlier)
       /\ of(evidence(s), Intent) = {}

\* suppressRedundant, one row: a suppressed row suppresses no other.
suppressRow ==
    /\ stage = "suppress" /\ ahead # <<>>
    /\ LET s == Head(ahead)
       IN IF \E k \in Members(kept) : coveredBy(k, s)
          THEN rejected' = rejected \cup {s} /\ UNCHANGED kept
          ELSE kept' = Append(kept, s) /\ UNCHANGED rejected
    /\ ahead' = Tail(ahead)
    /\ UNCHANGED <<inputs, stage, named, passed, composed, confidence>>

suppressed ==
    /\ stage = "suppress" /\ ahead = <<>>
    /\ stage' = "compose"
    /\ ahead' = kept
    /\ UNCHANGED <<inputs, named, filtered, kept, composed, confidence>>

\* What makes two selections different work: the values of triggers and domains
\* alike, and intents.
topics(s) == {r[2] : r \in of(evidence(s), Topic)}
hasUniqueStrongValue(s) == of(evidence(s), Intent) # {} \/ ~(topics(s) \subseteq covered)

\* Mutant: every row is held against the whole budget.
deferredAlone(s) ==
    IF rows[s].userOnly THEN "USER_INVOCATION_ONLY"
    ELSE IF tier(s) = 3 THEN "none"
    ELSE IF rows[s].oversized THEN "CONTENT_OVERSIZED"
    ELSE IF recommendedTokens(s) > request.maxTokens THEN "TOKEN_BUDGET"
    ELSE "fits"

\* Why a row cannot be selected, whatever the limit is.  A missing count has
\* become zero in assignTiers and defers no row.
deferred(s) ==
    IF rows[s].userOnly THEN "USER_INVOCATION_ONLY"
    ELSE IF tier(s) = 3 THEN "none"
    ELSE IF rows[s].oversized THEN "CONTENT_OVERSIZED"
    ELSE IF recommendedTokens(s) > remaining THEN "TOKEN_BUDGET"
    ELSE "fits"

\* Mutant: the third selection asks for nothing new, and the second does.
roomForSecond(s) == IF Len(selected) = 1
                    THEN request.maxSkills > 1 /\ hasUniqueStrongValue(s)
                    ELSE Len(selected) < request.maxSkills

\* The third selection has to bring a topic that the first two do not cover.
room(s) == IF Len(selected) = 2
           THEN request.maxSkills = 3 /\ hasUniqueStrongValue(s)
           ELSE Len(selected) < request.maxSkills

composeRow ==
    /\ stage = "compose" /\ ahead # <<>>
    /\ LET s == Head(ahead)
           why == deferred(s)
       IN IF why = "fits" /\ room(s)
          THEN /\ selected' = Append(selected, s)
               /\ remaining' = remaining - recommendedTokens(s)
               /\ covered' = IF Len(selected) < 2 THEN covered \cup topics(s) ELSE covered
               /\ UNCHANGED candidates
          ELSE /\ candidates' = Append(candidates, [id |-> s, why |-> IF why = "fits" THEN "none" ELSE why])
               /\ UNCHANGED <<selected, remaining, covered>>
    /\ ahead' = Tail(ahead)
    /\ UNCHANGED <<inputs, stage, named, filtered, kept, confidence>>

composedAll ==
    /\ stage = "compose" /\ ahead = <<>>
    /\ stage' = "assess"
    /\ UNCHANGED <<inputs, named, filtered, ahead, kept, composed, confidence>>

----------------------------------------------------------------------------
(***************************************************************************)
(* The confidence, and what the caller sees.                               *)
(***************************************************************************)

\* The rows of the composition: the selected ones, then the candidates.
composition == [i \in DOMAIN selected |-> [id |-> selected[i], why |-> "none"]] \o candidates

\* Mutant: a row that the budget excludes speaks for the answer.
isUsefulUnpaid(c) == c.why \in {"none", "TOKEN_BUDGET"}

\* Rows that could never be selected confer no confidence.
isUseful(c) == c.why = "none"

inPlay == those(composition, {c \in Members(composition) : isUseful(c) /\ tier(c.id) < 3})

taskEvidence(s) == of(evidence(s), Task)

\* A second row of tier A that the same task evidence speaks for.
competitor(top) == \E i \in 2..Len(inPlay) :
    LET s == inPlay[i].id
    IN /\ tier(s) = 1
       /\ taskEvidence(s) = taskEvidence(top)
       /\ of(taskEvidence(s), Intent) = {}

\* assessConfidence: a row of tier A or B always has task evidence.
assessed ==
    IF request.ambiguous \/ inPlay = <<>> THEN "LOW"
    ELSE LET top == inPlay[1].id
         IN IF /\ tier(top) = 1
               /\ Cardinality({r[1] : r \in of(evidence(top), Project \cup Task)}) >= 2
               /\ ~competitor(top)
            THEN "HIGH" ELSE "MEDIUM"

\* A LOW answer selects nothing and keeps at most three relevant rows.
assessConfidence ==
    /\ stage = "assess"
    /\ stage' = "assemble"
    /\ confidence' = assessed
    /\ LET relevant == {c \in Members(composition) : evidence(c.id) # {} \/ c.why = "USER_INVOCATION_ONLY"}
       IN IF assessed = "LOW"
          THEN selected' = <<>> /\ candidates' = firstThree(those(composition, relevant))
          ELSE UNCHANGED <<selected, candidates>>
    /\ UNCHANGED <<inputs, named, filtered, ahead, kept, remaining, covered>>

\* The separated rows are shown in the order that they have without intents,
\* as long as there are less than three candidates.
shown == {s \in separated : evidenceWith(s, {}) # {} \/ rows[s].userOnly}

assemble ==
    /\ stage = "assemble"
    /\ stage' = "done"
    /\ candidates' = firstThree(firstThree(candidates) \o
           [i \in 1..Cardinality(shown) |-> [id |-> ranked(shown, {})[i], why |-> "separated"]])
    /\ UNCHANGED <<inputs, named, filtered, ahead, kept, selected, remaining, covered, confidence>>

----------------------------------------------------------------------------

RouterInit ==
    /\ request \in Request
    /\ rows \in [Skill -> Row \cup {Nothing}]
    /\ stage = "explicit"
    /\ explicit = {} /\ refused = {} /\ passed = {} /\ rejected = {}
    /\ ahead = <<>> /\ kept = <<>> /\ selected = <<>> /\ candidates = <<>>
    /\ remaining = request.maxTokens
    /\ covered = {}
    /\ confidence = Nothing

RouterNext ==
    \/ resolveExplicitSkills \/ applyAutomaticFilters \/ assignTiers
    \/ suppressRow \/ suppressed \/ composeRow \/ composedAll
    \/ assessConfidence \/ assemble

RouterSpec == RouterInit /\ [][RouterNext]_routerVars

----------------------------------------------------------------------------

\* The tokens of the skills of S.
total(S) == Cardinality(UNION {{s} \X (1..recommendedTokens(s)) : s \in S})

\* What is recommended keeps to the limit and to the budget, can be used by a
\* model, and the third of three says something that the first two do not.
SelectionIsLawful ==
    /\ Len(selected) <= request.maxSkills
    /\ total(Members(selected)) <= request.maxTokens
    /\ \A s \in Members(selected) : tier(s) < 3 /\ ~rows[s].userOnly /\ ~rows[s].oversized
    /\ Len(selected) = 3 =>
           \/ of(evidence(selected[3]), Intent) # {}
           \/ ~(topics(selected[3]) \subseteq topics(selected[1]) \cup topics(selected[2]))

fitting(s) == tier(s) < 3 /\ ~rows[s].userOnly /\ ~rows[s].oversized

\* A confident answer leaves no useful skill out without a reason: all places
\* are taken, the skills that rank before it left it no budget, it is the third
\* and says nothing new, or one that is kept and not weaker covers it.
LeftOutForAReason ==
    stage = "done" /\ confidence # "LOW" =>
        \A s \in {t \in passed \ separated : fitting(t)} \ Members(selected) :
            \/ Len(selected) = request.maxSkills
            \/ total({t \in Members(selected) : precedes(t, s)}) + recommendedTokens(s) > request.maxTokens
            \/ Len(selected) = 2 /\ topics(s) \subseteq topics(selected[1]) \cup topics(selected[2])
            \/ \E k \in Members(kept) : precedes(k, s) /\ coveredBy(k, s)

\* An answer is confident exactly if it recommends something: no row that only
\* its size, its budget or its invocation rules out may carry the confidence.
ConfidentAnswersSelect == stage = "done" => (confidence # "LOW" <=> selected # <<>>)

\* No skill is shown twice, and none that was refused or rejected is shown.
RejectedIsNotRecommended ==
    stage = "done" =>
        LET shownIds == selected \o [i \in DOMAIN candidates |-> candidates[i].id]
        IN /\ Cardinality(Members(shownIds)) = Len(shownIds)
           /\ Members(shownIds) \cap (explicit \cup refused \cup rejected) = {}

=============================================================================
