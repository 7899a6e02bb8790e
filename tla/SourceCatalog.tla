--------------------------- MODULE SourceCatalog ---------------------------
(***************************************************************************)
(* The source repository of skills as the console's source manager sees    *)
(* it, and the three plans an editor can ask for: add an original skill,   *)
(* update one, remove one (planner.ts, catalog-validation.ts, service.ts). *)
(*                                                                         *)
(* A catalog is the tree of one commit.  Of a skill it keeps what relates  *)
(* it to others: its provenance, its text, the aliases it owns, the        *)
(* neighbours its trigger case names and the skills its files link to.     *)
(***************************************************************************)
EXTENDS Integers, FiniteSets

CONSTANTS
    Skills,     \* names of skills
    Texts,      \* instructions, as far as they differ
    Aliases,    \* routing aliases
    Missing,    \* in a catalog: there is no such skill
    Keep,       \* in an update: the routing metadata is left alone
    Imports,    \* directories of foreign repositories, each pinned to a commit
    NoImport,   \* the editor wrote the skill
    Upstream    \* Upstream[i]: the text of an import

ASSUME SkillsAssumption == IsFiniteSet(Skills)
ASSUME SkillAssumption == Missing \notin [
    mode : {"copied", "adapted", "original"}, text : Texts, aliases : SUBSET Aliases,
    neighbours : SUBSET Skills, links : SUBSET Skills]
ASSUME KeepAssumption == \A A \in SUBSET Aliases : Keep # A
ASSUME ImportAssumption == NoImport \notin Imports /\ Upstream \in [Imports -> Texts]

SkillRecord == [mode : {"copied", "adapted", "original"}, text : Texts, aliases : SUBSET Aliases,
                neighbours : SUBSET Skills, links : SUBSET Skills]

Catalog == [Skills -> SkillRecord \cup {Missing}]

\* The names recorded in upstream-sources.json, the index of the console.
recorded(c) == {s \in Skills : c[s] # Missing}

\* The text input of the three plans, as parseProposalRequest lets it through.
Proposal ==
    [operation : {"add"}, name : Skills, skill : SkillRecord, from : Imports \cup {NoImport}]
        \cup [operation : {"update"}, name : Skills, text : Texts, links : SUBSET Skills,
                 aliases : (SUBSET Aliases) \cup {Keep}]
        \cup [operation : {"remove"}, name : Skills]

----------------------------------------------------------------------------
(***************************************************************************)
(* What is wrong with a catalog: validateCatalog, without the shapes of    *)
(* single files.                                                           *)
(***************************************************************************)

\* A trigger case names a neighbour that is not in the catalog.
strayNeighbours(c) == {s \in recorded(c) : ~ (c[s].neighbours \subseteq recorded(c))}

\* A Markdown file links to files of a skill that is not in the catalog.
brokenLinks(c) == {s \in recorded(c) : ~ (c[s].links \subseteq recorded(c))}

\* One alias has two owners.
contested(c) == {a \in Aliases : Cardinality({s \in recorded(c) : a \in c[s].aliases}) > 1}

validateCatalog(c) == strayNeighbours(c) \cup brokenLinks(c) \cup contested(c)

----------------------------------------------------------------------------
(***************************************************************************)
(* The plans.  Each gives the proposed catalog and its errors.             *)
(***************************************************************************)

\* An alias that a proposal asks for and another skill of the base owns.
takenAliases(c, name, wanted) ==
    {a \in wanted : \E s \in recorded(c) \ {name} : a \in c[s].aliases}

\* An import is read again at its commit, whatever the preview showed.
imported(p) == Upstream[p.from]

\* The skill to add, classified as original.
normalized(p) ==
    [p.skill EXCEPT !.mode = "original",
                    !.text = IF p.from = NoImport THEN @ ELSE imported(p)]

planOriginalAdd(c, p) ==
    [after |-> [c EXCEPT ![p.name] = normalized(p)],
     errors |-> {"exists" : x \in {p.name} \cap recorded(c)}
                    \cup {"neighbour" : s \in p.skill.neighbours \ recorded(c)}
                    \cup {"alias" : a \in takenAliases(c, p.name, p.skill.aliases)}]

\* Instructions or references that differ from those of the base.
rewrites(old, p) == old.text # p.text \/ old.links # p.links

\* Mutant: the check of aliases is left to the trigger words.
updateErrorsLax(c, p) ==
    {"copied" : x \in {s \in {p.name} : c[s].mode = "copied" /\ rewrites(c[s], p)}}

\* A copied skill keeps its instructions and references; its routing metadata
\* may change. Where the new text of any other links to is not looked at.
updateErrors(c, p) ==
    {"copied" : x \in {s \in {p.name} : c[s].mode = "copied" /\ rewrites(c[s], p)}}
        \cup {"alias" : a \in takenAliases(c, p.name, IF p.aliases = Keep THEN {} ELSE p.aliases)}

planSkillUpdate(c, p) ==
    LET old == c[p.name] IN
    IF p.name \notin recorded(c) THEN [after |-> c, errors |-> {"missing"}]
    ELSE [after |-> [c EXCEPT ![p.name] =
                        [old EXCEPT !.text = p.text, !.links = p.links,
                                    !.aliases = IF p.aliases = Keep THEN old.aliases ELSE p.aliases]],
          errors |-> updateErrors(c, p)]

\* Skills that would be left with a reference to the removed one.
dependents(c, name) ==
    {s \in recorded(c) \ {name} : name \in c[s].neighbours \cup c[s].links}

\* The plan of the removal, and the validation of the whole catalog it leaves.
planSkillRemoval(c, p) ==
    LET after == [c EXCEPT ![p.name] = Missing] IN
    [after |-> after,
     errors |-> {"missing" : x \in {p.name} \ recorded(c)}
                    \cup {"referenced" : s \in dependents(c, p.name)}
                    \cup {"catalog" : x \in validateCatalog(after)}]

plan(c, p) == CASE p.operation = "add" -> planOriginalAdd(c, p)
                [] p.operation = "update" -> planSkillUpdate(c, p)
                [] p.operation = "remove" -> planSkillRemoval(c, p)

=============================================================================
