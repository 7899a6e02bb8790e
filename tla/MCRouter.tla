------------------------------ MODULE MCRouter ------------------------------
(* Four skills; rows and requests chosen so that each rule of the router   *)
(* decides some of the cases.                                              *)
EXTENDS Router, TLC

bare == [frameworks |-> {}, platforms |-> {}, triggers |-> {}, domains |-> {}, antiTriggers |-> {},
            name |-> "other", l1 |-> Nothing, l2 |-> 2, oversized |-> FALSE, userOnly |-> FALSE]

MCSkill == 1..4

MCRow == {
    [bare EXCEPT !.frameworks = {"react"}, !.triggers = {"form"}],
    [bare EXCEPT !.triggers = {"form"}, !.domains = {"ui"}, !.l2 = 3],
    [bare EXCEPT !.frameworks = {"react"}, !.platforms = {"web"}, !.domains = {"ui"}, !.l1 = 1, !.l2 = 4],
    [bare EXCEPT !.name = "test", !.domains = {"form"}, !.l2 = 4],
    [bare EXCEPT !.frameworks = {"react"}, !.triggers = {"form", "test"}, !.userOnly = TRUE],
    [bare EXCEPT !.platforms = {"web"}, !.triggers = {"test"}, !.oversized = TRUE],
    [bare EXCEPT !.platforms = {"ios"}, !.antiTriggers = {"test"}] }

plain == [task |-> {"form", "ui", "test"}, frameworks |-> {"react"}, platforms |-> {}, ambiguous |-> FALSE,
          maxSkills |-> 3, maxTokens |-> 6, references |-> {}, denied |-> {}, prefer |-> {}, hits |-> <<2, 1>>,
          locked |-> FALSE, binding |-> [s \in MCSkill |-> "free"], intents |-> {}]

budgets(r) == {[r EXCEPT !.maxSkills = n, !.maxTokens = t] : n \in 1..3, t \in {6, 9}}

MCRequest ==
    budgets(plain) \cup
    { [plain EXCEPT !.maxTokens = 9, !.prefer = {3}],
      [plain EXCEPT !.task = {"form", "ui"}, !.platforms = {"web"}],
      [plain EXCEPT !.maxSkills = 2, !.task = {"test"}, !.maxTokens = 3, !.references = {1}, !.denied = {2}],
      [plain EXCEPT !.ambiguous = TRUE, !.references = {1, 2}, !.denied = {2}],
      [plain EXCEPT !.binding = [s \in MCSkill |-> "bound"], !.intents = {1, 3}],
      [plain EXCEPT !.binding = [s \in MCSkill |-> IF s < 3 THEN "bound" ELSE "free"], !.intents = {1},
                    !.maxTokens = 9],
      [plain EXCEPT !.locked = TRUE, !.references = {1}, !.intents = {2},
                    !.binding = (1 :> "contradicted" @@ 2 :> "bound" @@ 3 :> "bound" @@ 4 :> "free")],
      [plain EXCEPT !.binding = [s \in MCSkill |-> IF s = 1 THEN "contradicted" ELSE "free"]] }
=============================================================================
