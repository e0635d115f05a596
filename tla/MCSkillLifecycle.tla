-------------------------- MODULE MCSkillLifecycle --------------------------
(* Finite values for SkillLifecycle: the runs are numbers because the code   *)
(* compares run identifiers; tickets, skills, and the codes other than the   *)
(* recipe are interchangeable.                                               *)
EXTENDS SkillLifecycle, TLC

CONSTANTS s1, s2, t1, t2, a1, recipe, c1, c2

OneSkill   == {s1}
TwoSkills  == {s1, s2}
TwoRuns    == 1..2
ThreeRuns  == 1..3
OnlyRecipe == {recipe}
TwoCodes   == {recipe, c1}
ThreeCodes == {recipe, c1, c2}
NoTickets  == {}
TwoTickets == {t1, t2}
NoAdmins   == {}
OneAdmin   == {a1}

TicketSymmetry == Permutations(TwoTickets)
IntakeSymmetry == Permutations(TwoSkills) \cup Permutations({c1, c2})
=============================================================================
