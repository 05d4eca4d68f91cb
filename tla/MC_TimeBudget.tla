--------------------------- MODULE MC_TimeBudget ---------------------------
(* Time budgets of one or two members over two dates, a Friday and a Saturday. *)
EXTENDS TimeBudget, TLC

MCDay == {1, 2}
MCWeekend == {2}
MCBudget(weekend, enabled) == [weekday |-> 1, weekend |-> weekend, enabled |-> enabled]
MCSettings == {MCBudget(2, TRUE), MCBudget(0, TRUE), MCBudget(2, FALSE)}

Symmetry == Permutations(Member) \cup Permutations(RuleId)
              \cup Permutations(ApprovalId) \cup Permutations(Worker)
=============================================================================
