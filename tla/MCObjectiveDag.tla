--------------------------- MODULE MCObjectiveDag ---------------------------
(* Instances of ObjectiveDag for TLC: plans of the shapes the planner makes *)
(* and one with an optional objective at the head of a chain.               *)
EXTENDS ObjectiveDag

Keys == 1 .. 5

Plan(kind, deps, soft, denied, optional) ==
    [kind |-> kind, deps |-> deps, soft |-> soft, denied |-> denied,
     optional |-> optional]

\* Facts, an optional risk analysis, a daily brief of both, an action, and a
\* restricted question.
BriefPlan ==
    Plan(<<"fact", "risk", "daily", "action", "fact">>,
         <<{}, {1}, {1, 2}, {1}, {}>>, {<<1, 2>>}, {5}, {})

\* Two fact queries, a risk analysis, and a task for the highest risk, whose
\* target a conflict resolution has to find.
DeferredPlan ==
    Plan(<<"fact", "fact", "risk", "conflict", "action">>,
         <<{}, {}, {1}, {3}, {4}>>, {}, {}, {})

\* The second fact query is optional; a chain hangs on it.
OptionalPlan ==
    Plan(<<"fact", "fact", "risk", "daily", "risk">>,
         <<{}, {}, {2}, {1, 3}, {2}>>, {<<2, 5>>}, {}, {2, 3, 4, 5})

\* A brief and a risk analysis that both hang on a required fact query.
RequiredPlan ==
    Plan(<<"fact", "fact", "risk", "daily", "none">>,
         <<{}, {}, {1}, {1, 3}, {}>>, {}, {}, {})

AllPlans == {BriefPlan, DeferredPlan, OptionalPlan, RequiredPlan}
=============================================================================
