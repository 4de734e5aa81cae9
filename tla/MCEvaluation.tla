---- MODULE MCEvaluation ----
EXTENDS Evaluation

CONSTANTS q1, blank, a1

MCQuestions == {q1}
MCAskers == {a1}
MCManifest == <<"capability_graph", "hipporag2_retrieval">>

\* As shipped the recall of the capability graph has no floor.
Shipped == [capability_graph |-> {"top_1"}, hipporag2_retrieval |-> {"recall", "grounded"}]
Full == [Shipped EXCEPT !.capability_graph = {"top_1", "recall"}]
MCGateChoices == {Shipped, Full}


====
