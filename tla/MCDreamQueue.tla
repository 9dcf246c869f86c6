---------------------------- MODULE MCDreamQueue ----------------------------
(* Instances of DreamQueue for TLC. Jobs are numbered in configuration order. *)
EXTENDS DreamQueue

EveryKind == [j \in {1, 2, 3} |-> <<"coherence", "formation", "scope">>[j]]
FormationThenScope == [j \in {1, 2} |-> IF j = 1 THEN "formation" ELSE "scope"]

\* One consumer key for every job (every Motive left at its default), or one each.
OneConsumer == [j \in Jobs |-> CHOOSE c \in Consumers : TRUE]
OwnConsumer == [j \in Jobs |-> j]
=============================================================================
