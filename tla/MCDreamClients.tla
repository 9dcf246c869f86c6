--------------------------- MODULE MCDreamClients ---------------------------
(* Instances of DreamClients for TLC. *)
EXTENDS DreamClients

CoherenceThenFormation == [j \in {1, 2} |-> IF j = 1 THEN "coherence" ELSE "formation"]
TwoFormations == [j \in {1, 2} |-> "formation"]
OneConsumer == [j \in Jobs |-> CHOOSE c \in Consumers : TRUE]
OwnConsumer == [j \in Jobs |-> j]
=============================================================================
