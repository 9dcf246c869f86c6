------------------------------ MODULE MCEpochs ------------------------------
(* What the runs of Epochs instantiate it with.                               *)
EXTENDS Epochs, TLC

CONSTANTS home, work, yes, no   \* truth keys and facts

(* Every episode of an instruction set of its own, or all of one.             *)
Apart == {{ep} : ep \in Episodes}
Together == {Episodes}

(* Two facts that contradict each other, and an unrelated one.                *)
Three == {[key |-> home, fact |-> yes], [key |-> home, fact |-> no],
          [key |-> work, fact |-> yes]}
Contrary == {[key |-> home, fact |-> yes], [key |-> home, fact |-> no]}

Symmetric == Permutations(Episodes) \cup Permutations({yes, no})
=============================================================================
