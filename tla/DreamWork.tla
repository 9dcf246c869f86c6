----------------------------- MODULE DreamWork -----------------------------
(* What the dream-work claim plane promises (storage/_shared/_claims.py and  *)
(* the docstring of DreamEngine.run_job), with neither clocks nor a claims    *)
(* table: a work item is in the hands of at most one worker, an item that is  *)
(* done is never taken again, and only its holder completes it.               *)
CONSTANTS Workers,   \* the concurrent callers of the dream engine
          Items,     \* (episode or breadth, consumer) pairs
          Nobody     \* not a worker: holds nothing

VARIABLES holder,    \* who works on the item now
          done       \* the items that carry a processed marker

workVars == <<holder, done>>

WorkInit ==
    /\ holder = [k \in Items |-> Nobody]
    /\ done = {}

\* A run claims a set of open items, all at once.
Take(w, K) ==
    /\ \A k \in K : holder[k] = Nobody /\ k \notin done
    /\ holder' = [k \in Items |-> IF k \in K THEN w ELSE holder[k]]
    /\ UNCHANGED done

\* The holder marks an item processed and lets go of it.
Complete(w, k) ==
    /\ holder[k] = w
    /\ done' = done \cup {k}
    /\ holder' = [holder EXCEPT ![k] = Nobody]

\* The holder lets go of items without completing them: refused, failed, died.
Drop(w, K) ==
    /\ \A k \in K : holder[k] = w
    /\ holder' = [k \in Items |-> IF k \in K THEN Nobody ELSE holder[k]]
    /\ UNCHANGED done

WorkNext ==
    \E w \in Workers :
        \/ \E K \in SUBSET Items : Take(w, K) \/ Drop(w, K)
        \/ \E k \in Items : Complete(w, k)

WorkSpec == WorkInit /\ [][WorkNext]_workVars
=============================================================================
