----------------------------- MODULE MCTruthSlot -----------------------------
(* What episodes say in the runs of TruthSlot.                                *)
EXTENDS TruthSlot

Says(obj, rank, from, ref, until) ==
    [obj |-> obj, rank |-> rank, from |-> from, ref |-> ref, until |-> until]

(* Three objects, two authorities, permanent and temporary, prompt, backfilled *)
(* and claimed from the future.                                               *)
Mixed ==
    {Says("x", 1, 0, 0, Forever), Says("x", 2, 1, 1, Forever),
     Says("y", 1, 1, 1, Forever), Says("y", 1, 0, 1, Forever), Says("y", 2, 0, 1, 2),
     Says("y", 1, 2, 1, Forever), Says("z", 1, 1, 1, Forever)}

(* One authority: a permanent truth, a permanent challenger and an override.  *)
Equals ==
    {Says("x", 1, 0, 0, Forever), Says("y", 1, 1, 1, Forever), Says("z", 1, 1, 1, 2)}

(* A trusted truth, a challenger that may not override it, and one that may.  *)
Few ==
    {Says("x", 2, 0, 0, Forever), Says("y", 1, 1, 1, Forever), Says("z", 2, 0, 0, 1)}
==============================================================================
