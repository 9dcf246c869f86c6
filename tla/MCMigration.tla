----------------------------- MODULE MCMigration -----------------------------
(* A fact of the tenant and one of each of two agents, one of them not yet    *)
(* registered with it.                                                        *)
EXTENDS Migration, TLC

CONSTANTS f1, f2, f3, f4, a, b, t
Homes == [f \in Facts |-> (f1 :> t @@ f2 :> t @@ f3 :> a @@ f4 :> b)[f]]
AllJobs == [same : BOOLEAN, purge : BOOLEAN]
==============================================================================
