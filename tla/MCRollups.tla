------------------------------ MODULE MCRollups ------------------------------
(* What the scope starts with in the runs of Rollups.                         *)
EXTENDS Rollups

Three == {<<Fact(TRUE), Fact(FALSE), Fact(FALSE)>>}
Four == {<<Fact(TRUE), Fact(FALSE), Fact(FALSE), Fact(FALSE)>>}
==============================================================================
