---------------------------- MODULE MCUnitOfWork ----------------------------
(* UnitOfWork on small instances.                                          *)
EXTENDS UnitOfWork, TLC

CONSTANTS u1, u2

OneUnit == {u1}
TwoUnits == {u1, u2}
UnitSymmetry == Permutations(TwoUnits)
=============================================================================
