----------------------------- MODULE MC_CubeWalk -----------------------------
(* Model-checking instance of CubeWalk: as in kPerfectCube, every value but *)
(* the last stands in two cells.                                            *)
EXTENDS CubeWalk

MCCells == 0..((Side * Side * Side) \div 2)
MCPerfectCube ==
    [q \in Coords |-> (q["X"] + Side * q["Y"] + Side * Side * q["Z"]) \div 2]
=============================================================================
