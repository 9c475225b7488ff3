------------------------------- MODULE MCMesh -------------------------------
(***************************************************************************)
(* Mesh with three nodes, any two of which may be connected, one new       *)
(* connection and two faults (breaks, stops and restarts).                 *)
(***************************************************************************)
EXTENDS Mesh

AllLinks == {e \in EdgeIds : e[1] < e[2]}

\* At the start 2 is connected with 1 and with 3.
Line == {<<1, 2>>, <<2, 3>>}

UnitWeight == [e \in EdgeIds |-> 1]
=============================================================================
