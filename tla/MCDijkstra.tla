---------------------------- MODULE MCDijkstra ----------------------------
(***************************************************************************)
(* Two VMs a and b between the in half s of the client's VM and a storage  *)
(* server t: two ways to the server and a way back and forth between them. *)
(* Weights 0 (no risk at all), 1 and 3 make ties, detours that pay and     *)
(* detours that do not.                                                    *)
(***************************************************************************)
EXTENDS Dijkstra

CONSTANTS s, a, b, t

MCVertices == {s, a, b, t}
MCEdges == {<<s, a>>, <<s, b>>, <<a, b>>, <<b, a>>, <<a, t>>, <<b, t>>}
==============================================================================
