--------------------------- MODULE MCRoutingGraph ---------------------------
(* Two control planes of two providers and one store. *)
EXTENDS RoutingGraph

CONSTANTS a, b, s

MCNodes == {a, b}
MCStores == {s}
MCProvider == a :> "gcp" @@ b :> "vultr"
MCContinent == a :> "Asia" @@ b :> "Asia" @@ s :> "Africa"
MCPriceTable ==
  [gcp |-> <<"Asia", "Asia">> :> 5 @@ <<Anywhere, Anywhere>> :> 10,
   vultr |-> <<Anywhere, Anywhere>> :> 1]

(* All well; a congested node that sees losses and not the store. *)
MCMeasurements ==
  {[cache |-> 0, loss |-> [t \in {a, b, s} |-> 0]],
   [cache |-> 3 * U, loss |-> [t \in {a, b} |-> 5]]}
MCClients == {b}
=============================================================================
