------------------------------ MODULE EdgeRisk ------------------------------
(***************************************************************************)
(* The arithmetic of control-plane routing: what an edge costs, what a     *)
(* provider charges, and the rate a route is granted.  Probabilities and   *)
(* risks are fractions of U, a risk is a numerator over One.               *)
(***************************************************************************)
EXTENDS Integers

CONSTANT PriceTable  \* bandwidth-price.json: provider -> (key -> cost risk)

U == 10
Core == 4 * U * U        \* denominator of the core risk
One == Core * Core * U   \* the risk 1.0

(* GetBandwidthPrice: the keys it tries, in order, for a provider. *)
ASSUME PriceAssumption ==
  \A p \in DOMAIN PriceTable : \A k \in DOMAIN PriceTable[p] : PriceTable[p][k] \in 0..U

Anywhere == "Any"
PriceKeys(provider, src, dst) ==
  CASE provider = "gcp" -> <<<<src, dst>>, <<Anywhere, dst>>, <<Anywhere, Anywhere>>>>
    [] provider \in {"aws", "digitalocean"} -> <<<<Anywhere, Anywhere>>>>
    [] provider = "azure" -> <<<<IF src = dst THEN "Same" ELSE "Different">>>>
    [] provider = "vultr" -> <<<<src, Anywhere>>, <<Anywhere, Anywhere>>>>
    [] OTHER -> <<>>

(* The price in units of costMax/U, capped as EdgeRisk caps it: 0.2 $/GB,  *)
(* beyond the cap, when nothing is found; 0 for a provider of the table    *)
(* that the switch does not know.                                          *)
GetBandwidthPrice(provider, src, dst) ==
  LET keys == PriceKeys(provider, src, dst)
      hits == {i \in DOMAIN keys : keys[i] \in DOMAIN PriceTable[provider]}
  IN  IF provider \notin DOMAIN PriceTable THEN U
      ELSE IF keys = <<>> THEN 0
      ELSE IF hits = {} THEN U
      ELSE PriceTable[provider][keys[CHOOSE i \in hits : \A j \in hits : i <= j]]

(* coreRisk: cacheRisk and lossRisk weigh 0.5 each; cacheRisk may exceed 1. *)
CoreRisk(cache, loss) == Core - (2 * U - cache) * (2 * U - loss)

(* wCost: 0.6 for a perfect network, falling to 0.4 at healthThreshold. *)
CostWeight(core) ==
  IF 5 * core <= Core THEN (6 * Core) \div 10 - core ELSE (4 * Core) \div 10

(* Mutant: the total is not capped. *)
EdgeRiskUncapped(cache, cost, loss) ==
  LET core == CoreRisk(cache, loss)
  IN  core * Core * U + (Core - core) * CostWeight(core) * cost

(* EdgeRisk(cacheUtil, cost, lossRate), of the three risks as fractions of *)
(* U: a loss of U is a lossRate of 1 or more.                              *)
EdgeRisk(cache, cost, loss) ==
  LET core == CoreRisk(cache, loss)
      total == core * Core * U + (Core - core) * CostWeight(core) * cost
  IN  IF loss >= U \/ total > One THEN One ELSE total

(* ComputeAdmissionRate with the task Routing passes: 100 / cost, kept     *)
(* between MinRate and MaxRate, where Dijkstra scales a risk by 1.2; a     *)
(* cost of 0 is answered with 0.                                           *)
MinRate == 10
MaxRate == 20

(* Mutant: the projection is left out. *)
AdmissionRateUnbounded(risk) == IF risk <= 0 THEN 0 ELSE (1000 * One) \div (12 * risk)

ComputeAdmissionRate(risk) ==
  LET raw == (1000 * One) \div (12 * risk)
  IN  IF risk <= 0 THEN 0
      ELSE IF raw < MinRate THEN MinRate
      ELSE IF raw > MaxRate THEN MaxRate
      ELSE raw
=============================================================================
