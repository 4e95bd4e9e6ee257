------------------------------ MODULE Routing ------------------------------
(***************************************************************************)
(* The routing table of router/proxy.py: explicit weights and explicitly   *)
(* disabled versions of one model name, and what select draws from.        *)
(* Weights are percents; only their proportions matter to select.          *)
(***************************************************************************)
EXTENDS Integers, FiniteSets, FiniteSetsExt, Sums

EmptyTable == [weights |-> [m \in {} |-> 0], disabled |-> {}]

\* set_split: the whole table is replaced, not merged.
SetSplit(split) ==
  [weights |-> [m \in {k \in DOMAIN split : split[k] > 0} |-> split[m]],
   disabled |-> {k \in DOMAIN split : split[k] = 0}]

Routable(table, serving) == serving \ table.disabled
Configured(table, serving) == Routable(table, serving) \cap DOMAIN table.weights
Unconfigured(table, serving) == Routable(table, serving) \ DOMAIN table.weights

(***************************************************************************)
(* get_active_entries, scaled by the number of unconfigured versions so    *)
(* that it stays whole: those share the smallest weight of the table, or   *)
(* everything when no routable version is configured.                      *)
(***************************************************************************)
EffectiveWeight(table, serving, m) ==
  IF m \in Configured(table, serving)
    THEN table.weights[m] * Max({1, Cardinality(Unconfigured(table, serving))})
  ELSE IF m \in Unconfigured(table, serving)
    THEN IF Configured(table, serving) = {}
           THEN 1
           ELSE Min({table.weights[k] : k \in DOMAIN table.weights})
  ELSE 0

\* The denominator of select's draw and of get_traffic_split.
TotalWeight(table, serving) ==
  SumOver([m \in serving |-> EffectiveWeight(table, serving, m)], serving)
=============================================================================
