----------------------------- MODULE MCHotSwap -----------------------------
(***************************************************************************)
(* Instances of HotSwap for TLC: three models whose weights and KV caches  *)
(* make each strategy the answer for some pair on a GPU of 14 units,       *)
(* depending on what others hold of it.                                    *)
(***************************************************************************)
EXTENDS HotSwap, TLC
CONSTANTS a, b, c
MCPair == {a, b}
MCTriple == {a, b, c}
MCProfile ==
  (a :> [weight |-> 4, kv |-> 3]) @@ (b :> [weight |-> 5, kv |-> 1])
    @@ (c :> [weight |-> 8, kv |-> 2])
MCInitially == {[m \in Models |-> IF m = a THEN "ACTIVE" ELSE "IDLE"]}
MCNoCalls == [m \in Models |-> {}]
MCStops == [m \in Models |-> {"sleep", "unload"}]
MCLoadB == [MCNoCalls EXCEPT ![b] = {"load"}]
=============================================================================
