----------------------------- MODULE MCServing -----------------------------
(***************************************************************************)
(* Instances of Serving for TLC, on the deployments of MCCanary.  Two      *)
(* versions share a label, as qwen-7b-v1 and llama-3-v1 do.                *)
(***************************************************************************)
EXTENDS MCCanary, Serving
MCLabel ==
  (m1 :> "v1") @@ (m2 :> "v2") @@ (m3 :> "v1") @@ (w1 :> "v1") @@ (w2 :> "v2")
    @@ (Default :> "unknown")
=============================================================================
