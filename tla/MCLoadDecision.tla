--------------------------- MODULE MCLoadDecision ---------------------------
(***************************************************************************)
(* The models and GPUs of SPEC section 3's examples: 7B to 70B parameters, *)
(* full precision and quantized, on GPUs of 24, 80 and 192 GB, with the    *)
(* context overhead alone or with 30 GB held by another process.           *)
(***************************************************************************)
EXTENDS LoadDecision
MCProfiles ==
  {ModelProfile(7, "fp16", "none", 90), ModelProfile(13, "fp16", "none", 90),
   ModelProfile(13, "int8", "gguf", 50), ModelProfile(70, "int4", "gptq", 90),
   ModelProfile(70, "fp16", "none", 90), ModelProfile(7, "fp32", "none", 100)}
MCTotals == {24 * GB, 48 * GB, 80 * GB, 192 * GB}
MCOverhead == 2 * GB
MCForeign == {0, 2 * GB, 30 * GB}
=============================================================================
