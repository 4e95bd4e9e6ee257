------------------------------ MODULE MCCanary ------------------------------
(***************************************************************************)
(* Instances of Canary for TLC: one deployment beside a third version of   *)
(* the same name, or two deployments of different names.  The stages asked *)
(* for are one that the code knows by name, one between two of those, and  *)
(* the last.                                                               *)
(***************************************************************************)
EXTENDS Canary, TLC
CONSTANTS dA, dB, nA, nB, m1, m2, m3, w1, w2
MCStages == <<10, 50, 100>>

MCBaseline == (dA :> m1) @@ (dB :> w1)
MCCandidate == (dA :> m2) @@ (dB :> w2)
MCVersions == (nA :> {m1, m2, m3}) @@ (nB :> {w1, w2})
=============================================================================
