----------------------------- MODULE MCModelApi -----------------------------
(***************************************************************************)
(* Instances of ModelApi for TLC.  An object is in use only while the      *)
(* registry or a caller refers to it: one more than there are callers is   *)
(* as good as any number.                                                  *)
(***************************************************************************)
EXTENDS ModelApi, TLC
CONSTANTS t1, t2, t3, o1, o2, o3, o4
MCThree == {t1, t2, t3}
MCObjects == {o1, o2, o3, o4}
MCSymmetry == Permutations(MCThree) \cup Permutations(MCObjects)
=============================================================================
