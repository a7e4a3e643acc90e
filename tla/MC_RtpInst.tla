------------------------------ MODULE MC_RtpInst ------------------------------
(* Model-checking instance of RtpInst. *)
EXTENDS RtpInst, TLC

CONSTANTS f1, f2, a1, a2

\* Slots and addresses are interchangeable.  SSRC 0 is not like the others.
Symmetry == Permutations(FF) \union Permutations(Addr)
===============================================================================
