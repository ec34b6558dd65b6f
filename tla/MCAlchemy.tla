----------------------------- MODULE MCAlchemy -----------------------------
(* Two addresses and two webhooks, left by an earlier run or created now.   *)
EXTENDS Alchemy, TLC

CONSTANTS a1, a2, h1, h2

MCSymmetry == Permutations(Addrs) \union Permutations(Hooks)
============================================================================
