---------------------------- MODULE MCBlockbook ----------------------------
(* The transactions of an instance all belong to a1; the other addresses    *)
(* are interchangeable.                                                     *)
EXTENDS Blockbook, TLC

CONSTANTS a1, a2, a3, c1, c2, c3, k1, k2, t1, t2

MCTxOf == [t \in Txs |-> a1]
MCSymmetry == Permutations(Conns) \union Permutations(Calls) \union Permutations(Txs)
                  \union Permutations(Addrs \ {a1})
============================================================================
