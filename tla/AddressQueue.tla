---------------------------- MODULE AddressQueue ----------------------------
(* The arrays pendingAddressesToAdd and pendingAddressesToRemove of         *)
(* src/plugins/alchemy.ts, and the lists of a batch.  Nothing reads their   *)
(* order, so a queue is the count of each address.                          *)
EXTENDS Naturals

CONSTANT Addrs \* normalized addresses

Empty == [a \in Addrs |-> 0]
Listed(list) == {a \in Addrs : list[a] > 0}
Push(list, a) == [list EXCEPT ![a] = @ + 1]
SpliceUnguarded(list, a) == [list EXCEPT ![a] = @ - 1]
SpliceNothing(list, a) == list
PushNothing(list, more) == list

(* indexOf and splice: one occurrence, if there is one.                     *)
Splice(list, a) == [list EXCEPT ![a] = IF @ > 0 THEN @ - 1 ELSE 0]
PushAll(list, more) == [a \in Addrs |-> list[a] + more[a]]
============================================================================
