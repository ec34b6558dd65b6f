------------------------------- MODULE MCHub -------------------------------
(* A server with one reliable plugin that scans and one plugin that may     *)
(* fail and does not scan; clients may also name a plugin it does not have. *)
(* One client awaits its answers, the other does not.                       *)
EXTENDS Hub, TLC

CONSTANTS s1, s2, a1, a2, b1, x1, c1, c2, c3

MCSockets == {s1, s2}
MCPlugins == {"good", "flaky", "absent"}
MCSupported == {"good", "flaky"}
MCScanning == {"good"}
MCFailing == {"flaky"}
MCPluginOf == [a \in Addresses |-> IF a = b1 THEN "flaky"
                                   ELSE IF a = x1 THEN "absent" ELSE "good"]
MCSymmetry == Permutations(Calls)
=============================================================================
