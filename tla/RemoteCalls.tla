----------------------------- MODULE RemoteCalls -----------------------------
(* What the codec of src/jsonRpc.ts promises to the two sides of one        *)
(* connection, without messages: each side may make calls, the other side   *)
(* runs a call at most once, and the promise of a call settles at most once,*)
(* with the outcome of its own run or because the connection closed.        *)
EXTENDS Naturals

CONSTANTS Sides, Ids

VARIABLES
    fate,   \* [Sides -> [Ids -> Fates]]: the promise of each call of a side
    served  \* [Sides -> [Ids -> Runs]]: the other side's run of that call

rcVars == <<fate, served>>

(* "misread": the result cleaner threw on what came back.                   *)
Fates == {"unmade", "pending", "resolved", "rejected", "misread", "closed"}
Runs == {"no", "running", "ok", "failed"}

RCInit ==
    /\ fate = [s \in Sides |-> [i \in Ids |-> "unmade"]]
    /\ served = [s \in Sides |-> [i \in Ids |-> "no"]]

(* The promise of a call goes from pending to its end.                      *)
SettleAs(s, i, end) ==
    /\ fate[s][i] = "pending"
    /\ fate' = [fate EXCEPT ![s][i] = end]
    /\ UNCHANGED served

RunGoes(s, i, from, to) ==
    /\ served[s][i] = from
    /\ served' = [served EXCEPT ![s][i] = to]
    /\ UNCHANGED fate

Make(s, i) ==
    /\ fate[s][i] = "unmade"
    /\ fate' = [fate EXCEPT ![s][i] = "pending"]
    /\ UNCHANGED served

Start(s, i) == fate[s][i] # "unmade" /\ RunGoes(s, i, "no", "running")
End(s, i) == RunGoes(s, i, "running", "ok") \/ RunGoes(s, i, "running", "failed")

Resolve(s, i) == served[s][i] = "ok" /\ SettleAs(s, i, "resolved")
Reject(s, i) == served[s][i] = "failed" /\ SettleAs(s, i, "rejected")
Misread(s, i) == served[s][i] # "no" /\ SettleAs(s, i, "misread")

(* All the pending calls of a side are cancelled at once.                   *)
Cancelled(f) == [i \in Ids |-> IF f[i] = "pending" THEN "closed" ELSE f[i]]
Cancel(s) ==
    /\ fate' = [fate EXCEPT ![s] = Cancelled(fate[s])]
    /\ UNCHANGED served

RCNext ==
    \E s \in Sides :
        \/ Cancel(s)
        \/ \E i \in Ids :
              \/ Make(s, i) \/ Start(s, i) \/ End(s, i)
              \/ Resolve(s, i) \/ Reject(s, i) \/ Misread(s, i)

RCSpec == RCInit /\ [][RCNext]_rcVars
==============================================================================
