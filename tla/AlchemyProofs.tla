--------------------------- MODULE AlchemyProofs ---------------------------
(* Proofs about the Alchemy plugin, for any addresses, webhooks, calls and  *)
(* failures.                                                                *)
EXTENDS Alchemy, FiniteSetTheorems, TLAPS

USE DEF NoHook

----------------------------------------------------------------------------
(* Type correctness *)

LEMMA QueueTypes ==
    ASSUME NEW list \in [Addrs -> Nat], NEW more \in [Addrs -> Nat], NEW a \in Addrs
    PROVE  /\ Empty \in [Addrs -> Nat]
           /\ Push(list, a) \in [Addrs -> Nat]
           /\ Splice(list, a) \in [Addrs -> Nat]
           /\ PushAll(list, more) \in [Addrs -> Nat]
BY DEF Empty, Push, Splice, PushAll

(* The catch block keeps the types of what it changes.                      *)
LEMMA RequeueType ==
    ASSUME TypeOK, Requeue
    PROVE  /\ pendingAdd' \in [Addrs -> Nat] /\ pendingRemove' \in [Addrs -> Nat]
           /\ toAdd' \in [Addrs -> Nat] /\ toRemove' \in [Addrs -> Nat]
           /\ timer' \in {"off", "batch", "backoff"}
           /\ pc' = "idle"
           /\ retryCount' \in 0..MaxRetry
<1>1. Empty \in [Addrs -> Nat] BY DEF Empty
<1>2. /\ PushAll(pendingAdd, toAdd) \in [Addrs -> Nat]
      /\ PushAll(pendingRemove, toRemove) \in [Addrs -> Nat]
  BY DEF PushAll, TypeOK
<1> QED BY <1>1, <1>2, AlchemyAssumption DEF Requeue, ScheduleBackoff, TypeOK, queueVars

(* So does every way a batch goes on or ends without an error.              *)
LEMMA ProceedType ==
    ASSUME TypeOK, NEW id, NEW add \in [Addrs -> Nat], NEW remove \in [Addrs -> Nat],
           Proceed(id, add, remove)
    PROVE  /\ toAdd' \in [Addrs -> Nat] /\ toRemove' \in [Addrs -> Nat]
           /\ pc' \in {"idle", "creating", "updating", "deleting"}
           /\ retryCount' \in 0..MaxRetry
           /\ UNCHANGED queueVars
<1>1. Empty \in [Addrs -> Nat] BY DEF Empty
<1> QED BY <1>1, AlchemyAssumption DEF Proceed, Await, AfterUpdate, Finish, TypeOK

LEMMA ApiType ==
    ASSUME TypeOK, NEW h \in Hooks \union {NoHook}, NEW add \in SUBSET Addrs, NEW remove,
           \/ h \in Hooks /\ ApiCreates(h, add)
           \/ ApiUpdates(h, add, remove)
           \/ ApiDeletes(h)
           \/ UNCHANGED apiVars
    PROVE  /\ hook' \in [Hooks -> {"absent", "active", "paused"}]
           /\ onHook' \in [Hooks -> SUBSET Addrs]
           /\ routed' \subseteq Hooks
<1>1. CASE h \in Hooks /\ ApiCreates(h, add) BY <1>1 DEF ApiCreates, TypeOK
<1>2. CASE ApiUpdates(h, add, remove)
  <2>1. PICK both \in BothLists :
          onHook' = [onHook EXCEPT ![h] =
                        IF both = "kept" THEN (@ \ remove) \union add
                                         ELSE (@ \union add) \ remove]
    BY <1>2 DEF ApiUpdates
  <2> QED BY <1>2, <2>1 DEF ApiUpdates, TypeOK
<1>3. CASE ApiDeletes(h) BY <1>3 DEF ApiDeletes, TypeOK
<1>4. CASE UNCHANGED apiVars BY <1>4 DEF apiVars, TypeOK
<1> QED BY <1>1, <1>2, <1>3, <1>4

LEMMA TypeInit == Init => TypeOK
<1> SUFFICES ASSUME Init PROVE TypeOK
  OBVIOUS
<1>1. Empty \in [Addrs -> Nat] BY DEF Empty
<1>2. /\ hook \in [Hooks -> {"absent", "active", "paused"}]
      /\ onHook \in [Hooks -> SUBSET Addrs]
      /\ routed \subseteq Hooks
  BY DEF Init
<1>3. /\ subscribed = {} /\ found = {} /\ asked = {}
      /\ pendingAdd = Empty /\ pendingRemove = Empty /\ toAdd = Empty /\ toRemove = Empty
      /\ timer = "off" /\ pc = "idle" /\ discovery = "fetching" /\ webhookId = NoHook
      /\ retryCount = 0 /\ calls = 0 /\ failures = 0 /\ destroyed = FALSE
  BY DEF Init
<1>4. 0 \in 0..MaxRetry /\ 0 \in 0..MaxCalls /\ 0 \in 0..MaxFailures
  BY AlchemyAssumption
<1> QED BY <1>1, <1>2, <1>3, <1>4 DEF TypeOK

LEMMA TypeNext == TypeOK /\ [Next]_vars => TypeOK'
<1> SUFFICES ASSUME TypeOK, [Next]_vars PROVE TypeOK'
  OBVIOUS
<1> USE AlchemyAssumption
<1>1. ASSUME NEW a \in Addrs, Subscribe(a) \/ Unsubscribe(a) PROVE TypeOK'
  <2>1. /\ Push(pendingAdd, a) \in [Addrs -> Nat] /\ Push(pendingRemove, a) \in [Addrs -> Nat]
        /\ Splice(pendingAdd, a) \in [Addrs -> Nat] /\ Splice(pendingRemove, a) \in [Addrs -> Nat]
    BY QueueTypes DEF TypeOK
  <2>2. CASE Subscribe(a)
    BY <2>1, <2>2 DEF Subscribe, MayCall, ScheduleBatch, TypeOK, batchVars, apiVars
  <2>3. CASE Unsubscribe(a)
    BY <2>1, <2>3 DEF Unsubscribe, MayCall, ScheduleBatch, TypeOK, batchVars, apiVars
  <2> QED BY <1>1, <2>2, <2>3
<1>2. CASE Destroy
  <2>1. Empty \in [Addrs -> Nat] BY DEF Empty
  <2> QED BY <1>2, <2>1 DEF Destroy, TypeOK, batchVars, apiVars
<1>3. CASE FetchOk BY <1>3 DEF FetchOk, TypeOK, queueVars, batchVars, apiVars, clientVars
<1>4. CASE FetchFails
  BY <1>4 DEF FetchFails, Fails, TypeOK, queueVars, batchVars, apiVars, clientVars
<1>5. ASSUME NEW h \in Hooks, Reuse(h) PROVE TypeOK'
  <2>1. routed' \subseteq Hooks BY <1>5 DEF Reuse, TypeOK
  <2>2. failures' \in 0..MaxFailures BY <1>5 DEF Reuse, Fails, TypeOK
  <2> QED BY <1>5, <2>1, <2>2 DEF Reuse, TypeOK, queueVars, batchVars, clientVars
<1>6. ASSUME NEW h \in Hooks, Discard(h) PROVE TypeOK'
  <2>1. /\ hook' \in [Hooks -> {"absent", "active", "paused"}]
        /\ onHook' \in [Hooks -> SUBSET Addrs]
        /\ routed' \subseteq Hooks
    BY <1>6, ApiType DEF Discard
  <2> QED BY <1>6, <2>1
          DEF Discard, Fails, LosesReply, TypeOK, queueVars, batchVars, clientVars
<1>7. CASE DiscoveryEnds
  BY <1>7 DEF DiscoveryEnds, TypeOK, queueVars, batchVars, apiVars, clientVars
<1>8. CASE FireBusy BY <1>8 DEF FireBusy, TypeOK, batchVars, apiVars, clientVars
<1>9. CASE FireIdle BY <1>9 DEF FireIdle, TypeOK, batchVars, apiVars, clientVars
<1>10. CASE Fire
  <2>1. Empty \in [Addrs -> Nat] BY DEF Empty
  <2> QED BY <1>10, <2>1 DEF Fire, TypeOK, apiVars, clientVars
<1>11. CASE Initialized
  <2>1. Proceed(webhookId, toAdd, toRemove) BY <1>11 DEF Initialized
  <2>2. toAdd \in [Addrs -> Nat] /\ toRemove \in [Addrs -> Nat] BY DEF TypeOK
  <2> QED BY <1>11, <2>1, <2>2, ProceedType
          DEF Initialized, TypeOK, apiVars, clientVars, queueVars
<1>12. CASE InitializeThrows
  BY <1>12, RequeueType DEF InitializeThrows, TypeOK, apiVars, clientVars
<1>13. ASSUME NEW h \in Hooks, CreateOk(h) PROVE TypeOK'
  <2>1. Empty \in [Addrs -> Nat] /\ toRemove \in [Addrs -> Nat] BY DEF TypeOK, Empty
  <2>2. Proceed(h, Empty, toRemove) BY <1>13 DEF CreateOk
  <2>3. Listed(toAdd) \in SUBSET Addrs BY DEF Listed
  <2>4. ApiCreates(h, Listed(toAdd)) BY <1>13 DEF CreateOk
  <2> QED BY <1>13, <2>1, <2>2, <2>3, <2>4, ProceedType, ApiType
          DEF CreateOk, TypeOK, clientVars, queueVars
<1>14. CASE CreateFails
  <2>1. Listed(toAdd) \in SUBSET Addrs BY DEF Listed
  <2>2. /\ hook' \in [Hooks -> {"absent", "active", "paused"}]
        /\ onHook' \in [Hooks -> SUBSET Addrs]
        /\ routed' \subseteq Hooks
    BY <1>14, <2>1, ApiType DEF CreateFails
  <2>3. failures' \in 0..MaxFailures BY <1>14 DEF CreateFails, Fails, LosesReply, TypeOK
  <2> QED BY <1>14, <2>2, <2>3, RequeueType DEF CreateFails, TypeOK, clientVars
<1>15. CASE UpdateOk \/ UpdateFails \/ DeleteOk \/ DeleteFails
  <2>1. Listed(toAdd) \in SUBSET Addrs BY DEF Listed
  <2>2. webhookId \in Hooks \union {NoHook} BY DEF TypeOK
  <2>3. /\ hook' \in [Hooks -> {"absent", "active", "paused"}]
        /\ onHook' \in [Hooks -> SUBSET Addrs]
        /\ routed' \subseteq Hooks
    BY <1>15, <2>1, <2>2, ApiType DEF UpdateOk, UpdateFails, DeleteOk, DeleteFails
  <2>4. failures' \in 0..MaxFailures
    BY <1>15 DEF UpdateOk, UpdateFails, DeleteOk, DeleteFails, Fails, LosesReply, TypeOK
  <2>5. Empty \in [Addrs -> Nat] BY DEF Empty
  <2>6. CASE UpdateOk
    BY <2>3, <2>5, <2>6 DEF UpdateOk, AfterUpdate, Await, Finish, TypeOK, clientVars, queueVars
  <2>7. CASE UpdateFails
    BY <2>3, <2>4, <2>7, RequeueType DEF UpdateFails, TypeOK, clientVars
  <2>8. CASE DeleteOk \/ DeleteFails
    BY <2>3, <2>4, <2>5, <2>8 DEF DeleteOk, DeleteFails, Finish, TypeOK, clientVars, queueVars
  <2> QED BY <1>15, <2>6, <2>7, <2>8
<1>16. CASE UNCHANGED vars BY <1>16 DEF vars, TypeOK
<1> QED
  BY <1>1, <1>2, <1>3, <1>4, <1>5, <1>6, <1>7, <1>8, <1>9, <1>10, <1>11, <1>12, <1>13,
     <1>14, <1>15, <1>16
  DEF Next, Discover, TimerFires, BatchSettles

(* The plugin keeps its types: in particular no list counts below zero.     *)
THEOREM TypeCorrect == Spec => []TypeOK
BY TypeInit, TypeNext, PTL DEF Spec

(* A queued change always has a timer, whatever fails and however the calls *)
(* overtake the batch.                                                      *)
THEOREM ChangesHaveTimers == Spec => []NoStrandedChange
<1>1. Init => NoStrandedChange
  BY DEF Init, NoStrandedChange, Queued, Listed, Empty
<1>2. NoStrandedChange /\ [Next]_vars => NoStrandedChange'
  <2> SUFFICES ASSUME NoStrandedChange, [Next]_vars PROVE NoStrandedChange'
    OBVIOUS
  <2>1. ASSUME UNCHANGED <<pendingAdd, pendingRemove, timer, destroyed>>
        PROVE  NoStrandedChange'
    BY <2>1 DEF NoStrandedChange, Queued, Listed
  <2>2. ASSUME NEW a \in Addrs, Subscribe(a) \/ Unsubscribe(a) PROVE NoStrandedChange'
    BY <2>2 DEF Subscribe, Unsubscribe, ScheduleBatch, NoStrandedChange
  <2>3. CASE Destroy BY <2>3 DEF Destroy, NoStrandedChange
  <2>4. CASE Discover
    BY <2>1, <2>4 DEF Discover, FetchOk, FetchFails, Reuse, Discard, DiscoveryEnds,
                      queueVars, clientVars
  <2>5. CASE FireBusy BY <2>5 DEF FireBusy, NoStrandedChange
  <2>6. CASE FireIdle
    BY <2>6 DEF FireIdle, NoStrandedChange, Queued, Listed, clientVars
  <2>7. CASE Fire
    BY <2>7 DEF Fire, NoStrandedChange, Queued, Listed, Empty, clientVars
  <2>8. ASSUME Requeue, UNCHANGED destroyed PROVE NoStrandedChange'
    BY <2>1, <2>8 DEF Requeue, ScheduleBackoff, NoStrandedChange, queueVars
  <2>9. CASE BatchSettles
    BY <2>1, <2>8, <2>9
    DEF BatchSettles, Initialized, InitializeThrows, CreateOk, CreateFails, UpdateOk,
        UpdateFails, DeleteOk, DeleteFails, Proceed, AfterUpdate, Await, Finish, queueVars,
        clientVars
  <2>10. CASE UNCHANGED vars BY <2>1, <2>10 DEF vars
  <2> QED BY <2>2, <2>3, <2>4, <2>5, <2>6, <2>7, <2>9, <2>10 DEF Next, TimerFires
<1> QED BY <1>1, <1>2, PTL DEF Spec

----------------------------------------------------------------------------
(* The webhook follows the subscriptions *)

(* The queue never holds more than the one net change of an address, and    *)
(* that change brings the address where subscribed says it should be.       *)
Net == \A a \in Addrs :
    /\ pendingAdd[a] + pendingRemove[a] <= 1
    /\ toAdd[a] + toRemove[a] <= 1
    /\ pendingAdd[a] = 1 => a \in subscribed
    /\ pendingRemove[a] = 1 => a \notin subscribed

(* What the plugin knows at each await of the batch and of discovery.       *)
Stages ==
    /\ pc \in {"idle", "deleting"} => toAdd = Empty /\ toRemove = Empty
    /\ pc \in {"creating", "updating", "deleting"} => discovery = "done"
    /\ pc = "creating" => webhookId = NoHook
    /\ pc \in {"updating", "deleting"} => webhookId # NoHook
    /\ discovery = "fetching" => webhookId = NoHook
    /\ discovery = "done" => found = {}
    /\ webhookId \notin found

(* Where a subscribed address is...                                         *)
Covered == ~destroyed => \A a \in subscribed :
    \/ pendingAdd[a] = 1
    \/ pendingRemove[a] = 0 /\ toAdd[a] = 1
    \/ pendingRemove[a] = 0 /\ toRemove[a] = 0 /\ a \in Served /\ pc # "deleting"

(* ... and what is left of one that is subscribed no more.  Until discovery *)
(* ends it cannot rely on the webhook not having it.                        *)
Dropped == ~destroyed => \A a \in asked \ subscribed :
    \/ pendingRemove[a] = 1
    \/ pendingAdd[a] = 0 /\ toRemove[a] = 1
    \/ pendingAdd[a] = 0 /\ toAdd[a] = 0 /\ a \notin Served /\ discovery = "done"

(* If calls leave the running batch alone, its changes are still wanted.    *)
Apart == ~destroyed /\ ~Overtaking => \A a \in Addrs :
    /\ toAdd[a] = 1 => a \in subscribed /\ pendingAdd[a] = 0
    /\ toRemove[a] = 1 => a \notin subscribed /\ pendingRemove[a] = 0

(* If they overtake it, nothing may send its changes back to the queue.     *)
Reliable == Overtaking =>
    /\ discovery # "failed"
    /\ webhookId # NoHook => hook[webhookId] = "active"

BatchInv == Net /\ Stages /\ Covered /\ Dropped /\ Apart /\ Reliable

IInv == TypeOK /\ BatchInv

(* Calls wait for the batch that carries their address, or no API call of a *)
(* batch fails.  The run alchemy_requeue shows that one of the two is       *)
(* needed.                                                                  *)
Orderly == ~Overtaking \/ (Failing \subseteq {"url", "delete"} /\ Losing = {})

LEMMA QueueAt ==
    ASSUME NEW list \in [Addrs -> Nat], NEW more \in [Addrs -> Nat], NEW a \in Addrs,
           NEW x \in Addrs
    PROVE  /\ Empty[x] = 0
           /\ Push(list, a)[x] = IF x = a THEN list[x] + 1 ELSE list[x]
           /\ Splice(list, a)[x] = IF x = a /\ list[x] > 0 THEN list[x] - 1 ELSE list[x]
           /\ PushAll(list, more)[x] = list[x] + more[x]
BY DEF Empty, Push, Splice, PushAll

LEMMA EmptyList ==
    ASSUME NEW list \in [Addrs -> Nat], Listed(list) = {}
    PROVE  list = Empty
<1>1. \A x \in Addrs : list[x] = 0 BY DEF Listed
<1> QED BY <1>1 DEF Empty

LEMMA NothingListed == Listed(Empty) = {}
BY DEF Listed, Empty

(* The catch block keeps the invariant: either nobody overtook the batch,   *)
(* so the changes sent back still are the net ones, or this is after        *)
(* destroy.                                                                 *)
LEMMA RequeueInv ==
    ASSUME IInv, Requeue, ~Overtaking,
           UNCHANGED <<subscribed, destroyed, asked, discovery, found, webhookId>>,
           \A a \in asked \ subscribed : a \in Served' => a \in Served \/ toAdd[a] = 1,
           \A a \in subscribed : a \in Served => a \in Served' \/ toRemove[a] = 1
    PROVE  BatchInv'
<1> USE AlchemyAssumption DEF IInv, BatchInv
<1>1. pc' = "idle" /\ toAdd' = Empty /\ toRemove' = Empty BY DEF Requeue
<1>2. \A x \in Addrs : toAdd'[x] = 0 /\ toRemove'[x] = 0 BY <1>1 DEF Empty
<1>3. Stages' BY <1>1 DEF Stages
<1>4. CASE destroyed
  <2>1. UNCHANGED <<pendingAdd, pendingRemove>> BY <1>4 DEF Requeue, queueVars
  <2> QED BY <1>2, <1>3, <1>4, <2>1
          DEF Net, Covered, Dropped, Apart, Reliable, TypeOK
<1>5. CASE ~destroyed
  <2>1. \A x \in Addrs : /\ pendingAdd'[x] = pendingAdd[x] + toAdd[x]
                         /\ pendingRemove'[x] = pendingRemove[x] + toRemove[x]
    BY <1>5 DEF Requeue, PushAll
  <2>2. \A x \in Addrs : /\ pendingAdd[x] \in Nat /\ pendingRemove[x] \in Nat
                         /\ toAdd[x] \in Nat /\ toRemove[x] \in Nat
    BY DEF TypeOK
  <2>3. Net' BY <1>2, <1>5, <2>1, <2>2 DEF Net, Apart
  <2>4. Covered'
    <3> SUFFICES ASSUME NEW a \in subscribed
                 PROVE  \/ pendingAdd'[a] = 1
                        \/ /\ pendingRemove'[a] = 0 /\ toRemove'[a] = 0
                           /\ a \in Served' /\ pc' # "deleting"
      BY DEF Covered
    <3>1. a \in Addrs BY DEF TypeOK
    <3>2. CASE pendingAdd[a] = 1 \/ toAdd[a] = 1
      BY <1>5, <2>1, <2>2, <3>1, <3>2 DEF Net, Apart
    <3>3. CASE pendingRemove[a] = 0 /\ toRemove[a] = 0 /\ a \in Served
      BY <1>1, <1>2, <2>1, <3>1, <3>3
    <3> QED BY <1>5, <3>2, <3>3 DEF Covered
  <2>5. Dropped'
    <3> SUFFICES ASSUME NEW a \in asked \ subscribed
                 PROVE  \/ pendingRemove'[a] = 1
                        \/ /\ pendingAdd'[a] = 0 /\ toAdd'[a] = 0
                           /\ a \notin Served' /\ discovery' = "done"
      BY DEF Dropped
    <3>1. a \in Addrs BY DEF TypeOK
    <3>2. CASE pendingRemove[a] = 1 \/ toRemove[a] = 1
      BY <1>5, <2>1, <2>2, <3>1, <3>2 DEF Net, Apart
    <3>3. CASE pendingAdd[a] = 0 /\ toAdd[a] = 0 /\ a \notin Served /\ discovery = "done"
      BY <1>2, <2>1, <3>1, <3>3
    <3> QED BY <1>5, <3>2, <3>3 DEF Dropped
  <2>6. Apart' BY <1>2 DEF Apart
  <2> QED BY <1>3, <2>3, <2>4, <2>5, <2>6 DEF Reliable
<1> QED BY <1>4, <1>5

LEMMA BatchInit == Init => BatchInv
<1> SUFFICES ASSUME Init PROVE BatchInv
  OBVIOUS
<1>1. /\ subscribed = {} /\ found = {} /\ asked = {}
      /\ pendingAdd = Empty /\ pendingRemove = Empty /\ toAdd = Empty /\ toRemove = Empty
      /\ pc = "idle" /\ discovery = "fetching" /\ webhookId = NoHook
  BY DEF Init
<1>2. \A x \in Addrs : Empty[x] = 0 BY DEF Empty
<1> QED BY <1>1, <1>2 DEF BatchInv, Net, Stages, Covered, Dropped, Apart, Reliable

(* A batch that goes on or ends without an error keeps the invariant: what  *)
(* Proceed drops from the lists is already where it should be.              *)
LEMMA ProceedInv ==
    ASSUME IInv, NEW id \in Hooks \union {NoHook}, NEW add \in [Addrs -> Nat],
           Proceed(id, add, toRemove),
           UNCHANGED <<subscribed, destroyed, asked, found>>,
           webhookId' = id, id \notin found, discovery = "done", discovery' = "done",
           id # NoHook /\ Overtaking => hook'[id] = "active",
           \A x \in Addrs : add[x] = 0 \/ add[x] = toAdd[x],
           \A x \in subscribed : add[x] = 0 =>
               (toAdd[x] = 1 => x \in Served') /\ (x \in Served => x \in Served'),
           \A x \in asked \ subscribed :
               x \in Served' /\ x \notin Served => toAdd[x] = 1
    PROVE  BatchInv'
<1> USE DEF IInv, BatchInv
<1>1. UNCHANGED <<pendingAdd, pendingRemove>>
  BY DEF Proceed, Await, AfterUpdate, Finish, queueVars
<1>2. \A x \in Addrs : Empty[x] = 0 BY DEF Empty
<1>3. toAdd' \in [Addrs -> Nat] /\ toRemove' \in [Addrs -> Nat]
  BY ProceedType DEF TypeOK
<1>4. \A x \in Addrs : toAdd'[x] = add[x]
  <2>1. CASE Listed(add) # {}
    BY <2>1 DEF Proceed, Await
  <2>2. CASE Listed(add) = {}
    <3>1. add = Empty BY <2>2, EmptyList
    <3> QED BY <2>2, <3>1 DEF Proceed, Await, AfterUpdate, Finish
  <2> QED BY <2>1, <2>2
<1>5. \A x \in Addrs : \/ toRemove'[x] = toRemove[x]
                       \/ toRemove'[x] = 0 /\ id = NoHook
  <2>1. CASE id = NoHook
    BY <1>2, <2>1 DEF Proceed, Await, Finish
  <2>2. CASE id # NoHook /\ (Listed(add) # {} \/ Listed(toRemove) # {})
    BY <2>2 DEF Proceed, Await
  <2>3. CASE Listed(toRemove) = {}
    <3>1. toRemove = Empty BY <2>3, EmptyList DEF TypeOK
    <3> QED BY <1>2, <3>1 DEF Proceed, Await, AfterUpdate, Finish
  <2> QED BY <2>1, <2>2, <2>3
<1>6. /\ pc' \in {"idle", "deleting"} => toAdd' = Empty /\ toRemove' = Empty
      /\ pc' = "deleting" => subscribed = {}
      /\ pc' = "creating" => id = NoHook
      /\ pc' \in {"updating", "deleting"} => id # NoHook
  BY DEF Proceed, Await, AfterUpdate, Finish
<1>7. \A x \in Addrs : /\ pendingAdd[x] \in Nat /\ pendingRemove[x] \in Nat
                       /\ toAdd[x] \in Nat /\ toRemove[x] \in Nat /\ add[x] \in Nat
  BY DEF TypeOK
<1>8. Net' BY <1>1, <1>4, <1>5, <1>7 DEF Net
<1>9. Stages' BY <1>6 DEF Stages
<1>10. Covered'
  <2> SUFFICES ASSUME ~destroyed, NEW a \in subscribed
               PROVE  \/ pendingAdd[a] = 1
                      \/ pendingRemove[a] = 0 /\ toAdd'[a] = 1
                      \/ /\ pendingRemove[a] = 0 /\ toRemove'[a] = 0
                         /\ a \in Served' /\ pc' # "deleting"
    BY <1>1 DEF Covered
  <2>1. a \in Addrs BY DEF TypeOK
  <2>2. pc' # "deleting" BY <1>6
  <2>3. CASE pendingRemove[a] = 0 /\ toAdd[a] = 1
    <3>1. toRemove'[a] = 0 BY <1>5, <1>7, <2>1, <2>3 DEF Net
    <3>2. add[a] = 1 \/ a \in Served' BY <2>1, <2>3
    <3> QED BY <1>4, <2>1, <2>2, <2>3, <3>1, <3>2
  <2>4. CASE pendingRemove[a] = 0 /\ toRemove[a] = 0 /\ a \in Served
    <3>1. toRemove'[a] = 0 BY <1>5, <2>1, <2>4
    <3>2. add[a] = 1 \/ a \in Served' BY <1>7, <2>1, <2>4 DEF Net
    <3> QED BY <1>4, <2>1, <2>2, <2>4, <3>1, <3>2
  <2> QED BY <2>3, <2>4 DEF Covered
<1>11. Dropped'
  <2> SUFFICES ASSUME ~destroyed, NEW a \in asked \ subscribed
               PROVE  \/ pendingRemove[a] = 1
                      \/ pendingAdd[a] = 0 /\ toRemove'[a] = 1
                      \/ pendingAdd[a] = 0 /\ toAdd'[a] = 0 /\ a \notin Served'
    BY <1>1 DEF Dropped
  <2>1. a \in Addrs BY DEF TypeOK
  <2>2. CASE pendingAdd[a] = 0 /\ toRemove[a] = 1
    <3>1. toAdd[a] = 0 BY <1>7, <2>1, <2>2 DEF Net
    <3>2. toAdd'[a] = 0 BY <1>4, <2>1, <3>1
    <3>3. id = NoHook => Served' = {} BY DEF Served
    <3> QED BY <1>5, <2>1, <2>2, <3>2, <3>3
  <2>3. CASE pendingAdd[a] = 0 /\ toAdd[a] = 0 /\ a \notin Served
    BY <1>4, <2>1, <2>3
  <2> QED BY <2>2, <2>3 DEF Dropped
<1>12. Apart' BY <1>1, <1>4, <1>5, <1>7 DEF Apart
<1>13. Reliable' BY DEF Reliable
<1> QED BY <1>8, <1>9, <1>10, <1>11, <1>12, <1>13

LEMMA BatchNext ==
    ASSUME Orderly, IInv, [Next]_vars
    PROVE  BatchInv'
<1> USE DEF IInv, BatchInv
<1>0. /\ \A x \in Addrs : Empty[x] = 0
      /\ \A x \in Addrs : /\ pendingAdd[x] \in Nat /\ pendingRemove[x] \in Nat
                          /\ toAdd[x] \in Nat /\ toRemove[x] \in Nat
  BY DEF TypeOK, Empty
<1>1. ASSUME UNCHANGED <<subscribed, pendingAdd, pendingRemove, toAdd, toRemove, pc, discovery,
                         found, webhookId, destroyed, hook, onHook, asked>>
      PROVE  BatchInv'
  BY <1>1 DEF Net, Stages, Covered, Dropped, Apart, Reliable, Served
<1>2. ASSUME NEW a \in Addrs, Subscribe(a) \/ Unsubscribe(a) PROVE BatchInv'
  <2>1. /\ UNCHANGED <<toAdd, toRemove, pc, discovery, found, webhookId, destroyed, hook, onHook>>
        /\ ~Overtaking => toAdd[a] = 0 /\ toRemove[a] = 0
    BY <1>0, <1>2 DEF Subscribe, Unsubscribe, MayCall, Listed, batchVars, apiVars
  <2>2. Stages' /\ Reliable' /\ Served' = Served
    BY <2>1 DEF Stages, Reliable, Served
  <2>3. CASE Subscribe(a)
    <3>1. /\ a \notin subscribed /\ subscribed' = subscribed \union {a}
          /\ asked' = asked \union {a}
          /\ \A x \in Addrs :
               /\ pendingAdd'[x] = IF x = a THEN pendingAdd[x] + 1 ELSE pendingAdd[x]
               /\ pendingRemove'[x] = IF x = a /\ pendingRemove[x] > 0
                                      THEN pendingRemove[x] - 1 ELSE pendingRemove[x]
      <4>1. /\ a \notin subscribed /\ subscribed' = subscribed \union {a}
            /\ asked' = asked \union {a}
            /\ pendingAdd' = Push(pendingAdd, a) /\ pendingRemove' = Splice(pendingRemove, a)
        BY <2>3 DEF Subscribe
      <4> QED BY <4>1, QueueAt DEF TypeOK
    <3>2. Net' BY <1>0, <2>1, <3>1 DEF Net
    <3>3. Covered'
      <4> SUFFICES ASSUME ~destroyed, NEW x \in subscribed \union {a}
                   PROVE  \/ pendingAdd'[x] = 1
                          \/ pendingRemove'[x] = 0 /\ toAdd[x] = 1
                          \/ /\ pendingRemove'[x] = 0 /\ toRemove[x] = 0
                             /\ x \in Served /\ pc # "deleting"
        BY <2>1, <2>2, <3>1 DEF Covered
      <4>1. CASE x = a BY <1>0, <3>1, <4>1 DEF Net
      <4>2. CASE x # a BY <3>1, <4>2 DEF Covered, TypeOK
      <4> QED BY <4>1, <4>2
    <3>4. Dropped' BY <1>0, <2>1, <2>2, <3>1 DEF Dropped, TypeOK
    <3>5. Apart' BY <1>0, <2>1, <3>1 DEF Apart
    <3> QED BY <2>2, <3>2, <3>3, <3>4, <3>5
  <2>4. CASE Unsubscribe(a)
    <3>1. /\ a \in subscribed /\ subscribed' = subscribed \ {a} /\ asked' = asked
          /\ \A x \in Addrs :
               /\ pendingRemove'[x] = IF x = a THEN pendingRemove[x] + 1 ELSE pendingRemove[x]
               /\ pendingAdd'[x] = IF x = a /\ pendingAdd[x] > 0
                                   THEN pendingAdd[x] - 1 ELSE pendingAdd[x]
      BY <2>4, QueueAt DEF Unsubscribe, TypeOK
    <3>2. Net' BY <1>0, <2>1, <3>1 DEF Net
    <3>3. Covered' BY <1>0, <2>1, <2>2, <3>1 DEF Covered, TypeOK
    <3>4. Dropped'
      <4> SUFFICES ASSUME ~destroyed, NEW x \in asked \ (subscribed \ {a})
                   PROVE  \/ pendingRemove'[x] = 1
                          \/ pendingAdd'[x] = 0 /\ toRemove[x] = 1
                          \/ /\ pendingAdd'[x] = 0 /\ toAdd[x] = 0
                             /\ x \notin Served /\ discovery = "done"
        BY <2>1, <2>2, <3>1 DEF Dropped
      <4>1. CASE x = a BY <1>0, <3>1, <4>1 DEF Net
      <4>2. CASE x # a BY <3>1, <4>2 DEF Dropped, TypeOK
      <4> QED BY <4>1, <4>2
    <3>5. Apart' BY <1>0, <2>1, <3>1 DEF Apart
    <3> QED BY <2>2, <3>2, <3>3, <3>4, <3>5
  <2> QED BY <1>2, <2>3, <2>4
<1>3. CASE Destroy
  BY <1>0, <1>3 DEF Destroy, Net, Stages, Covered, Dropped, Apart, Reliable, batchVars, apiVars
<1>4. CASE FetchOk \/ DiscoveryEnds
  BY <1>4, AlchemyAssumption
  DEF FetchOk, DiscoveryEnds, Net, Stages, Covered, Dropped, Apart, Reliable, Served, TypeOK,
      queueVars, batchVars, apiVars, clientVars
<1>5. CASE FetchFails
  <2>1. ~Overtaking BY <1>5 DEF FetchFails, Fails, Orderly
  <2> QED BY <1>5, <2>1
          DEF FetchFails, Net, Stages, Covered, Dropped, Apart, Reliable, Served,
              queueVars, batchVars, apiVars, clientVars
<1>6. ASSUME NEW h \in Hooks, Reuse(h) PROVE BatchInv'
  <2>1. Served = {} BY <1>6 DEF Reuse, Served
  <2>2. Stages' BY <1>6 DEF Reuse, Stages, batchVars
  <2>3. Reliable' BY <1>6 DEF Reuse, Reliable
  <2> QED BY <1>6, <2>1, <2>2, <2>3
          DEF Reuse, Net, Covered, Dropped, Apart, queueVars, batchVars, clientVars
<1>7. ASSUME NEW h \in Hooks, Discard(h) PROVE BatchInv'
  <2>1. h # webhookId BY <1>7 DEF Discard, Stages
  <2>2. webhookId # NoHook =>
          hook'[webhookId] = hook[webhookId] /\ onHook'[webhookId] = onHook[webhookId]
    BY <1>7, <2>1 DEF Discard, ApiDeletes, apiVars, TypeOK
  <2>3. Served' = Served BY <1>7, <2>2 DEF Discard, Served
  <2> QED BY <1>7, <2>2, <2>3
          DEF Discard, Net, Stages, Covered, Dropped, Apart, Reliable,
              queueVars, batchVars, clientVars
<1>8. CASE FireBusy \/ FireIdle
  BY <1>1, <1>8 DEF FireBusy, FireIdle, batchVars, apiVars, clientVars
<1>9. CASE Fire
  <2>1. /\ toAdd = Empty /\ toRemove = Empty /\ pc = "idle"
        /\ toAdd' = pendingAdd /\ toRemove' = pendingRemove
        /\ pendingAdd' = Empty /\ pendingRemove' = Empty
        /\ pc' = "initializing" /\ Served' = Served
        /\ UNCHANGED <<subscribed, destroyed, asked, discovery, found, webhookId, hook>>
    BY <1>9 DEF Fire, Processing, Stages, Served, apiVars, clientVars
  <2> QED BY <1>0, <2>1 DEF Net, Stages, Covered, Dropped, Apart, Reliable, TypeOK
<1>10. CASE Initialized
  <2>1. /\ UNCHANGED <<subscribed, destroyed, asked, found, webhookId, hook, onHook>>
        /\ discovery = "done" /\ discovery' = "done" /\ Served' = Served
    BY <1>10 DEF Initialized, Served, apiVars, clientVars
  <2>2. webhookId \in Hooks \union {NoHook} /\ webhookId \notin found BY DEF TypeOK, Stages
  <2>3. Proceed(webhookId, toAdd, toRemove) BY <1>10 DEF Initialized
  <2>4. toAdd \in [Addrs -> Nat] /\ subscribed \subseteq Addrs BY DEF TypeOK
  <2>5. webhookId # NoHook /\ Overtaking => hook'[webhookId] = "active"
    BY <2>1 DEF Reliable
  <2> QED BY <1>0, <2>1, <2>2, <2>3, <2>4, <2>5, ProceedInv
<1>11. CASE InitializeThrows
  <2>1. ~Overtaking BY <1>11 DEF InitializeThrows, Reliable
  <2> QED BY <1>11, <2>1, RequeueInv DEF InitializeThrows, Served, apiVars, clientVars
<1>12. ASSUME NEW h \in Hooks, CreateOk(h) PROVE BatchInv'
  <2>1. /\ UNCHANGED <<subscribed, destroyed, asked, found, discovery>>
        /\ webhookId' = h /\ webhookId = NoHook /\ discovery = "done"
        /\ hook'[h] = "active" /\ onHook'[h] = Listed(toAdd)
        /\ Proceed(h, Empty, toRemove)
        /\ hook[h] = "absent"
    BY <1>12 DEF CreateOk, ApiCreates, Stages, clientVars, TypeOK
  <2>2. Served = {} /\ Served' = Listed(toAdd)
    BY <2>1, AlchemyAssumption DEF Served
  <2>3. Empty \in [Addrs -> Nat] BY DEF Empty
  <2>4. found = {} BY <2>1 DEF Stages
  <2>5. \A x \in Addrs : toAdd[x] = 1 => x \in Served' BY <2>2 DEF Listed
  <2>6. \A x \in Addrs : x \in Served' => toAdd[x] = 1 BY <1>0, <2>2 DEF Listed, Net
  <2>7. subscribed \subseteq Addrs /\ asked \subseteq Addrs BY DEF TypeOK
  <2>8. \A x \in subscribed : (toAdd[x] = 1 => x \in Served') /\ (x \in Served => x \in Served')
    BY <2>2, <2>5, <2>7
  <2>9. \A x \in asked \ subscribed : x \in Served' /\ x \notin Served => toAdd[x] = 1
    BY <2>6, <2>7
  <2> QED BY <1>0, <2>1, <2>3, <2>4, <2>8, <2>9, ProceedInv
<1>13. CASE CreateFails
  <2>1. ~Overtaking BY <1>13 DEF CreateFails, Fails, LosesReply, Orderly
  <2>2. Served = {} /\ Served' = {} BY <1>13 DEF CreateFails, Stages, Served
  <2> QED BY <1>13, <2>1, <2>2, RequeueInv DEF CreateFails, clientVars
<1>14. ASSUME ApiUpdates(webhookId, Listed(toAdd), Listed(toRemove)), pc = "updating",
              UNCHANGED webhookId
       PROVE  \A x \in Addrs : x \in Served' <=>
                (x \in Served /\ toRemove[x] = 0) \/ toAdd[x] = 1
  <2>1. webhookId \in Hooks /\ webhookId # NoHook BY <1>14 DEF Stages, TypeOK
  <2>2. PICK both \in BothLists :
          onHook'[webhookId] = IF both = "kept"
                               THEN (onHook[webhookId] \ Listed(toRemove)) \union Listed(toAdd)
                               ELSE (onHook[webhookId] \union Listed(toAdd)) \ Listed(toRemove)
    BY <1>14, <2>1 DEF ApiUpdates, TypeOK
  <2>3. \A x \in Addrs : /\ x \in Listed(toAdd) <=> toAdd[x] = 1
                         /\ x \in Listed(toRemove) <=> toRemove[x] = 1
                         /\ ~(toAdd[x] = 1 /\ toRemove[x] = 1)
                         /\ toRemove[x] \in {0, 1}
    BY <1>0 DEF Net, Listed
  <2>4. Served = onHook[webhookId] /\ Served' = onHook'[webhookId]
    BY <1>14, <2>1 DEF Served
  <2> QED BY <2>2, <2>3, <2>4
<1>15. CASE UpdateOk
  <2>1. /\ ApiUpdates(webhookId, Listed(toAdd), Listed(toRemove)) /\ pc = "updating"
        /\ discovery = "done" /\ webhookId # NoHook
        /\ toAdd' = Empty /\ toRemove' = Empty
        /\ pc' \in {"idle", "deleting"} /\ (pc' = "deleting" => subscribed = {})
        /\ UNCHANGED <<subscribed, destroyed, asked, discovery, found, webhookId,
                        pendingAdd, pendingRemove, hook>>
    BY <1>15 DEF UpdateOk, ApiUpdates, AfterUpdate, Await, Finish, Stages, clientVars, queueVars
  <2>2. \A x \in Addrs : x \in Served' <=> (x \in Served /\ toRemove[x] = 0) \/ toAdd[x] = 1
    BY <1>14, <2>1
  <2>3. Stages' BY <2>1 DEF Stages
  <2>4. Net' /\ Apart' /\ Reliable' BY <1>0, <2>1 DEF Net, Apart, Reliable
  <2>5. Covered'
    <3> SUFFICES ASSUME ~destroyed, NEW x \in subscribed
                 PROVE  pendingAdd[x] = 1 \/ (pendingRemove[x] = 0 /\ x \in Served')
      BY <1>0, <2>1 DEF Covered, TypeOK
    <3> QED BY <2>2 DEF Covered, TypeOK
  <2>6. Dropped'
    <3> SUFFICES ASSUME ~destroyed, NEW x \in asked \ subscribed
                 PROVE  pendingRemove[x] = 1 \/ (pendingAdd[x] = 0 /\ x \notin Served')
      BY <1>0, <2>1 DEF Dropped, TypeOK
    <3>1. x \in Addrs BY DEF TypeOK
    <3>2. CASE pendingAdd[x] = 0 /\ toRemove[x] = 1
      BY <1>0, <2>2, <3>1, <3>2 DEF Net
    <3>3. CASE pendingAdd[x] = 0 /\ toAdd[x] = 0 /\ x \notin Served
      BY <2>2, <3>1, <3>3
    <3> QED BY <3>2, <3>3 DEF Dropped
  <2> QED BY <2>3, <2>4, <2>5, <2>6
<1>16. CASE UpdateFails
  <2>1. /\ pc = "updating" /\ webhookId # NoHook /\ Requeue
        /\ UNCHANGED <<subscribed, destroyed, asked, discovery, found, webhookId>>
    BY <1>16 DEF UpdateFails, Stages, clientVars
  <2>2. ~Overtaking
    BY <1>16, <2>1 DEF UpdateFails, Fails, LosesReply, Orderly, Reliable
  <2>3. \/ Served' = Served
        \/ \A x \in Addrs : x \in Served' <=> (x \in Served /\ toRemove[x] = 0) \/ toAdd[x] = 1
    BY <1>14, <1>16, <2>1 DEF UpdateFails, Served, apiVars
  <2>4. \A x \in asked \ subscribed : x \in Served' => x \in Served \/ toAdd[x] = 1
    BY <2>3 DEF TypeOK
  <2>5. \A x \in subscribed : x \in Served => x \in Served' \/ toRemove[x] = 1
    <3> TAKE x \in subscribed
    <3>1. x \in Addrs BY DEF TypeOK
    <3>2. toRemove[x] = 0 \/ toRemove[x] = 1 BY <1>0, <3>1 DEF Net
    <3> QED BY <2>3, <3>1, <3>2
  <2> QED BY <2>1, <2>2, <2>4, <2>5, RequeueInv
<1>17. CASE DeleteOk \/ DeleteFails
  <2>1. /\ toAdd = Empty /\ toRemove = Empty /\ pc = "deleting" /\ pc' = "idle"
        /\ toAdd' = Empty /\ toRemove' = Empty /\ discovery = "done"
        /\ UNCHANGED <<subscribed, destroyed, asked, discovery, found, pendingAdd, pendingRemove>>
    BY <1>17 DEF DeleteOk, DeleteFails, Finish, Stages, clientVars, queueVars
  <2>2. webhookId # NoHook /\ webhookId \in Hooks BY <2>1 DEF Stages, TypeOK
  <2>3. Served' = {} \/ Served' = Served
    BY <1>17, <2>2 DEF DeleteOk, DeleteFails, ApiDeletes, Served, apiVars, TypeOK
  <2>4. webhookId' = NoHook \/ webhookId' = webhookId
    BY <1>17 DEF DeleteOk, DeleteFails
  <2>5. Stages' BY <2>1, <2>4, AlchemyAssumption DEF Stages
  <2>6. Net' /\ Apart' BY <1>0, <2>1 DEF Net, Apart
  <2>7. Covered' BY <1>0, <2>1 DEF Covered, TypeOK
  <2>8. Dropped' BY <1>0, <2>1, <2>3 DEF Dropped, TypeOK
  <2>9. Reliable'
    BY <1>17, <2>1, <2>2 DEF DeleteOk, DeleteFails, Fails, LosesReply, Orderly, Reliable, apiVars
  <2> QED BY <2>5, <2>6, <2>7, <2>8, <2>9
<1>18. CASE UNCHANGED vars BY <1>1, <1>18 DEF vars
<1> QED
  BY <1>2, <1>3, <1>4, <1>5, <1>6, <1>7, <1>8, <1>9, <1>10, <1>11, <1>12, <1>13, <1>14,
     <1>15, <1>16, <1>17, <1>18
  DEF Next, Discover, TimerFires, BatchSettles

LEMMA Inductive ==
    ASSUME Orderly
    PROVE  Spec => []IInv
<1>1. Init => IInv BY TypeInit, BatchInit DEF IInv
<1>2. IInv /\ [Next]_vars => IInv' BY TypeNext, BatchNext DEF IInv
<1> QED BY <1>1, <1>2, PTL DEF Spec

(* Under Orderly every subscribed address is queued, in the batch or on the *)
(* webhook at every moment, for any number of addresses, webhooks, calls    *)
(* and failures.                                                            *)
THEOREM NothingUncovered ==
    ASSUME Orderly
    PROVE  Spec => []Coverage
<1>1. IInv => Coverage
  BY DEF IInv, BatchInv, Covered, Coverage
<1> QED BY <1>1, Inductive, PTL

(* Under Orderly, when nothing is queued or in progress the webhook holds   *)
(* exactly the subscribed addresses among those ever subscribed.            *)
THEOREM QuietMeansSynced ==
    ASSUME Orderly
    PROVE  Spec => []Synced
<1>1. IInv => Synced
  <2> SUFFICES ASSUME IInv, ~Queued, ~Processing, ~destroyed
               PROVE  subscribed \subseteq Served /\ Served \intersect asked \subseteq subscribed
    BY DEF Synced
  <2>1. \A x \in Addrs : pendingAdd[x] = 0 /\ pendingRemove[x] = 0
    BY DEF Queued, Listed, IInv, TypeOK
  <2>2. \A x \in Addrs : toAdd[x] = 0 /\ toRemove[x] = 0
    BY DEF Processing, IInv, BatchInv, Stages, Empty
  <2>3. subscribed \subseteq Addrs /\ asked \subseteq Addrs BY DEF IInv, TypeOK
  <2>4. subscribed \subseteq Served
    BY <2>1, <2>2, <2>3 DEF IInv, BatchInv, Covered
  <2>5. Served \intersect asked \subseteq subscribed
    BY <2>1, <2>2, <2>3 DEF IInv, BatchInv, Dropped
  <2> QED BY <2>4, <2>5
<1> QED BY <1>1, Inductive, PTL

----------------------------------------------------------------------------
(* One webhook, and the backoff *)

LEMMA StagesNext == TypeOK /\ Stages /\ [Next]_vars => Stages'
<1> SUFFICES ASSUME TypeOK, Stages, [Next]_vars PROVE Stages'
  OBVIOUS
<1> USE AlchemyAssumption DEF Stages
<1>1. CASE UNCHANGED <<pc, toAdd, toRemove, discovery, found, webhookId>> BY <1>1
<1>2. CASE Discover
  <2>1. UNCHANGED <<pc, toAdd, toRemove>>
    BY <1>2 DEF Discover, FetchOk, FetchFails, Reuse, Discard, DiscoveryEnds, batchVars
  <2> QED BY <1>2, <2>1
          DEF Discover, FetchOk, FetchFails, Reuse, Discard, DiscoveryEnds, TypeOK
<1>3. CASE Fire BY <1>3 DEF Fire
<1>4. ASSUME NEW id, NEW add, NEW remove, Proceed(id, add, remove)
      PROVE  /\ pc' \in {"idle", "deleting"} => toAdd' = Empty /\ toRemove' = Empty
             /\ pc' = "creating" => id = NoHook
             /\ pc' \in {"updating", "deleting"} => id # NoHook
  BY <1>4 DEF Proceed, Await, AfterUpdate, Finish
<1>5. CASE Initialized \/ \E h \in Hooks : CreateOk(h)
  <2>1. /\ UNCHANGED <<discovery, found>> /\ discovery = "done"
        /\ webhookId' \in Hooks \union {NoHook}
        /\ \E add \in {toAdd, Empty} : Proceed(webhookId', add, toRemove)
    BY <1>5 DEF Initialized, CreateOk, TypeOK
  <2> QED BY <1>4, <2>1
<1>6. CASE InitializeThrows \/ CreateFails \/ UpdateFails
  <2>1. Requeue /\ UNCHANGED <<discovery, found, webhookId>>
    BY <1>6 DEF InitializeThrows, CreateFails, UpdateFails
  <2> QED BY <2>1 DEF Requeue
<1>7. CASE UpdateOk BY <1>7 DEF UpdateOk, AfterUpdate, Await, Finish
<1>8. CASE DeleteOk \/ DeleteFails BY <1>8 DEF DeleteOk, DeleteFails, Finish
<1> QED
  BY <1>1, <1>2, <1>3, <1>5, <1>6, <1>7, <1>8
  DEF Next, Subscribe, Unsubscribe, Destroy, TimerFires, FireBusy, FireIdle, BatchSettles,
      batchVars, vars

(* Nobody loses sight of a webhook: deletes do not fail, and the reply to a *)
(* create is not lost.  After such a failure the webhook stays until the    *)
(* next process discovers it.                                               *)
InSight == "delete" \notin Failing /\ "create" \notin Losing

(* Each active webhook is the plugin's, or discovery has still to look at it. *)
Known == \A h \in Hooks : hook[h] = "active" =>
    \/ discovery \in {"fetching", "failed"} \/ h = webhookId
    \/ discovery = "listing" /\ h \in found

LEMMA KnownNext ==
    ASSUME InSight
    PROVE  TypeOK /\ Stages /\ Known /\ [Next]_vars => Known'
<1> SUFFICES ASSUME TypeOK, Stages, Known, [Next]_vars PROVE Known'
  OBVIOUS
<1> USE AlchemyAssumption DEF Known
<1>1. CASE UNCHANGED <<hook, discovery, found, webhookId>> BY <1>1
<1>2. CASE FetchOk \/ FetchFails \/ DiscoveryEnds
  BY <1>2 DEF FetchOk, FetchFails, DiscoveryEnds, apiVars
<1>3. ASSUME NEW h \in Hooks, Reuse(h) PROVE Known' BY <1>3 DEF Reuse
<1>4. ASSUME NEW h \in Hooks, Discard(h) PROVE Known'
  <2>1. ApiDeletes(h) BY <1>4 DEF Discard, Fails, InSight
  <2>2. \A g \in Hooks : hook'[g] = "active" => hook[g] = "active" /\ g # h
    BY <2>1 DEF ApiDeletes, TypeOK
  <2>3. found' = found \ {h} /\ UNCHANGED <<discovery, webhookId>> BY <1>4 DEF Discard
  <2> QED BY <2>2, <2>3
<1>5. ASSUME NEW h \in Hooks, CreateOk(h) PROVE Known'
  <2>1. /\ webhookId = NoHook /\ discovery = "done" /\ webhookId' = h
        /\ hook' = [hook EXCEPT ![h] = "active"]
        /\ UNCHANGED <<discovery, found>>
    BY <1>5 DEF CreateOk, ApiCreates, Stages
  <2> QED BY <2>1 DEF TypeOK
<1>6. CASE CreateFails
  BY <1>1, <1>6 DEF CreateFails, LosesReply, InSight, apiVars
<1>7. CASE UpdateOk \/ UpdateFails
  BY <1>1, <1>7 DEF UpdateOk, UpdateFails, ApiUpdates, apiVars
<1>8. CASE DeleteOk \/ DeleteFails
  <2>1. discovery = "done" /\ UNCHANGED <<discovery, found>>
    BY <1>8 DEF DeleteOk, DeleteFails, Stages
  <2>2. \/ ApiDeletes(webhookId)
        \/ UNCHANGED <<hook, webhookId>>
    BY <1>8 DEF DeleteOk, DeleteFails, apiVars
  <2>3. CASE ApiDeletes(webhookId)
    <3>1. \A h \in Hooks : hook'[h] = "active" => hook[h] = "active" /\ h # webhookId
      BY <2>3 DEF ApiDeletes, TypeOK
    <3>2. found = {} BY <2>1 DEF Stages
    <3> QED BY <2>1, <3>1, <3>2
  <2> QED BY <1>1, <2>1, <2>2, <2>3
<1> QED
  BY <1>1, <1>2, <1>3, <1>4, <1>5, <1>6, <1>7, <1>8
  DEF Next, Subscribe, Unsubscribe, Destroy, Discover, TimerFires, FireBusy, FireIdle, Fire,
      BatchSettles, Initialized, InitializeThrows, apiVars, vars

(* As long as no webhook is lost sight of, discovery leaves at most one     *)
(* active webhook and the plugin never makes a second, however many an      *)
(* earlier process left and whatever else fails.                            *)
THEOREM OneAtATime ==
    ASSUME InSight
    PROVE  Spec => []OneWebhook
<1>1. Init => TypeOK /\ Stages /\ Known
  BY TypeInit, BatchInit DEF BatchInv, Init, Known
<1>2. TypeOK /\ Stages /\ Known /\ [Next]_vars => (TypeOK /\ Stages /\ Known)'
  BY TypeNext, StagesNext, KnownNext
<1>3. Known => OneWebhook
  <2> SUFFICES ASSUME Known, discovery = "done"
               PROVE  Cardinality({h \in Hooks : hook[h] = "active"}) <= 1
    BY DEF OneWebhook
  <2>1. {h \in Hooks : hook[h] = "active"} \subseteq {webhookId} BY DEF Known
  <2>2. CASE {h \in Hooks : hook[h] = "active"} = {} BY <2>2, FS_EmptySet
  <2>3. CASE {h \in Hooks : hook[h] = "active"} = {webhookId} BY <2>3, FS_Singleton
  <2> QED BY <2>1, <2>2, <2>3
<1> QED BY <1>1, <1>2, <1>3, PTL DEF Spec

(* A batch carries something until its update is done...                    *)
Carries ==
    pc \in {"initializing", "creating", "updating"} =>
        Listed(toAdd) # {} \/ Listed(toRemove) # {}

(* ... so that after a failure something is queued, which calls can turn    *)
(* into its opposite but never take back, and no timer fires in vain.       *)
Waits == pc = "idle" /\ retryCount > 0 /\ ~destroyed => timer = "backoff" /\ Queued

LEMMA StillQueued ==
    ASSUME TypeOK, NEW a \in Addrs, Subscribe(a) \/ Unsubscribe(a)
    PROVE  Queued'
<1>1. pendingAdd' = Push(pendingAdd, a) \/ pendingRemove' = Push(pendingRemove, a)
  BY DEF Subscribe, Unsubscribe
<1>2. Push(pendingAdd, a)[a] > 0 /\ Push(pendingRemove, a)[a] > 0
  BY DEF Push, TypeOK
<1>3. pendingAdd'[a] > 0 \/ pendingRemove'[a] > 0 BY <1>1, <1>2
<1> QED BY <1>3 DEF Queued, Listed

LEMMA WaitsNext == TypeOK /\ Carries /\ Waits /\ [Next]_vars => Carries' /\ Waits'
<1> SUFFICES ASSUME TypeOK, Carries, Waits, [Next]_vars PROVE Carries' /\ Waits'
  OBVIOUS
<1>1. ASSUME UNCHANGED <<pc, toAdd, toRemove, retryCount, destroyed, timer, pendingAdd,
                         pendingRemove>>
      PROVE  Carries' /\ Waits'
  BY <1>1 DEF Carries, Waits, Queued, Listed
<1>2. ASSUME NEW a \in Addrs, Subscribe(a) \/ Unsubscribe(a) PROVE Carries' /\ Waits'
  <2>1. Queued' BY <1>2, StillQueued
  <2>2. UNCHANGED <<pc, toAdd, toRemove, retryCount, destroyed>> /\ ScheduleBatch
    BY <1>2 DEF Subscribe, Unsubscribe, batchVars
  <2> QED BY <2>1, <2>2 DEF ScheduleBatch, Carries, Waits, Listed
<1>3. CASE Destroy BY <1>3 DEF Destroy, batchVars, Carries, Waits, Listed
<1>4. CASE Discover
  BY <1>1, <1>4 DEF Discover, FetchOk, FetchFails, Reuse, Discard, DiscoveryEnds, queueVars,
     batchVars, clientVars
<1>5. CASE FireBusy
  BY <1>5 DEF FireBusy, Processing, batchVars, Carries, Waits, Listed
<1>6. CASE FireIdle
  BY <1>6 DEF FireIdle, Processing, batchVars, clientVars, Carries, Waits, Listed
<1>7. CASE Fire
  BY <1>7 DEF Fire, Queued, Carries, Waits, Listed
<1>8. ASSUME NEW id, NEW add, NEW remove, Proceed(id, add, remove) PROVE Carries' /\ Waits'
  <2>1. Carries' BY <1>8 DEF Proceed, Await, AfterUpdate, Finish, Carries, Listed
  <2>2. pc' = "idle" => retryCount' = 0 BY <1>8 DEF Proceed, Await, AfterUpdate, Finish
  <2> QED BY <2>1, <2>2 DEF Waits
<1>9. ASSUME Requeue, UNCHANGED destroyed, pc \in {"initializing", "creating", "updating"}
      PROVE  Carries' /\ Waits'
  <2>1. pc' = "idle" BY <1>9 DEF Requeue
  <2>2. ASSUME ~destroyed PROVE timer' = "backoff" /\ Queued'
    <3>1. /\ pendingAdd' = PushAll(pendingAdd, toAdd)
          /\ pendingRemove' = PushAll(pendingRemove, toRemove) /\ timer' = "backoff"
      BY <1>9, <2>2 DEF Requeue, ScheduleBackoff
    <3>2. PICK x \in Addrs : toAdd[x] > 0 \/ toRemove[x] > 0 BY <1>9 DEF Carries, Listed
    <3>3. PushAll(pendingAdd, toAdd)[x] > 0 \/ PushAll(pendingRemove, toRemove)[x] > 0
      BY <3>2 DEF PushAll, TypeOK
    <3> QED BY <3>1, <3>3 DEF Queued, Listed
  <2> QED BY <1>9, <2>1, <2>2 DEF Carries, Waits
<1>10. CASE Initialized \/ \E h \in Hooks : CreateOk(h)
  BY <1>8, <1>10 DEF Initialized, CreateOk
<1>11. CASE InitializeThrows \/ CreateFails \/ UpdateFails
  BY <1>9, <1>11 DEF InitializeThrows, CreateFails, UpdateFails, clientVars
<1>12. CASE UpdateOk
  BY <1>12 DEF UpdateOk, AfterUpdate, Await, Finish, Carries, Waits
<1>13. CASE DeleteOk \/ DeleteFails
  BY <1>13 DEF DeleteOk, DeleteFails, Finish, Carries, Waits
<1>14. CASE UNCHANGED vars BY <1>1, <1>14 DEF vars
<1> QED
  BY <1>2, <1>3, <1>4, <1>5, <1>6, <1>7, <1>10, <1>11, <1>12, <1>13, <1>14
  DEF Next, TimerFires, BatchSettles

(* After a failure no batch starts but from the backoff timer, whatever     *)
(* calls come in while it waits and however often it fails.                 *)
THEOREM BackoffHolds == Spec => BackoffIsKept
<1>1. Init => Carries /\ Waits BY DEF Init, Carries, Waits
<1>2. TypeOK /\ Carries /\ Waits /\ [Next]_vars => (Carries /\ Waits)'
  BY WaitsNext
<1>3. Waits /\ [Next]_vars =>
        [pc = "idle" /\ pc' # "idle" /\ retryCount > 0 => timer = "backoff"]_vars
  <2> SUFFICES ASSUME Waits, Next, pc = "idle", pc' # "idle", retryCount > 0
               PROVE  timer = "backoff"
    OBVIOUS
  <2>1. Fire
    BY DEF Next, Subscribe, Unsubscribe, Destroy, Discover, FetchOk, FetchFails, Reuse, Discard,
       DiscoveryEnds, TimerFires, FireBusy, FireIdle, BatchSettles, Initialized,
       InitializeThrows, CreateOk, CreateFails, UpdateOk, UpdateFails, DeleteOk, DeleteFails,
       batchVars
  <2> QED BY <2>1 DEF Fire, Waits
<1> QED BY <1>1, <1>2, <1>3, TypeCorrect, PTL DEF Spec, BackoffIsKept
============================================================================
