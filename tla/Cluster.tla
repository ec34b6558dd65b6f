------------------------------ MODULE Cluster ------------------------------
(* The Alchemy plugin of one network in every worker of the cluster: what   *)
(* src/index.ts, src/worker.ts, src/util/signingKeyStore.ts and the webhook *)
(* route and the broadcast of src/plugins/alchemy.ts make of one another,   *)
(* through the notify API that all workers share.                           *)
(*                                                                          *)
(* The queues and the batch are those of Alchemy, with a timer that is      *)
(* armed whenever something is queued (NoStrandedChange there), and an API  *)
(* whose calls fail only for what another worker did to the webhook.  An    *)
(* action that ends an await on a change of a webhook also carries what the *)
(* API did; a list of webhooks is composed in one step and used in later    *)
(* ones.  An address has one spelling (EvmRpc has more).  IPC messages are  *)
(* kept as sets: no order of theirs is promised or used.                    *)
EXTENDS AddressQueue, FiniteSets, FiniteSetsExt

CONSTANTS
    Workers,     \* the workers; an exited one is forked again
    Activities,  \* bound: webhook requests of the API, numbered as it made them
    MaxHooks,    \* bound: webhooks, numbered as the API made them
    MaxLeft,     \* bound: webhooks an earlier cluster left
    MaxLate,     \* bound: requests of webhooks it has deleted
    MaxCalls,    \* bound: effective subscribe and unsubscribe calls
    MaxDeaths,   \* bound: workers that exit
    MaxFailures, \* bound: recoveries of keys that fail
    MaxEvents    \* bound: calls, requests, exits and failures together

Hooks == 1..MaxHooks
NoHook == 0

ASSUME ClusterAssumption ==
    /\ MaxHooks \in Nat /\ MaxLeft \in 0..MaxHooks
    /\ MaxCalls \in Nat /\ MaxEvents \in Nat /\ MaxDeaths \in Nat /\ MaxFailures \in Nat
    /\ Activities \subseteq Nat

VARIABLES
    life,     \* "up" or "down": each worker
    plugin,   \* the variables of makeAlchemy in each worker
    store,    \* the variables of makeSigningKeyStore in each worker
    hook,     \* API: "unmade", "active" or "deleted"
    onHook,   \* API: the addresses of each webhook
    request,  \* API: each webhook request, and the worker it came to last
    sending,  \* process.send of each worker: activity on its way to the primary
    orphans,  \* the same, of workers that have exited
    inbox,    \* activity the primary relayed to each worker
    told,     \* how often each worker emitted an update for an activity
    owed,     \* the workers that were subscribed when an activity was accepted
              \* and have not handled it (for the properties)
    newer,    \* webhooks younger than the list of each worker's last recovery
              \* of keys (likewise)
    users,    \* the workers that had a subscription (likewise)
    calls,    \* counts up to MaxCalls
    deaths,   \* counts up to MaxDeaths
    failures  \* counts up to MaxFailures

apiVars == <<hook, onHook>>
mailVars == <<request, sending, orphans, inbox, told, owed>>
boundVars == <<calls, deaths, failures>>
vars == <<life, plugin, store, apiVars, mailVars, newer, users, boundVars>>

(* A process that has just started.                                         *)
FreshPlugin ==
    [subscribed |-> {}, add |-> Empty, remove |-> Empty, toAdd |-> Empty, toRemove |-> Empty,
     pc |-> "idle", discovery |-> "fetching", found |-> {}, webhookId |-> NoHook]
FreshStore == [keys |-> {}, hasRecovered |-> FALSE, recovering |-> "no", answer |-> {}]

Unmade == [at |-> "unmade", worker |-> {}, hook |-> NoHook, addr |-> NoHook]
Late(gone) == [at : {"sent"}, worker : {{}}, hook : 1..gone, addr : Addrs]

Up == {w \in Workers : life[w] = "up"}
Subscribed(w) == plugin[w].subscribed
Active == {h \in Hooks : hook[h] = "active"}
Becomes(w, p) == plugin' = [plugin EXCEPT ![w] = p]

Requested == Cardinality({n \in Activities : request[n].at # "unmade"})
Budget == calls + Requested + deaths + failures < MaxEvents

----------------------------------------------------------------------------
(* The plugin's methods *)

Subscribe(w, a) ==
    /\ life[w] = "up" /\ a \notin Subscribed(w) /\ calls < MaxCalls /\ Budget
    /\ Becomes(w, [plugin[w] EXCEPT !.subscribed = @ \union {a},
                                    !.add = Push(@, a), !.remove = Splice(@, a)])
    /\ users' = users \union {w}
    /\ calls' = calls + 1
    /\ UNCHANGED <<life, store, apiVars, mailVars, newer, deaths, failures>>

Unsubscribe(w, a) ==
    /\ life[w] = "up" /\ a \in Subscribed(w) /\ calls < MaxCalls /\ Budget
    /\ Becomes(w, [plugin[w] EXCEPT !.subscribed = @ \ {a},
                                    !.remove = Push(@, a), !.add = Splice(@, a)])
    /\ owed' = [n \in Activities |-> IF request[n].addr = a THEN owed[n] \ {w} ELSE owed[n]]
    /\ calls' = calls + 1
    /\ UNCHANGED <<life, store, apiVars, request, sending, orphans, inbox, told, newer, users,
                   deaths, failures>>

----------------------------------------------------------------------------
(* The notify API *)

HasList(w) == store[w].hasRecovered \/ store[w].recovering = "answered"

ApiCreates(addrs) ==
    LET h == Cardinality({g \in Hooks : hook[g] # "unmade"}) + 1
    IN  /\ h \in Hooks
        /\ hook' = [hook EXCEPT ![h] = "active"]
        /\ onHook' = [onHook EXCEPT ![h] = addrs]
        /\ newer' = [w \in Workers |->
               IF HasList(w) THEN newer[w] \union {h} ELSE newer[w]]

ApiUpdates(h, add, remove) ==
    /\ h \in Active
    /\ onHook' = [onHook EXCEPT ![h] = (@ \union add) \ remove]
    /\ UNCHANGED <<hook, newer>>

ApiDeletes(h) ==
    /\ h \in Active
    /\ hook' = [hook EXCEPT ![h] = "deleted"]
    /\ onHook' = [onHook EXCEPT ![h] = {}]
    /\ UNCHANGED newer

(* What the call a batch awaits does there.                                 *)
ApiServes(p) ==
    \/ p.pc = "creating" /\ ApiCreates(Listed(p.toAdd))
    \/ p.pc = "updating" /\ ApiUpdates(p.webhookId, Listed(p.toAdd), Listed(p.toRemove))
    \/ p.pc = "deleting" /\ ApiDeletes(p.webhookId)

----------------------------------------------------------------------------
(* Discovery and batches: see Alchemy *)

restVars == <<life, mailVars, users, boundVars>>

(* setSigningKey.                                                           *)
Learns(w, h) == store' = [store EXCEPT ![w].keys = @ \union {h}]

FetchOk(w) ==
    /\ life[w] = "up" /\ plugin[w].discovery = "fetching"
    /\ Becomes(w, [plugin[w] EXCEPT !.discovery = "listing", !.found = Active])
    /\ UNCHANGED <<store, apiVars, newer, restVars>>

(* The first webhook of the list, which the API gives in one order, is kept *)
(* and the others are deleted, as the list was when it was fetched.         *)
Look(w) ==
    LET p == plugin[w]
        h == Min(p.found)
    IN  /\ life[w] = "up" /\ p.discovery = "listing" /\ p.found # {}
        /\ IF p.webhookId = NoHook
           THEN /\ Becomes(w, [p EXCEPT !.webhookId = h, !.found = @ \ {h}])
                /\ Learns(w, h)
                /\ UNCHANGED <<apiVars, newer>>
           ELSE /\ Becomes(w, [p EXCEPT !.found = @ \ {h}])
                /\ IF h \in Active THEN ApiDeletes(h) ELSE UNCHANGED <<apiVars, newer>>
                /\ UNCHANGED store
        /\ UNCHANGED restVars

DiscoveryEnds(w) ==
    /\ life[w] = "up" /\ plugin[w].discovery = "listing" /\ plugin[w].found = {}
    /\ Becomes(w, [plugin[w] EXCEPT !.discovery = "done"])
    /\ UNCHANGED <<store, apiVars, newer, restVars>>

Await(p, label, add, remove) == [p EXCEPT !.pc = label, !.toAdd = add, !.toRemove = remove]
Finish(p) == Await(p, "idle", Empty, Empty)

(* The catch block, after a call on a webhook that is gone.                 *)
Requeue(p) ==
    [Finish(p) EXCEPT !.add = PushAll(@, p.toAdd), !.remove = PushAll(@, p.toRemove)]

AfterUpdateUnchecked(p) == Await(p, "deleting", Empty, Empty)
AfterUpdate(p) ==
    IF p.subscribed = {} THEN Await(p, "deleting", Empty, Empty) ELSE Finish(p)

(* What follows initialize() and createWebhook.                             *)
Proceed(p) ==
    IF p.webhookId = NoHook
    THEN IF Listed(p.toAdd) # {} THEN Await(p, "creating", p.toAdd, p.toRemove) ELSE Finish(p)
    ELSE IF Listed(p.toAdd) \union Listed(p.toRemove) # {}
         THEN Await(p, "updating", p.toAdd, p.toRemove)
         ELSE AfterUpdate(p)

Queued(p) == Listed(p.add) \union Listed(p.remove) # {}

(* The timer fires, and the batch takes the queue.                          *)
Fire(w) ==
    LET p == plugin[w]
    IN  /\ life[w] = "up" /\ p.pc = "idle" /\ Queued(p)
        /\ Becomes(w, [Await(p, "initializing", p.add, p.remove) EXCEPT !.add = Empty,
                                                                        !.remove = Empty])
        /\ UNCHANGED <<store, apiVars, newer, restVars>>

Initialized(w) ==
    /\ life[w] = "up" /\ plugin[w].pc = "initializing" /\ plugin[w].discovery = "done"
    /\ Becomes(w, Proceed(plugin[w]))
    /\ UNCHANGED <<store, apiVars, newer, restVars>>

(* The plugin once its call is answered; h is the new webhook of a create.  *)
Answered(p, h) ==
    IF p.pc = "creating" THEN Proceed([p EXCEPT !.webhookId = h, !.toAdd = Empty])
    ELSE IF p.pc = "updating" THEN AfterUpdate(p)
    ELSE Finish([p EXCEPT !.webhookId = NoHook])

CallOk(w) ==
    /\ life[w] = "up"
    /\ ApiServes(plugin[w])
    /\ LET h == Max(Active')
       IN  /\ Becomes(w, Answered(plugin[w], h))
           /\ IF plugin[w].pc = "creating" THEN Learns(w, h) ELSE UNCHANGED store
    /\ UNCHANGED restVars

(* Another worker has deleted the webhook: an update goes back to the       *)
(* queue, a delete is given up.                                             *)
CallFails(w) ==
    LET p == plugin[w]
    IN  /\ life[w] = "up" /\ p.pc \in {"updating", "deleting"} /\ p.webhookId \notin Active
        /\ Becomes(w, IF p.pc = "updating" THEN Requeue(p) ELSE Finish(p))
        /\ UNCHANGED <<store, apiVars, newer, restVars>>

Batch(w) ==
    \/ FetchOk(w) \/ Look(w) \/ DiscoveryEnds(w)
    \/ Fire(w) \/ Initialized(w) \/ CallOk(w) \/ CallFails(w)

----------------------------------------------------------------------------
(* Webhook requests *)

callerVars == <<life, plugin, apiVars, users, calls, deaths>>

(* The API has activity to report for an address of an active webhook.      *)
Activity(n, h, a) ==
    /\ request[n].at = "unmade" /\ h \in Active /\ a \in onHook[h]
    /\ Budget /\ \A m \in Activities : m < n => request[m].at # "unmade"
    /\ request' = [request EXCEPT ![n] = [at |-> "sent", worker |-> {}, hook |-> h, addr |-> a]]
    /\ UNCHANGED <<callerVars, newer, store, sending, orphans, inbox, told, owed, failures>>

(* handleActivity in worker w for each of the activities: an update for the *)
(* one spelling it keeps of each address.                                   *)
HandleActivity(w, activities) ==
    told' = [told EXCEPT ![w] =
        [n \in Activities |->
            told[w][n] + IF n \in activities /\ request[n].addr \in Subscribed(w) THEN 1 ELSE 0]]

BroadcastMatched(w, activities) == {n \in activities : request[n].addr \in Subscribed(w)}

(* handleActivityAndBroadcast sends whatever it handles.                    *)
Broadcast(w, activities) == activities

(* Each request w has a key for is handled, broadcast and answered 200; the *)
(* others are answered 401.                                                 *)
Reply(w, requests, keys) ==
    LET good == {n \in requests : request[n].hook \in keys}
        Audience(n) == {v \in Up \ {w} : request[n].addr \in Subscribed(v)}
    IN  /\ request' = [n \in Activities |->
               IF n \in requests
               THEN [request[n] EXCEPT !.at = IF n \in good THEN "accepted" ELSE "refused",
                                       !.worker = {w}]
               ELSE request[n]]
        /\ HandleActivity(w, good)
        /\ sending' = [sending EXCEPT ![w] = @ \union Broadcast(w, good)]
        /\ owed' = [n \in Activities |-> IF n \in good THEN Audience(n) ELSE owed[n]]
        /\ UNCHANGED <<orphans, inbox>>

(* A worker gets a request: any of them, as they share the port.            *)
Receive(w, n) ==
    /\ life[w] = "up" /\ request[n].at = "sent"
    /\ request[n].hook \in store[w].keys \/ store[w].hasRecovered
    /\ Reply(w, {n}, store[w].keys)
    /\ UNCHANGED <<callerVars, newer, store, failures>>

(* The key is unknown: the request starts recoverSigningKeys, or waits for  *)
(* the one that runs.                                                       *)
ReceiveUnknown(w, n) ==
    /\ life[w] = "up" /\ request[n].at = "sent"
    /\ request[n].hook \notin store[w].keys /\ ~store[w].hasRecovered
    /\ request' = [request EXCEPT ![n].at = "waiting", ![n].worker = {w}]
    /\ store' = [store EXCEPT ![w].recovering = IF @ = "no" THEN "asked" ELSE @]
    /\ UNCHANGED <<callerVars, newer, sending, orphans, inbox, told, owed, failures>>

(* The API lists the webhooks for the doRecover of w, which awaits the list *)
(* while webhooks are made and deleted, keys are set and requests come.     *)
ListForRecovery(w) ==
    /\ store[w].recovering = "asked"
    /\ store' = [store EXCEPT ![w].recovering = "answered", ![w].answer = Active]
    /\ newer' = [newer EXCEPT ![w] = {}]
    /\ UNCHANGED <<callerVars, mailVars, failures>>

WaitingNone(w) == {}
Waiting(w) == {n \in Activities : request[n].at = "waiting" /\ w \in request[n].worker}

(* doRecover gets the list, and all the requests that waited go on.         *)
RecoverOk(w) ==
    /\ store[w].recovering = "answered"
    /\ LET keys == store[w].keys \union store[w].answer
       IN  /\ store' = [store EXCEPT ![w] =
                  [keys |-> keys, hasRecovered |-> TRUE, recovering |-> "no", answer |-> {}]]
           /\ Reply(w, Waiting(w), keys)
    /\ UNCHANGED <<callerVars, newer, failures>>

FailedForGood(s) == [s EXCEPT !.recovering = "no", !.answer = {}, !.hasRecovered = TRUE]
Failed(s) == [s EXCEPT !.recovering = "no", !.answer = {}]

(* A failed recovery is tried again for the next unknown request.           *)
RecoverFails(w) ==
    /\ store[w].recovering # "no" /\ failures < MaxFailures /\ Budget
    /\ failures' = failures + 1
    /\ store' = [store EXCEPT ![w] = Failed(@)]
    /\ Reply(w, Waiting(w), store[w].keys)
    /\ UNCHANGED <<callerVars, newer>>

(* The API tries a request again that was not answered 200.                 *)
Redeliver(n) ==
    /\ request[n].at = "refused"
    /\ request' = [request EXCEPT ![n].at = "sent", ![n].worker = {}]
    /\ UNCHANGED <<callerVars, newer, store, sending, orphans, inbox, told, owed, failures>>

----------------------------------------------------------------------------
(* The broadcast, and the workers' lives *)

RecipientsAll(w) == Up

(* The workers the primary relays a message of worker w to.  (Node raises   *)
(* an error event that nobody handles when it sends to a worker whose       *)
(* channel has closed and whose exit it has not seen; a worker exits in one *)
(* step here, and that moment is left out.)                                 *)
Recipients(w) == Up \ {w}

Delivered(n, to) == [v \in Workers |-> IF v \in to THEN inbox[v] \union {n} ELSE inbox[v]]

Relay(w, n) ==
    /\ n \in sending[w]
    /\ sending' = [sending EXCEPT ![w] = @ \ {n}]
    /\ inbox' = Delivered(n, Recipients(w))
    /\ UNCHANGED <<callerVars, newer, store, failures, request, orphans, told, owed>>

(* A message of a worker that has exited is no message of its successor.    *)
RelayOrphan(n) ==
    /\ n \in orphans
    /\ orphans' = orphans \ {n}
    /\ inbox' = Delivered(n, Up)
    /\ UNCHANGED <<callerVars, newer, store, failures, request, sending, told, owed>>

(* ipcHandler.                                                              *)
IpcHandler(w, n) ==
    /\ n \in inbox[w]
    /\ inbox' = [inbox EXCEPT ![w] = @ \ {n}]
    /\ HandleActivity(w, {n})
    /\ owed' = [owed EXCEPT ![n] = @ \ {w}]
    /\ UNCHANGED <<callerVars, newer, store, failures, request, sending, orphans>>

(* A worker exits, by itself or after a signal.  Its messages and its call  *)
(* to the API may or may not have got out; its open requests are not        *)
(* answered.                                                                *)
Die(w) ==
    /\ life[w] = "up" /\ deaths < MaxDeaths /\ Budget
    /\ deaths' = deaths + 1
    /\ life' = [life EXCEPT ![w] = "down"]
    /\ plugin' = [plugin EXCEPT ![w] = FreshPlugin]
    /\ store' = [store EXCEPT ![w] = FreshStore]
    /\ ApiServes(plugin[w]) \/ UNCHANGED <<apiVars, newer>>
    /\ \E out \in SUBSET sending[w] :
          /\ orphans' = orphans \union out
          /\ owed' = [n \in Activities |->
                 IF n \in sending[w] \ out THEN {} ELSE owed[n] \ {w}]
    /\ sending' = [sending EXCEPT ![w] = {}]
    /\ inbox' = [inbox EXCEPT ![w] = {}]
    /\ told' = [told EXCEPT ![w] = [n \in Activities |-> 0]]
    /\ request' = [n \in Activities |->
           IF n \in Waiting(w) THEN [request[n] EXCEPT !.at = "refused"] ELSE request[n]]
    /\ UNCHANGED <<users, calls, failures>>

Fork(w) ==
    /\ life[w] = "down"
    /\ life' = [life EXCEPT ![w] = "up"]
    /\ newer' = [newer EXCEPT ![w] = {}]
    /\ UNCHANGED <<plugin, store, apiVars, mailVars, users, boundVars>>

----------------------------------------------------------------------------

(* The cluster starts, with webhooks an earlier one left, or has deleted    *)
(* while the API still tries to deliver requests of theirs.                 *)
Init ==
    /\ life = [w \in Workers |-> "up"]
    /\ plugin = [w \in Workers |-> FreshPlugin]
    /\ store = [w \in Workers |-> FreshStore]
    /\ \E left \in 0..MaxLeft : \E gone \in 0..left, addrs \in SUBSET Addrs :
          /\ hook = [h \in Hooks |->
                 IF h > left THEN "unmade" ELSE IF h > gone THEN "active" ELSE "deleted"]
          /\ onHook = [h \in Hooks |-> IF h > left \/ h <= gone THEN {} ELSE addrs]
          /\ request \in [Activities -> {Unmade} \union Late(gone)]
          /\ \A n \in Activities : n > MaxLate => request[n] = Unmade
    /\ sending = [w \in Workers |-> {}]
    /\ orphans = {}
    /\ inbox = [w \in Workers |-> {}]
    /\ told = [w \in Workers |-> [n \in Activities |-> 0]]
    /\ owed = [n \in Activities |-> {}]
    /\ newer = [w \in Workers |-> {}]
    /\ users = {}
    /\ calls = 0 /\ deaths = 0 /\ failures = 0

Recover(w) == ListForRecovery(w) \/ RecoverOk(w) \/ RecoverFails(w)
Post ==
    \/ \E w \in Workers, n \in Activities : Relay(w, n) \/ IpcHandler(w, n)
    \/ \E n \in Activities : RelayOrphan(n)

Next ==
    \/ \E w \in Workers :
          \/ \E a \in Addrs : Subscribe(w, a) \/ Unsubscribe(w, a)
          \/ Batch(w)
          \/ \E n \in Activities : Receive(w, n) \/ ReceiveUnknown(w, n)
          \/ Recover(w)
          \/ Die(w) \/ Fork(w)
    \/ \E n \in Activities, h \in Hooks, a \in Addrs : Activity(n, h, a)
    \/ \E n \in Activities : Redeliver(n)
    \/ Post

(* The API answers recoveries and tries refused requests again, and exited  *)
(* workers are forked; of a request that is sent again and again each       *)
(* worker gets its turn.  No batch needs to go on, nor any IPC to arrive.   *)
Spec == /\ Init /\ [][Next]_vars
        /\ \A w \in Workers :
              /\ WF_vars(Recover(w)) /\ WF_vars(Fork(w))
              /\ \A n \in Activities : SF_vars(Receive(w, n) \/ ReceiveUnknown(w, n))
        /\ \A n \in Activities : WF_vars(Redeliver(n))

----------------------------------------------------------------------------
(* Properties *)

(* The type invariant.                                                      *)
TypeOK ==
    /\ life \in [Workers -> {"up", "down"}]
    /\ plugin \in [Workers ->
           [subscribed : SUBSET Addrs, add : [Addrs -> Nat], remove : [Addrs -> Nat],
            toAdd : [Addrs -> Nat], toRemove : [Addrs -> Nat],
            pc : {"idle", "initializing", "creating", "updating", "deleting"},
            discovery : {"fetching", "listing", "done"},
            found : SUBSET Hooks, webhookId : Hooks \union {NoHook}]]
    /\ store \in [Workers -> [keys : SUBSET Hooks, hasRecovered : BOOLEAN,
                              recovering : {"no", "asked", "answered"}, answer : SUBSET Hooks]]
    /\ hook \in [Hooks -> {"unmade", "active", "deleted"}]
    /\ onHook \in [Hooks -> SUBSET Addrs]
    /\ request \in [Activities ->
           [at : {"unmade", "sent", "waiting", "refused", "accepted"},
            worker : SUBSET Workers, hook : Hooks \union {NoHook},
            addr : Addrs \union {NoHook}]]
    /\ sending \in [Workers -> SUBSET Activities]
    /\ orphans \subseteq Activities
    /\ inbox \in [Workers -> SUBSET Activities]
    /\ told \in [Workers -> [Activities -> Nat]]
    /\ owed \in [Activities -> SUBSET Workers]
    /\ newer \in [Workers -> SUBSET Hooks]
    /\ users \subseteq Workers
    /\ calls \in 0..MaxCalls /\ deaths \in 0..MaxDeaths /\ failures \in 0..MaxFailures

(* No process tells its clients twice of a request the cluster accepted     *)
(* once, although it is handled where it arrives, broadcast, and relayed by *)
(* a primary that may already have forked a successor of the sender.        *)
HeardOnce == \A w \in Workers, n \in Activities : told[w][n] <= 1

(* A worker whose clients were subscribed when another one accepted an      *)
(* activity, and still are, has been told or the message is on its way,     *)
(* whichever workers exit or are forked meanwhile, except that the one that *)
(* accepted it may exit with the message unsent.                            *)
OnItsWay(w, n) == n \in orphans \union inbox[w] \union UNION {sending[v] : v \in Workers}
NobodySkipped == \A n \in Activities : \A w \in owed[n] : OnItsWay(w, n)

(* A worker refuses the request of a webhook that exists only if it could   *)
(* not recover its keys just now, or the webhook is younger than the list   *)
(* the API composed for its last recovery: whatever is made, deleted and    *)
(* set while that list is awaited, the requests that share the recovery     *)
(* lose no webhook that is on it, nor one whose key was set meanwhile.      *)
Refuses(n) == request[n].at # "refused" /\ request'[n].at = "refused"
RefusesOnlyStrangers ==
    [][\A n \in Activities : Refuses(n) =>
          \/ failures' # failures \/ deaths' # deaths
          \/ request[n].hook \notin Active
          \/ \E w \in request'[n].worker : request[n].hook \in newer[w]]_vars

(* Once every worker is idle, each subscribed address is on a webhook.      *)
Idle(w) == life[w] = "up" /\ plugin[w].discovery = "done" /\ plugin[w].pc = "idle" /\ ~Queued(plugin[w])
SubscribedIsServed ==
    (\A w \in Workers : Idle(w)) =>
        \A w \in Workers : \A a \in Subscribed(w) : \E h \in Active : a \in onHook[h]

(* As long as only one of the workers ever has clients, it holds, whatever  *)
(* the others' discoveries delete and whenever workers exit and restart.    *)
OneUserIsServed == Cardinality(users) <= 1 => SubscribedIsServed

(* A request that is sent is accepted in the end, unless its webhook is     *)
(* deleted: no request waits for ever, and none is refused by every worker. *)
(* (There are finitely many, and none is outstanding again once it is not.) *)
Outstanding(n) ==
    request[n].at \in {"sent", "waiting", "refused"} /\ request[n].hook \in Active
RequestsArrive == []<>(\A n \in Activities : ~Outstanding(n))
============================================================================
