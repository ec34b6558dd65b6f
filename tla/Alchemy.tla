------------------------------ MODULE Alchemy ------------------------------
(* The Alchemy webhook plugin of src/plugins/alchemy.ts, in one process:    *)
(* the addresses it is asked to watch, the queue of changes, the batch that *)
(* carries the queue to the notify API, the discovery of webhooks left by   *)
(* earlier runs, the retries with their backoff, and destroy.               *)
(*                                                                          *)
(* One action is the code between two awaits; an action that ends an await  *)
(* on the API also carries what the API did.  Time is left out: an armed    *)
(* timer may fire at any moment.  So are spellings: the clients of an       *)
(* address all write it in one way, which subscribedAddresses keeps (EvmRpc *)
(* has clients that do not).                                                *)
EXTENDS AddressQueue, FiniteSets

CONSTANTS
    Hooks,       \* webhooks that may exist at a time (a bound); the model
                 \* uses the id of a deleted one again
    Failing,     \* API operations that may fail without effect
    Losing,      \* API operations that may take effect and still fail
    Overtaking,  \* may a call name an address of the batch in progress?
    BothLists,   \* what an update does to an address both added and removed
    MaxCalls,    \* bound: effective subscribe and unsubscribe calls
    MaxFailures, \* bound: API calls that fail
    MaxRetry     \* bound: retryCount counts up to it (the delay saturates too)

Operations == {"fetch", "url", "create", "update", "delete"}

NoHook == "none"

ASSUME AlchemyAssumption ==
    /\ NoHook \notin Hooks
    /\ Failing \subseteq Operations
    /\ Losing \subseteq Operations
    /\ Overtaking \in BOOLEAN
    /\ BothLists \subseteq {"kept", "dropped"} /\ BothLists # {}
    /\ MaxCalls \in Nat /\ MaxFailures \in Nat /\ MaxRetry \in Nat \ {0}

VARIABLES
    subscribed,    \* subscribedAddresses
    pendingAdd,    \* pendingAddressesToAdd, as counts
    pendingRemove, \* pendingAddressesToRemove, as counts
    toAdd,         \* toAdd of the batch in progress
    toRemove,      \* toRemove of the batch in progress
    timer,         \* batchTimeout: "off", or armed with "batch" or "backoff"
    pc,            \* where the batch awaits; "idle" is processing = false
    discovery,     \* progress of doInitialize: "failed" is initializingPromise
                   \* rejected, "done" is initialized = true
    found,         \* webhooks doInitialize has still to look at
    webhookId,
    retryCount,
    destroyed,
    hook,          \* API: the state of each webhook
    onHook,        \* API: the addresses of each webhook
    routed,        \* API: the webhooks whose URL is ours
    asked,         \* addresses subscribed since the process started
    calls,         \* counts up to MaxCalls
    failures       \* counts up to MaxFailures

vars == <<subscribed, pendingAdd, pendingRemove, toAdd, toRemove, timer, pc, discovery,
          found, webhookId, retryCount, destroyed, hook, onHook, routed, asked, calls,
          failures>>

queueVars == <<pendingAdd, pendingRemove, timer>>
batchVars == <<toAdd, toRemove, pc, retryCount>>
apiVars == <<hook, onHook, routed>>
clientVars == <<subscribed, destroyed, asked, calls>>

Processing == pc # "idle"
Queued == Listed(pendingAdd) # {} \/ Listed(pendingRemove) # {}

----------------------------------------------------------------------------
(* The plugin's methods *)

ScheduleWhenIdle == timer' = IF timer = "off" /\ ~Processing THEN "batch" ELSE timer

(* scheduleBatch() with its default delay.                                  *)
ScheduleBatch == timer' = IF timer = "off" THEN "batch" ELSE timer

MayCall(a) ==
    /\ calls < MaxCalls
    /\ Overtaking \/ a \notin Listed(toAdd) \union Listed(toRemove)

Subscribe(a) ==
    /\ MayCall(a) /\ a \notin subscribed
    /\ subscribed' = subscribed \union {a}
    /\ pendingAdd' = Push(pendingAdd, a)
    /\ pendingRemove' = Splice(pendingRemove, a)
    /\ ScheduleBatch
    /\ asked' = asked \union {a}
    /\ calls' = calls + 1
    /\ UNCHANGED <<batchVars, discovery, found, webhookId, destroyed, apiVars, failures>>

Unsubscribe(a) ==
    /\ MayCall(a) /\ a \in subscribed
    /\ subscribed' = subscribed \ {a}
    /\ pendingRemove' = Push(pendingRemove, a)
    /\ pendingAdd' = Splice(pendingAdd, a)
    /\ ScheduleBatch
    /\ calls' = calls + 1
    /\ UNCHANGED <<batchVars, discovery, found, webhookId, destroyed, asked, apiVars, failures>>

(* A batch in progress is not stopped.                                      *)
Destroy ==
    /\ ~destroyed
    /\ destroyed' = TRUE
    /\ timer' = "off"
    /\ subscribed' = {}
    /\ pendingAdd' = Empty
    /\ pendingRemove' = Empty
    /\ UNCHANGED <<batchVars, discovery, found, webhookId, apiVars, asked, calls, failures>>

----------------------------------------------------------------------------
(* The notify API *)

(* One call fails; with effect if the operation may lose its reply.         *)
Fails(op) ==
    /\ op \in Failing /\ failures < MaxFailures
    /\ failures' = failures + 1

LosesReply(op) ==
    /\ op \in Losing /\ failures < MaxFailures
    /\ failures' = failures + 1

ApiCreates(h, addrs) ==
    /\ hook[h] = "absent"
    /\ hook' = [hook EXCEPT ![h] = "active"]
    /\ onHook' = [onHook EXCEPT ![h] = addrs]
    /\ routed' = routed \union {h}

ApiUpdates(h, add, remove) ==
    /\ hook[h] = "active"
    /\ \E both \in BothLists :
          onHook' = [onHook EXCEPT ![h] =
                        IF both = "kept" THEN (@ \ remove) \union add
                                         ELSE (@ \union add) \ remove]
    /\ UNCHANGED <<hook, routed>>

ApiDeletes(h) ==
    /\ hook[h] \in {"active", "paused"}
    /\ hook' = [hook EXCEPT ![h] = "absent"]
    /\ onHook' = [onHook EXCEPT ![h] = {}]
    /\ UNCHANGED routed

----------------------------------------------------------------------------
(* Discovery (doInitialize), started when the plugin is made *)

FetchOk ==
    /\ discovery = "fetching"
    /\ discovery' = "listing"
    /\ found' = {h \in Hooks : hook[h] \in {"active", "paused"}}
    /\ UNCHANGED <<queueVars, batchVars, webhookId, apiVars, clientVars, failures>>

(* initialize() leaves its rejected promise in place.                       *)
FetchFails ==
    /\ discovery = "fetching"
    /\ Fails("fetch")
    /\ discovery' = "failed"
    /\ UNCHANGED <<queueVars, batchVars, found, webhookId, apiVars, clientVars>>

(* The first active webhook is kept and its URL corrected...                *)
Reuse(h) ==
    /\ discovery = "listing" /\ h \in found
    /\ hook[h] = "active" /\ webhookId = NoHook
    /\ webhookId' = h
    /\ found' = found \ {h}
    /\ \/ routed' = routed \union {h} /\ UNCHANGED failures
       \/ h \notin routed /\ Fails("url") /\ UNCHANGED routed
    /\ UNCHANGED <<queueVars, batchVars, discovery, hook, onHook, clientVars>>

(* ... and paused and further ones are deleted; a failure is only logged.   *)
Discard(h) ==
    /\ discovery = "listing" /\ h \in found
    /\ hook[h] = "paused" \/ webhookId # NoHook
    /\ found' = found \ {h}
    /\ \/ ApiDeletes(h) /\ UNCHANGED failures
       \/ ApiDeletes(h) /\ LosesReply("delete")
       \/ Fails("delete") /\ UNCHANGED apiVars
    /\ UNCHANGED <<queueVars, batchVars, discovery, webhookId, clientVars>>

DiscoveryEndsEarly ==
    /\ discovery = "listing" /\ (found = {} \/ webhookId # NoHook)
    /\ discovery' = "done"
    /\ UNCHANGED <<queueVars, batchVars, found, webhookId, apiVars, clientVars, failures>>

DiscoveryEnds ==
    /\ discovery = "listing" /\ found = {}
    /\ discovery' = "done"
    /\ UNCHANGED <<queueVars, batchVars, found, webhookId, apiVars, clientVars, failures>>

Discover ==
    \/ FetchOk
    \/ FetchFails
    \/ \E h \in Hooks : Reuse(h) \/ Discard(h)
    \/ DiscoveryEnds

----------------------------------------------------------------------------
(* The batch (processBatchedChanges) *)

(* The batch ends well, or its error is caught.                             *)
Finish ==
    /\ pc' = "idle"
    /\ toAdd' = Empty /\ toRemove' = Empty
    /\ retryCount' = 0
    /\ UNCHANGED queueVars

ScheduleBackoffLate == timer' = IF timer = "off" THEN "backoff" ELSE timer

(* scheduleBatch(delay) with a delay longer than the default one.           *)
ScheduleBackoff == timer' = "backoff"

(* The catch block: the changes go back to the queue and the backoff        *)
(* replaces any shorter timer.                                              *)
Requeue ==
    /\ pc' = "idle"
    /\ toAdd' = Empty /\ toRemove' = Empty
    /\ IF destroyed
       THEN UNCHANGED <<queueVars, retryCount>>
       ELSE /\ pendingAdd' = PushAll(pendingAdd, toAdd)
            /\ pendingRemove' = PushAll(pendingRemove, toRemove)
            /\ retryCount' = IF retryCount < MaxRetry THEN retryCount + 1 ELSE retryCount
            /\ ScheduleBackoff

(* The batch goes to await the API at label with its lists.                 *)
Await(label, add, remove) ==
    /\ pc' = label
    /\ toAdd' = add /\ toRemove' = remove
    /\ UNCHANGED <<queueVars, retryCount>>

AfterUpdateUnchecked == Await("deleting", Empty, Empty)

(* What follows an update: delete the webhook once nobody is subscribed.    *)
AfterUpdate ==
    IF subscribed = {} THEN Await("deleting", Empty, Empty) ELSE Finish

(* What follows initialize() and createWebhook.                             *)
Proceed(id, add, remove) ==
    IF id = NoHook
    THEN IF Listed(add) # {} THEN Await("creating", add, remove) ELSE Finish
    ELSE IF Listed(add) # {} \/ Listed(remove) # {}
         THEN Await("updating", add, remove)
         ELSE AfterUpdate

(* The timer fires while a batch is running: it is armed again.             *)
FireBusy ==
    /\ timer # "off" /\ Processing
    /\ timer' = "batch"
    /\ UNCHANGED <<pendingAdd, pendingRemove, batchVars, discovery, found, webhookId, apiVars,
                   clientVars, failures>>

(* The timer fires with nothing to do, or after destroy.                    *)
FireIdle ==
    /\ timer # "off" /\ ~Processing
    /\ destroyed \/ ~Queued
    /\ timer' = "off"
    /\ UNCHANGED <<pendingAdd, pendingRemove, batchVars, discovery, found, webhookId, apiVars,
                   clientVars, failures>>

(* The timer fires: the batch takes the queue and waits for discovery.      *)
Fire ==
    /\ timer # "off" /\ ~destroyed /\ ~Processing /\ Queued
    /\ timer' = "off"
    /\ toAdd' = pendingAdd /\ toRemove' = pendingRemove
    /\ pendingAdd' = Empty /\ pendingRemove' = Empty
    /\ pc' = "initializing"
    /\ UNCHANGED <<retryCount, discovery, found, webhookId, apiVars, clientVars, failures>>

Initialized ==
    /\ pc = "initializing" /\ discovery = "done"
    /\ Proceed(webhookId, toAdd, toRemove)
    /\ UNCHANGED <<discovery, found, webhookId, apiVars, clientVars, failures>>

InitializeThrows ==
    /\ pc = "initializing" /\ discovery = "failed"
    /\ Requeue
    /\ UNCHANGED <<discovery, found, webhookId, apiVars, clientVars, failures>>

CreateOk(h) ==
    /\ pc = "creating"
    /\ ApiCreates(h, Listed(toAdd))
    /\ webhookId' = h
    /\ Proceed(h, Empty, toRemove)
    /\ UNCHANGED <<discovery, found, clientVars, failures>>

CreateFails ==
    /\ pc = "creating"
    /\ \/ Fails("create") /\ UNCHANGED apiVars
       \/ LosesReply("create") /\ \E h \in Hooks : ApiCreates(h, Listed(toAdd))
    /\ Requeue
    /\ UNCHANGED <<discovery, found, webhookId, clientVars>>

UpdateOk ==
    /\ pc = "updating"
    /\ ApiUpdates(webhookId, Listed(toAdd), Listed(toRemove))
    /\ AfterUpdate
    /\ UNCHANGED <<discovery, found, webhookId, clientVars, failures>>

(* An update of a webhook that is gone always fails.                        *)
UpdateFails ==
    /\ pc = "updating"
    /\ \/ Fails("update") /\ UNCHANGED apiVars
       \/ LosesReply("update") /\ ApiUpdates(webhookId, Listed(toAdd), Listed(toRemove))
       \/ hook[webhookId] # "active" /\ UNCHANGED <<apiVars, failures>>
    /\ Requeue
    /\ UNCHANGED <<discovery, found, webhookId, clientVars>>

DeleteOk ==
    /\ pc = "deleting"
    /\ ApiDeletes(webhookId)
    /\ webhookId' = NoHook
    /\ Finish
    /\ UNCHANGED <<discovery, found, clientVars, failures>>

(* A failed delete is only logged.                                          *)
DeleteFails ==
    /\ pc = "deleting"
    /\ \/ Fails("delete") /\ UNCHANGED apiVars
       \/ LosesReply("delete") /\ ApiDeletes(webhookId)
       \/ hook[webhookId] # "active" /\ UNCHANGED <<apiVars, failures>>
    /\ Finish
    /\ UNCHANGED <<discovery, found, webhookId, clientVars>>

TimerFires == FireBusy \/ FireIdle \/ Fire

BatchSettles ==
    \/ Initialized \/ InitializeThrows
    \/ \E h \in Hooks : CreateOk(h)
    \/ CreateFails
    \/ UpdateOk \/ UpdateFails
    \/ DeleteOk \/ DeleteFails

----------------------------------------------------------------------------

(* Webhooks an earlier process left, with addresses nobody may want now.    *)
Init ==
    /\ subscribed = {}
    /\ pendingAdd = Empty /\ pendingRemove = Empty
    /\ toAdd = Empty /\ toRemove = Empty
    /\ timer = "off"
    /\ pc = "idle"
    /\ discovery = "fetching"
    /\ found = {}
    /\ webhookId = NoHook
    /\ retryCount = 0
    /\ destroyed = FALSE
    /\ hook \in [Hooks -> {"absent", "active", "paused"}]
    /\ \E left \in SUBSET Addrs :
          onHook = [h \in Hooks |-> IF hook[h] = "absent" THEN {} ELSE left]
    /\ routed \in SUBSET {h \in Hooks : hook[h] # "absent"}
    /\ asked = {}
    /\ calls = 0 /\ failures = 0

Next ==
    \/ \E a \in Addrs : Subscribe(a) \/ Unsubscribe(a)
    \/ Destroy
    \/ Discover
    \/ TimerFires
    \/ BatchSettles

(* Timers fire and HTTP requests settle; nobody has to call the plugin.     *)
Spec == /\ Init /\ [][Next]_vars
        /\ WF_vars(Discover) /\ WF_vars(TimerFires) /\ WF_vars(BatchSettles)

----------------------------------------------------------------------------
(* Properties *)

(* The type invariant.                                                      *)
TypeOK ==
    /\ subscribed \subseteq Addrs
    /\ pendingAdd \in [Addrs -> Nat] /\ pendingRemove \in [Addrs -> Nat]
    /\ toAdd \in [Addrs -> Nat] /\ toRemove \in [Addrs -> Nat]
    /\ timer \in {"off", "batch", "backoff"}
    /\ pc \in {"idle", "initializing", "creating", "updating", "deleting"}
    /\ discovery \in {"fetching", "listing", "done", "failed"}
    /\ found \subseteq Hooks
    /\ webhookId \in Hooks \union {NoHook}
    /\ retryCount \in 0..MaxRetry
    /\ destroyed \in BOOLEAN
    /\ hook \in [Hooks -> {"absent", "active", "paused"}]
    /\ onHook \in [Hooks -> SUBSET Addrs]
    /\ routed \subseteq Hooks
    /\ asked \subseteq Addrs
    /\ calls \in 0..MaxCalls
    /\ failures \in 0..MaxFailures

(* A queued change always has a timer armed that will carry it: no          *)
(* interleaving of calls, timers firing during a batch, errors and backoff  *)
(* strands a change until somebody happens to call the plugin again.        *)
NoStrandedChange == Queued /\ ~destroyed => timer # "off"

(* The addresses of the webhook the plugin uses.                            *)
Served == IF webhookId = NoHook THEN {} ELSE onHook[webhookId]

(* With nothing queued and no batch running, the webhook holds every        *)
(* subscribed address and none that was unsubscribed.                       *)
Synced ==
    ~Queued /\ ~Processing /\ ~destroyed =>
        /\ subscribed \subseteq Served
        /\ Served \intersect asked \subseteq subscribed

(* A subscribed address is queued, in the batch or on the webhook; in       *)
(* particular deleting the webhook once nobody is subscribed never takes an *)
(* address that somebody subscribes to meanwhile with it.                   *)
Coverage ==
    ~destroyed => \A a \in subscribed :
        \/ pendingAdd[a] > 0
        \/ pendingRemove[a] = 0 /\ toAdd[a] > 0
        \/ pendingRemove[a] = 0 /\ toRemove[a] = 0 /\ a \in Served /\ pc # "deleting"

(* Once discovery is over there is one active webhook at most.              *)
OneWebhook ==
    discovery = "done" => Cardinality({h \in Hooks : hook[h] = "active"}) <= 1

(* After a failure the next batch starts from the backoff timer, never      *)
(* from an earlier or shorter one, even if plugin calls come in meanwhile.  *)
BackoffIsKept == [][pc = "idle" /\ pc' # "idle" /\ retryCount > 0 => timer = "backoff"]_vars

(* Once the calls and the failures of the API are over, every subscribed    *)
(* address ends up on an active webhook that delivers to us.                *)
Landed(a) == a \in Served /\ hook[webhookId] = "active" /\ webhookId \in routed
SubscriptionsLand == <>[](destroyed \/ \A a \in subscribed : Landed(a))
============================================================================
