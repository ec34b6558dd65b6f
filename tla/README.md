# Verification of edge-change-server

edge-change-server tells wallet clients when something changes on their
addresses. This directory holds TLA+ models of its core, the TLC configurations
that check them on small instances, and proofs, checked by TLAPS, that the main
invariants hold for every instance. All paths below are relative to the
repository; `hub.ts` and the like are under `src/src/`.

- [1. The system](#1-the-system): components, state, operations, what is hard
- [2. The plan](#2-the-plan)
- [3. Hub](#3-hub), [4. Alchemy](#4-alchemy), [5. Blockbook](#5-blockbook),
  [6. EvmRpc](#6-evmrpc), [7. JsonRpc](#7-jsonrpc), [8. Cluster](#8-cluster): model
  and code, runs, bounds, fairness
- [9. Proofs](#9-proofs)
- [10. What is not modelled](#10-what-is-not-modelled)
- [11. Running it](#11-running-it)

## 1. The system

    client --websocket/JSON-RPC--> jsonRpc.ts --> hub.ts --> plugins --> chain services
    client <----update, subLost----    "     <---   "   <---    "    <---      "

One primary process (`index.ts`) forks a worker per CPU and forks a new one when
one dies. A worker (`worker.ts`) runs an HTTP and websocket server, one hub and
the plugins of `plugins/allPlugins.ts`. A webhook request of Alchemy reaches any
one worker, whose message the primary relays to the others over IPC. Within a
worker everything runs on one JavaScript thread: the hazards are in what happens
between two awaits, not in memory accesses.

| Component | State | Operations | Interactions | Hard behaviours | What makes it correct |
|---|---|---|---|---|---|
| Address hub, `hub.ts` | per plugin, the sockets of each address; one codec per socket; two gauges | connection, close, `subscribe`, `unsubscribe`, plugin events `update` and `subLost`, `destroy` | called by the codec; calls the plugins and awaits them; called back by their events | handlers of one socket overlap at each await; sockets close under running calls; a plugin may refuse or reject | the tables hold only open sockets and only what clients want; a plugin watches exactly the addresses with an entry; a client told that it is subscribed is, and hears of all activity |
| Alchemy plugin, `plugins/alchemy.ts` | subscribed addresses, two queues, a timer, `processing`, `webhookId`, `retryCount`, `initializingPromise` | `subscribe`, `unsubscribe`, `destroy`, discovery of webhooks, batches, the webhook route | called by the hub and by HTTP; calls the notify API, which other workers call too | calls overtake the batch in flight; failures, retries, backoff; webhooks of earlier runs; several workers on one webhook | the webhook has every subscribed address and none that was given up; no change is stranded; backoff is kept; one webhook |
| Blockbook plugin, `plugins/blockbook.ts` | pool of connections with their addresses, an index, a watchlist of unconfirmed transactions, one connection for blocks | `subscribe`, `unsubscribe`, `scanAddress`, `destroy`, socket events, new block, transaction | called by the hub; a websocket and a codec per connection | connections drop at every stage of a call; capacity; a late reply meets a watchlist entry that was made anew | hub and plugin agree on what is subscribed; sent calls are answered or rejected; a transaction that was reported stays watched until it is announced as confirmed |
| EVM RPC plugin, `plugins/evmRpc.ts` | one spelling per lower-case address | `subscribe`, `unsubscribe`, `scanAddress`, `onBlock`, `destroy` | called by the hub and by the block watcher; calls the node and the scan adapters | handlers of several blocks overlap; each awaits logs and traces while addresses come and go; retries and fallbacks | no block falls between the scan and the handlers |
| Scan adapters, `util/scanAdapters/` | none | one scan: three requests, each retried when rate limited | called by `scanAddress` | failure of one of several requests | every scan is answered; a failure counts as a change |
| JSON-RPC codec, `jsonRpc.ts` | calls and subscriptions by id | call, notify, handle message, close | between a websocket and its user | ids of both sides in one number space, early events, protocol errors without an id, calls in flight at a close | every call settles once, with its own outcome; the traffic ends |
| Signing key store, `util/signingKeyStore.ts` | keys by webhook id, one recovery in flight | add, get, recover | Alchemy plugin, webhook route | recovery races creation by another worker | requests that share a recovery all go on; the key of a webhook on the recovered list is found |
| Webhook registry and route, `util/webhookRegistry.ts`, `middleware/`, `routes/webhookRoute.ts` | handlers by path | register, unregister, handle a request | the HTTP server calls it, it calls the plugins | handlers removed while the loop over them awaits | the handler of a key hears of every request |
| Cluster, `index.ts`, `worker.ts` | the workers | fork, exit, relay of webhook requests | IPC | a worker dies with its clients, its batch and its messages; a request may reach any worker; all workers share one webhook | every subscribed worker hears of an accepted activity once; requests are accepted in the end; subscribed addresses are on a webhook |
| Notify API client, `util/alchemyNotifyApi.ts` | none | one HTTP request per function | Alchemy plugin | - | - |
| Fake plugin, plugin list, health and not-found routes, command line client, configuration and helpers | none or constant | - | - | - | - |

The status of each component and every hazard, at the line where it bites, with
the properties that cover it, are in `PROJECT.json`.

## 2. The plan

In the order of importance to a client that waits for an update:

1. `Hub`, and the abstract `Subscriptions` it implements: everything else is called
   through the hub.
2. `Alchemy`, with `AddressQueue`, the arrays of its queues: the plugin with the
   most state and the most failure handling.
3. `Blockbook`, `EvmRpc`: the other two ways to watch an address. (Blockbook is
   commented out in `allPlugins.ts` at this commit; its code and tests are kept.)
4. `JsonRpc`, both ends of a connection, and the abstract `RemoteCalls` it implements.
5. `Cluster`, the composition: the Alchemy plugin of every worker on one notify API,
   the signing key stores, webhook requests and their broadcast, exits and forks.
6. `HubProofs`, `AlchemyProofs`, `BlockbookProofs`, `EvmRpcProofs`, `JsonRpcProofs`,
   `ClusterProofs`: every safety property the passing runs check is a theorem.

All of that is done. Next:

7. A composition of `Hub` and `EvmRpc` with the checkpoints of a client that
   reconnects: handlers of overlapping blocks announce out of order
   (`evmRpc.ts:219`), and a block whose logs failed is never looked at again
   (`evmRpc.ts:105`).
8. `EvmRpc` shown to implement `Subscriptions` too, as the hub does.
9. `Blockbook`: which connections stay open after `destroy()` (`blockbook.ts:131`), and
   whether a held address is reported (`blockbook.ts:334`).

### Conventions

- An action is the code between two awaits, with every synchronous call it makes.
- A variable that is not in the code is either the other side of an interface (a
  client, a plugin, an API, a chain) or a record of what was promised to somebody
  (`believed`, `owed`, `users`); its comment in the VARIABLES list says so.
- Constants whose comment says "bound" limit an instance: they are in guards, in
  the sets actions choose from and in type invariants (for `MaxRetry`, see Alchemy).
- Next to some definitions stands the form a plausible mistake would give them
  (`RemainingLast` before `Remaining`, `LogsFailLate` before `LogsFail`): no
  specification uses it. Put in the place of the definition it makes a property
  fail in the run that checks it; `PROJECT.json` lists the pairs under "mutants".

## 3. Hub

`Hub.tla` models `hub.ts` with the codec results of `types/changeProtocol.ts` and
a plugin as `types/addressPlugin.ts` shows it. `Subscriptions.tla` is what the hub
promises to a client, without tables, calls or plugins: it is told that it is subscribed only
with all news of the address, and is then told of every activity until it leaves the
address or is told of the loss.

| Model | Code |
|---|---|
| `status` | `codecMap`, from the connection to the close handler |
| `subs[a]` | `addressSubscriptions`; `{}` is "no entry" |
| `gauge`, `pluginGauge` | `subscriptionGauge`, `pluginGauge` |
| `phase`, `caller`, `item` | the handlers of RPC calls suspended in an await: how far each address of the call is |
| `watched` | what the plugins really watch: it changes when a method is called, the promise settles later |
| `wants`, `believed`, `behind` | what each client asked for, was told, and has not heard of |
| `SubscribeCall`, `SubscribeTrue`, `SubscribeFalse`, `SubscribeThrow`, `ScanChanged`, `ScanUnchanged` | the `subscribe` handler: the synchronous part for all addresses, then one settlement at a time, the reply with the last (`Promise.all`) |
| `UnsubscribeCall`, `LeaveSettles`, `LeaveThrows` | the `unsubscribe` handler, a loop with an await inside: one action runs it up to the next await or to its end |
| `Close`, `SubLost`, `Activity` | the close handler, the `subLost` and `update` events |

An address belongs to one plugin (`PluginOf`), since the hub keeps one table per
plugin. Lists of addresses are sets: the order of the loop is a choice. `destroy()`
only calls the plugins and is left out. The subscription gauge keeps its value in
`SubLost`, as in the code. A websocket keeps the order of its messages, so what a
client knows changes when the hub sends.

| Run | Question | Answer |
|---|---|---|
| `hub` | Do tables, sockets and plugins stay consistent when a client names addresses again before it is answered, sockets close in every await, and plugins fail and lose addresses? And is what a client was told true, if it waits for an answer before it names an address again, and is what it sees what `Subscriptions` promises? | yes; 1,786,523 states |
| `hub_overlap` | The second question for any client, with plugins that lose no address | no: the loop of a running `unsubscribe` drops the socket from an address it subscribed to meanwhile |

The properties: `NoDanglingSocket` (a closed socket is in no entry, although calls
it started go on), `HubPluginAgree` (a plugin that cannot fail watches exactly the
addresses with an entry), `NothingUnwanted` (nothing stays subscribed that the
client gave up, except what an `unsubscribe` has not reached or left when it was
rejected), `BelievedIsSubscribed` and `NeverSilentlyBehind` for the clients in
`Patient`, `EveryBeliefIsTrue` for all. `ImplementsSubscriptions` is the refinement: its
mapping restricts the state to the clients in `Patient` and to the addresses of
plugins that do not fail (`OfPatient`), so the other clients, plugins and all tables become
invisible steps. A client in `Patient` names no address again
before its earlier call about it is answered, and its plugins lose no address
while such a call is in progress. (A `subLost` that reaches a client while its
`subscribe` awaits the scan is followed by a success that is no longer true,
`hub.ts:117`. No property covers that: of the plugins that are enabled none emits
`subLost`, so `hub_overlap` has no such event either.) The library `ws` delivers all messages of one read in one tick, so a client
that does not wait is not far-fetched.

`NeverSilentlyBehind` and `HubPluginAgree` leave out plugins whose `subscribe` may fail:
the entry made before the await stays (`hub.ts:144`), and the next client is told
success for an address nobody watches. Of the plugins that `allPlugins.ts` enables
none refuses an address, so no run states this as a disagreement.

Bounds: two sockets, one of them patient, three calls of up to two addresses each,
one `subLost` event per plugin (none in `hub_overlap`), one plugin that scans and cannot fail, one that fails and does not
scan, one the server does not have. Every handler handles each address on its own
and meets other calls only through the table and the sockets; two calls that
overlap with a third on the same address, a close and a loss are all the pairs of
handlers and one more. Calls are symmetric. No fairness: nothing is
claimed of answers, which depend on the plugins.

## 4. Alchemy

`Alchemy.tla` models one process's plugin and the notify API as the plugin uses it.

| Model | Code |
|---|---|
| `subscribed` | `subscribedAddresses` |
| `pendingAdd`, `pendingRemove`, `toAdd`, `toRemove` | the queues and the lists of the batch in flight, as the count of each address: nothing reads the order |
| `timer`, `pc` | `batchTimeout`; `processing` and the await the batch is in |
| `discovery`, `found` | `initialize()` and `doInitialize()`: `failed` is a rejected `initializingPromise`, `done` is `initialized` |
| `webhookId`, `retryCount`, `destroyed` | the same |
| `hook`, `onHook`, `routed` | the API: each webhook's state, addresses and whether its URL is ours |
| `Subscribe`, `Unsubscribe`, `Destroy` | the plugin's methods |
| `Discover` | the fetch, then one webhook found after the other, kept or deleted |
| `TimerFires`, `BatchSettles` | `processBatchedChanges` from await to await, with its catch block (`Requeue`) and its finally block |

Time is left out: an armed timer may fire at any moment, so a property holds for
any delays; `timer` remembers which delay it was armed with, which is what
`BackoffIsKept` reads. The delay of the code grows with `retryCount` up to a limit;
the count stops at `MaxRetry` for the same reason. A webhook's id is used again
after it was deleted. An operation in `Failing` may fail without effect, one in
`Losing` may take effect and then fail. `BothLists` is what an update does to an
address in both of its lists, which the repository does not say: the model allows
either. `Overtaking` says whether calls may name an address the batch in flight
carries. Webhooks may be there at the start, with addresses from an earlier run.
The plugin keeps a map from normalized addresses to the spelling the clients use; all
clients of an address use one spelling here (`EvmRpc` has the other case).

| Run | Question | Answer |
|---|---|---|
| `alchemy` | With calls overtaking the batch, discovery and deletes that may fail: is a change ever stranded, does the webhook end up with the subscribed addresses and none that was given up, does deleting it take a new subscription along? | it works, 476,859 states |
| `alchemy_faults` | With creates and updates that fail, with and without effect, and calls that keep off the batch in flight: is the webhook right in the end, is the backoff kept, does every subscription land? | yes, 76,750 states |
| `alchemy_init` | Does one failed fetch at startup heal? | no: the rejected promise stays and every later batch fails on it |
| `alchemy_requeue` | Is the webhook right in the end after calls that overtake a batch which then fails? | no: the failed batch puts a stale change back next to the newer one, which may lose |

`Synced` does not speak of addresses an earlier run left on the webhook and nobody has
asked for since: the code never compares the two, and they stay. `OneWebhook` is checked
without failing deletes; a webhook whose delete failed is only logged and stays
(section 9, `InSight`).

`SubscriptionsLand` is a liveness property under weak fairness of `Discover`,
`TimerFires` and `BatchSettles`: Node's timers fire and an HTTP request is answered
or fails. Nothing obliges a client to call. Failures end because they are bounded;
an API that fails for ever lands nothing.

Bounds: two addresses, so that one can stay while the other changes; two webhooks,
the least that must be reduced to one; four or five calls, which take an address
through subscribe, unsubscribe and subscribe again while a batch runs; up to three
failures, which pass `MaxRetry`.

## 5. Blockbook

`Blockbook.tla` models the plugin, its connections and the server's side of them.

| Model | Code |
|---|---|
| `pool`, `addresses`, `connOf` | `connections`, the addresses of each, `addressToConnection` |
| `socket` | the ws of a connection: `closing` by us, `dropped` by the other side, `aborted` by either before it opened, until the close event runs (`Closed`) |
| `calls` | calls that await `socketReady` (`opening`, for ever if the socket never opens), a reply (`asked`), or were sent nowhere (`unsent`) |
| `watch` | `unconfirmedTxWatchlist` and the sets some handler still holds after an await |
| `block`, `snoozing` | `blockConnection`, with the server's answer to its subscription (`subscribed` or `refused`), and its reconnect |
| `serving`, `chain` | the server: what it reports on a connection, and the transactions |
| `held`, `owed` | the hub's side of the interface: addresses between subscribe and unsubscribe or `subLost`, and transactions reported in good time (below) whose confirmation is still to be announced |

The server acts on a request when it is sent and reports the chain when its reply
arrives. The array `connections` is a sequence because `splice(indexOf(c), 1)`
with an index of -1 removes its last element, and the code can meet that. Sets in
the watchlist have identities because a handler that awaited a reply deletes from
the set it read before, which may no longer be the entry; a set that neither the
watchlist nor a handler holds is garbage (`Kept`). Pings, the reconnect delay and
metrics are left out.

| Run | Question | Answer |
|---|---|---|
| `blockbook` | While sockets connect, drop and close under calls, scans and block queries: do hub and plugin agree on every address, is every sent request settled, does a transaction that was reported in good time stay watched until its confirmation is announced, is a block connection that is gone made again? | yes, 2,404,391 states |

`OwedIsWatched` states what the code keeps and where it stops. A reply to a block
query deletes the entry of its address by key (`blockbook.ts:275`), although the
entry may be another one by then: the client left and came back while the
query was unanswered, or the reply to an earlier block emptied the set, and a new
transaction made an entry of its own. That entry is deleted with the old one, and the
confirmation of the new transaction is never announced. So a transaction counts as owed
if the server reported it for a held address "in good time" (`InGoodTime`): no query
about the address is unanswered that holds another set than the entry has. Whatever
blocks, replies, scans, drops and calls come after that, it stays watched. Without
the condition the run fails, in either of the two ways.

`BlockFeedReturns` is about a connection that is gone. One whose subscription the server
refused stays open without a feed (`blockbook.ts:165`), and nothing asks again.
`HubAgrees` does not speak of the pool: a close event that comes after
`removeAddressConnection` emptied a connection splices index -1 and takes another one out of it
(`blockbook.ts:131`), which the hub does not notice, but `destroy` then leaves that
connection open, and nothing pings it. `unsubscribe` sends the server the addresses that stay on the connection
instead of the one that left (`blockbook.ts:334`); the model's server acts on what it is
sent, and no property says that a held address is reported. A call that waits for a socket that closes
before it opens never settles (`blockbook.ts:108`); the model has such calls, and
`SentIsSettled` speaks of sent requests only.

Bounds: three addresses on connections of at most two (the code's limit is 100; a limit
that is reached and passed on to a second connection is what matters), two
connections ever made, two calls or queries at a time, one drop, two transactions of one
address, which the hub scans (`Scanned`): enough for a move from one connection to the next under a
running call, and for two queries about one entry with a transaction between them. The
hub scans the other addresses too; they have no transactions, so their scans would
only wait and settle like their other calls. No fairness: the plugin has no retries of its own but the block
connection, whose reconnect `BlockFeedReturns` states as a safety property.

## 6. EvmRpc

`EvmRpc.tla` models the plugin, its scan adapters, one client per spelling of an
address as the hub passes it, and the chain.

| Model | Code |
|---|---|
| `subscribed` | `subscribedAddresses`, lower case to the spelling of the client |
| `work[b]` | the `onBlock` handler of block `b`: waiting for logs, for the trace, for the second way to trace, done; its tries; the addresses found so far |
| `chain`, `seen` | a block is the addresses each kind of transfer touches; how many were handed to `onBlock` |
| `calls` | the hub: the client's subscribe call, its scan (adapters left, list in turn), the block it knows (`since`) |
| `told`, `lost` | updates passed on; parts of blocks the node did not deliver, or whose handler rejected |
| `ScanList`, `ScanFails` | one request of a scan, answered or not: next list, next adapter, or "changed" when there is none |
| `OnBlock`, `Logs`, `LogsFail`, `Trace`, `TraceFails`, `Debug`, `DebugThrows` | the handler from await to await |

The library that calls `onBlock` does not await it, so handlers overlap. A trace
with an entry that cannot be read ends its loop with what was matched before it and
no second attempt (`evmRpc.ts:158`); `Trace` delivers any part. In the second way to trace, `walk`
runs outside any try: a trace it cannot read makes `onBlock` reject, and nothing of the
block is announced (`DebugThrows`); what the rejection does to the process is not modelled. An explorer answers
from the whole chain: how far it lags behind the node is not in the repository, so
the model assumes that it does not. Retries of a rate-limited request are one
request that is answered or fails.

| Run | Question | Answer |
|---|---|---|
| `evmrpc` | A client comes and goes while blocks arrive: does anything that the node delivered fall between scan and handlers, do retries end, is every scan answered? | nothing, and they do; 370,102 states |
| `evmrpc_spelling` | The same for two clients that spell one address differently | the plugin keeps one spelling, the other client is not told |

`NothingMissed` is relative to what the node delivered to handlers that did not reject (`lost`), and
rests on explorers that do not lag; a client with a lagging one can miss a block that was
handled before it subscribed. `NewsArrives` and
`ScansSettle` are liveness properties under weak fairness of `OnBlock`, of each
block's handler and of each scan: the library polls for blocks, and every request
is answered or times out.

Bounds: one client (`evmrpc_spelling` has two of one address), two blocks with up to two touched addresses, two adapters,
three tries, all requests failing as they like. Clients of different addresses
meet only in the test `subscribed.size === 0`; two blocks give overlapping
handlers, and two adapters a failover. The branch without internal transactions
(`includeInternal` false) is in the second run. The proof below has no such bound.

## 7. JsonRpc

`RemoteCalls.tla` is what the codec promises to the two sides of a connection, without
messages: a call is run at most once, and its promise settles at most once, with the
outcome of its own run or because the connection closed. `JsonRpc.tla` models
`jsonRpc.ts` on both ends of one websocket.

| Model | Code |
|---|---|
| `nextRemoteId`, `remoteCalls`, `remoteSubscriptions` | the same, the maps as the sets of their ids |
| `fate` | the promise of each call; `misread` when the result cleaner threw (line 351) |
| `served`, `misfit` | the other side's run of each call; the calls it does not understand |
| `chan`, `wire`, `closed` | the websocket in both directions; whose `handleClose` has run |
| `Call`, `Notify` | the proxy functions of the remote methods |
| `RunMethod`, `RunNotification`, `Refuse`, `TakeReturn`, `TakeEvent`, `CannotFindId` | the branches of `handleMessage`, each with the answer it sends |
| `MethodOk`, `MethodFails` | a local method settles, and its reply is sent |
| `Drop`, `HandleClose` | the connection goes down, with messages in flight lost; `handleClose` |

A message is its kind, its id and whether the other side understands it: an unknown
method, bad parameters and noise are all not `good`, and all are refused with the id
null. In the protocol `change` (`changeProtocol.ts`) both ends run the codec. In
`blockbook` the client does and multiple returns are allowed; the server is external,
answers calls and sends the events of a subscription under the id of its call, which
makes an event a return with data of another shape (`blockbookProtocol.ts:164`).

| Run | Question | Answer |
|---|---|---|
| `rpc` | Whatever crosses on the wire: does each call end once, with its own outcome, is none forgotten, do all settle, and does the traffic end? | yes, 48,887 states |

`NoCallForgotten` and `CallsSettle` speak of calls that the other side understands and
that are made before `handleClose`. The others show what the code does not promise: a call
that was refused waits until the connection closes, since the refusal has no id (line
286), and a call made after `handleClose` never settles. `OwnOutcome` says which wrong
outcome there is: an event that overtakes the reply of its subscription is taken for
it, and the cleaner throws (line 317). `QuietUnlessMisfit` is conditional for a reason as
well: one message that is not understood is refused with the id null, the refusal is a
return with an id that is no number, and lines 312-316 answer that with another one,
for ever, if both sides run this codec. `QuietInTheEnd` without the condition fails with one misfit.
No document promises either, so no run states them as disagreements.

Fairness: a websocket delivers its messages and reports its end, and methods settle
(`HandleMessage`, `HandleClose`, `MethodEnds`). Nobody has to call, and the connection may
stay.

Bounds: two calls of the client and one of the server, one notification, one misfit,
two events: an id that is in use on both sides, a second call while the first is
open, and an event before and after the reply. `changeProtocol` has no method the server
calls; the codec is generic, and the server's call is what makes the ids of both sides
meet. The proofs have no such bound.

## 8. Cluster

`Cluster.tla` composes what `index.ts`, `worker.ts`, `signingKeyStore.ts` and `alchemy.ts` make of
one another for one network.

| Model | Code |
|---|---|
| `life` | the workers: `Die` is an exit, by itself or by `shutdown`; `Fork` the exit handler of the primary |
| `plugin[w]` | the variables of `makeAlchemy` in worker `w`: addresses, queues, the batch and its await, discovery, `webhookId` |
| `store[w]` | `signingKeys`, `hasRecovered`, `recoveringPromise`, and the list of webhooks on its way back (`answer`) |
| `hook`, `onHook` | the notify API, which all workers share |
| `request` | each webhook request: sent, waiting for keys in a worker, refused (401), accepted (200) |
| `sending`, `orphans`, `inbox` | IPC messages to the primary, those of exited workers, and those relayed to each worker |
| `told`, `owed` | updates emitted; workers that were subscribed when a request was accepted and have not handled it |
| `newer`, `users` | webhooks younger than the list of a worker's last recovery of keys; workers that ever had a subscription (both for properties) |
| `Subscribe`, `Unsubscribe`, `Batch` | the plugin's methods, discovery and batches as in `Alchemy` |
| `Receive`, `ReceiveUnknown` | the route up to its await of the key, or to its end |
| `ListForRecovery`, `RecoverOk`, `RecoverFails` | the API composes its list for `doRecover`; the list arrives and is stored, or the recovery fails, and all the requests that share it go on |
| `Relay`, `RelayOrphan`, `IpcHandler` | the message handlers of the primary and of a worker |

The queues and the batch are those of `Alchemy` with what its runs established put to
use: a queued change always has a timer (`NoStrandedChange`), so `Fire` needs none. API
calls fail here only for what another worker did to the webhook; `Alchemy` has the other
failures and the correction of URLs. The list of webhooks is assumed to come in one
order. Each plugin registers one handler under a key of its own, so `Receive` stands
for the dispatch by `webhookRoute.ts` and `webhookRegistry.ts`. Of two IPC messages no order is
used, so they are sets. A worker exits in one step: the moment in which its channel is closed
and the primary still sends to it, where Node raises an `error` event that `index.ts` does
not handle, is left out. An address has one spelling, as in `Alchemy`. A request whose 200 is lost would be sent again and is another
request here.

| Run | Question | Answer |
|---|---|---|
| `cluster` | With two workers, of which one may exit, two requests that may share a recovery of keys, a webhook left over and a recovery that may fail: does every subscribed worker hear of an accepted activity, and once; is a request accepted in the end, and refused before only for a webhook the recovery could not know; are the clients of one worker served whatever the discoveries of the others delete? | yes, 744,022 states |
| `webhooks_shared` | Is every subscribed address on a webhook when all is quiet, with clients in both workers and no failure at all? | no: the worker whose client leaves first takes the address, or the webhook, from the other one's client |

`NobodySkipped` excepts a worker that accepts a request and exits before its message
leaves the process. `OneUserIsServed` is what is left of `SubscribedIsServed`: it holds while
only one worker ever has clients. The disagreement goes further than the
run shows: a worker whose webhook was deleted by another one keeps its `webhookId`, and each of
its later updates fails and goes back to the queue for ever (`CallFails`).
`RefusesOnlyStrangers` names the exception of `signingKeyStore.ts:38` and `:63`: keys are recovered
once, from a list that the API composes before it arrives. A webhook another worker makes
after that moment is refused here, by the requests that joined the recovery while the
list was on its way (line 84) as well as by later ones, although line 8 of that
file says "recovering from API if not cached". Everything else that happens while the
list is awaited (webhooks deleted, keys set by discovery and batches, more requests) must
not lose a key, and does not.

Fairness: the API answers a recovery (`Recover`) and sends a refused request again, and the
primary forks. `RequestsArrive` needs one thing more, since only some workers may
have the key: of a request that is sent again and again every worker gets its turn
(strong fairness of each worker's `Receive` or `ReceiveUnknown`). Workers share the port by round robin,
which is Node's default, and Alchemy retries; that it retries often enough is assumed. Batches
need not go on and messages need not arrive for it.

Bounds: two workers, one address, two requests, of which one may be a late one of a deleted
webhook (`MaxLate`), two webhooks of which one may be left over, three calls, one exit,
one failed recovery, and four of these events together (`MaxEvents`, five in
`webhooks_shared`, which has no requests, exits or failures). Two workers suffice for one that
deletes what another uses; a third one would only repeat either part. Two requests
are what it takes to share a recovery, before or after its list was composed. The proofs
have no such bound.

## 9. Proofs

TLC checks the instances above, TLAPS the following theorems for all values of
the constants, under the assumptions named in the modules (`HubAssumption`,
`FiniteAddresses`, `AlchemyAssumption`, `BlockbookAssumption`, `EvmRpcAssumption`,
`RpcAssumption`, `ClusterAssumption`: types of the constants,
and finite sets of addresses where the code counts or enumerates them). TLC
evaluates these assumptions in every run.

| Theorem | States | From |
|---|---|---|
| `HubProofs!TypeCorrect` | `Spec => []TypeOK` | `TypeOK` with `Callers`: a call that is pending has a socket |
| `HubProofs!ClosedSocketsAreGone` | `Spec => []NoDanglingSocket` | `IInv` |
| `HubProofs!TablesAgree` | `Spec => []HubPluginAgree` | `IInv` |
| `HubProofs!GivenUpIsLeft` | `Spec => []NothingUnwanted` | `IInv`, `Protocol` |
| `HubProofs!BeliefIsTrue` | `Spec => []BelievedIsSubscribed` | `IInv`, `Protocol`, `Believing` |
| `HubProofs!ActivityIsTold` | `Spec => []NeverSilentlyBehind` | the same |
| `HubProofs!PromiseKept` | `Spec => ImplementsSubscriptions` | the same, `StepSimulation` |
| `AlchemyProofs!TypeCorrect` | `Spec => []TypeOK` | inductive as it stands |
| `AlchemyProofs!ChangesHaveTimers` | `Spec => []NoStrandedChange` | with `TypeOK` |
| `AlchemyProofs!NothingUncovered` | `Orderly => (Spec => []Coverage)` | `IInv` |
| `AlchemyProofs!QuietMeansSynced` | `Orderly => (Spec => []Synced)` | `IInv` |
| `AlchemyProofs!OneAtATime` | `InSight => (Spec => []OneWebhook)` | `TypeOK`, `Stages`, `Known` |
| `AlchemyProofs!BackoffHolds` | `Spec => BackoffIsKept` | `TypeOK`, `Carries`, `Waits` |
| `BlockbookProofs!TypeCorrect` | `Spec => []TypeOK` | `IInv` |
| `BlockbookProofs!HubAndPluginAgree` | `Spec => []HubAgrees` | `IInv` |
| `BlockbookProofs!SentCallsSettle` | `Spec => []SentIsSettled` | `IInv` |
| `BlockbookProofs!BlocksKeepComing` | `Spec => []BlockFeedReturns` | `IInv` |
| `BlockbookProofs!OwedStaysWatched` | `Spec => []OwedIsWatched` | `IInv`, `Watching` |
| `EvmRpcProofs!TypeCorrect` | `Spec => []TypeOK` | `TypeOK` with `Started`: only blocks that were handed over have a handler |
| `EvmRpcProofs!ToldOfEveryBlock` | `OwnSpelling => (Spec => []NothingMissed)` | `IInv` |
| `JsonRpcProofs!TypeCorrect` | `Spec => []TypeOK` | `IInv` |
| `JsonRpcProofs!OwnOutcomes` | `Spec => []OwnOutcome` | `IInv` |
| `JsonRpcProofs!NothingForgotten` | `Spec => []NoCallForgotten` | `IInv` |
| `JsonRpcProofs!Refinement` | `Spec => ImplementsRemoteCalls` | `IInv`, `StepSimulation` |
| `ClusterProofs!TypeCorrect` | `Spec => []TypeOK` | `IInv`, `OwnTypes`, `Keys` |
| `ClusterProofs!ToldOnce` | `Spec => []HeardOnce` | `IInv` |
| `ClusterProofs!NobodyForgotten` | `Spec => []NobodySkipped` | `IInv` |
| `ClusterProofs!RefusalsAreJust` | `Spec => RefusesOnlyStrangers` | `IInv`, `Keys` |
| `ClusterProofs!OneUserServed` | `Spec => []OneUserIsServed` | `OwnTypes`, `Keys`, `OneUser` |

**Hub.** `IInv` is `TypeOK` and `Tables`: `NoDanglingSocket`, `HubPluginAgree` and
`OnlySupported` (an address of a plugin the server does not have never gets an
entry). The last is needed because `Close` and the `unsubscribe` loop look at entries
only. The step that takes thought is the loop: `LeaveTables` shows that it keeps
the tables whatever part it runs up to the next await, and since the entry and the
plugin call change in one action, no settlement matters to the invariant.

For what clients were told, `Protocol` says which items a call of each phase has,
and `Believing` adds to the two properties what a reply that is still to come
relies on: no two calls of a patient client in progress share an address
(`Exclusive`), the socket is in the entry of every address whose result will be a success
(`HopefulIsIn`), what an `unsubscribe` call works on is believed no more
(`LeavingIsNotBelieved`), and a scan result that is held back until the whole reply goes out
has not been overtaken by activity the client missed (`UnchangedIsCurrent`). The last one
says why the reply may wait for the slowest address of the call: updates reach
the client meanwhile, since its socket is in the entry from the start.

For the refinement, `StepSimulation` maps `Connect` to `Join`, `Close` to `Part`,
`SubscribeCall` to `Ask`, the settlement of a subscription or scan to `Answer`, `UnsubscribeCall` to
`GiveUp`, `Activity` to `Publish` and `SubLost` to `Lose`, or each to a stutter the
promise does not see (`Unseen`). Three of them rest on `Believing`: the reply
(`ProgressConfirms`) leaves nothing the client does not know, and `Publish` and `Lose` must tell everyone
who believes, while the handlers tell everyone in the entry of an address the plugin watches.

**Alchemy.** `Coverage` and `Synced` are not inductive. `BatchInv` adds what the code
relies on: `Net` (a queue never holds more than one net change of an address, and it
points to where `subscribed` says), `Stages` (what is known at each await),
`Covered` and `Dropped` (where a subscribed address is, and what is left of one that
was unsubscribed), `Apart` (without overtaking calls, the batch's changes are still
wanted) and `Reliable` (with them, nothing sends the batch back). `Orderly` says that
one of the two holds: calls keep off the batch in flight, or only URL corrections
and deletes may fail. `alchemy_requeue` is the run that drops it and fails, so the
assumption is needed; how the API orders the two lists (`BothLists`) does not matter.

`Known` says that an active webhook is the plugin's or still on the list of discovery.
It needs `InSight`: no delete fails and no reply to a create is lost. Both happen
(`alchemy.ts:290` and `:171` only log a failed delete), and then a second webhook stays until a
process starts and discovers it, so `OneWebhook` is not claimed without it.
`BackoffIsKept` rests on `Waits`: after a failure the queue is not empty, since calls
can turn a queued change into its opposite but never take one back, so the backoff timer
never fires in vain and no shorter one can be armed.

**Blockbook.** `Connections` says that an address is mapped to a live connection and is in
its list, that the lists hold nothing else, and that the pool holds live connections only and none
twice. The last makes `splice(indexOf(c), 1)` harmless where the connection is there, and
the lemmas on `RemoveAt` say what it does where the index is -1. `OwedIsWatched` needs
`Watching`: for what is owed, no query about the address that is or will be answered holds another set than
the entry (`InGoodTime` goes on to hold), so a reply either leaves the transaction in the set or announces
it. It is kept because a new entry gets a set no query holds (`EntryGrows`), and because an
entry that goes takes what is owed with it (`EntriesGo`): the client leaves, the connection
is lost, or the reply announced the last of it (`NoLateQuery`, `StaysWatched`).

**EvmRpc.** `Divided` says how scan and handlers share the work: of a block after its
checkpoint whose transfers of some kind touch a client's address, and of which the
scan has passed that kind of list without finding it, the client was told, or the
handler has found it, or has yet to match that kind, or the block has not been handed
over, or the part is lost. `Passed` is what makes it inductive: a list
that was read answered from all blocks mined until then, so what it did not name
came later. `Subscribed` (a client is the subscriber of its key from its call to its
leaving) carries the handlers' matches; it needs `OwnSpelling`, no two clients with different
spellings of one address, which is what `evmrpc_spelling` drops. `Emptied` and `Started` fix
what a handler holds before and after it ran.

**JsonRpc.** What makes `OwnOutcome` inductive is what the channels may hold: a request on
the way is not being run yet (`RequestsOK`), a return that has an id tells how the run
of that call ended, or is an event of a subscription, and finds the call or the
subscription (`ReturnsOK`, `OpenOK`), and no request and no reply is in a channel twice (`OnceOK`).
So an answer "cannot find id" always has the id null, and never meets a pending call.
`CallsOK` ties the maps to the promises. `NoCallForgotten` alone is too weak: when a reply is taken one must know that
the call had nothing else on the way, hence `Located`, which says for each stage of the run
where the call is. A lemma each says what sending, taking and cutting a channel does
(`Sending`, `Taking`, `Cutting`). For the refinement `fate` and `served` are the abstract
variables themselves; `StepSimulation` shows that `Call` is `Make`, `RunMethod` is `Start`, `TakeReturn` is
`Resolve`, `Reject` or `Misread`, `HandleClose` is `Cancel`, and every other step stutters.

**Cluster.** `OneStage` says that an activity is at one stage of the broadcast at a time: with
the worker that handled it, with the primary without a sender, or relayed to workers
that have not handled it. With `SilentBefore` (nobody has heard of a request before it is accepted)
that gives `HeardOnce`; `OwedToOthers` (only workers that are up, and not the sender, are
still to be told) is what `Recipients` needs to reach them all.

`Keys` is what refusals rest on: once the API has composed the list for a recovery, that list, and
later the keys of the worker, have every active webhook but those made since
(`KeysAreKnown`). A request goes on only when the list has been stored, so whichever requests share
the recovery find each webhook of it, and of the keys that were there or were set
meanwhile none is dropped.

`OneUserIsServed` is the longest argument. Webhooks are numbered as the API makes them
(`MadeInOrder`), and discovery keeps the first. `OneUser` follows the one worker with
clients (`Keeps`) and all the others (`Spares`, `Strangers`): a discovery that has not
taken its first webhook still has the first active one on its list, and one that has taken it
holds the first of all, so none deletes the one that every discovery keeps
(`DiscoveryKeeps`, `Spares`); a batch awaits the call that fits `webhookId`, and one that deletes the webhook
has every subscription in the queue (`BatchKeeps`); and a subscribed address is
queued, in the batch, or on the webhook (`AddressesKept`). When the worker creates or deletes a webhook
there is no other one, so no discovery has anything to delete (`ServesSpares`). A worker that restarts finds
what the last one left: `FreshKeeps` says that a fresh process keeps all of this,
whichever webhooks there are.

Only model-checked: liveness (`SubscriptionsLand`, `NewsArrives`, `ScansSettle`,
`CallsSettle`, `QuietUnlessMisfit`, `RequestsArrive`), since fairness and ENABLED are out
of the prover's reach, as is induction over data. No module declares a recursive
operator.

## 10. What is not modelled

- Not yet (section 2): checkpoints of clients that reconnect; in Blockbook, which connections
  stay open and whether a held address is reported.
- In part: the webhook registry. Registration happens once per plugin and key, and no
  key has two handlers, so the loop over several handlers of a key, which awaits while
  a handler may be removed, does not occur.
- Not at all: HTTP and terminal I/O (`alchemyNotifyApi.ts`, `cli/`), constant answers
  (`routes/healthCheckRoute.ts`, `routes/notFoundRoute.ts`), the table of plugins, the fake plugin, the
  metrics server, configuration, logging and stateless helpers.
- Left out of `Alchemy` and `Cluster`: clients that spell one address differently, as
  `evmrpc_spelling` has them; and the `error` event of a message to a worker whose channel has just closed.
- Abstracted throughout: the text of messages and addresses, signatures (a worker has
  the key of a webhook or has not), delays, metrics other
  than the hub's gauges, which key or URL is picked at random.

Disagreements between the code and what it says of itself are in `PROJECT.json` under
"findings", each with its run and the quoted line: `hub.ts:254`, `alchemy.ts:95`,
`alchemy.ts:303`, `alchemy.ts:287`, `evmRpc.ts:241`. Behaviour that a reader may not expect, but
that no run states, is named in the sections above: `hub.ts:144`, `hub.ts:117`,
`blockbook.ts:108`, `:131`, `:165`, `:275` and `:334`, `evmRpc.ts:105`, `:158` and `:207`,
`jsonRpc.ts:286`, `:314` and `:317`, `signingKeyStore.ts:38` and `:63`.

## 11. Running it

    tlc -workers 2 -config MCHub.cfg MCHub        # a run: module and cfg as in PROJECT.json
    tlapm HubProofs.tla                           # the proofs of a module

The passing runs take from three seconds to about two and a half minutes on two workers. The runs with a
violation print the trace. Deadlock is not checked: clients may stop calling, calls
and blocks are bounded, and a server without them has nothing to do.
