------------------------------- MODULE EvmRpc -------------------------------
(* The EVM RPC plugin of src/plugins/evmRpc.ts with the scan adapters of    *)
(* src/util/scanAdapters, called by the hub of src/hub.ts for one client    *)
(* per spelling of an address.                                              *)
(*                                                                          *)
(* onBlock is not awaited by the library that calls it, so the handlers of  *)
(* several blocks run at once; one action is the code between two awaits.   *)
(* A block is the addresses each kind of transfer touches.  An explorer     *)
(* answers from the whole chain: it does not lag behind the node.  Delays   *)
(* between retries are left out, and the retries of a rate-limited request  *)
(* are one request that answers or fails.                                   *)
EXTENDS Naturals, Sequences, FiniteSets

CONSTANTS
    Spellings,       \* addresses as the clients write them
    Keys,            \* addresses in lower case
    Norm,            \* toLowerCase, from spellings to keys
    Adapters,        \* scanAdapters.length
    IncludeInternal, \* includeInternal
    MaxTries,        \* GET_LOGS_MAX_RETRIES
    Failing,         \* requests that may fail: "logs", "trace", "debug", "scan"
    MaxBlocks,       \* bound: blocks mined
    MaxTouches       \* bound: addresses touched by a block

NoSpelling == "none"
Kinds == {"tx", "log", "internal"}

ASSUME EvmRpcAssumption ==
    /\ IsFiniteSet(Keys)
    /\ NoSpelling \notin Spellings
    /\ Norm \in [Spellings -> Keys]
    /\ Adapters \in Nat /\ MaxTries \in Nat \ {0}
    /\ IncludeInternal \in BOOLEAN
    /\ Failing \subseteq {"logs", "trace", "debug", "scan"}
    /\ MaxBlocks \in Nat /\ MaxTouches \in Nat

VARIABLES
    chain,      \* the blocks mined
    seen,       \* how many of them were handed to onBlock
    subscribed, \* subscribedAddresses
    work,       \* the handler of each block
    calls,      \* hub: what has become of the subscribe call of each spelling
    told,       \* hub: update events passed on to a client that is subscribed
    lost,       \* parts of blocks the node did not deliver, or that went
                \* with a handler that rejected
    destroyed

vars == <<chain, seen, subscribed, work, calls, told, lost, destroyed>>

Blocks == 1..MaxBlocks
NewHandler == [stage |-> "new", tries |-> 0, found |-> {}]
Finished == [stage |-> "done", tries |-> 0, found |-> {}]
Idle == [stage |-> "idle", since |-> 0, left |-> 0, list |-> 1]

----------------------------------------------------------------------------
(* Scans *)

(* The lists an adapter asks for, in order.                                 *)
Lists == <<"tx", "log", "internal">>

Scanning(since) == [stage |-> "scan", since |-> since, left |-> Adapters, list |-> 1]

(* since is the block up to which the client knows its address.  A client   *)
(* that is told of changes fetches them itself.                             *)
Settled(since) == [stage |-> "settled", since |-> since, left |-> 0, list |-> 1]
Changed == Settled(Len(chain))

NextList(call) == [call EXCEPT !.list = @ + 1]
NextAdapter(call) == [call EXCEPT !.left = @ - 1, !.list = 1]

(* The answer to one request: what the list in turn has after since.        *)
Fetched(call, key) ==
    {b \in (call.since + 1)..Len(chain) : key \in chain[b][Lists[call.list]]}

Hit(call, key) == Fetched(call, key) # {}

FirstListOnly(s) ==
    LET call == calls[s] IN
    /\ call.stage = "scan"
    /\ calls' = [calls EXCEPT ![s] =
            IF Hit(call, Norm[s]) THEN Changed ELSE Settled(call.since)]
    /\ UNCHANGED <<chain, seen, subscribed, work, told, lost, destroyed>>

ScanList(s) ==
    LET call == calls[s] IN
    /\ call.stage = "scan"
    /\ calls' = [calls EXCEPT ![s] =
            IF Hit(call, Norm[s]) THEN Changed
            ELSE IF call.list = Len(Lists) THEN Settled(call.since)
            ELSE NextList(call)]
    /\ UNCHANGED <<chain, seen, subscribed, work, told, lost, destroyed>>

ScanFailsSameAdapter(s) ==
    /\ calls[s].stage = "scan" /\ "scan" \in Failing
    /\ calls' = [calls EXCEPT ![s].list = 1]
    /\ UNCHANGED <<chain, seen, subscribed, work, told, lost, destroyed>>

(* The next adapter starts over.  Without one, assume changes.              *)
ScanFails(s) ==
    LET call == calls[s] IN
    /\ call.stage = "scan" /\ "scan" \in Failing
    /\ calls' = [calls EXCEPT ![s] =
            IF call.left > 1 THEN NextAdapter(call) ELSE Changed]
    /\ UNCHANGED <<chain, seen, subscribed, work, told, lost, destroyed>>

----------------------------------------------------------------------------
(* The plugin's methods, as the hub calls them *)

(* One client subscribes with the checkpoint it has, and is answered after  *)
(* the scan, or without any, and is told of changes at once.                *)
Subscribe(s) ==
    /\ calls[s].stage = "idle" /\ ~destroyed
    /\ subscribed' = [subscribed EXCEPT ![Norm[s]] = s]
    /\ \E c \in {Changed} \union {Scanning(since) : since \in 0..Len(chain)} :
            /\ Adapters = 0 => c = Changed
            /\ calls' = [calls EXCEPT ![s] = c]
    /\ told' = {t \in told : t[1] # s}
    /\ UNCHANGED <<chain, seen, work, lost, destroyed>>

Unsubscribe(s) ==
    /\ calls[s].stage # "idle" /\ ~destroyed
    /\ subscribed' = [subscribed EXCEPT ![Norm[s]] = NoSpelling]
    /\ calls' = [calls EXCEPT ![s] = Idle]
    /\ told' = {t \in told : t[1] # s}
    /\ UNCHANGED <<chain, seen, work, lost, destroyed>>

(* The server shuts down, and its clients are gone.                         *)
Destroy ==
    /\ ~destroyed
    /\ destroyed' = TRUE
    /\ subscribed' = [k \in Keys |-> NoSpelling]
    /\ calls' = [s \in Spellings |-> Idle]
    /\ told' = {}
    /\ UNCHANGED <<chain, seen, work, lost>>

----------------------------------------------------------------------------
(* The chain *)

Mine(block) ==
    /\ Len(chain) < MaxBlocks
    /\ Cardinality(UNION {{k} \X block[k] : k \in Kinds}) <= MaxTouches
    /\ chain' = Append(chain, block)
    /\ UNCHANGED <<seen, subscribed, work, calls, told, lost, destroyed>>

----------------------------------------------------------------------------
(* onBlock *)

Matches(keys) == {subscribed[k] : k \in keys} \ {NoSpelling}

(* The update events, and the hub, which passes on those of an address      *)
(* somebody is subscribed to.                                               *)
Emit(b, found) ==
    /\ work' = [work EXCEPT ![b] = Finished]
    /\ told' = told \union ({s \in found : calls[s].stage # "idle"} \X {b})

(* Transactions are matched at once.  With no subscriptions, that is all.   *)
OnBlock ==
    /\ seen < Len(chain) /\ ~destroyed
    /\ seen' = seen + 1
    /\ work' = [work EXCEPT ![seen + 1] =
            IF \A k \in Keys : subscribed[k] = NoSpelling THEN Finished
            ELSE [stage |-> "logs", tries |-> 0, found |-> Matches(chain[seen + 1]["tx"])]]
    /\ UNCHANGED <<chain, subscribed, calls, told, lost, destroyed>>

AfterLogs(b, keys) ==
    IF IncludeInternal
    THEN /\ work' = [work EXCEPT ![b].stage = "trace",
                                 ![b].found = @ \union Matches(keys)]
         /\ UNCHANGED told
    ELSE Emit(b, work[b].found \union Matches(keys))

Logs(b) ==
    /\ work[b].stage = "logs"
    /\ AfterLogs(b, chain[b]["log"])
    /\ UNCHANGED <<chain, seen, subscribed, calls, lost, destroyed>>

LogsFailAgain(b) ==
    /\ work[b].stage = "logs" /\ "logs" \in Failing
    /\ work' = [work EXCEPT ![b].tries = (@ + 1) % MaxTries]
    /\ UNCHANGED <<chain, seen, subscribed, calls, told, lost, destroyed>>

LogsFailLate(b) ==
    /\ work[b].stage = "logs" /\ "logs" \in Failing
    /\ IF work[b].tries < MaxTries
       THEN /\ work' = [work EXCEPT ![b].tries = @ + 1]
            /\ UNCHANGED <<told, lost>>
       ELSE /\ AfterLogs(b, {})
            /\ lost' = lost \union {<<"log", b>>}
    /\ UNCHANGED <<chain, seen, subscribed, calls, destroyed>>

(* After the last try the block is processed without its logs.              *)
LogsFail(b) ==
    /\ work[b].stage = "logs" /\ "logs" \in Failing
    /\ IF work[b].tries + 1 < MaxTries
       THEN /\ work' = [work EXCEPT ![b].tries = @ + 1]
            /\ UNCHANGED <<told, lost>>
       ELSE /\ AfterLogs(b, {})
            /\ lost' = lost \union {<<"log", b>>}
    /\ UNCHANGED <<chain, seen, subscribed, calls, destroyed>>

(* A trace holds the transactions themselves too.                           *)
Traced(b) == chain[b]["tx"] \union chain[b]["internal"]

EmitTraced(b, keys) ==
    /\ Emit(b, work[b].found \union Matches(keys))
    /\ lost' = IF chain[b]["internal"] \subseteq keys THEN lost ELSE lost \union {<<"internal", b>>}
    /\ UNCHANGED <<chain, seen, subscribed, calls, destroyed>>

(* trace_block.  An entry that cannot be read ends the loop, with what was  *)
(* matched before it and no second attempt.                                 *)
Trace(b) ==
    /\ work[b].stage = "trace"
    /\ \E keys \in IF "trace" \in Failing THEN SUBSET Traced(b) ELSE {Traced(b)} :
            EmitTraced(b, keys)

TraceFails(b) ==
    /\ work[b].stage = "trace" /\ "trace" \in Failing
    /\ work' = [work EXCEPT ![b].stage = "debug"]
    /\ UNCHANGED <<chain, seen, subscribed, calls, told, lost, destroyed>>

(* debug_traceTransaction for every transaction, each of which may fail.    *)
Debug(b) ==
    /\ work[b].stage = "debug"
    /\ \E keys \in IF "debug" \in Failing THEN SUBSET Traced(b) ELSE {Traced(b)} :
            EmitTraced(b, keys)

(* A trace that walk cannot read: onBlock rejects, and announces nothing of *)
(* the block, not even what it had matched.                                 *)
DebugThrows(b) ==
    /\ work[b].stage = "debug" /\ "debug" \in Failing
    /\ work' = [work EXCEPT ![b] = Finished]
    /\ lost' = lost \union (Kinds \X {b})
    /\ UNCHANGED <<chain, seen, subscribed, calls, told, destroyed>>

----------------------------------------------------------------------------
Init ==
    /\ chain = <<>> /\ seen = 0
    /\ subscribed = [k \in Keys |-> NoSpelling]
    /\ work = [b \in Blocks |-> NewHandler]
    /\ calls = [s \in Spellings |-> Idle]
    /\ told = {} /\ lost = {} /\ destroyed = FALSE

Handler(b) == Logs(b) \/ LogsFail(b) \/ Trace(b) \/ TraceFails(b) \/ Debug(b) \/ DebugThrows(b)
Scan(s) == ScanList(s) \/ ScanFails(s)

Next ==
    \/ \E s \in Spellings : Subscribe(s) \/ Unsubscribe(s) \/ Scan(s)
    \/ \E block \in [Kinds -> SUBSET Keys] : Mine(block)
    \/ OnBlock
    \/ \E b \in Blocks : Handler(b)
    \/ Destroy

(* The library polls for blocks, and every request answers or times out.    *)
Fairness ==
    /\ WF_vars(OnBlock)
    /\ \A b \in Blocks : WF_vars(Handler(b))
    /\ \A s \in Spellings : WF_vars(Scan(s))

Spec == Init /\ [][Next]_vars
FairSpec == Spec /\ Fairness

----------------------------------------------------------------------------
(* Properties *)

(* Every variable holds a value the code can give it.                       *)
TypeOK ==
    /\ chain \in Seq([Kinds -> SUBSET Keys]) /\ Len(chain) <= MaxBlocks
    /\ seen \in 0..Len(chain)
    /\ subscribed \in [Keys -> Spellings \union {NoSpelling}]
    /\ work \in [Blocks -> [stage : {"new", "logs", "trace", "debug", "done"},
                            tries : 0..(MaxTries - 1), found : SUBSET Spellings]]
    /\ calls \in [Spellings -> [stage : {"idle", "scan", "settled"}, since : 0..MaxBlocks,
                                left : 0..Adapters, list : 1..Len(Lists)]]
    /\ told \subseteq Spellings \X Blocks
    /\ lost \subseteq Kinds \X Blocks
    /\ destroyed \in BOOLEAN

Watched == IF IncludeInternal THEN Kinds ELSE Kinds \ {"internal"}

(* The blocks after its checkpoint that touch the address of a client, in a *)
(* way the plugin looks for, and are not lost.                              *)
News(s) ==
    {b \in (calls[s].since + 1)..Len(chain) :
        \E k \in Watched : Norm[s] \in chain[b][k] /\ <<k, b>> \notin lost}

(* A client whose subscribe call was answered is told of every block after  *)
(* its checkpoint that touches its address, by the scan, which runs while   *)
(* blocks arrive, or by the handler of the block, once that is done:        *)
(* nothing that was delivered falls between the two, whatever awaits they   *)
(* are suspended in and whichever requests fail.                            *)
NothingMissed ==
    \A s \in Spellings : calls[s].stage = "settled" =>
        \A b \in News(s) : work[b].stage = "done" => <<s, b>> \in told

(* Such a client is told in the end: neither the retries for the logs nor   *)
(* the second way to trace a block keeps the update back for ever.          *)
NewsArrives ==
    \A s \in Spellings, b \in Blocks :
        (calls[s].stage = "settled" /\ b \in News(s))
            ~> (<<s, b>> \in told \/ calls[s].stage # "settled" \/ b \notin News(s))

(* Every subscribe call is answered, whichever adapters fail.               *)
ScansSettle == \A s \in Spellings : calls[s].stage = "scan" ~> calls[s].stage # "scan"
============================================================================
