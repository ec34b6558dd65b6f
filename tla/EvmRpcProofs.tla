---------------------------- MODULE EvmRpcProofs ----------------------------
(* Proofs about the EVM RPC plugin, for any addresses, blocks, adapters and *)
(* failing requests.                                                        *)
EXTENDS EvmRpc, TLAPS

USE DEF NoSpelling

LEMMA ListFacts == /\ Len(Lists) = 3
                   /\ Lists[1] = "tx" /\ Lists[2] = "log" /\ Lists[3] = "internal"
BY DEF Lists

----------------------------------------------------------------------------
(* Type correctness *)

Stages == {"new", "logs", "trace", "debug", "done"}
Handlers == [stage : Stages, tries : 0..(MaxTries - 1), found : SUBSET Spellings]
Clients == [stage : {"idle", "scan", "settled"}, since : 0..MaxBlocks,
            left : 0..Adapters, list : 1..Len(Lists)]

(* The records the code writes have the types of the tables.                *)
LEMMA RecordTypes ==
    ASSUME TypeOK
    PROVE  /\ NewHandler \in Handlers /\ Finished \in Handlers
           /\ Idle \in Clients /\ Changed \in Clients
           /\ \A since \in 0..MaxBlocks : Settled(since) \in Clients
           /\ \A since \in 0..MaxBlocks : Scanning(since) \in Clients
<1>1. Len(chain) \in 0..MaxBlocks BY EvmRpcAssumption DEF TypeOK
<1>2. 0 \in 0..(MaxTries - 1) /\ 0 \in 0..MaxBlocks /\ 0 \in 0..Adapters /\ Adapters \in 0..Adapters
  BY EvmRpcAssumption
<1>3. 1 \in 1..Len(Lists) BY ListFacts
<1> QED BY <1>1, <1>2, <1>3
        DEF NewHandler, Finished, Idle, Changed, Settled, Scanning, Handlers, Clients, Stages

LEMMA MatchesType ==
    ASSUME TypeOK, NEW keys \in SUBSET Keys
    PROVE  Matches(keys) \subseteq Spellings
BY DEF Matches, TypeOK

LEMMA EmitType ==
    ASSUME TypeOK, NEW b \in Blocks, NEW found \in SUBSET Spellings, Emit(b, found)
    PROVE  work' \in [Blocks -> Handlers] /\ told' \subseteq Spellings \X Blocks
<1>1. Finished \in Handlers BY RecordTypes
<1>2. work \in [Blocks -> Handlers] BY DEF TypeOK, Handlers, Stages
<1> QED BY <1>1, <1>2 DEF Emit, TypeOK

LEMMA AfterLogsType ==
    ASSUME TypeOK, NEW b \in Blocks, NEW keys \in SUBSET Keys, AfterLogs(b, keys)
    PROVE  work' \in [Blocks -> Handlers] /\ told' \subseteq Spellings \X Blocks
<1>1. work \in [Blocks -> Handlers] BY DEF TypeOK, Handlers, Stages
<1>2. work[b].found \union Matches(keys) \in SUBSET Spellings
  BY <1>1, MatchesType DEF Handlers
<1>3. CASE IncludeInternal
  <2>1. [work[b] EXCEPT !.stage = "trace", !.found = @ \union Matches(keys)] \in Handlers
    BY <1>1, <1>2 DEF Handlers, Stages
  <2>2. work' = [work EXCEPT ![b] = [work[b] EXCEPT !.stage = "trace",
                                                    !.found = @ \union Matches(keys)]]
    BY <1>3 DEF AfterLogs
  <2>3. told' = told BY <1>3 DEF AfterLogs
  <2> QED BY <1>1, <2>1, <2>2, <2>3 DEF TypeOK
<1>4. CASE ~IncludeInternal
  <2>1. Emit(b, work[b].found \union Matches(keys)) BY <1>4 DEF AfterLogs
  <2> QED BY <1>2, <2>1, EmitType
<1> QED BY <1>3, <1>4

(* A handler that has started works on a block that was handed over.        *)
Started == \A b \in Blocks : work[b].stage # "new" => b <= seen

LEMMA BlockType ==
    ASSUME TypeOK, NEW b \in 1..Len(chain)
    PROVE  \A k \in Kinds : chain[b][k] \in SUBSET Keys
BY DEF TypeOK

LEMMA HandlerBlock ==
    ASSUME TypeOK, Started, NEW b \in Blocks, work[b].stage # "new"
    PROVE  b \in 1..Len(chain) /\ \A k \in Kinds : chain[b][k] \in SUBSET Keys
<1>1. b \in 1..Len(chain) BY DEF TypeOK, Started, Blocks
<1> QED BY <1>1, BlockType

LEMMA TypeInit == Init => TypeOK
<1> SUFFICES ASSUME Init PROVE TypeOK
  OBVIOUS
<1>1. 0 \in 0..MaxBlocks /\ 0 \in 0..(MaxTries - 1) /\ 0 \in 0..Adapters /\ 1 \in 1..Len(Lists)
  BY EvmRpcAssumption, ListFacts
<1>2. chain \in Seq([Kinds -> SUBSET Keys]) /\ Len(chain) = 0 BY DEF Init
<1>3. work \in [Blocks -> Handlers] BY <1>1 DEF Init, NewHandler, Handlers, Stages
<1>4. calls \in [Spellings -> Clients] BY <1>1 DEF Init, Idle, Clients
<1>5. /\ seen \in 0..Len(chain) /\ Len(chain) <= MaxBlocks
      /\ subscribed \in [Keys -> Spellings \union {NoSpelling}]
      /\ told = {} /\ lost = {} /\ destroyed = FALSE
  BY <1>1, <1>2, EvmRpcAssumption DEF Init
<1> QED BY <1>2, <1>3, <1>4, <1>5 DEF TypeOK, Handlers, Stages, Clients

LEMMA TypeNext == TypeOK /\ Started /\ [Next]_vars => TypeOK'
<1> SUFFICES ASSUME TypeOK, Started, [Next]_vars PROVE TypeOK'
  OBVIOUS
<1> USE EvmRpcAssumption
<1>0. /\ work \in [Blocks -> Handlers] /\ calls \in [Spellings -> Clients]
      /\ Len(chain) \in 0..MaxBlocks
  BY DEF TypeOK, Handlers, Clients, Stages
<1>1. ASSUME NEW s \in Spellings, Subscribe(s) PROVE TypeOK'
  <2>1. PICK c \in {Changed} \union {Scanning(since) : since \in 0..Len(chain)} :
          calls' = [calls EXCEPT ![s] = c]
    BY <1>1 DEF Subscribe
  <2>2. c \in Clients BY <1>0, RecordTypes
  <2>3. calls' \in [Spellings -> Clients] BY <1>0, <2>1, <2>2
  <2>4. subscribed' \in [Keys -> Spellings \union {NoSpelling}] BY <1>1 DEF Subscribe, TypeOK
  <2> QED BY <1>1, <2>3, <2>4 DEF Subscribe, TypeOK, Clients
<1>2. ASSUME NEW s \in Spellings, Unsubscribe(s) PROVE TypeOK'
  <2>1. calls' \in [Spellings -> Clients] BY <1>0, <1>2, RecordTypes DEF Unsubscribe
  <2>2. subscribed' \in [Keys -> Spellings \union {NoSpelling}] BY <1>2 DEF Unsubscribe, TypeOK
  <2> QED BY <1>2, <2>1, <2>2 DEF Unsubscribe, TypeOK, Clients
<1>3. ASSUME NEW s \in Spellings, ScanList(s) PROVE TypeOK'
  <2>1. calls[s] \in Clients BY <1>0
  <2>2. /\ Changed \in Clients /\ Settled(calls[s].since) \in Clients
        /\ calls[s].list # Len(Lists) => NextList(calls[s]) \in Clients
    BY <2>1, RecordTypes, ListFacts DEF NextList, Clients
  <2>3. calls' \in [Spellings -> Clients] BY <1>0, <1>3, <2>2 DEF ScanList
  <2> QED BY <1>3, <2>3 DEF ScanList, TypeOK, Clients
<1>4. ASSUME NEW s \in Spellings, ScanFails(s) PROVE TypeOK'
  <2>1. calls[s] \in Clients BY <1>0
  <2>2. Changed \in Clients BY RecordTypes
  <2>3. calls[s].left > 1 => NextAdapter(calls[s]) \in Clients
    <3> SUFFICES ASSUME calls[s].left > 1 PROVE NextAdapter(calls[s]) \in Clients
      OBVIOUS
    <3>1. calls[s].left - 1 \in 0..Adapters /\ 1 \in 1..Len(Lists)
      BY <2>1, ListFacts DEF Clients
    <3> QED BY <2>1, <3>1 DEF NextAdapter, Clients
  <2>4. calls' \in [Spellings -> Clients] BY <1>0, <1>4, <2>2, <2>3 DEF ScanFails
  <2> QED BY <1>4, <2>4 DEF ScanFails, TypeOK, Clients
<1>5. ASSUME NEW block \in [Kinds -> SUBSET Keys], Mine(block) PROVE TypeOK'
  <2>1. /\ chain' \in Seq([Kinds -> SUBSET Keys])
        /\ Len(chain') = Len(chain) + 1 /\ Len(chain') <= MaxBlocks
    BY <1>0, <1>5 DEF Mine, TypeOK
  <2>2. seen' \in 0..Len(chain') BY <1>0, <1>5, <2>1 DEF Mine, TypeOK
  <2> QED BY <1>5, <2>1, <2>2 DEF Mine, TypeOK
<1>6. CASE OnBlock
  <2>1. seen + 1 \in 1..Len(chain) /\ seen + 1 \in Blocks BY <1>0, <1>6 DEF OnBlock, TypeOK, Blocks
  <2>2. chain[seen + 1]["tx"] \in SUBSET Keys BY <2>1, BlockType DEF Kinds
  <2>3. [stage |-> "logs", tries |-> 0, found |-> Matches(chain[seen + 1]["tx"])] \in Handlers
    BY <2>2, MatchesType DEF Handlers, Stages
  <2>4. work' \in [Blocks -> Handlers] BY <1>0, <1>6, <2>1, <2>3, RecordTypes DEF OnBlock
  <2>5. seen' \in 0..Len(chain) BY <1>6, <2>1 DEF OnBlock
  <2> QED BY <1>6, <2>4, <2>5 DEF OnBlock, TypeOK, Handlers, Stages
<1>7. ASSUME NEW b \in Blocks, Handler(b) PROVE TypeOK'
  <2>0. work[b].stage # "new" BY <1>7 DEF Handler, Logs, LogsFail, Trace, TraceFails, Debug, DebugThrows
  <2>1. /\ chain[b]["tx"] \in SUBSET Keys /\ chain[b]["log"] \in SUBSET Keys
        /\ chain[b]["internal"] \in SUBSET Keys
    BY <2>0, HandlerBlock DEF Kinds
  <2>2. CASE Logs(b)
    <3>1. AfterLogs(b, chain[b]["log"]) BY <2>2 DEF Logs
    <3> QED BY <2>1, <2>2, <3>1, AfterLogsType DEF Logs, TypeOK, Handlers, Stages
  <2>3. CASE LogsFail(b)
    <3>1. CASE work[b].tries + 1 < MaxTries
      <4>1. work[b].tries + 1 \in 0..(MaxTries - 1) BY <1>0, <3>1 DEF Handlers
      <4>2. work' = [work EXCEPT ![b].tries = @ + 1] BY <2>3, <3>1 DEF LogsFail
      <4>3. work' \in [Blocks -> Handlers] BY <1>0, <4>1, <4>2 DEF Handlers
      <4> QED BY <2>3, <3>1, <4>3 DEF LogsFail, TypeOK, Handlers, Stages
    <3>2. CASE ~(work[b].tries + 1 < MaxTries)
      <4>1. AfterLogs(b, {}) /\ lost' = lost \union {<<"log", b>>} BY <2>3, <3>2 DEF LogsFail
      <4>2. work' \in [Blocks -> Handlers] /\ told' \subseteq Spellings \X Blocks
        BY <4>1, AfterLogsType
      <4>3. lost' \subseteq Kinds \X Blocks BY <4>1 DEF TypeOK, Kinds
      <4> QED BY <2>3, <4>2, <4>3 DEF LogsFail, TypeOK, Handlers, Stages
    <3> QED BY <3>1, <3>2
  <2>4. ASSUME NEW keys \in SUBSET Traced(b), EmitTraced(b, keys) PROVE TypeOK'
    <3>1. keys \in SUBSET Keys BY <2>1 DEF Traced
    <3>2. work[b].found \union Matches(keys) \in SUBSET Spellings
      BY <1>0, <3>1, MatchesType DEF Handlers
    <3>3. Emit(b, work[b].found \union Matches(keys)) BY <2>4 DEF EmitTraced
    <3>4. work' \in [Blocks -> Handlers] /\ told' \subseteq Spellings \X Blocks
      BY <3>2, <3>3, EmitType
    <3>5. lost' \subseteq Kinds \X Blocks BY <2>4 DEF EmitTraced, TypeOK, Kinds
    <3> QED BY <2>4, <3>4, <3>5 DEF EmitTraced, TypeOK, Handlers, Stages
  <2>5. CASE Trace(b) \/ Debug(b) BY <2>4, <2>5 DEF Trace, Debug
  <2>6. CASE TraceFails(b)
    <3>1. work' \in [Blocks -> Handlers] BY <1>0, <2>6 DEF TraceFails, Handlers, Stages
    <3> QED BY <2>6, <3>1 DEF TraceFails, TypeOK, Handlers, Stages
  <2>7. CASE DebugThrows(b)
    <3>1. work' \in [Blocks -> Handlers] BY <1>0, <2>7, RecordTypes DEF DebugThrows
    <3>2. lost' \subseteq Kinds \X Blocks BY <2>7 DEF DebugThrows, TypeOK
    <3> QED BY <2>7, <3>1, <3>2 DEF DebugThrows, TypeOK, Handlers, Stages
  <2> QED BY <1>7, <2>2, <2>3, <2>5, <2>6, <2>7 DEF Handler
<1>8. CASE Destroy
  <2>1. calls' \in [Spellings -> Clients] BY <1>8, RecordTypes DEF Destroy
  <2> QED BY <1>8, <2>1 DEF Destroy, TypeOK, Clients
<1>9. CASE UNCHANGED vars BY <1>9 DEF TypeOK, vars
<1> QED BY <1>1, <1>2, <1>3, <1>4, <1>5, <1>6, <1>7, <1>8, <1>9 DEF Next, Scan

LEMMA StartedNext == TypeOK /\ Started /\ [Next]_vars => Started'
<1> SUFFICES ASSUME TypeOK, Started, [Next]_vars PROVE Started'
  OBVIOUS
<1>1. CASE OnBlock
  <2> SUFFICES ASSUME NEW b \in Blocks, work'[b].stage # "new" PROVE b <= seen'
    BY DEF Started
  <2>1. CASE b = seen + 1 BY <1>1, <2>1 DEF OnBlock, Blocks, TypeOK
  <2>2. CASE b # seen + 1
    <3>1. work'[b] = work[b] BY <1>1, <2>2 DEF OnBlock, TypeOK
    <3> QED BY <1>1, <3>1, EvmRpcAssumption DEF OnBlock, Started, Blocks, TypeOK
  <2> QED BY <2>1, <2>2
<1>2. ASSUME NEW h \in Blocks, Handler(h) PROVE Started'
  <2>1. work[h].stage # "new" BY <1>2 DEF Handler, Logs, LogsFail, Trace, TraceFails, Debug, DebugThrows
  <2>2. seen' = seen BY <1>2 DEF Handler, Logs, LogsFail, Trace, TraceFails, Debug, DebugThrows, EmitTraced
  <2>3. \A b \in Blocks : b # h => work'[b] = work[b]
    BY <1>2 DEF Handler, Logs, LogsFail, Trace, TraceFails, Debug, DebugThrows, EmitTraced, Emit, AfterLogs, TypeOK
  <2> QED BY <2>1, <2>2, <2>3 DEF Started
<1>3. CASE UNCHANGED <<seen, work>> BY <1>3 DEF Started
<1> QED
  BY <1>1, <1>2, <1>3 DEF Next, Subscribe, Unsubscribe, Scan, ScanList, ScanFails, Mine, Destroy, vars

(* The plugin and its clients keep their types.                             *)
THEOREM TypeCorrect == Spec => []TypeOK
<1>1. Init => TypeOK /\ Started
  <2>1. Init => Started BY DEF Init, Started, NewHandler
  <2> QED BY <2>1, TypeInit
<1>2. TypeOK /\ Started /\ [Next]_vars => (TypeOK /\ Started)' BY TypeNext, StartedNext
<1> QED BY <1>1, <1>2, PTL DEF Spec

----------------------------------------------------------------------------
(* Nothing is missed *)

(* The clients spell different addresses; see the run that drops this.      *)
OwnSpelling == \A s, t \in Spellings : Norm[s] = Norm[t] => s = t

(* A client is subscribed from its call to its leaving.                     *)
Subscribed == \A s \in Spellings : calls[s].stage # "idle" => subscribed[Norm[s]] = s

Emptied == \A b \in Blocks : work[b].stage = "done" => work[b].found = {}

(* The handler of b has yet to match the transfers of this kind.            *)
Ahead(b, k) ==
    \/ work[b].stage = "logs" /\ k # "tx"
    \/ work[b].stage \in {"trace", "debug"} /\ k = "internal"

(* The client was told of b, or its handler will tell it.                   *)
Handled(s, b, k) ==
    \/ b > seen \/ <<s, b>> \in told \/ <<k, b>> \in lost
    \/ s \in work[b].found \/ Ahead(b, k)

(* The lists of the scan in which the address of the client was not found.  *)
Passed(s) ==
    {k \in Watched :
        \/ calls[s].stage = "settled"
        \/ calls[s].stage = "scan" /\ \E i \in 1..(calls[s].list - 1) : Lists[i] = k}

(* What a list did not have came later, and so falls to the handlers.       *)
Divided ==
    \A s \in Spellings, b \in Blocks, k \in Watched :
        /\ k \in Passed(s)
        /\ b > calls[s].since /\ b <= Len(chain) /\ Norm[s] \in chain[b][k]
        => Handled(s, b, k)

IInv == TypeOK /\ Started /\ Subscribed /\ Emptied /\ Divided

LEMMA FoundByMatch ==
    ASSUME TypeOK, Subscribed, NEW s \in Spellings, calls[s].stage # "idle",
           NEW keys, Norm[s] \in keys
    PROVE  s \in Matches(keys)
BY EvmRpcAssumption DEF Subscribed, Matches

LEMMA EmitTells ==
    ASSUME TypeOK, NEW b \in Blocks, NEW found, Emit(b, found)
    PROVE  /\ told \subseteq told' /\ work'[b] = Finished
           /\ \A c \in Blocks : c # b => work'[c] = work[c]
           /\ \A s \in found : calls[s].stage # "idle" => <<s, b>> \in told'
BY DEF Emit, TypeOK

LEMMA SubscribedNext == OwnSpelling /\ TypeOK /\ Subscribed /\ [Next]_vars => Subscribed'
<1> SUFFICES ASSUME OwnSpelling, TypeOK, Subscribed, [Next]_vars,
                    NEW s \in Spellings, calls'[s].stage # "idle"
             PROVE  subscribed'[Norm[s]] = s
  BY DEF Subscribed
<1>0. \A t \in Spellings : Norm[t] \in Keys BY EvmRpcAssumption
<1>1. ASSUME NEW t \in Spellings, Subscribe(t) PROVE subscribed'[Norm[s]] = s
  <2>1. CASE s = t BY <1>0, <1>1, <2>1 DEF Subscribe, TypeOK
  <2>2. CASE s # t
    <3>1. Norm[s] # Norm[t] BY <2>2 DEF OwnSpelling
    <3>2. calls'[s] = calls[s] BY <1>1, <2>2 DEF Subscribe, TypeOK
    <3> QED BY <1>0, <1>1, <3>1, <3>2 DEF Subscribe, Subscribed, TypeOK
  <2> QED BY <2>1, <2>2
<1>2. ASSUME NEW t \in Spellings, Unsubscribe(t) PROVE subscribed'[Norm[s]] = s
  <2>1. s # t BY <1>2 DEF Unsubscribe, Idle, TypeOK
  <2>2. Norm[s] # Norm[t] BY <2>1 DEF OwnSpelling
  <2>3. calls'[s] = calls[s] BY <1>2, <2>1 DEF Unsubscribe, TypeOK
  <2> QED BY <1>0, <1>2, <2>2, <2>3 DEF Unsubscribe, Subscribed, TypeOK
<1>3. ASSUME NEW t \in Spellings, Scan(t) PROVE subscribed'[Norm[s]] = s
  <2>1. calls[t].stage # "idle" /\ \A u \in Spellings : u # t => calls'[u] = calls[u]
    BY <1>3 DEF Scan, ScanList, ScanFails, TypeOK
  <2>2. subscribed' = subscribed BY <1>3 DEF Scan, ScanList, ScanFails
  <2> QED BY <2>1, <2>2 DEF Subscribed
<1>4. CASE Destroy BY <1>4 DEF Destroy, Idle
<1>5. CASE UNCHANGED <<calls, subscribed>> BY <1>5 DEF Subscribed
<1> QED
  BY <1>1, <1>2, <1>3, <1>4, <1>5
  DEF Next, Mine, OnBlock, Handler, Logs, LogsFail, Trace, TraceFails, Debug, DebugThrows, EmitTraced, vars

LEMMA EmptiedNext == TypeOK /\ Emptied /\ [Next]_vars => Emptied'
<1> SUFFICES ASSUME TypeOK, Emptied, [Next]_vars,
                    NEW b \in Blocks, work'[b].stage = "done"
             PROVE  work'[b].found = {}
  BY DEF Emptied
<1>1. CASE OnBlock
  <2>1. seen + 1 \in Blocks BY <1>1, EvmRpcAssumption DEF OnBlock, TypeOK, Blocks
  <2>2. work'[seen + 1].stage = "done" => work'[seen + 1].found = {}
    BY <1>1, <2>1 DEF OnBlock, Finished, TypeOK
  <2> QED BY <1>1, <2>2 DEF OnBlock, Emptied, TypeOK
<1>2. ASSUME NEW h \in Blocks, Handler(h) PROVE work'[b].found = {}
  <2>1. CASE \E found : Emit(h, found)
    BY <2>1, EmitTells DEF Emptied, Finished
  <2>2. CASE \E stage \in {"logs", "trace", "debug"} :
                work'[h].stage = stage /\ \A c \in Blocks : c # h => work'[c] = work[c]
    BY <2>2 DEF Emptied
  <2>3. CASE Logs(h) \/ LogsFail(h)
    <3>1. CASE \E keys : AfterLogs(h, keys)
      <4>1. PICK keys : AfterLogs(h, keys) BY <3>1
      <4>2. CASE IncludeInternal
        <5>1. work' = [work EXCEPT ![h].stage = "trace", ![h].found = @ \union Matches(keys)]
          BY <4>1, <4>2 DEF AfterLogs
        <5> QED BY <5>1, <2>2 DEF TypeOK
      <4>3. CASE ~IncludeInternal BY <2>1, <4>1, <4>3 DEF AfterLogs
      <4> QED BY <4>2, <4>3
    <3>2. CASE work[h].stage = "logs" /\ work' = [work EXCEPT ![h].tries = @ + 1]
      BY <2>2, <3>2 DEF TypeOK
    <3> QED BY <2>3, <3>1, <3>2 DEF Logs, LogsFail
  <2>4. CASE Trace(h) \/ Debug(h) BY <2>1, <2>4 DEF Trace, Debug, EmitTraced
  <2>5. CASE TraceFails(h) BY <2>2, <2>5 DEF TraceFails, TypeOK
  <2>6. CASE DebugThrows(h) BY <2>6 DEF DebugThrows, Emptied, Finished, TypeOK
  <2> QED BY <1>2, <2>3, <2>4, <2>5, <2>6 DEF Handler
<1>3. CASE work' = work BY <1>3 DEF Emptied
<1> QED
  BY <1>1, <1>2, <1>3 DEF Next, Subscribe, Unsubscribe, Scan, ScanList, ScanFails, Mine, Destroy, vars

(* What the handler keeps when it goes on from the logs.                    *)
LEMMA AfterLogsKeeps ==
    ASSUME TypeOK, NEW b \in Blocks, NEW keys, AfterLogs(b, keys)
    PROVE  /\ told \subseteq told'
           /\ \A c \in Blocks : c # b => work'[c] = work[c]
           /\ \A s \in work[b].found \union Matches(keys) :
                 calls[s].stage # "idle" => s \in work'[b].found \/ <<s, b>> \in told'
           /\ IncludeInternal => work'[b].stage = "trace"
<1>1. CASE IncludeInternal
  <2>1. work' = [work EXCEPT ![b].stage = "trace", ![b].found = @ \union Matches(keys)]
    BY <1>1 DEF AfterLogs
  <2>2. told' = told BY <1>1 DEF AfterLogs
  <2> QED BY <2>1, <2>2 DEF TypeOK
<1>2. CASE ~IncludeInternal
  <2>1. Emit(b, work[b].found \union Matches(keys)) BY <1>2 DEF AfterLogs
  <2> QED BY <1>2, <2>1, EmitTells
<1> QED BY <1>1, <1>2

(* A step of a handler matches what it is given, keeps what it has found    *)
(* and ends by telling it.                                                  *)
LEMMA HandlerDivides ==
    ASSUME TypeOK, Subscribed, Divided, NEW h \in Blocks, Handler(h)
    PROVE  Divided'
<1>1. UNCHANGED <<chain, seen, calls, subscribed>>
  BY DEF Handler, Logs, LogsFail, Trace, TraceFails, Debug, DebugThrows, EmitTraced
<1> SUFFICES ASSUME NEW s \in Spellings, NEW b \in Blocks, NEW k \in Watched,
                    k \in Passed(s), b > calls[s].since, b <= Len(chain),
                    Norm[s] \in chain[b][k]
             PROVE  Handled(s, b, k)'
  BY <1>1 DEF Divided, Passed, Watched
<1>2. Handled(s, b, k) BY DEF Divided
<1>3. calls[s].stage # "idle" BY DEF Passed
<1>4. k \in Kinds /\ (k = "internal" => IncludeInternal) BY DEF Watched, Kinds
<1>5. CASE Logs(h) \/ (LogsFail(h) /\ ~(work[h].tries + 1 < MaxTries))
  <2>1. PICK keys : /\ AfterLogs(h, keys) /\ work[h].stage = "logs"
                    /\ lost \subseteq lost'
                    /\ keys = chain[h]["log"] \/ <<"log", h>> \in lost'
    BY <1>5 DEF Logs, LogsFail
  <2>2. CASE b # h
    BY <1>1, <1>2, <2>1, <2>2, AfterLogsKeeps DEF Handled, Ahead
  <2>3. CASE b = h
    <3>1. CASE s \in work[h].found BY <1>3, <2>1, <2>3, <3>1, AfterLogsKeeps DEF Handled
    <3>2. CASE k = "internal" BY <1>4, <2>1, <2>3, <3>2, AfterLogsKeeps DEF Handled, Ahead
    <3>3. CASE k = "log"
      <4>1. keys = chain[h]["log"] => s \in Matches(keys) BY <1>3, <2>3, <3>3, FoundByMatch
      <4> QED BY <1>3, <2>1, <2>3, <3>3, <4>1, AfterLogsKeeps DEF Handled
    <3>4. CASE b > seen \/ <<s, b>> \in told \/ <<k, b>> \in lost
      BY <1>1, <2>1, <3>4, AfterLogsKeeps DEF Handled
    <3> QED BY <1>2, <1>4, <2>1, <2>3, <3>1, <3>2, <3>3, <3>4 DEF Handled, Ahead, Kinds
  <2> QED BY <2>2, <2>3
<1>6. CASE LogsFail(h) /\ work[h].tries + 1 < MaxTries
  <2>1. work' = [work EXCEPT ![h].tries = @ + 1] /\ UNCHANGED <<told, lost>>
    BY <1>6 DEF LogsFail
  <2> QED BY <1>1, <1>2, <2>1 DEF Handled, Ahead, TypeOK
<1>7. CASE Trace(h) \/ Debug(h)
  <2>1. PICK keys : EmitTraced(h, keys) /\ work[h].stage \in {"trace", "debug"}
    BY <1>7 DEF Trace, Debug
  <2>2. Emit(h, work[h].found \union Matches(keys)) BY <2>1 DEF EmitTraced
  <2>3. lost \subseteq lost' /\ (chain[h]["internal"] \subseteq keys \/ <<"internal", h>> \in lost')
    BY <2>1 DEF EmitTraced
  <2>4. CASE b # h BY <1>1, <1>2, <2>2, <2>3, <2>4, EmitTells DEF Handled, Ahead
  <2>5. CASE b = h
    <3>1. CASE s \in work[h].found BY <1>3, <2>2, <2>5, <3>1, EmitTells DEF Handled
    <3>2. CASE k = "internal"
      <4>1. chain[h]["internal"] \subseteq keys => s \in Matches(keys)
        BY <1>3, <2>5, <3>2, FoundByMatch
      <4> QED BY <1>3, <2>2, <2>3, <2>5, <3>2, <4>1, EmitTells DEF Handled
    <3>3. CASE b > seen \/ <<s, b>> \in told \/ <<k, b>> \in lost
      BY <1>1, <2>2, <2>3, <3>3, EmitTells DEF Handled
    <3> QED BY <1>2, <2>1, <2>5, <3>1, <3>2, <3>3 DEF Handled, Ahead
  <2> QED BY <2>4, <2>5
<1>8. CASE TraceFails(h)
  <2>1. /\ work[h].stage = "trace" /\ work' = [work EXCEPT ![h].stage = "debug"]
        /\ UNCHANGED <<told, lost>>
    BY <1>8 DEF TraceFails
  <2> QED BY <1>1, <1>2, <2>1 DEF Handled, Ahead, TypeOK
<1>9. CASE DebugThrows(h)
  <2>1. /\ UNCHANGED told /\ lost \subseteq lost' /\ \A c \in Blocks : c # h => work'[c] = work[c]
    BY <1>9 DEF DebugThrows, TypeOK
  <2>2. CASE b # h BY <1>1, <1>2, <2>1, <2>2 DEF Handled, Ahead
  <2>3. CASE b = h
    <3>1. <<k, b>> \in lost' BY <1>4, <1>9, <2>3 DEF DebugThrows
    <3> QED BY <3>1 DEF Handled
  <2> QED BY <2>2, <2>3
<1> QED BY <1>5, <1>6, <1>7, <1>8, <1>9 DEF Handler

LEMMA DividedNext ==
    OwnSpelling /\ TypeOK /\ Started /\ Subscribed /\ Divided /\ [Next]_vars => Divided'
<1> SUFFICES ASSUME OwnSpelling, TypeOK, Started, Subscribed, Divided, [Next]_vars
             PROVE  Divided'
  OBVIOUS
<1>0. /\ Len(chain) \in 0..MaxBlocks /\ seen \in 0..Len(chain)
      /\ \A s \in Spellings : Norm[s] \in Keys /\ calls[s] \in Clients
  BY EvmRpcAssumption DEF TypeOK, Clients
(* What happens to a client t is no matter to the others.                   *)
<1>1. ASSUME NEW t \in Spellings,
             \A s \in Spellings : s # t => calls'[s] = calls[s],
             \A s \in Spellings, b \in Blocks : s # t /\ <<s, b>> \in told => <<s, b>> \in told',
             UNCHANGED <<chain, seen, work, lost>>,
             \A b \in Blocks, k \in Watched :
                /\ k \in Passed(t)'
                /\ b > calls'[t].since /\ b <= Len(chain) /\ Norm[t] \in chain[b][k]
                => Handled(t, b, k)'
      PROVE  Divided'
  <2> SUFFICES ASSUME NEW s \in Spellings, NEW b \in Blocks, NEW k \in Watched,
                      k \in Passed(s)', b > calls'[s].since, b <= Len(chain'),
                      Norm[s] \in chain'[b][k]
               PROVE  Handled(s, b, k)'
    BY DEF Divided, Watched
  <2>1. CASE s = t BY <1>1, <2>1
  <2>2. CASE s # t
    <3>1. k \in Passed(s) /\ b > calls[s].since BY <1>1, <2>2 DEF Passed
    <3>2. Handled(s, b, k) BY <1>1, <3>1 DEF Divided
    <3> QED BY <1>1, <2>2, <3>2 DEF Handled, Ahead
  <2> QED BY <2>1, <2>2
<1>2. ASSUME NEW t \in Spellings, Subscribe(t) PROVE Divided'
  <2>1. PICK c \in {Changed} \union {Scanning(since) : since \in 0..Len(chain)} :
          calls' = [calls EXCEPT ![t] = c]
    BY <1>2 DEF Subscribe
  <2>2. calls'[t] = c /\ \A s \in Spellings : s # t => calls'[s] = calls[s]
    BY <2>1 DEF TypeOK
  <2>3. \/ calls'[t].since = Len(chain)
        \/ calls'[t].stage = "scan" /\ calls'[t].list = 1
    BY <2>2 DEF Changed, Settled, Scanning
  <2>4. \A s \in Spellings, b \in Blocks : s # t /\ <<s, b>> \in told => <<s, b>> \in told'
    BY <1>2 DEF Subscribe
  <2>5. UNCHANGED <<chain, seen, work, lost>> BY <1>2 DEF Subscribe
  <2>6. calls'[t].stage = "scan" /\ calls'[t].list = 1 => Passed(t)' = {}
    BY DEF Passed
  <2> QED BY <1>0, <1>1, <2>2, <2>3, <2>4, <2>5, <2>6 DEF Blocks
<1>3. ASSUME NEW t \in Spellings, Unsubscribe(t) PROVE Divided'
  <2>1. calls'[t] = Idle /\ \A s \in Spellings : s # t => calls'[s] = calls[s]
    BY <1>3 DEF Unsubscribe, TypeOK
  <2>2. \A s \in Spellings, b \in Blocks : s # t /\ <<s, b>> \in told => <<s, b>> \in told'
    BY <1>3 DEF Unsubscribe
  <2>3. UNCHANGED <<chain, seen, work, lost>> BY <1>3 DEF Unsubscribe
  <2>4. Passed(t)' = {} BY <2>1 DEF Passed, Idle
  <2> QED BY <1>1, <2>1, <2>2, <2>3, <2>4
<1>4. ASSUME NEW t \in Spellings, ScanList(t) PROVE Divided'
  <2>1. /\ calls[t].stage = "scan" /\ UNCHANGED <<chain, seen, work, lost, told>>
        /\ \A s \in Spellings : s # t => calls'[s] = calls[s]
    BY <1>4 DEF ScanList, TypeOK
  <2> SUFFICES ASSUME NEW b \in Blocks, NEW k \in Watched, k \in Passed(t)',
                      b > calls'[t].since, b <= Len(chain), Norm[t] \in chain[b][k]
               PROVE  Handled(t, b, k)'
    BY <1>1, <2>1
  <2>2. CASE Hit(calls[t], Norm[t])
    <3>1. calls'[t] = Changed BY <1>4, <2>2 DEF ScanList, TypeOK
    <3> QED BY <1>0, <3>1 DEF Changed, Settled, Blocks
  <2>3. CASE ~Hit(calls[t], Norm[t])
    <3>1. /\ calls'[t] = IF calls[t].list = Len(Lists) THEN Settled(calls[t].since)
                                                      ELSE NextList(calls[t])
      BY <1>4, <2>3 DEF ScanList, TypeOK
    <3>2. calls'[t].since = calls[t].since BY <1>0, <3>1 DEF Settled, NextList, Clients
    <3>3. k # Lists[calls[t].list]
      BY <1>0, <2>3, <3>2 DEF Hit, Fetched, Blocks, Clients
    <3>4. PICK i \in 1..calls[t].list : Lists[i] = k
      <4>1. CASE calls[t].list = Len(Lists) BY <4>1, ListFacts DEF Watched, Kinds
      <4>2. CASE calls[t].list # Len(Lists)
        <5>1. calls'[t].stage = "scan" /\ calls'[t].list = calls[t].list + 1
          BY <1>0, <2>1, <3>1, <4>2 DEF NextList, Clients
        <5>2. PICK i \in 1..(calls'[t].list - 1) : Lists[i] = k BY <5>1 DEF Passed
        <5> QED BY <1>0, <5>1, <5>2 DEF Clients
      <4> QED BY <4>1, <4>2
    <3>5. i \in 1..(calls[t].list - 1) BY <1>0, <3>3, <3>4 DEF Clients
    <3>6. k \in Passed(t) BY <2>1, <3>4, <3>5 DEF Passed
    <3>7. Handled(t, b, k) BY <3>2, <3>6 DEF Divided
    <3> QED BY <2>1, <3>7 DEF Handled, Ahead
  <2> QED BY <2>2, <2>3
<1>5. ASSUME NEW t \in Spellings, ScanFails(t) PROVE Divided'
  <2>1. /\ UNCHANGED <<chain, seen, work, lost, told>>
        /\ \A s \in Spellings : s # t => calls'[s] = calls[s]
    BY <1>5 DEF ScanFails, TypeOK
  <2>2. \/ calls'[t].since = Len(chain)
        \/ calls'[t].stage = "scan" /\ calls'[t].list = 1
    <3>1. calls'[t] = Changed \/ calls'[t] = NextAdapter(calls[t])
      BY <1>5 DEF ScanFails, TypeOK
    <3>2. calls[t].stage = "scan" BY <1>5 DEF ScanFails
    <3>3. Changed.since = Len(chain) BY DEF Changed, Settled
    <3>4. calls[t] \in Clients BY <1>0
    <3>5. NextAdapter(calls[t]).stage = "scan" /\ NextAdapter(calls[t]).list = 1
      BY <3>2, <3>4 DEF NextAdapter, Clients
    <3> QED BY <3>1, <3>3, <3>5
  <2>3. calls'[t].stage = "scan" /\ calls'[t].list = 1 => Passed(t)' = {}
    BY DEF Passed
  <2> QED BY <1>0, <1>1, <2>1, <2>2, <2>3 DEF Blocks
<1>6. ASSUME NEW block \in [Kinds -> SUBSET Keys], Mine(block) PROVE Divided'
  <2>1. /\ Len(chain') = Len(chain) + 1 /\ \A b \in 1..Len(chain) : chain'[b] = chain[b]
        /\ UNCHANGED <<seen, calls, work, told, lost>>
    BY <1>6 DEF Mine, TypeOK
  <2> SUFFICES ASSUME NEW s \in Spellings, NEW b \in Blocks, NEW k \in Watched,
                      k \in Passed(s)', b > calls'[s].since, b <= Len(chain'),
                      Norm[s] \in chain'[b][k]
               PROVE  Handled(s, b, k)'
    BY DEF Divided, Watched
  <2>2. CASE b = Len(chain) + 1 BY <1>0, <2>1, <2>2 DEF Handled
  <2>3. CASE b # Len(chain) + 1
    <3>1. b \in 1..Len(chain) BY <1>0, <2>1, <2>3 DEF Blocks
    <3>2. k \in Passed(s) BY <2>1 DEF Passed
    <3>3. Handled(s, b, k) BY <2>1, <3>1, <3>2 DEF Divided
    <3> QED BY <2>1, <3>3 DEF Handled, Ahead
  <2> QED BY <2>2, <2>3
<1>7. CASE OnBlock
  <2>1. /\ seen' = seen + 1 /\ UNCHANGED <<chain, calls, told, lost>>
        /\ \A b \in Blocks : b # seen + 1 => work'[b] = work[b]
    BY <1>7 DEF OnBlock, TypeOK
  <2> SUFFICES ASSUME NEW s \in Spellings, NEW b \in Blocks, NEW k \in Watched,
                      k \in Passed(s), b > calls[s].since, b <= Len(chain),
                      Norm[s] \in chain[b][k]
               PROVE  Handled(s, b, k)'
    BY <2>1 DEF Divided, Passed, Watched
  <2>2. CASE b = seen + 1
    <3>1. calls[s].stage # "idle" BY DEF Passed
    <3>2. subscribed[Norm[s]] # NoSpelling BY <3>1, EvmRpcAssumption DEF Subscribed
    <3>3. work'[b] = [stage |-> "logs", tries |-> 0, found |-> Matches(chain[b]["tx"])]
      BY <1>0, <1>7, <2>2, <3>2 DEF OnBlock, TypeOK
    <3>4. k = "tx" => s \in work'[b].found BY <3>1, <3>3, FoundByMatch
    <3> QED BY <3>3, <3>4 DEF Handled, Ahead
  <2>3. CASE b # seen + 1
    <3>1. Handled(s, b, k) BY DEF Divided
    <3>2. b > seen => b > seen' BY <1>0, <2>1, <2>3 DEF Blocks
    <3> QED BY <2>1, <2>3, <3>1, <3>2 DEF Handled, Ahead
  <2> QED BY <2>2, <2>3
<1>8. ASSUME NEW h \in Blocks, Handler(h) PROVE Divided'
  BY <1>8, HandlerDivides
<1>9. CASE Destroy
  <2>1. \A s \in Spellings : Passed(s)' = {} BY <1>9 DEF Destroy, Passed, Idle
  <2> QED BY <2>1 DEF Divided
<1>10. CASE UNCHANGED vars BY <1>10 DEF vars, Divided, Passed, Handled, Ahead, Watched
<1> QED
  BY <1>2, <1>3, <1>4, <1>5, <1>6, <1>7, <1>8, <1>9, <1>10 DEF Next, Scan

(* A client is told of every block after its checkpoint that touches its    *)
(* address, whichever handlers, scans and failures interleave, as long as   *)
(* no two clients spell one address differently.                            *)
THEOREM ToldOfEveryBlock ==
    ASSUME OwnSpelling
    PROVE  Spec => []NothingMissed
<1>1. Init => IInv
  <2>1. Init => Started /\ Subscribed /\ Emptied
    BY DEF Init, Started, Subscribed, Emptied, NewHandler, Idle
  <2>2. Init => Divided BY DEF Init, Divided, Passed, Idle
  <2> QED BY <2>1, <2>2, TypeInit DEF IInv
<1>2. IInv /\ [Next]_vars => IInv'
  BY TypeNext, StartedNext, SubscribedNext, EmptiedNext, DividedNext, OwnSpelling DEF IInv
<1>3. IInv => NothingMissed
  <2> SUFFICES ASSUME IInv, NEW s \in Spellings, calls[s].stage = "settled",
                      NEW b \in News(s), work[b].stage = "done"
               PROVE  <<s, b>> \in told
    BY DEF NothingMissed
  <2>1. /\ b \in Blocks /\ b > calls[s].since /\ b <= Len(chain)
    BY EvmRpcAssumption DEF IInv, TypeOK, News, Blocks
  <2>2. PICK k \in Watched : Norm[s] \in chain[b][k] /\ <<k, b>> \notin lost BY DEF News
  <2>3. Handled(s, b, k) BY <2>1, <2>2 DEF IInv, Divided, Passed
  <2>4. b <= seen /\ work[b].found = {} BY <2>1 DEF IInv, Started, Emptied
  <2>5. ~Ahead(b, k) BY DEF Ahead
  <2>6. ~(b > seen) BY <2>1, <2>4 DEF IInv, TypeOK, Blocks
  <2> QED BY <2>2, <2>3, <2>4, <2>5, <2>6 DEF Handled
<1> QED BY <1>1, <1>2, <1>3, PTL DEF Spec
============================================================================
