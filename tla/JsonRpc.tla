------------------------------- MODULE JsonRpc -------------------------------
(* The message codec of src/jsonRpc.ts, on both ends of one websocket: the  *)
(* calls each side makes and their ids, the methods the other side runs for *)
(* them, the replies and protocol errors, and the end of the connection.    *)
(*                                                                          *)
(* With the protocol "change" (src/types/changeProtocol.ts) both ends run   *)
(* this codec.  With "blockbook" (src/types/blockbookProtocol.ts) the       *)
(* client does, multiple returns are allowed, and the server is external:   *)
(* it runs calls, and sends the events of a subscription under the id of    *)
(* the call that made it.                                                   *)
(*                                                                          *)
(* A message is its kind, its id, and whether the other side understands    *)
(* it: "good" is FALSE for an unknown method, bad parameters or plain       *)
(* noise, and for a return that does not have the shape of a result, which  *)
(* is an event.  A handler runs to its end, so an action is one call of a   *)
(* function of the codec; a websocket keeps the order of its messages.      *)
EXTENDS Integers, Sequences, FiniteSets, Functions

CONSTANTS
    Protocols,  \* the protocols to consider
    MaxCalls,   \* bound: [Sides -> Nat], calls a side makes
    MaxNotices, \* bound: notifications sent
    MaxMisfits, \* bound: messages the other side does not understand
    MaxEvents   \* bound: events of the Blockbook server

Sides == {"client", "server"}

ASSUME RpcAssumption ==
    /\ Protocols \subseteq {"change", "blockbook"}
    /\ MaxCalls \in [Sides -> Nat]
    /\ MaxNotices \in Nat /\ MaxMisfits \in Nat /\ MaxEvents \in Nat

VARIABLES
    protocol,            \* the protocol of this connection
    wire,                \* "up" until the connection closes
    closed,              \* the sides whose handleClose has run
    chan,                \* the messages on their way to each side
    nextRemoteId,
    remoteCalls,         \* the ids in remoteCalls
    remoteSubscriptions, \* the ids in remoteSubscriptions
    fate,                \* the promise of each call
    served,              \* the run of each call by the other side
    misfit,              \* the calls the other side does not understand
    misfits,             \* counts up to MaxMisfits
    notices,             \* counts up to MaxNotices
    events               \* counts up to MaxEvents

vars == <<protocol, wire, closed, chan, nextRemoteId, remoteCalls, remoteSubscriptions, fate,
          served, misfit, misfits, notices, events>>

callVars == <<nextRemoteId, remoteCalls, remoteSubscriptions, fate>>
lineVars == <<protocol, wire, closed>>
boundVars == <<misfit, misfits, notices, events>>

Peer(s) == IF s = "client" THEN "server" ELSE "client"
Ids == UNION {0..(MaxCalls[s] - 1) : s \in Sides}

(* The id null of protocol errors.                                          *)
NullId == -1

Message(kind, id, good) == [kind |-> kind, id |-> id, good |-> good]
CallMessage(id, good) == Message("call", id, good)
NoticeWithId(good) == Message("notice", 0, good)
Notice(good) == Message("notice", NullId, good)
Reply(id) == Message("result", id, TRUE)
EventMessage(id) == Message("result", id, FALSE)
Error(id) == Message("error", id, TRUE)

Messages ==
    [kind : {"call", "result"}, id : Ids, good : BOOLEAN] \union
    [kind : {"notice"}, id : {NullId}, good : BOOLEAN] \union
    [kind : {"error"}, id : Ids \union {NullId}, good : {TRUE}]

(* A side that runs this codec.                                             *)
IsCodec(s) == protocol = "change" \/ s = "client"

(* handleSend: nothing arrives over a connection that is down; the error    *)
(* only goes to handleError.                                                *)
Sent(q, m) == IF wire = "up" THEN Append(q, m) ELSE q
Send(s, m) == chan' = [chan EXCEPT ![s] = Sent(chan[s], m)]

(* A side takes the first message, and may answer it.                       *)
Take(s) == chan' = [chan EXCEPT ![s] = Tail(chan[s])]
TakeAndAnswer(s, m) ==
    chan' = [chan EXCEPT ![s] = Tail(chan[s]), ![Peer(s)] = Sent(chan[Peer(s)], m)]

----------------------------------------------------------------------------
(* The proxy functions for the remote methods *)

CountMisfit(good) ==
    /\ good \/ (misfits < MaxMisfits /\ protocol = "change")
    /\ misfits' = IF good THEN misfits ELSE misfits + 1

NextIdReused(s) == nextRemoteId' = [nextRemoteId EXCEPT ![s] = Cardinality(remoteCalls[s])]

NextId(s) == nextRemoteId' = [nextRemoteId EXCEPT ![s] = nextRemoteId[s] + 1]

(* A method call; sub if a local notification has the same name, so that    *)
(* further returns of the id are events.  It does not ask whether the       *)
(* connection is still there.                                               *)
Call(s, good, sub) ==
    LET id == nextRemoteId[s]
    IN  /\ id < MaxCalls[s] /\ IsCodec(s)
        /\ sub => protocol = "blockbook"
        /\ CountMisfit(good)
        /\ NextId(s)
        /\ remoteCalls' = [remoteCalls EXCEPT ![s] = remoteCalls[s] \union {id}]
        /\ remoteSubscriptions' = [remoteSubscriptions EXCEPT ![s] =
               IF sub THEN remoteSubscriptions[s] \union {id} ELSE remoteSubscriptions[s]]
        /\ fate' = [fate EXCEPT ![s][id] = "pending"]
        /\ misfit' = [misfit EXCEPT ![s] =
               IF good THEN misfit[s] ELSE misfit[s] \union {id}]
        /\ Send(Peer(s), CallMessage(id, good))
        /\ UNCHANGED <<lineVars, served, notices, events>>

(* A notification has no id and no result.                                  *)
Notify(s, good) ==
    /\ notices < MaxNotices /\ protocol = "change"
    /\ notices' = notices + 1
    /\ CountMisfit(good)
    /\ Send(Peer(s), Notice(good))
    /\ UNCHANGED <<lineVars, callVars, served, misfit, events>>

----------------------------------------------------------------------------
(* handleMessage *)

(* The side handles the first message of its channel, of one of the kinds.  *)
Gets(s, kinds) == s \notin closed /\ chan[s] # <<>> /\ Head(chan[s]).kind \in kinds

(* A call the side understands: the local method is started.                *)
RunMethod(s) ==
    LET m == Head(chan[s])
    IN  /\ Gets(s, {"call"}) /\ m.good
        /\ served' = [served EXCEPT ![Peer(s)][m.id] = "running"]
        /\ Take(s)
        /\ UNCHANGED <<lineVars, callVars, boundVars>>

NotificationRefused(s) ==
    /\ Gets(s, {"notice"}) /\ Head(chan[s]).good
    /\ TakeAndAnswer(s, Error(NullId))
    /\ UNCHANGED <<lineVars, callVars, served, boundVars>>

(* A notification the side understands has no answer.                       *)
RunNotification(s) ==
    /\ Gets(s, {"notice"}) /\ Head(chan[s]).good
    /\ Take(s)
    /\ UNCHANGED <<lineVars, callVars, served, boundVars>>

(* The protocol errors -32700, -32601, -32600 and -32602: the answer has    *)
(* the id null, whatever the id of the call.                                *)
Refuse(s) ==
    /\ Gets(s, {"call", "notice"}) /\ ~Head(chan[s]).good
    /\ TakeAndAnswer(s, Error(NullId))
    /\ UNCHANGED <<lineVars, callVars, served, boundVars>>

SettlesAsAny(m) == IF m.kind = "error" THEN "rejected" ELSE "resolved"

(* What a return makes of the promise: the result cleaner throws on an      *)
(* event.                                                                   *)
SettlesAs(m) ==
    IF m.kind = "error" THEN "rejected" ELSE IF m.good THEN "resolved" ELSE "misread"

(* A return with the id of a pending call settles the call.                 *)
TakeReturn(s) ==
    LET m == Head(chan[s])
    IN  /\ Gets(s, {"result", "error"}) /\ m.id \in remoteCalls[s]
        /\ remoteCalls' = [remoteCalls EXCEPT ![s] = remoteCalls[s] \ {m.id}]
        /\ fate' = [fate EXCEPT ![s][m.id] = SettlesAs(m)]
        /\ Take(s)
        /\ UNCHANGED <<lineVars, nextRemoteId, remoteSubscriptions, served, boundVars>>

(* A later return of a subscription goes to the local notification; one     *)
(* that does not have the shape of an event is a protocol error.            *)
TakeEvent(s) ==
    LET m == Head(chan[s])
    IN  /\ Gets(s, {"result", "error"})
        /\ m.id \notin remoteCalls[s] /\ m.id \in remoteSubscriptions[s]
        /\ IF m.kind = "result" /\ ~m.good THEN Take(s) ELSE TakeAndAnswer(s, Error(NullId))
        /\ UNCHANGED <<lineVars, callVars, served, boundVars>>

(* Any other return is answered with an error that has the same id, null    *)
(* included.                                                                *)
CannotFindId(s) ==
    LET m == Head(chan[s])
    IN  /\ Gets(s, {"result", "error"}) /\ IsCodec(s)
        /\ m.id \notin remoteCalls[s] \union remoteSubscriptions[s]
        /\ TakeAndAnswer(s, Error(m.id))
        /\ UNCHANGED <<lineVars, callVars, served, boundVars>>

(* The Blockbook server does not answer returns.                            *)
Ignore(s) ==
    /\ Gets(s, {"result", "error"}) /\ ~IsCodec(s)
    /\ Take(s)
    /\ UNCHANGED <<lineVars, callVars, served, boundVars>>

HandleMessage(s) ==
    \/ RunMethod(s) \/ RunNotification(s) \/ Refuse(s)
    \/ TakeReturn(s) \/ TakeEvent(s) \/ CannotFindId(s) \/ Ignore(s)

----------------------------------------------------------------------------
(* What the local methods and the Blockbook server do *)

(* The method the other side runs for call id of side s resolves...         *)
MethodOk(s, id) ==
    /\ served[s][id] = "running"
    /\ served' = [served EXCEPT ![s][id] = "ok"]
    /\ Send(s, Reply(id))
    /\ UNCHANGED <<lineVars, callVars, boundVars>>

MethodFailsSilently(s, id) ==
    /\ served[s][id] = "running"
    /\ served' = [served EXCEPT ![s][id] = "failed"]
    /\ UNCHANGED <<lineVars, chan, callVars, boundVars>>

(* ... or rejects.                                                          *)
MethodFails(s, id) ==
    /\ served[s][id] = "running"
    /\ served' = [served EXCEPT ![s][id] = "failed"]
    /\ Send(s, Error(id))
    /\ UNCHANGED <<lineVars, callVars, boundVars>>

(* An event of a subscription, perhaps before the reply.                    *)
Event(id) ==
    /\ events < MaxEvents
    /\ id \in remoteSubscriptions["client"]
    /\ served["client"][id] \in {"running", "ok"}
    /\ events' = events + 1
    /\ Send("client", EventMessage(id))
    /\ UNCHANGED <<lineVars, callVars, served, misfit, misfits, notices>>

----------------------------------------------------------------------------
(* The end of the connection *)

(* The connection closes; messages on their way may be lost, the last       *)
(* first.                                                                   *)
Drop ==
    /\ wire = "up"
    /\ wire' = "down"
    /\ \E c \in 0..Len(chan["client"]), v \in 0..Len(chan["server"]) :
          chan' = [s \in Sides |-> SubSeq(chan[s], 1, IF s = "client" THEN c ELSE v)]
    /\ UNCHANGED <<protocol, closed, callVars, served, boundVars>>

RejectsNone(s) == fate[s]

(* The promises after handleClose rejected the pending ones.                *)
Rejects(s) == [i \in Ids |-> IF fate[s][i] = "pending" THEN "closed" ELSE fate[s][i]]

HandleClose(s) ==
    /\ wire = "down" /\ s \notin closed
    /\ closed' = closed \union {s}
    /\ chan' = [chan EXCEPT ![s] = <<>>]
    /\ fate' = [fate EXCEPT ![s] = Rejects(s)]
    /\ remoteCalls' = [remoteCalls EXCEPT ![s] = {}]
    /\ remoteSubscriptions' = [remoteSubscriptions EXCEPT ![s] = {}]
    /\ UNCHANGED <<protocol, wire, nextRemoteId, served, boundVars>>

----------------------------------------------------------------------------

Init ==
    /\ protocol \in Protocols
    /\ wire = "up"
    /\ closed = {}
    /\ chan = [s \in Sides |-> <<>>]
    /\ nextRemoteId = [s \in Sides |-> 0]
    /\ remoteCalls = [s \in Sides |-> {}]
    /\ remoteSubscriptions = [s \in Sides |-> {}]
    /\ fate = [s \in Sides |-> [i \in Ids |-> "unmade"]]
    /\ served = [s \in Sides |-> [i \in Ids |-> "no"]]
    /\ misfit = [s \in Sides |-> {}]
    /\ misfits = 0 /\ notices = 0 /\ events = 0

MethodEnds(s, id) == MethodOk(s, id) \/ MethodFails(s, id)

Next ==
    \/ \E s \in Sides :
          \/ \E good \in BOOLEAN, sub \in BOOLEAN : Call(s, good, sub)
          \/ \E good \in BOOLEAN : Notify(s, good)
          \/ HandleMessage(s)
          \/ \E id \in Ids : MethodEnds(s, id)
          \/ HandleClose(s)
    \/ \E id \in Ids : Event(id)
    \/ Drop

(* The socket delivers its messages and reports its end, and methods        *)
(* settle; nobody has to call, and the connection need not close.           *)
Spec == /\ Init /\ [][Next]_vars
        /\ \A s \in Sides :
              /\ WF_vars(HandleMessage(s))
              /\ WF_vars(HandleClose(s))
              /\ \A id \in Ids : WF_vars(MethodEnds(s, id))

----------------------------------------------------------------------------
(* Properties *)

(* The type invariant.                                                      *)
TypeOK ==
    /\ protocol \in Protocols
    /\ wire \in {"up", "down"}
    /\ closed \subseteq Sides
    /\ chan \in [Sides -> Seq(Messages)]
    /\ nextRemoteId \in [Sides -> Nat]
    /\ remoteCalls \in [Sides -> SUBSET Ids]
    /\ remoteSubscriptions \in [Sides -> SUBSET Ids]
    /\ fate \in [Sides -> [Ids -> {"unmade", "pending", "resolved", "rejected", "misread",
                                   "closed"}]]
    /\ served \in [Sides -> [Ids -> {"no", "running", "ok", "failed"}]]
    /\ misfit \in [Sides -> SUBSET Ids]
    /\ misfits \in 0..MaxMisfits
    /\ notices \in 0..MaxNotices
    /\ events \in 0..MaxEvents

(* While the connection is up, a call the other side understands is always  *)
(* somewhere: its request or its reply on the way, or its method running.   *)
(* No interleaving of calls, events, errors and replies of both sides loses *)
(* it, or leaves a promise nobody will settle.                              *)
Somewhere(s, i) ==
    \/ CallMessage(i, TRUE) \in Range(chan[Peer(s)])
    \/ served[s][i] = "running"
    \/ {Reply(i), Error(i)} \intersect Range(chan[s]) # {}
NoCallForgotten ==
    wire = "up" => \A s \in Sides : \A i \in remoteCalls[s] \ misfit[s] : Somewhere(s, i)

(* A promise ends with the outcome of its own method, although ids of the   *)
(* two sides, events and protocol errors share one number space: resolved   *)
(* if the method did, rejected if it did; only an event that overtakes the  *)
(* reply of a Blockbook subscription is mistaken for it.                    *)
OwnOutcome ==
    \A s \in Sides, i \in Ids :
        /\ fate[s][i] = "resolved" => served[s][i] = "ok"
        /\ fate[s][i] = "rejected" => served[s][i] = "failed"
        /\ fate[s][i] = "misread" => protocol = "blockbook" /\ s = "client"

(* The codec implements remote calls that run at most once and settle at    *)
(* most once, with their own outcome or when the connection closes.         *)
Abstract == INSTANCE RemoteCalls WITH
                Sides <- Sides, Ids <- Ids, fate <- fate, served <- served
ImplementsRemoteCalls == Abstract!RCSpec

(* Every call the other side understands, made before handleClose, settles. *)
(* A call made later, or not understood, is excepted: nobody rejects it.    *)
CallSettles(s, i) ==
    s \notin closed /\ fate[s][i] = "pending" /\ i \notin misfit[s] ~> fate[s][i] # "pending"
CallsSettle == \A s \in Sides, i \in Ids : CallSettles(s, i)

(* The traffic ends once the two sides have nothing more to say...          *)
Quiet == \A s \in Sides : chan[s] = <<>>
QuietInTheEnd == <>[]Quiet

(* ... provided that they understand each other: a protocol error has the   *)
(* id null, and the codec answers it with another one.                      *)
QuietUnlessMisfit == [](misfits = 0) => QuietInTheEnd
==============================================================================
