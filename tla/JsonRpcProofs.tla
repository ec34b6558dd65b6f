---------------------------- MODULE JsonRpcProofs ----------------------------
(* Proofs about the codec, for any number of calls, notifications, events   *)
(* and messages the other side does not understand, and both protocols.     *)
EXTENDS JsonRpc, SequenceTheorems, TLAPS

----------------------------------------------------------------------------
(* Channels *)

IsReturn(m) == m.kind \in {"result", "error"}

(* The messages that settle something and must not be there twice: calls,   *)
(* and returns that are neither events nor protocol errors.                 *)
Counted(m) == m.kind = "call" \/ (IsReturn(m) /\ m.good /\ m.id # NullId)
Once(q) == \A j, k \in DOMAIN q : q[j] = q[k] /\ Counted(q[j]) => j = k

LEMMA IdsNat ==
    /\ Ids \subseteq Nat
    /\ \A s \in Sides : \A i \in Nat : i < MaxCalls[s] => i \in Ids
BY RpcAssumption DEF Ids

LEMMA PeerFacts ==
    \A s \in Sides : /\ Peer(s) \in Sides /\ Peer(s) # s /\ Peer(Peer(s)) = s
                     /\ \A x \in Sides : x = s \/ x = Peer(s)
BY DEF Peer, Sides

(* Sending adds the message if the connection is up, and nothing else.      *)
LEMMA Sending ==
    ASSUME NEW M, NEW q \in Seq(M), NEW m \in M
    PROVE  /\ Sent(q, m) \in Seq(M)
           /\ Range(q) \subseteq Range(Sent(q, m))
           /\ \A x \in Range(Sent(q, m)) : x \in Range(q) \/ (x = m /\ wire = "up")
           /\ wire = "up" => m \in Range(Sent(q, m))
           /\ Once(q) /\ (m \notin Range(q) \/ ~Counted(m)) => Once(Sent(q, m))
<1>1. CASE wire # "up" BY <1>1 DEF Sent
<1>2. CASE wire = "up"
  <2> DEFINE r == Append(q, m)
  <2>1. Sent(q, m) = r BY <1>2 DEF Sent
  <2>2. /\ r \in Seq(M) /\ Len(r) = Len(q) + 1 /\ r[Len(q) + 1] = m
        /\ \A k \in 1..Len(q) : r[k] = q[k]
    OBVIOUS
  <2>3. DOMAIN q = 1..Len(q) /\ DOMAIN r = 1..(Len(q) + 1) /\ Len(q) \in Nat
    BY <2>2
  <2> HIDE DEF r
  <2>4. Range(q) \subseteq Range(r) BY <2>2, <2>3 DEF Range
  <2>5. \A x \in Range(r) : x \in Range(q) \/ x = m
    <3> SUFFICES ASSUME NEW k \in 1..(Len(q) + 1) PROVE r[k] \in Range(q) \/ r[k] = m
      BY <2>3 DEF Range
    <3>1. k \in 1..Len(q) \/ k = Len(q) + 1 BY <2>3
    <3> QED BY <2>2, <2>3, <3>1 DEF Range
  <2>6. m \in Range(r) BY <2>2, <2>3 DEF Range
  <2>7. ASSUME Once(q), m \notin Range(q) \/ ~Counted(m) PROVE Once(r)
    <3> SUFFICES ASSUME NEW j \in 1..(Len(q) + 1), NEW k \in 1..(Len(q) + 1),
                        r[j] = r[k], Counted(r[j])
                 PROVE  j = k
      BY <2>3 DEF Once
    <3>1. (j \in 1..Len(q) \/ j = Len(q) + 1) /\ (k \in 1..Len(q) \/ k = Len(q) + 1) BY <2>3
    <3>2. \A l \in 1..Len(q) : r[l] \in Range(q) BY <2>2, <2>3 DEF Range
    <3>3. CASE j \in 1..Len(q) /\ k \in 1..Len(q) BY <2>2, <2>3, <2>7, <3>3 DEF Once
    <3> QED BY <2>2, <2>7, <3>1, <3>2, <3>3
  <2> QED BY <1>2, <2>1, <2>2, <2>4, <2>5, <2>6, <2>7
<1> QED BY <1>1, <1>2

(* Taking removes the first message, once if it is counted.                 *)
LEMMA Taking ==
    ASSUME NEW M, NEW q \in Seq(M), q # <<>>
    PROVE  /\ Tail(q) \in Seq(M)
           /\ Head(q) \in M /\ Head(q) \in Range(q)
           /\ Range(Tail(q)) \subseteq Range(q)
           /\ \A x \in Range(q) : x = Head(q) \/ x \in Range(Tail(q))
           /\ Once(q) => Once(Tail(q))
           /\ Once(q) /\ Counted(Head(q)) => Head(q) \notin Range(Tail(q))
<1> DEFINE t == Tail(q)
<1>1. /\ t \in Seq(M) /\ Len(t) = Len(q) - 1 /\ Head(q) = q[1] /\ Head(q) \in M
      /\ \A k \in 1..Len(t) : t[k] = q[k + 1]
      /\ Len(q) \in Nat \ {0}
  OBVIOUS
<1>2. DOMAIN q = 1..Len(q) /\ DOMAIN t = 1..Len(t) BY <1>1
<1> HIDE DEF t
<1>3. Head(q) \in Range(q) BY <1>1, <1>2 DEF Range
<1>4. Range(t) \subseteq Range(q)
  <2> SUFFICES ASSUME NEW k \in 1..Len(t) PROVE t[k] \in Range(q) BY <1>2 DEF Range
  <2>1. t[k] = q[k + 1] /\ k + 1 \in 1..Len(q) BY <1>1
  <2> QED BY <1>2, <2>1 DEF Range
<1>5. \A x \in Range(q) : x = Head(q) \/ x \in Range(t)
  <2> SUFFICES ASSUME NEW k \in 1..Len(q) PROVE q[k] = Head(q) \/ q[k] \in Range(t)
    BY <1>2 DEF Range
  <2>1. CASE k = 1 BY <1>1, <2>1
  <2>2. CASE k # 1
    <3>1. k - 1 \in 1..Len(t) /\ t[k - 1] = q[k] BY <1>1, <2>2
    <3> QED BY <1>2, <3>1 DEF Range
  <2> QED BY <2>1, <2>2
<1>6. ASSUME Once(q) PROVE Once(t)
  <2> SUFFICES ASSUME NEW j \in 1..Len(t), NEW k \in 1..Len(t), t[j] = t[k], Counted(t[j])
               PROVE  j = k
    BY <1>2 DEF Once
  <2>1. j + 1 \in 1..Len(q) /\ k + 1 \in 1..Len(q) /\ t[j] = q[j + 1] /\ t[k] = q[k + 1]
    BY <1>1
  <2>2. j + 1 = k + 1 BY <1>2, <1>6, <2>1 DEF Once
  <2> QED BY <2>2
<1>7. ASSUME Once(q), Counted(Head(q)), Head(q) \in Range(t) PROVE FALSE
  <2>1. PICK k \in 1..Len(t) : t[k] = Head(q) BY <1>2, <1>7 DEF Range
  <2>2. k + 1 \in 1..Len(q) /\ 1 \in 1..Len(q) /\ q[k + 1] = q[1] BY <1>1, <2>1
  <2>3. k + 1 = 1 BY <1>1, <1>2, <1>7, <2>2 DEF Once
  <2> QED BY <2>3
<1> QED BY <1>1, <1>3, <1>4, <1>5, <1>6, <1>7 DEF t

(* What a dropped connection leaves was there before.                       *)
LEMMA Cutting ==
    ASSUME NEW M, NEW q \in Seq(M), NEW n \in 0..Len(q)
    PROVE  /\ SubSeq(q, 1, n) \in Seq(M)
           /\ Range(SubSeq(q, 1, n)) \subseteq Range(q)
           /\ q = <<>> => SubSeq(q, 1, n) = <<>>
           /\ Once(q) => Once(SubSeq(q, 1, n))
<1> DEFINE c == SubSeq(q, 1, n)
<1>1. /\ c \in Seq(M) /\ Len(c) = n /\ \A k \in 1..n : c[k] = q[k]
      /\ DOMAIN c = 1..n /\ DOMAIN q = 1..Len(q) /\ n <= Len(q) /\ Len(q) \in Nat
  OBVIOUS
<1>2. q = <<>> => c = <<>> BY <1>1
<1> HIDE DEF c
<1>3. Range(c) \subseteq Range(q) BY <1>1 DEF Range
<1>4. Once(q) => Once(c) BY <1>1 DEF Once
<1> QED BY <1>1, <1>2, <1>3, <1>4 DEF c

----------------------------------------------------------------------------
(* The inductive invariant *)

(* handleClose runs after the connection went down, and nothing arrives     *)
(* after it.                                                                *)
ConnOK ==
    /\ closed # {} => wire = "down"
    /\ \A s \in closed : chan[s] = <<>>

(* The maps of a side hold calls it made: remoteCalls the pending ones.     *)
CallsOK ==
    \A s \in Sides :
        /\ nextRemoteId[s] <= MaxCalls[s]
        /\ ~IsCodec(s) => nextRemoteId[s] = 0
        /\ remoteSubscriptions[s] # {} => protocol = "blockbook" /\ s = "client"
        /\ \A i \in Ids :
              /\ fate[s][i] = "unmade" <=> i >= nextRemoteId[s]
              /\ fate[s][i] = "pending" <=> i \in remoteCalls[s]
              /\ i \in remoteSubscriptions[s] \union misfit[s] => i < nextRemoteId[s]
              /\ served[s][i] # "no" => i < nextRemoteId[s]

(* A request on the way belongs to a call that is not being run yet.        *)
RequestsOK ==
    \A s \in Sides : \A m \in Range(chan[Peer(s)]) : m.kind = "call" =>
        /\ served[s][m.id] = "no"
        /\ m.id < nextRemoteId[s]
        /\ m.good <=> m.id \notin misfit[s]

(* A return on the way that names a call tells how its run ended, or is an  *)
(* event of a subscription; it finds the call or the subscription.          *)
ReturnsOK ==
    \A s \in Sides : \A m \in Range(chan[s]) : IsReturn(m) /\ m.id # NullId =>
        /\ m.id \in remoteCalls[s] \union remoteSubscriptions[s]
        /\ m.kind = "error" => served[s][m.id] = "failed"
        /\ m.kind = "result" /\ m.good => served[s][m.id] = "ok"
        /\ m.kind = "result" /\ ~m.good =>
              m.id \in remoteSubscriptions[s] /\ served[s][m.id] # "no"

(* Until its run has ended, the return of a call will find it.              *)
OpenOK ==
    \A s \in Sides \ closed : \A i \in Ids :
        i < nextRemoteId[s] /\ served[s][i] \in {"no", "running"} =>
            i \in remoteCalls[s] \union remoteSubscriptions[s]

OnceOK == \A s \in Sides : Once(chan[s])

(* Where a pending call is, for each stage of its run.                      *)
Located ==
    wire = "up" => \A s \in Sides : \A i \in remoteCalls[s] \ misfit[s] :
        /\ served[s][i] = "no" => CallMessage(i, TRUE) \in Range(chan[Peer(s)])
        /\ served[s][i] = "ok" => Reply(i) \in Range(chan[s])
        /\ served[s][i] = "failed" => Error(i) \in Range(chan[s])

IInv == /\ TypeOK /\ ConnOK /\ CallsOK /\ RequestsOK /\ ReturnsOK /\ OpenOK /\ OnceOK
        /\ OwnOutcome /\ Located

ChanOK == chan \in [Sides -> Seq(Messages)]

LEMMA MessageTypes ==
    /\ Error(NullId) \in Messages /\ \A good \in BOOLEAN : Notice(good) \in Messages
    /\ \A i \in Ids : /\ Reply(i) \in Messages /\ EventMessage(i) \in Messages
                      /\ Error(i) \in Messages
                      /\ \A good \in BOOLEAN : CallMessage(i, good) \in Messages
    /\ \A m \in Messages :
          /\ m.kind \in {"call", "notice", "result", "error"} /\ m.good \in BOOLEAN
          /\ m.id \in Ids \/ m.id = NullId
          /\ m.kind \in {"call", "result"} => m.id \in Ids
          /\ m.kind = "error" => m.good
BY DEF Messages, Message, CallMessage, Notice, Reply, EventMessage, Error

LEMMA NullIsNoId == NullId \notin Ids
BY IdsNat DEF NullId

(* What sending, taking, and taking and answering do to both channels.      *)
LEMMA SendFacts ==
    ASSUME NEW s \in Sides, NEW m \in Messages, ChanOK, Send(s, m)
    PROVE  /\ ChanOK'
           /\ chan'[Peer(s)] = chan[Peer(s)]
           /\ Range(chan[s]) \subseteq Range(chan'[s])
           /\ \A x \in Range(chan'[s]) : x \in Range(chan[s]) \/ (x = m /\ wire = "up")
           /\ wire = "up" => m \in Range(chan'[s])
           /\ OnceOK /\ (m \notin Range(chan[s]) \/ ~Counted(m)) => OnceOK'
           /\ wire # "up" => chan' = chan
<1>1. chan' = [chan EXCEPT ![s] = Sent(chan[s], m)] BY DEF Send
<1>2. chan[s] \in Seq(Messages) BY DEF ChanOK
<1>3. /\ chan'[s] = Sent(chan[s], m) /\ chan'[Peer(s)] = chan[Peer(s)]
      /\ DOMAIN chan' = Sides
  BY <1>1, PeerFacts DEF ChanOK
<1>4. ChanOK' BY <1>1, <1>2, Sending DEF ChanOK
<1>5. OnceOK /\ (m \notin Range(chan[s]) \/ ~Counted(m)) => OnceOK'
  <2> SUFFICES ASSUME OnceOK, m \notin Range(chan[s]) \/ ~Counted(m) PROVE OnceOK'
    OBVIOUS
  <2>1. Once(Sent(chan[s], m)) BY <1>2, Sending DEF OnceOK
  <2> QED BY <1>3, <2>1, PeerFacts DEF OnceOK
<1>6. wire # "up" => chan' = chan BY <1>1 DEF ChanOK, Sent
<1> QED BY <1>2, <1>3, <1>4, <1>5, <1>6, Sending

LEMMA TakeFacts ==
    ASSUME NEW s \in Sides, ChanOK, chan[s] # <<>>, Take(s)
    PROVE  /\ ChanOK'
           /\ chan'[Peer(s)] = chan[Peer(s)]
           /\ Head(chan[s]) \in Messages /\ Head(chan[s]) \in Range(chan[s])
           /\ Range(chan'[s]) \subseteq Range(chan[s])
           /\ \A x \in Range(chan[s]) : x = Head(chan[s]) \/ x \in Range(chan'[s])
           /\ OnceOK => OnceOK'
           /\ OnceOK /\ Counted(Head(chan[s])) => Head(chan[s]) \notin Range(chan'[s])
<1>1. chan' = [chan EXCEPT ![s] = Tail(chan[s])] BY DEF Take
<1>2. chan[s] \in Seq(Messages) BY DEF ChanOK
<1>3. chan'[s] = Tail(chan[s]) /\ chan'[Peer(s)] = chan[Peer(s)]
  BY <1>1, PeerFacts DEF ChanOK
<1>4. ChanOK' BY <1>1, <1>2, Taking DEF ChanOK
<1>5. OnceOK => OnceOK' BY <1>2, <1>3, Taking, PeerFacts DEF OnceOK
<1>6. OnceOK /\ Counted(Head(chan[s])) => Head(chan[s]) \notin Range(chan'[s])
  BY <1>2, <1>3, Taking DEF OnceOK
<1> QED BY <1>2, <1>3, <1>4, <1>5, <1>6, Taking

LEMMA AnswerFacts ==
    ASSUME NEW s \in Sides, ChanOK, chan[s] # <<>>, TakeAndAnswer(s, Error(NullId))
    PROVE  /\ ChanOK'
           /\ Head(chan[s]) \in Messages /\ Head(chan[s]) \in Range(chan[s])
           /\ Range(chan'[s]) \subseteq Range(chan[s])
           /\ \A x \in Range(chan[s]) : x = Head(chan[s]) \/ x \in Range(chan'[s])
           /\ Range(chan[Peer(s)]) \subseteq Range(chan'[Peer(s)])
           /\ \A x \in Range(chan'[Peer(s)]) : x \in Range(chan[Peer(s)]) \/ x = Error(NullId)
           /\ OnceOK => OnceOK'
           /\ wire # "up" => chan'[Peer(s)] = chan[Peer(s)]
<1> DEFINE p == Peer(s)
           e == Error(NullId)
<1>1. chan' = [chan EXCEPT ![s] = Tail(chan[s]), ![p] = Sent(chan[p], e)] BY DEF TakeAndAnswer
<1>2. chan[s] \in Seq(Messages) /\ chan[p] \in Seq(Messages) BY PeerFacts DEF ChanOK
<1>3. chan'[s] = Tail(chan[s]) /\ chan'[p] = Sent(chan[p], e) BY <1>1, PeerFacts DEF ChanOK
<1>4. e \in Messages BY MessageTypes
<1>5. Tail(chan[s]) \in Seq(Messages) /\ Sent(chan[p], e) \in Seq(Messages)
  BY <1>2, <1>4, Taking, Sending
<1>6. ChanOK' BY <1>1, <1>5 DEF ChanOK
<1>7. ~Counted(e) BY DEF Counted, Error, Message
<1>8. OnceOK => OnceOK'
  <2>1. Once(chan[s]) => Once(Tail(chan[s])) BY <1>2, Taking
  <2>2. Once(chan[p]) => Once(Sent(chan[p], e)) BY <1>2, <1>4, <1>7, Sending
  <2> QED BY <1>3, <2>1, <2>2, PeerFacts DEF OnceOK
<1>9. wire # "up" => chan'[p] = chan[p] BY <1>3 DEF Sent
<1>10. /\ Range(chan[p]) \subseteq Range(chan'[p])
       /\ \A x \in Range(chan'[p]) : x \in Range(chan[p]) \/ x = e
  BY <1>2, <1>3, <1>4, Sending
<1>11. /\ Head(chan[s]) \in Messages /\ Head(chan[s]) \in Range(chan[s])
       /\ Range(chan'[s]) \subseteq Range(chan[s])
       /\ \A x \in Range(chan[s]) : x = Head(chan[s]) \/ x \in Range(chan'[s])
  BY <1>2, <1>3, Taking
<1> QED BY <1>6, <1>8, <1>9, <1>10, <1>11

----------------------------------------------------------------------------
(* Each step keeps the invariant *)

LEMMA InvInit == Init => IInv
<1> SUFFICES ASSUME Init PROVE IInv OBVIOUS
<1>1. \A s \in Sides : chan[s] = <<>> /\ Range(chan[s]) = {} BY DEF Init, Range
<1>2. TypeOK BY <1>1, RpcAssumption DEF Init, TypeOK
<1>3. ConnOK BY DEF Init, ConnOK
<1>4. CallsOK BY RpcAssumption, IdsNat DEF Init, CallsOK
<1>5. RequestsOK /\ ReturnsOK BY <1>1, PeerFacts DEF RequestsOK, ReturnsOK
<1>5a. OnceOK
  <2>1. DOMAIN <<>> = {} OBVIOUS
  <2> QED BY <1>1, <2>1 DEF OnceOK, Once
<1>6. OpenOK BY IdsNat DEF Init, OpenOK
<1>7. OwnOutcome /\ Located BY DEF Init, OwnOutcome, Located
<1> QED BY <1>2, <1>3, <1>4, <1>5, <1>5a, <1>6, <1>7 DEF IInv

LEMMA TypeChan == TypeOK => ChanOK
BY DEF TypeOK, ChanOK

LEMMA InChan == ChanOK => \A s \in Sides : \A m \in Range(chan[s]) : m \in Messages
BY DEF ChanOK, Range

(* A new call: its id is fresh, so nothing on the way names it.             *)
LEMMA CallStep ==
    ASSUME IInv, NEW s \in Sides, NEW good \in BOOLEAN, NEW sub \in BOOLEAN, Call(s, good, sub)
    PROVE  IInv'
<1> DEFINE id == nextRemoteId[s]
           m == CallMessage(id, good)
           p == Peer(s)
<1> USE DEF IInv
<1>1. id \in Ids /\ id \in Nat /\ id < MaxCalls[s] BY IdsNat DEF Call, TypeOK
<1>2. m \in Messages BY <1>1, MessageTypes
<1>3. Send(p, m) BY DEF Call
<1>4. p \in Sides /\ Peer(p) = s /\ p # s BY PeerFacts
<1>5. /\ ChanOK' /\ chan'[s] = chan[s]
      /\ Range(chan[p]) \subseteq Range(chan'[p])
      /\ \A x \in Range(chan'[p]) : x \in Range(chan[p]) \/ (x = m /\ wire = "up")
      /\ wire = "up" => m \in Range(chan'[p])
      /\ OnceOK /\ (m \notin Range(chan[p]) \/ ~Counted(m)) => OnceOK'
      /\ wire # "up" => chan' = chan
  BY <1>2, <1>3, <1>4, TypeChan, SendFacts
<1>6. /\ fate[s][id] = "unmade" /\ id \notin remoteCalls[s] /\ served[s][id] = "no"
      /\ id \notin remoteSubscriptions[s] \union misfit[s]
  BY <1>1, IdsNat DEF CallsOK, TypeOK
<1>7. m.kind = "call" /\ m.id = id /\ m.good = good /\ ~IsReturn(m)
  BY DEF CallMessage, Message, IsReturn
<1>8. m \notin Range(chan[p]) BY <1>4, <1>7, IdsNat, <1>1 DEF RequestsOK
<1> HIDE DEF m, p
<1>9. /\ nextRemoteId' = [nextRemoteId EXCEPT ![s] = id + 1]
      /\ remoteCalls' = [remoteCalls EXCEPT ![s] = remoteCalls[s] \union {id}]
      /\ remoteSubscriptions' = [remoteSubscriptions EXCEPT ![s] =
             IF sub THEN remoteSubscriptions[s] \union {id} ELSE remoteSubscriptions[s]]
      /\ fate' = [fate EXCEPT ![s][id] = "pending"]
      /\ misfit' = [misfit EXCEPT ![s] =
             IF good THEN misfit[s] ELSE misfit[s] \union {id}]
      /\ UNCHANGED <<protocol, wire, closed, served, notices, events>>
      /\ IsCodec(s) /\ (sub => protocol = "blockbook")
      /\ misfits' \in 0..MaxMisfits
  BY RpcAssumption DEF Call, NextId, CountMisfit, lineVars, TypeOK
<1>0. id = nextRemoteId[s] OBVIOUS
<1> HIDE DEF id
<1>a. \A x \in Sides :
        /\ nextRemoteId'[x] = IF x = s THEN id + 1 ELSE nextRemoteId[x]
        /\ remoteCalls'[x] = IF x = s THEN remoteCalls[s] \union {id} ELSE remoteCalls[x]
        /\ remoteSubscriptions'[x] = IF x = s /\ sub THEN remoteSubscriptions[s] \union {id}
                                                    ELSE remoteSubscriptions[x]
        /\ misfit'[x] = IF x = s /\ ~good THEN misfit[s] \union {id} ELSE misfit[x]
        /\ \A i \in Ids : fate'[x][i] = IF x = s /\ i = id THEN "pending" ELSE fate[x][i]
  BY <1>1, <1>9 DEF TypeOK
<1>b. served' = served /\ closed' = closed /\ wire' = wire /\ protocol' = protocol BY <1>9
<1>10. TypeOK'
  <2>1. /\ nextRemoteId' \in [Sides -> Nat] /\ remoteCalls' \in [Sides -> SUBSET Ids]
        /\ remoteSubscriptions' \in [Sides -> SUBSET Ids] /\ misfit' \in [Sides -> SUBSET Ids]
    BY <1>1, <1>9 DEF TypeOK
  <2>2. fate' \in [Sides -> [Ids -> {"unmade", "pending", "resolved", "rejected", "misread",
                                     "closed"}]]
    BY <1>1, <1>9 DEF TypeOK
  <2> QED BY <1>5, <1>9, <2>1, <2>2 DEF TypeOK, ChanOK
<1>11. ConnOK' BY <1>4, <1>5, <1>9, PeerFacts DEF ConnOK, TypeOK
<1>12. CallsOK'
  <2> SUFFICES ASSUME NEW x \in Sides
               PROVE  /\ nextRemoteId'[x] <= MaxCalls[x]
                      /\ ~IsCodec(x)' => nextRemoteId'[x] = 0
                      /\ remoteSubscriptions'[x] # {} => protocol' = "blockbook" /\ x = "client"
                      /\ \A i \in Ids :
                            /\ fate'[x][i] = "unmade" <=> i >= nextRemoteId'[x]
                            /\ fate'[x][i] = "pending" <=> i \in remoteCalls'[x]
                            /\ i \in remoteSubscriptions'[x] \union misfit'[x] =>
                                  i < nextRemoteId'[x]
                            /\ served'[x][i] # "no" => i < nextRemoteId'[x]
    BY DEF CallsOK
  <2>1. CASE x # s BY <1>a, <1>b, <2>1 DEF CallsOK, IsCodec
  <2>2. CASE x = s
    <3>1. id + 1 <= MaxCalls[s] BY <1>1, RpcAssumption
    <3>2. sub => protocol = "blockbook" /\ s = "client" BY <1>9 DEF IsCodec
    <3>3. ASSUME NEW i \in Ids PROVE i >= id <=> (i = id \/ i >= id + 1) BY <1>1, IdsNat
    <3>4. ASSUME NEW i \in Ids PROVE i < id + 1 <=> (i = id \/ i < id) BY <1>1, IdsNat
    <3> QED BY <1>0, <1>1, <1>6, <1>9, <1>a, <1>b, <2>2, <3>1, <3>2, <3>3, <3>4, IdsNat
            DEF CallsOK, IsCodec
  <2> QED BY <2>1, <2>2
<1>13. RequestsOK'
  <2> SUFFICES ASSUME NEW x \in Sides, NEW n \in Range(chan'[Peer(x)]), n.kind = "call"
               PROVE  /\ served'[x][n.id] = "no"
                      /\ n.id < nextRemoteId'[x]
                      /\ n.good <=> n.id \notin misfit'[x]
    BY DEF RequestsOK
  <2>1. CASE x # s
    <3>1. Peer(x) = s BY <2>1, PeerFacts
    <3> QED BY <1>5, <1>a, <1>b, <2>1, <3>1 DEF RequestsOK
  <2>2. CASE x = s /\ n \in Range(chan[p])
    <3>1. n.id < id /\ served[s][n.id] = "no" /\ (n.good <=> n.id \notin misfit[s])
      BY <1>0, <2>2, <1>4 DEF RequestsOK, p
    <3>2. n.id \in Ids
      <4>1. n \in Messages BY <1>4, <2>2 DEF TypeOK, Range
      <4> QED BY <4>1, MessageTypes
    <3>3. n.id # id /\ n.id < id + 1
      <4>1. n.id \in Nat BY <3>2, IdsNat
      <4> QED BY <1>1, <3>1, <4>1
    <3>4. nextRemoteId'[s] = id + 1 /\ served'[s][n.id] = "no" BY <1>a, <1>b, <3>1
    <3>5. n.id \in misfit'[s] <=> n.id \in misfit[s] BY <1>a, <3>3
    <3>6. n.id < nextRemoteId'[s] BY <3>3, <3>4
    <3>7. n.good <=> n.id \notin misfit'[s] BY <3>1, <3>5
    <3> QED BY <2>2, <3>4, <3>6, <3>7
  <2>3. CASE x = s /\ n = m
    <3>1. n.id = id /\ n.good = good BY <1>7, <2>3
    <3>2. served'[s][id] = "no" /\ nextRemoteId'[s] = id + 1 /\ id < id + 1
      BY <1>1, <1>6, <1>a, <1>b
    <3>3. good <=> id \notin misfit'[s] BY <1>6, <1>a
    <3> QED BY <2>3, <3>1, <3>2, <3>3
  <2> QED BY <1>5, <2>1, <2>2, <2>3 DEF p
<1>14. ReturnsOK'
  <2> SUFFICES ASSUME NEW x \in Sides, NEW n \in Range(chan'[x]), IsReturn(n), n.id # NullId
               PROVE  /\ n.id \in remoteCalls'[x] \union remoteSubscriptions'[x]
                      /\ n.kind = "error" => served'[x][n.id] = "failed"
                      /\ n.kind = "result" /\ n.good => served'[x][n.id] = "ok"
                      /\ n.kind = "result" /\ ~n.good =>
                            n.id \in remoteSubscriptions'[x] /\ served'[x][n.id] # "no"
    BY DEF ReturnsOK
  <2>1. n \in Range(chan[x]) BY <1>4, <1>5, <1>7, PeerFacts DEF p
  <2> QED BY <1>a, <1>b, <2>1 DEF ReturnsOK
<1>15. OpenOK'
  <2> SUFFICES ASSUME NEW x \in Sides \ closed', NEW i \in Ids, i < nextRemoteId'[x],
                      served'[x][i] \in {"no", "running"}
               PROVE  i \in remoteCalls'[x] \union remoteSubscriptions'[x]
    BY DEF OpenOK
  <2>1. x # s \/ i # id => i < nextRemoteId[x] BY <1>0, <1>1, <1>a, IdsNat
  <2> QED BY <1>a, <1>b, <2>1 DEF OpenOK
<1>16. OnceOK' BY <1>5, <1>8
<1>17. OwnOutcome' BY <1>a, <1>b DEF OwnOutcome
<1>18. Located'
  <2> SUFFICES ASSUME wire' = "up", NEW x \in Sides, NEW i \in remoteCalls'[x] \ misfit'[x]
               PROVE  /\ served'[x][i] = "no" => CallMessage(i, TRUE) \in Range(chan'[Peer(x)])
                      /\ served'[x][i] = "ok" => Reply(i) \in Range(chan'[x])
                      /\ served'[x][i] = "failed" => Error(i) \in Range(chan'[x])
    BY DEF Located
  <2>1. Range(chan[x]) \subseteq Range(chan'[x]) /\ Range(chan[Peer(x)]) \subseteq Range(chan'[Peer(x)])
    BY <1>4, <1>5, PeerFacts DEF p
  <2>2. CASE x = s /\ i = id BY <1>4, <1>5, <1>6, <1>a, <1>b, <2>2 DEF m, p
  <2>3. CASE ~(x = s /\ i = id)
    <3>1. i \in remoteCalls[x] \ misfit[x] BY <1>a, <2>3
    <3> QED BY <1>b, <2>1, <3>1 DEF Located
  <2> QED BY <2>2, <2>3
<1> QED BY <1>10, <1>11, <1>12, <1>13, <1>14, <1>15, <1>16, <1>17, <1>18

(* A step that only moves messages: what it adds is neither a call nor the  *)
(* return of one, apart from an event, and while the connection is up it    *)
(* takes no request that will be run and no return of a pending call.       *)
Added(x, n) ==
    /\ n.kind # "call"
    /\ IsReturn(n) /\ n.id # NullId =>
          /\ n.kind = "result" /\ ~n.good
          /\ n.id \in remoteSubscriptions[x] /\ served[x][n.id] # "no"
Taken(x, n) ==
    /\ n.kind = "call" => ~n.good
    /\ IsReturn(n) /\ n.good => n.id \notin remoteCalls[x]

LEMMA ChannelStep ==
    ASSUME IInv, ChanOK', OnceOK',
           UNCHANGED <<protocol, closed, callVars, served, misfit>>,
           wire' = wire \/ wire' = "down",
           misfits' \in 0..MaxMisfits, notices' \in 0..MaxNotices, events' \in 0..MaxEvents,
           \A x \in closed : chan'[x] = chan[x],
           \A x \in Sides : \A n \in Range(chan'[x]) : n \in Range(chan[x]) \/ Added(x, n),
           wire' = "up" => \A x \in Sides : \A n \in Range(chan[x]) :
                              n \in Range(chan'[x]) \/ Taken(x, n)
    PROVE  IInv'
<1> USE DEF IInv
<1>0. UNCHANGED <<protocol, closed, nextRemoteId, remoteCalls, remoteSubscriptions, fate, served,
                  misfit>>
  BY DEF callVars
<1>1. TypeOK' BY <1>0 DEF TypeOK, ChanOK
<1>2. ConnOK' BY <1>0 DEF ConnOK, TypeOK
<1>3. CallsOK' BY <1>0 DEF CallsOK, IsCodec
<1>4. RequestsOK' BY <1>0, PeerFacts DEF RequestsOK, Added
<1>5. ReturnsOK' BY <1>0 DEF ReturnsOK, Added
<1>6. OpenOK' BY <1>0 DEF OpenOK
<1>7. OwnOutcome' BY <1>0 DEF OwnOutcome
<1>8. Located'
  <2> SUFFICES ASSUME wire' = "up", NEW x \in Sides, NEW i \in remoteCalls[x] \ misfit[x]
               PROVE  /\ served[x][i] = "no" => CallMessage(i, TRUE) \in Range(chan'[Peer(x)])
                      /\ served[x][i] = "ok" => Reply(i) \in Range(chan'[x])
                      /\ served[x][i] = "failed" => Error(i) \in Range(chan'[x])
    BY <1>0 DEF Located
  <2>1. wire = "up" OBVIOUS
  <2>2. /\ served[x][i] = "no" => CallMessage(i, TRUE) \in Range(chan[Peer(x)])
        /\ served[x][i] = "ok" => Reply(i) \in Range(chan[x])
        /\ served[x][i] = "failed" => Error(i) \in Range(chan[x])
    BY <2>1 DEF Located
  <2>3. /\ ~Taken(Peer(x), CallMessage(i, TRUE))
        /\ ~Taken(x, Reply(i)) /\ ~Taken(x, Error(i))
    BY DEF Taken, IsReturn, CallMessage, Reply, Error, Message
  <2> QED BY <2>2, <2>3, PeerFacts
<1> QED BY <1>1, <1>2, <1>3, <1>4, <1>5, <1>6, <1>7, <1>8

LEMMA NotifyStep ==
    ASSUME IInv, NEW s \in Sides, NEW good \in BOOLEAN, Notify(s, good)
    PROVE  IInv'
<1> USE DEF IInv
<1> DEFINE m == Notice(good)
           p == Peer(s)
<1>1. m \in Messages /\ m.kind = "notice" /\ ~Counted(m) /\ p \in Sides /\ Added(p, m)
  BY MessageTypes, PeerFacts DEF Notice, Message, Counted, IsReturn, Added
<1>2. Send(p, m) BY DEF Notify
<1>3. /\ ChanOK' /\ chan'[s] = chan[s]
      /\ Range(chan[p]) \subseteq Range(chan'[p])
      /\ \A x \in Range(chan'[p]) : x \in Range(chan[p]) \/ x = m
      /\ OnceOK'
      /\ wire # "up" => chan' = chan
  BY <1>1, <1>2, TypeChan, PeerFacts, SendFacts
<1>4. /\ UNCHANGED <<protocol, closed, callVars, served, misfit, wire>>
      /\ misfits' \in 0..MaxMisfits /\ notices' \in 0..MaxNotices /\ events' \in 0..MaxEvents
  BY RpcAssumption DEF Notify, CountMisfit, lineVars, TypeOK
<1> HIDE DEF m
<1>5. \A x \in closed : chan'[x] = chan[x] BY <1>3 DEF ConnOK
<1>6. \A x \in Sides : \A n \in Range(chan'[x]) : n \in Range(chan[x]) \/ Added(x, n)
  BY <1>1, <1>3, PeerFacts
<1>7. \A x \in Sides : \A n \in Range(chan[x]) : n \in Range(chan'[x]) BY <1>3, PeerFacts
<1> QED BY <1>3, <1>4, <1>5, <1>6, <1>7, ChannelStep

(* What a side that handles a message can rely on.                          *)
LEMMA GetsFacts ==
    ASSUME IInv, NEW s \in Sides, NEW K, Gets(s, K)
    PROVE  /\ s \notin closed /\ chan[s] # <<>> /\ ChanOK
           /\ Head(chan[s]) \in Messages /\ Head(chan[s]) \in Range(chan[s])
           /\ Head(chan[s]).kind \in K
           /\ Peer(s) \in closed => wire # "up"
<1>1. ChanOK /\ chan[s] \in Seq(Messages) BY TypeChan DEF IInv, ChanOK
<1> QED BY <1>1, Taking DEF Gets, IInv, ConnOK

(* A message is taken that nobody waits for, and perhaps answered with a    *)
(* protocol error.                                                          *)
LEMMA HandleStep ==
    ASSUME IInv, NEW s \in Sides, s \notin closed, chan[s] # <<>>, Taken(s, Head(chan[s])),
           Take(s) \/ TakeAndAnswer(s, Error(NullId)),
           UNCHANGED <<lineVars, callVars, served, boundVars>>
    PROVE  IInv'
<1> USE DEF IInv
<1> DEFINE p == Peer(s)
<1>1. ChanOK BY TypeChan
<1>2. /\ ChanOK' /\ OnceOK'
      /\ Range(chan'[s]) \subseteq Range(chan[s])
      /\ \A x \in Range(chan[s]) : x = Head(chan[s]) \/ x \in Range(chan'[s])
      /\ Range(chan[p]) \subseteq Range(chan'[p])
      /\ \A x \in Range(chan'[p]) : x \in Range(chan[p]) \/ x = Error(NullId)
      /\ wire # "up" => chan'[p] = chan[p]
  <2>1. CASE Take(s) BY <1>1, <2>1, TakeFacts
  <2>2. CASE TakeAndAnswer(s, Error(NullId)) BY <1>1, <2>2, AnswerFacts
  <2> QED BY <2>1, <2>2
<1>3. \A x \in closed : chan'[x] = chan[x]
  <2>1. \A x \in closed : x = p /\ wire # "up" BY PeerFacts DEF ConnOK, TypeOK
  <2> QED BY <1>2, <2>1
<1>4. Added(p, Error(NullId)) BY DEF Added, Error, Message
<1>5. \A x \in Sides : \A n \in Range(chan'[x]) : n \in Range(chan[x]) \/ Added(x, n)
  BY <1>2, <1>4, PeerFacts
<1>6. \A x \in Sides : \A n \in Range(chan[x]) : n \in Range(chan'[x]) \/ Taken(x, n)
  BY <1>2, PeerFacts
<1>7. /\ UNCHANGED <<protocol, closed, callVars, served, misfit, wire>>
      /\ misfits' \in 0..MaxMisfits /\ notices' \in 0..MaxNotices /\ events' \in 0..MaxEvents
  BY DEF lineVars, boundVars, TypeOK
<1> HIDE DEF p
<1> QED BY <1>2, <1>3, <1>5, <1>6, <1>7, ChannelStep

LEMMA UnansweredStep ==
    ASSUME IInv, NEW s \in Sides,
           RunNotification(s) \/ Refuse(s) \/ TakeEvent(s) \/ CannotFindId(s) \/ Ignore(s)
    PROVE  IInv'
<1> DEFINE m == Head(chan[s])
<1>1. CASE RunNotification(s)
  <2>1. Gets(s, {"notice"}) /\ Take(s) /\ UNCHANGED <<lineVars, callVars, served, boundVars>>
    BY <1>1 DEF RunNotification
  <2>2. s \notin closed /\ chan[s] # <<>> /\ m.kind = "notice" BY <2>1, GetsFacts
  <2>3. Taken(s, m) BY <2>2 DEF Taken, IsReturn
  <2> QED BY <2>1, <2>2, <2>3, HandleStep
<1>2. CASE Refuse(s)
  <2>1. /\ Gets(s, {"call", "notice"}) /\ ~m.good /\ TakeAndAnswer(s, Error(NullId))
        /\ UNCHANGED <<lineVars, callVars, served, boundVars>>
    BY <1>2 DEF Refuse
  <2>2. s \notin closed /\ chan[s] # <<>> /\ m.kind \in {"call", "notice"} BY <2>1, GetsFacts
  <2>3. Taken(s, m) BY <2>1, <2>2 DEF Taken, IsReturn
  <2> QED BY <2>1, <2>2, <2>3, HandleStep
<1>3. CASE TakeEvent(s)
  <2>1. /\ Gets(s, {"result", "error"}) /\ m.id \notin remoteCalls[s]
        /\ Take(s) \/ TakeAndAnswer(s, Error(NullId))
        /\ UNCHANGED <<lineVars, callVars, served, boundVars>>
    BY <1>3 DEF TakeEvent
  <2>2. s \notin closed /\ chan[s] # <<>> /\ m.kind \in {"result", "error"}
    BY <2>1, GetsFacts
  <2>3. Taken(s, m) BY <2>1, <2>2 DEF Taken
  <2> QED BY <2>1, <2>2, <2>3, HandleStep
<1>4. CASE CannotFindId(s)
  <2>1. /\ Gets(s, {"result", "error"}) /\ m.id \notin remoteCalls[s] \union remoteSubscriptions[s]
        /\ TakeAndAnswer(s, Error(m.id))
        /\ UNCHANGED <<lineVars, callVars, served, boundVars>>
    BY <1>4 DEF CannotFindId
  <2>2. /\ s \notin closed /\ chan[s] # <<>> /\ m.kind \in {"result", "error"}
        /\ m \in Range(chan[s])
    BY <2>1, GetsFacts
  <2>3. m.id = NullId BY <2>1, <2>2 DEF IInv, ReturnsOK, IsReturn
  <2>4. TakeAndAnswer(s, Error(NullId)) BY <2>1, <2>3
  <2>5. Taken(s, m) BY <2>1, <2>2 DEF Taken
  <2> QED BY <2>1, <2>2, <2>4, <2>5, HandleStep
<1>5. CASE Ignore(s)
  <2>1. /\ Gets(s, {"result", "error"}) /\ ~IsCodec(s) /\ Take(s)
        /\ UNCHANGED <<lineVars, callVars, served, boundVars>>
    BY <1>5 DEF Ignore
  <2>2. s \notin closed /\ chan[s] # <<>> /\ m.kind \in {"result", "error"} /\ m \in Messages
    BY <2>1, GetsFacts
  <2>3. m.id \notin remoteCalls[s]
    <3> SUFFICES ASSUME m.id \in remoteCalls[s] PROVE FALSE OBVIOUS
    <3>1. m.id \in Ids /\ nextRemoteId[s] = 0 BY <2>1 DEF IInv, TypeOK, CallsOK
    <3>2. \A i \in Ids : i >= nextRemoteId[s] => fate[s][i] = "unmade" BY DEF IInv, CallsOK
    <3>3. \A i \in Ids : i \in remoteCalls[s] => fate[s][i] = "pending" BY DEF IInv, CallsOK
    <3>4. \A i \in Ids : i >= 0 BY IdsNat
    <3> QED BY <3>1, <3>2, <3>3, <3>4
  <2>4. Taken(s, m) BY <2>2, <2>3 DEF Taken
  <2> QED BY <2>1, <2>2, <2>4, HandleStep
<1> QED BY <1>1, <1>2, <1>3, <1>4, <1>5

LEMMA EventStep ==
    ASSUME IInv, NEW id \in Ids, Event(id)
    PROVE  IInv'
<1> USE DEF IInv
<1> DEFINE m == EventMessage(id)
           s == "client"
<1>1. s \in Sides BY DEF Sides
<1>2. /\ m \in Messages /\ m.kind = "result" /\ m.id = id /\ ~m.good /\ ~Counted(m)
  BY MessageTypes DEF EventMessage, Message, Counted, IsReturn
<1>3. Added(s, m) BY <1>2 DEF Event, Added
<1>4. Send(s, m) BY DEF Event
<1>5. /\ UNCHANGED <<protocol, closed, callVars, served, misfit, wire>>
      /\ misfits' \in 0..MaxMisfits /\ notices' \in 0..MaxNotices /\ events' \in 0..MaxEvents
  BY RpcAssumption DEF Event, lineVars, TypeOK
<1> HIDE DEF m, s
<1>6. /\ ChanOK' /\ chan'[Peer(s)] = chan[Peer(s)]
      /\ Range(chan[s]) \subseteq Range(chan'[s])
      /\ \A x \in Range(chan'[s]) : x \in Range(chan[s]) \/ x = m
      /\ OnceOK'
      /\ wire # "up" => chan' = chan
  BY <1>1, <1>2, <1>4, TypeChan, SendFacts
<1>7. \A x \in closed : chan'[x] = chan[x] BY <1>6 DEF ConnOK
<1>8. \A x \in Sides : \A n \in Range(chan'[x]) : n \in Range(chan[x]) \/ Added(x, n)
  BY <1>1, <1>3, <1>6, PeerFacts
<1>9. \A x \in Sides : \A n \in Range(chan[x]) : n \in Range(chan'[x]) BY <1>1, <1>6, PeerFacts
<1> QED BY <1>5, <1>6, <1>7, <1>8, <1>9, ChannelStep

LEMMA DropStep ==
    ASSUME IInv, Drop
    PROVE  IInv'
<1> USE DEF IInv
<1>1. PICK c \in 0..Len(chan["client"]), v \in 0..Len(chan["server"]) :
          chan' = [s \in Sides |-> SubSeq(chan[s], 1, IF s = "client" THEN c ELSE v)]
  BY DEF Drop
<1>2. ASSUME NEW s \in Sides
      PROVE  /\ chan'[s] \in Seq(Messages)
             /\ Range(chan'[s]) \subseteq Range(chan[s])
             /\ Once(chan[s]) => Once(chan'[s])
  <2> DEFINE n == IF s = "client" THEN c ELSE v
  <2>1. chan[s] \in Seq(Messages) /\ n \in 0..Len(chan[s]) BY <1>1 DEF TypeOK, Sides
  <2>2. chan'[s] = SubSeq(chan[s], 1, n) BY <1>1
  <2> HIDE DEF n
  <2> QED BY <2>1, <2>2, Cutting
<1>3. ChanOK' BY <1>1, <1>2 DEF ChanOK
<1>4. OnceOK' BY <1>2 DEF OnceOK
<1>5. /\ wire = "up" /\ wire' = "down"
      /\ UNCHANGED <<protocol, closed, callVars, served, misfit>>
      /\ misfits' \in 0..MaxMisfits /\ notices' \in 0..MaxNotices /\ events' \in 0..MaxEvents
  BY DEF Drop, boundVars, TypeOK
<1>6. closed = {} BY <1>5 DEF ConnOK
<1> QED BY <1>2, <1>3, <1>4, <1>5, <1>6, ChannelStep

LEMMA RunMethodStep ==
    ASSUME IInv, NEW s \in Sides, RunMethod(s)
    PROVE  IInv'
<1> USE DEF IInv
<1> DEFINE m == Head(chan[s])
           p == Peer(s)
           id == m.id
<1>1. Gets(s, {"call"}) /\ m.good /\ Take(s) BY DEF RunMethod
<1>2. /\ s \notin closed /\ chan[s] # <<>> /\ ChanOK /\ m \in Messages /\ m \in Range(chan[s])
      /\ m.kind = "call"
  BY <1>1, GetsFacts
<1>3. p \in Sides /\ Peer(p) = s /\ p # s BY PeerFacts
<1>4. Counted(m) BY <1>2 DEF Counted
<1>5. /\ ChanOK' /\ chan'[p] = chan[p] /\ OnceOK'
      /\ Range(chan'[s]) \subseteq Range(chan[s])
      /\ \A x \in Range(chan[s]) : x = m \/ x \in Range(chan'[s])
      /\ m \notin Range(chan'[s])
  BY <1>1, <1>2, <1>4, TakeFacts
<1>6. id \in Ids BY <1>2, MessageTypes
<1>7. served[p][id] = "no" /\ id < nextRemoteId[p] /\ id \notin misfit[p]
  BY <1>1, <1>2, <1>3 DEF RequestsOK
<1>8. m = CallMessage(id, TRUE)
  BY <1>1, <1>2 DEF Messages, CallMessage, Message
<1>9. /\ served' = [served EXCEPT ![p][id] = "running"]
      /\ UNCHANGED <<lineVars, callVars, boundVars>>
  BY DEF RunMethod
<1>10. UNCHANGED <<protocol, wire, closed, nextRemoteId, remoteCalls, remoteSubscriptions, fate,
                   misfit, misfits, notices, events>>
  BY <1>9 DEF lineVars, callVars, boundVars
<1> HIDE DEF m, p, id
<1>11. \A x \in Sides, i \in Ids :
          served'[x][i] = IF x = p /\ i = id THEN "running" ELSE served[x][i]
  BY <1>3, <1>6, <1>9 DEF TypeOK
<1>12. \A n \in Range(chan'[s]) : n.kind = "call" => n.id \in Ids /\ n.id # id
  <2> SUFFICES ASSUME NEW n \in Range(chan'[s]), n.kind = "call", n.id = id PROVE FALSE
    <3>1. ASSUME NEW n \in Range(chan'[s]), n.kind = "call" PROVE n.id \in Ids
      <4>1. n \in Messages BY <1>2, <1>5, <3>1, InChan
      <4> QED BY <3>1, <4>1, MessageTypes
    <3> QED BY <3>1
  <2>1. n \in Range(chan[s]) /\ n \in Messages BY <1>2, <1>5, InChan
  <2>2. n.good BY <1>3, <1>7, <2>1 DEF RequestsOK
  <2>3. n = CallMessage(id, TRUE) BY <2>1, <2>2 DEF Messages, CallMessage, Message
  <2> QED BY <1>5, <1>8, <2>3
<1>13. TypeOK' BY <1>5, <1>9, <1>10 DEF TypeOK, ChanOK
<1>14. ConnOK' BY <1>2, <1>3, <1>5, <1>10, PeerFacts DEF ConnOK, TypeOK
<1>15. CallsOK' BY <1>7, <1>10, <1>11 DEF CallsOK, IsCodec
<1>16. RequestsOK'
  <2> SUFFICES ASSUME NEW x \in Sides, NEW n \in Range(chan'[Peer(x)]), n.kind = "call"
               PROVE  /\ served'[x][n.id] = "no"
                      /\ n.id < nextRemoteId[x]
                      /\ n.good <=> n.id \notin misfit[x]
    BY <1>10 DEF RequestsOK
  <2>1. n \in Range(chan[Peer(x)]) /\ n \in Messages
    BY <1>2, <1>3, <1>5, PeerFacts, InChan
  <2>2. n.id \in Ids BY <2>1, MessageTypes
  <2>3. ~(x = p /\ n.id = id) BY <1>3, <1>12
  <2> QED BY <1>11, <2>1, <2>2, <2>3 DEF RequestsOK
<1>17. ReturnsOK'
  <2> SUFFICES ASSUME NEW x \in Sides, NEW n \in Range(chan'[x]), IsReturn(n), n.id # NullId
               PROVE  /\ n.id \in remoteCalls[x] \union remoteSubscriptions[x]
                      /\ n.kind = "error" => served'[x][n.id] = "failed"
                      /\ n.kind = "result" /\ n.good => served'[x][n.id] = "ok"
                      /\ n.kind = "result" /\ ~n.good =>
                            n.id \in remoteSubscriptions[x] /\ served'[x][n.id] # "no"
    BY <1>10 DEF ReturnsOK
  <2>1. n \in Range(chan[x]) /\ n \in Messages
    BY <1>2, <1>3, <1>5, PeerFacts, InChan
  <2>2. n.id \in Ids BY <2>1, MessageTypes
  <2>3. ~(x = p /\ n.id = id) BY <1>7, <2>1 DEF ReturnsOK, IsReturn
  <2> QED BY <1>11, <2>1, <2>2, <2>3 DEF ReturnsOK
<1>18. OpenOK' BY <1>7, <1>10, <1>11 DEF OpenOK
<1>19. OwnOutcome'
  <2>1. fate[p][id] \notin {"resolved", "rejected"} BY <1>3, <1>6, <1>7 DEF OwnOutcome
  <2> QED BY <1>10, <1>11, <2>1 DEF OwnOutcome
<1>20. Located'
  <2> SUFFICES ASSUME wire = "up", NEW x \in Sides, NEW i \in remoteCalls[x] \ misfit[x]
               PROVE  /\ served'[x][i] = "no" => CallMessage(i, TRUE) \in Range(chan'[Peer(x)])
                      /\ served'[x][i] = "ok" => Reply(i) \in Range(chan'[x])
                      /\ served'[x][i] = "failed" => Error(i) \in Range(chan'[x])
    BY <1>10 DEF Located
  <2>1. i \in Ids BY DEF TypeOK
  <2>2. Reply(i) # m /\ Error(i) # m BY <1>2 DEF Reply, Error, Message
  <2>3. CallMessage(i, TRUE) = m => i = id BY DEF id, CallMessage, Message
  <2>4. x = p \/ x = s BY <1>3, PeerFacts
  <2>5. Peer(s) = p BY DEF p
  <2>6. CASE x = p /\ i = id BY <1>11, <2>1, <2>6
  <2>7. CASE x = p /\ i # id
    <3>1. served'[x][i] = served[x][i] BY <1>11, <2>1, <2>7
    <3> QED BY <1>3, <1>5, <2>3, <2>7, <3>1 DEF Located
  <2>8. CASE x = s
    <3>1. served'[x][i] = served[x][i] BY <1>3, <1>11, <2>1, <2>8
    <3> QED BY <1>5, <2>2, <2>5, <2>8, <3>1 DEF Located
  <2> QED BY <2>4, <2>6, <2>7, <2>8
<1> QED BY <1>5, <1>13, <1>14, <1>15, <1>16, <1>17, <1>18, <1>19, <1>20

(* A return settles the call it names, with the outcome of its run.         *)
LEMMA ReturnStep ==
    ASSUME IInv, NEW s \in Sides, TakeReturn(s)
    PROVE  IInv'
<1> USE DEF IInv
<1> DEFINE m == Head(chan[s])
           p == Peer(s)
           id == m.id
<1>1. Gets(s, {"result", "error"}) /\ id \in remoteCalls[s] /\ Take(s) BY DEF TakeReturn
<1>2. /\ s \notin closed /\ chan[s] # <<>> /\ ChanOK /\ m \in Messages /\ m \in Range(chan[s])
      /\ m.kind \in {"result", "error"} /\ IsReturn(m)
  BY <1>1, GetsFacts DEF IsReturn
<1>3. p \in Sides /\ Peer(p) = s /\ p # s BY PeerFacts
<1>4. /\ ChanOK' /\ chan'[p] = chan[p] /\ OnceOK'
      /\ Range(chan'[s]) \subseteq Range(chan[s])
      /\ \A x \in Range(chan[s]) : x = m \/ x \in Range(chan'[s])
      /\ Counted(m) => m \notin Range(chan'[s])
  BY <1>1, <1>2, TakeFacts
<1>5. id \in Ids /\ id # NullId BY <1>1, NullIsNoId DEF TypeOK
<1>6. /\ m.kind = "error" => served[s][id] = "failed" /\ m.good
      /\ m.kind = "result" /\ m.good => served[s][id] = "ok"
      /\ m.kind = "result" /\ ~m.good => id \in remoteSubscriptions[s] /\ served[s][id] # "no"
  BY <1>2, <1>5, MessageTypes DEF ReturnsOK
<1>7. fate[s][id] = "pending" /\ id < nextRemoteId[s]
  <2>1. ASSUME NEW i \in remoteCalls[s] PROVE fate[s][i] = "pending" /\ i < nextRemoteId[s]
    <3>1. i \in Ids /\ i \in Nat /\ nextRemoteId[s] \in Nat BY IdsNat DEF TypeOK
    <3>2. fate[s][i] = "pending" /\ ~(i >= nextRemoteId[s]) BY <3>1 DEF CallsOK
    <3> QED BY <3>1, <3>2
  <2> QED BY <1>1, <2>1
<1>8. m.good => m = Reply(id) \/ m = Error(id)
  BY <1>2 DEF Messages, Reply, Error, Message
<1>9. Counted(m) <=> m.good BY <1>2, <1>5 DEF Counted
<1>10. SettlesAs(m) \in {"resolved", "rejected", "misread"} BY DEF SettlesAs
<1>11. /\ SettlesAs(m) = "resolved" => served[s][id] = "ok"
       /\ SettlesAs(m) = "rejected" => served[s][id] = "failed"
       /\ SettlesAs(m) = "misread" => id \in remoteSubscriptions[s] /\ ~m.good
  BY <1>2, <1>6 DEF SettlesAs
<1> DEFINE end == SettlesAs(m)
<1>12. /\ fate' = [fate EXCEPT ![s][id] = end]
       /\ remoteCalls' = [remoteCalls EXCEPT ![s] = remoteCalls[s] \ {id}]
       /\ UNCHANGED <<protocol, wire, closed, nextRemoteId, remoteSubscriptions, served, misfit,
                      misfits, notices, events>>
  BY DEF TakeReturn, lineVars, boundVars
<1> HIDE DEF m, p, id, end
<1>13. \A x \in Sides : \A i \in Ids :
          /\ fate'[x][i] = IF x = s /\ i = id THEN end ELSE fate[x][i]
          /\ i \in remoteCalls'[x] <=> i \in remoteCalls[x] /\ ~(x = s /\ i = id)
  BY <1>5, <1>12 DEF TypeOK
<1>14. end \in {"resolved", "rejected", "misread"} BY <1>10 DEF end
(* Another return of the same call can only be an event.                    *)
<1>15. ASSUME NEW n \in Range(chan'[s]), IsReturn(n), n.id = id
       PROVE  id \in remoteSubscriptions[s]
  <2>1. n \in Range(chan[s]) /\ n \in Messages BY <1>2, <1>4, <1>15, InChan
  <2>2. /\ n.kind = "error" => served[s][id] = "failed"
        /\ n.kind = "result" /\ n.good => served[s][id] = "ok"
        /\ n.kind = "result" /\ ~n.good => id \in remoteSubscriptions[s]
    BY <1>5, <1>15, <2>1 DEF ReturnsOK
  <2>3. CASE ~n.good BY <1>15, <2>1, <2>2, <2>3, MessageTypes DEF IsReturn
  <2>4. CASE ~m.good BY <1>2, <1>6, <2>4
  <2>5. CASE n.good /\ m.good
    <3>1. n = Reply(id) \/ n = Error(id)
      BY <1>15, <2>1, <2>5 DEF Messages, Reply, Error, Message, IsReturn
    <3>2. n.kind = m.kind BY <1>2, <1>6, <1>15, <2>2, <2>5 DEF IsReturn
    <3>3. Reply(id).kind = "result" /\ Error(id).kind = "error" BY DEF Reply, Error, Message
    <3>4. m = Reply(id) \/ m = Error(id) BY <1>8, <2>5
    <3>5. n = m BY <3>1, <3>2, <3>3, <3>4
    <3> QED BY <1>4, <1>9, <2>5, <3>5
  <2> QED BY <2>3, <2>4, <2>5
<1>16. TypeOK'
  <2>1. fate' \in [Sides -> [Ids -> {"unmade", "pending", "resolved", "rejected", "misread",
                                     "closed"}]]
    BY <1>5, <1>12, <1>14 DEF TypeOK
  <2>2. remoteCalls' \in [Sides -> SUBSET Ids] BY <1>12 DEF TypeOK
  <2> QED BY <1>4, <1>12, <2>1, <2>2 DEF TypeOK, ChanOK
<1>17. ConnOK' BY <1>2, <1>3, <1>4, <1>12, PeerFacts DEF ConnOK, TypeOK
<1>18. CallsOK'
  <2> SUFFICES ASSUME NEW x \in Sides
               PROVE  /\ nextRemoteId[x] <= MaxCalls[x]
                      /\ ~IsCodec(x) => nextRemoteId[x] = 0
                      /\ remoteSubscriptions[x] # {} => protocol = "blockbook" /\ x = "client"
                      /\ \A i \in Ids :
                            /\ fate'[x][i] = "unmade" <=> i >= nextRemoteId[x]
                            /\ fate'[x][i] = "pending" <=> i \in remoteCalls'[x]
                            /\ i \in remoteSubscriptions[x] \union misfit[x] =>
                                  i < nextRemoteId[x]
                            /\ served[x][i] # "no" => i < nextRemoteId[x]
    BY <1>12 DEF CallsOK, IsCodec
  <2>1. ~(id >= nextRemoteId[s]) BY <1>5, <1>7, IdsNat DEF TypeOK
  <2> QED BY <1>5, <1>13, <1>14, <2>1 DEF CallsOK
<1>19. RequestsOK'
  <2> SUFFICES ASSUME NEW x \in Sides, NEW n \in Range(chan'[Peer(x)]), n.kind = "call"
               PROVE  /\ served[x][n.id] = "no" /\ n.id < nextRemoteId[x]
                      /\ n.good <=> n.id \notin misfit[x]
    BY <1>12 DEF RequestsOK
  <2>1. n \in Range(chan[Peer(x)]) BY <1>3, <1>4, PeerFacts
  <2> QED BY <2>1 DEF RequestsOK
<1>20. ReturnsOK'
  <2> SUFFICES ASSUME NEW x \in Sides, NEW n \in Range(chan'[x]), IsReturn(n), n.id # NullId
               PROVE  /\ n.id \in remoteCalls'[x] \union remoteSubscriptions[x]
                      /\ n.kind = "error" => served[x][n.id] = "failed"
                      /\ n.kind = "result" /\ n.good => served[x][n.id] = "ok"
                      /\ n.kind = "result" /\ ~n.good =>
                            n.id \in remoteSubscriptions[x] /\ served[x][n.id] # "no"
    BY <1>12 DEF ReturnsOK
  <2>1. n \in Range(chan[x]) /\ n \in Messages BY <1>2, <1>3, <1>4, PeerFacts, InChan
  <2>2. n.id \in Ids BY <2>1, MessageTypes
  <2>3. x = s /\ n.id = id => n.id \in remoteSubscriptions[x] BY <1>15
  <2> QED BY <1>13, <2>1, <2>2, <2>3 DEF ReturnsOK
<1>21. OpenOK'
  <2>1. served[s][id] \in {"no", "running"} => id \in remoteSubscriptions[s]
    BY <1>2, <1>6, MessageTypes
  <2> QED BY <1>12, <1>13, <2>1 DEF OpenOK
<1>22. OwnOutcome'
  <2>1. /\ end = "resolved" => served[s][id] = "ok"
        /\ end = "rejected" => served[s][id] = "failed"
        /\ end = "misread" => protocol = "blockbook" /\ s = "client"
    BY <1>11 DEF end, CallsOK
  <2> QED BY <1>12, <1>13, <2>1 DEF OwnOutcome
<1>23. Located'
  <2> SUFFICES ASSUME wire = "up", NEW x \in Sides, NEW i \in remoteCalls'[x] \ misfit[x]
               PROVE  /\ served[x][i] = "no" => CallMessage(i, TRUE) \in Range(chan'[Peer(x)])
                      /\ served[x][i] = "ok" => Reply(i) \in Range(chan'[x])
                      /\ served[x][i] = "failed" => Error(i) \in Range(chan'[x])
    BY <1>12 DEF Located
  <2>1. i \in Ids BY <1>16 DEF TypeOK
  <2>2. i \in remoteCalls[x] \ misfit[x] /\ ~(x = s /\ i = id) BY <1>13, <2>1
  <2>3. /\ served[x][i] = "no" => CallMessage(i, TRUE) \in Range(chan[Peer(x)])
        /\ served[x][i] = "ok" => Reply(i) \in Range(chan[x])
        /\ served[x][i] = "failed" => Error(i) \in Range(chan[x])
    BY <2>2 DEF Located
  <2>4. CallMessage(i, TRUE) # m BY <1>2 DEF CallMessage, Message
  <2>5. i # id => Reply(i) # m /\ Error(i) # m BY DEF id, Reply, Error, Message
  <2> QED BY <1>3, <1>4, <2>2, <2>3, <2>4, <2>5, PeerFacts
<1> QED BY <1>4, <1>16, <1>17, <1>18, <1>19, <1>20, <1>21, <1>22, <1>23

(* A method ends: its return is the first that is not an event.             *)
LEMMA MethodStep ==
    ASSUME IInv, NEW s \in Sides, NEW id \in Ids, MethodEnds(s, id)
    PROVE  IInv'
<1> USE DEF IInv
<1>1. PICK m \in {Reply(id), Error(id)} :
          /\ Send(s, m)
          /\ served' = [served EXCEPT ![s][id] = IF m = Reply(id) THEN "ok" ELSE "failed"]
  BY DEF MethodEnds, MethodOk, MethodFails, Reply, Error, Message
<1>2. /\ served[s][id] = "running"
      /\ UNCHANGED <<protocol, wire, closed, nextRemoteId, remoteCalls, remoteSubscriptions, fate,
                     misfit, misfits, notices, events>>
  BY DEF MethodEnds, MethodOk, MethodFails, lineVars, callVars, boundVars
<1> DEFINE p == Peer(s)
           end == IF m = Reply(id) THEN "ok" ELSE "failed"
<1>3. p \in Sides /\ Peer(p) = s /\ p # s BY PeerFacts
<1>4. /\ m \in Messages /\ IsReturn(m) /\ m.good /\ m.id = id /\ id # NullId
      /\ m.kind = IF end = "ok" THEN "result" ELSE "error"
  <2>1. m \in Messages /\ id # NullId BY <1>1, MessageTypes, NullIsNoId
  <2>2. /\ Reply(id).kind = "result" /\ Reply(id).good /\ Reply(id).id = id
        /\ Error(id).kind = "error" /\ Error(id).good /\ Error(id).id = id
    BY DEF Reply, Error, Message
  <2>3. CASE m = Reply(id) BY <2>1, <2>2, <2>3 DEF IsReturn
  <2>4. CASE m # Reply(id)
    <3>1. m = Error(id) BY <1>1, <2>4
    <3> QED BY <2>1, <2>2, <2>4, <3>1 DEF IsReturn
  <2> QED BY <2>3, <2>4
<1>5. m \notin Range(chan[s]) BY <1>2, <1>4 DEF ReturnsOK, IsReturn
<1>6. /\ ChanOK' /\ chan'[p] = chan[p] /\ OnceOK'
      /\ Range(chan[s]) \subseteq Range(chan'[s])
      /\ \A x \in Range(chan'[s]) : x \in Range(chan[s]) \/ (x = m /\ wire = "up")
      /\ wire = "up" => m \in Range(chan'[s])
      /\ wire # "up" => chan' = chan
  BY <1>1, <1>4, <1>5, TypeChan, SendFacts
<1>7. end = "ok" => m = Reply(id) BY <1>1
<1>8. end = "failed" => m = Error(id) BY <1>1
<1>9. end \in {"ok", "failed"} OBVIOUS
<1>10. served' = [served EXCEPT ![s][id] = end] BY <1>1
<1> HIDE DEF p, end
<1>11. \A x \in Sides : \A i \in Ids :
          served'[x][i] = IF x = s /\ i = id THEN end ELSE served[x][i]
  BY <1>10 DEF TypeOK
<1>12. TypeOK'
  <2>1. served' \in [Sides -> [Ids -> {"no", "running", "ok", "failed"}]]
    BY <1>9, <1>10 DEF TypeOK
  <2> QED BY <1>2, <1>6, <2>1 DEF TypeOK, ChanOK
<1>13. ConnOK' BY <1>2, <1>6 DEF ConnOK
<1>14. CallsOK' BY <1>2, <1>9, <1>11 DEF CallsOK, IsCodec
<1>15. id < nextRemoteId[s] /\ (s \in closed \/ id \in remoteCalls[s] \union remoteSubscriptions[s])
  BY <1>2 DEF CallsOK, OpenOK
<1>16. RequestsOK'
  <2> SUFFICES ASSUME NEW x \in Sides, NEW n \in Range(chan'[Peer(x)]), n.kind = "call"
               PROVE  /\ served'[x][n.id] = "no" /\ n.id < nextRemoteId[x]
                      /\ n.good <=> n.id \notin misfit[x]
    BY <1>2 DEF RequestsOK
  <2>1. n \in Range(chan[Peer(x)]) BY <1>3, <1>4, <1>6, PeerFacts DEF IsReturn
  <2>2. n \in Messages BY <2>1, TypeChan, InChan, PeerFacts
  <2>3. n.id \in Ids /\ served[x][n.id] = "no" BY <2>1, <2>2, MessageTypes DEF RequestsOK
  <2>4. ~(x = s /\ n.id = id) BY <1>2, <2>3
  <2> QED BY <1>11, <2>1, <2>3, <2>4 DEF RequestsOK
<1>17. ReturnsOK'
  <2> SUFFICES ASSUME NEW x \in Sides, NEW n \in Range(chan'[x]), IsReturn(n), n.id # NullId
               PROVE  /\ n.id \in remoteCalls[x] \union remoteSubscriptions[x]
                      /\ n.kind = "error" => served'[x][n.id] = "failed"
                      /\ n.kind = "result" /\ n.good => served'[x][n.id] = "ok"
                      /\ n.kind = "result" /\ ~n.good =>
                            n.id \in remoteSubscriptions[x] /\ served'[x][n.id] # "no"
    BY <1>2 DEF ReturnsOK
  <2>1. CASE n \in Range(chan[x])
    <3>1. n \in Messages BY <2>1, TypeChan, InChan
    <3>2. n.id \in Ids BY <3>1, MessageTypes
    <3>3. /\ n.id \in remoteCalls[x] \union remoteSubscriptions[x]
          /\ n.kind = "error" => served[x][n.id] = "failed"
          /\ n.kind = "result" /\ n.good => served[x][n.id] = "ok"
          /\ n.kind = "result" /\ ~n.good =>
                n.id \in remoteSubscriptions[x] /\ served[x][n.id] # "no"
      BY <2>1 DEF ReturnsOK
    <3>4. CASE x = s /\ n.id = id BY <1>2, <1>9, <1>11, <3>3, <3>4
    <3>5. CASE ~(x = s /\ n.id = id)
      <4>1. served'[x][n.id] = served[x][n.id] BY <1>11, <3>2, <3>5
      <4> QED BY <3>3, <4>1
    <3> QED BY <3>4, <3>5
  <2>2. CASE n \notin Range(chan[x])
    <3>1. x = s /\ n = m /\ wire = "up" BY <1>3, <1>6, <2>2, PeerFacts
    <3>2. id \in remoteCalls[s] \union remoteSubscriptions[s] BY <1>15, <3>1 DEF ConnOK
    <3>3. served'[s][id] = end BY <1>11
    <3> QED BY <1>4, <1>9, <3>1, <3>2, <3>3
  <2> QED BY <2>1, <2>2
<1>18. OpenOK' BY <1>2, <1>9, <1>11 DEF OpenOK
<1>19. OwnOutcome'
  <2>1. fate[s][id] \notin {"resolved", "rejected"} BY <1>2 DEF OwnOutcome
  <2> QED BY <1>2, <1>11, <2>1 DEF OwnOutcome
<1>20. Located'
  <2> SUFFICES ASSUME wire = "up", NEW x \in Sides, NEW i \in remoteCalls[x] \ misfit[x]
               PROVE  /\ served'[x][i] = "no" => CallMessage(i, TRUE) \in Range(chan'[Peer(x)])
                      /\ served'[x][i] = "ok" => Reply(i) \in Range(chan'[x])
                      /\ served'[x][i] = "failed" => Error(i) \in Range(chan'[x])
    BY <1>2 DEF Located
  <2>1. i \in Ids BY DEF TypeOK
  <2>2. Range(chan[x]) \subseteq Range(chan'[x]) /\ Range(chan[Peer(x)]) \subseteq Range(chan'[Peer(x)])
    BY <1>3, <1>6, PeerFacts
  <2>3. CASE x = s /\ i = id BY <1>6, <1>7, <1>8, <1>9, <1>11, <2>1, <2>3
  <2>4. CASE ~(x = s /\ i = id)
    <3>1. served'[x][i] = served[x][i] BY <1>11, <2>1, <2>4
    <3> QED BY <2>2, <3>1 DEF Located
  <2> QED BY <2>3, <2>4
<1> QED BY <1>6, <1>12, <1>13, <1>14, <1>16, <1>17, <1>18, <1>19, <1>20

LEMMA CloseStep ==
    ASSUME IInv, NEW s \in Sides, HandleClose(s)
    PROVE  IInv'
<1> USE DEF IInv
<1>1. /\ wire = "down" /\ s \notin closed /\ closed' = closed \union {s}
      /\ chan' = [chan EXCEPT ![s] = <<>>]
      /\ fate' = [fate EXCEPT ![s] = Rejects(s)]
      /\ remoteCalls' = [remoteCalls EXCEPT ![s] = {}]
      /\ remoteSubscriptions' = [remoteSubscriptions EXCEPT ![s] = {}]
      /\ UNCHANGED <<protocol, wire, nextRemoteId, served, misfit, misfits, notices, events>>
  BY DEF HandleClose, boundVars
<1>2. /\ ChanOK' /\ chan'[s] = <<>> /\ \A x \in Sides : x # s => chan'[x] = chan[x]
  BY <1>1 DEF TypeOK, ChanOK
<1>3. Range(chan'[s]) = {} BY <1>2 DEF Range
<1>4. \A x \in Sides : \A n \in Range(chan'[x]) : x # s /\ n \in Range(chan[x]) BY <1>2, <1>3
<1>5. \A x \in Sides : \A i \in Ids :
          /\ fate'[x][i] = IF x = s /\ fate[x][i] = "pending" THEN "closed" ELSE fate[x][i]
          /\ remoteCalls'[x] = IF x = s THEN {} ELSE remoteCalls[x]
          /\ remoteSubscriptions'[x] = IF x = s THEN {} ELSE remoteSubscriptions[x]
  BY <1>1 DEF TypeOK, Rejects
<1>6. TypeOK'
  <2>1. fate' \in [Sides -> [Ids -> {"unmade", "pending", "resolved", "rejected", "misread",
                                     "closed"}]]
    BY <1>1 DEF TypeOK, Rejects
  <2>2. remoteCalls' \in [Sides -> SUBSET Ids] /\ remoteSubscriptions' \in [Sides -> SUBSET Ids]
    BY <1>1 DEF TypeOK
  <2> QED BY <1>1, <1>2, <2>1, <2>2 DEF TypeOK, ChanOK
<1>7. ConnOK' BY <1>1, <1>2 DEF ConnOK, TypeOK
<1>8. CallsOK'
  <2>1. remoteSubscriptions'[s] = {} /\ remoteCalls'[s] = {} BY <1>1 DEF TypeOK
  <2>2. \A x \in Sides : x # s => remoteSubscriptions'[x] = remoteSubscriptions[x]
    BY <1>1 DEF TypeOK
  <2> QED BY <1>1, <1>5, <2>1, <2>2 DEF CallsOK, IsCodec
<1>9. RequestsOK' BY <1>1, <1>4, PeerFacts DEF RequestsOK
<1>10. ReturnsOK'
  <2> SUFFICES ASSUME NEW x \in Sides, NEW n \in Range(chan'[x]), IsReturn(n), n.id # NullId
               PROVE  /\ n.id \in remoteCalls'[x] \union remoteSubscriptions'[x]
                      /\ n.kind = "error" => served[x][n.id] = "failed"
                      /\ n.kind = "result" /\ n.good => served[x][n.id] = "ok"
                      /\ n.kind = "result" /\ ~n.good =>
                            n.id \in remoteSubscriptions'[x] /\ served[x][n.id] # "no"
    BY <1>1 DEF ReturnsOK
  <2>1. x # s /\ n \in Range(chan[x]) BY <1>4
  <2>2. remoteCalls'[x] = remoteCalls[x] /\ remoteSubscriptions'[x] = remoteSubscriptions[x]
    BY <1>1, <2>1 DEF TypeOK
  <2> QED BY <2>1, <2>2 DEF ReturnsOK
<1>11. OpenOK' BY <1>1, <1>5 DEF OpenOK
<1>12. OnceOK'
  <2>1. DOMAIN <<>> = {} OBVIOUS
  <2> QED BY <1>2, <2>1 DEF OnceOK, Once
<1>13. OwnOutcome' BY <1>1, <1>5 DEF OwnOutcome
<1>14. Located' BY <1>1 DEF Located
<1> QED BY <1>2, <1>6, <1>7, <1>8, <1>9, <1>10, <1>11, <1>12, <1>13, <1>14

LEMMA StutterStep ==
    ASSUME IInv, UNCHANGED vars
    PROVE  IInv'
<1>1. UNCHANGED <<protocol, wire, closed, chan, nextRemoteId, remoteCalls, remoteSubscriptions,
                  fate, served, misfit, misfits, notices, events>>
  BY DEF vars
<1>2. TypeOK' /\ ConnOK' /\ OnceOK' BY <1>1 DEF IInv, TypeOK, ConnOK, OnceOK, Once
<1>3. CallsOK' BY <1>1 DEF IInv, CallsOK, IsCodec
<1>4. RequestsOK' /\ ReturnsOK' /\ OpenOK' BY <1>1 DEF IInv, RequestsOK, ReturnsOK, OpenOK
<1>5. OwnOutcome' BY <1>1 DEF IInv, OwnOutcome
<1>6. Located' BY <1>1 DEF IInv, Located
<1> QED BY <1>2, <1>3, <1>4, <1>5, <1>6 DEF IInv

(* The steps of Next.                                                       *)
LEMMA Inductive == IInv /\ [Next]_vars => IInv'
<1> SUFFICES ASSUME IInv, [Next]_vars PROVE IInv' OBVIOUS
<1>1. ASSUME NEW s \in Sides, NEW good \in BOOLEAN, NEW sub \in BOOLEAN, Call(s, good, sub)
      PROVE  IInv'
  BY <1>1, CallStep
<1>2. ASSUME NEW s \in Sides, NEW good \in BOOLEAN, Notify(s, good) PROVE IInv'
  BY <1>2, NotifyStep
<1>3. ASSUME NEW s \in Sides, HandleMessage(s) PROVE IInv'
  BY <1>3, RunMethodStep, UnansweredStep, ReturnStep DEF HandleMessage
<1>4. ASSUME NEW s \in Sides, NEW id \in Ids, MethodEnds(s, id) PROVE IInv'
  BY <1>4, MethodStep
<1>5. ASSUME NEW s \in Sides, HandleClose(s) PROVE IInv' BY <1>5, CloseStep
<1>6. ASSUME NEW id \in Ids, Event(id) PROVE IInv' BY <1>6, EventStep
<1>7. ASSUME Drop PROVE IInv' BY <1>7, DropStep
<1> QED BY <1>1, <1>2, <1>3, <1>4, <1>5, <1>6, <1>7, StutterStep DEF Next

LEMMA Invariance == Spec => []IInv
<1>1. Init => IInv BY InvInit
<1>2. IInv /\ [Next]_vars => IInv' BY Inductive
<1> QED BY <1>1, <1>2, PTL DEF Spec

----------------------------------------------------------------------------
(* The theorems *)

(* The state keeps its types: ids are never beyond those handed out, and no *)
(* message but calls, notices, results and errors is on the way.            *)
THEOREM TypeCorrect == Spec => []TypeOK
<1>1. IInv => TypeOK BY DEF IInv
<1> QED BY <1>1, Invariance, PTL

(* A promise settles with the outcome of its own method, however the calls, *)
(* events and errors of both sides interleave and whenever the connection   *)
(* ends (onMessage, lines 312-353 of src/jsonRpc.ts).                       *)
THEOREM OwnOutcomes == Spec => []OwnOutcome
<1>1. IInv => OwnOutcome BY DEF IInv
<1> QED BY <1>1, Invariance, PTL

(* While the connection is up, each pending call is in the hands of the     *)
(* other side or its outcome is on the way back.                            *)
THEOREM NothingForgotten == Spec => []NoCallForgotten
<1>1. IInv => NoCallForgotten
  <2> SUFFICES ASSUME IInv, wire = "up", NEW s \in Sides, NEW i \in remoteCalls[s] \ misfit[s]
               PROVE  Somewhere(s, i)
    BY DEF NoCallForgotten
  <2>1. served[s][i] \in {"no", "running", "ok", "failed"} BY DEF IInv, TypeOK
  <2> QED BY <2>1 DEF IInv, Located, Somewhere
<1> QED BY <1>1, Invariance, PTL

(* Each step of the codec is a step of the abstract remote calls, or leaves *)
(* the promises and the runs alone.                                         *)
LEMMA StepSimulation == IInv /\ [Next]_vars => [Abstract!RCNext]_(Abstract!rcVars)
<1> SUFFICES ASSUME IInv, [Next]_vars PROVE [Abstract!RCNext]_(Abstract!rcVars) OBVIOUS
<1> USE DEF IInv
<1> DEFINE Still == UNCHANGED <<fate, served>>
<1>0. Still => [Abstract!RCNext]_(Abstract!rcVars) BY DEF Abstract!rcVars
<1>1. ASSUME NEW s \in Sides, NEW good \in BOOLEAN, NEW sub \in BOOLEAN, Call(s, good, sub)
      PROVE  Abstract!RCNext
  <2> DEFINE id == nextRemoteId[s]
  <2>1. id \in Ids BY <1>1, IdsNat DEF Call, TypeOK
  <2>2. fate[s][id] = "unmade"
    <3>1. \A i \in Ids : i >= nextRemoteId[s] => fate[s][i] = "unmade" BY DEF CallsOK
    <3>2. id >= nextRemoteId[s] BY DEF TypeOK
    <3> QED BY <2>1, <3>1, <3>2
  <2>3. fate' = [fate EXCEPT ![s][id] = "pending"] /\ UNCHANGED served BY <1>1 DEF Call
  <2> HIDE DEF id
  <2>4. Abstract!Make(s, id) BY <2>2, <2>3 DEF Abstract!Make
  <2> QED BY <2>1, <2>4 DEF Abstract!RCNext
<1>2. ASSUME NEW s \in Sides, RunMethod(s) PROVE Abstract!RCNext
  <2> DEFINE p == Peer(s)
             id == Head(chan[s]).id
  <2>1. /\ Gets(s, {"call"}) /\ Head(chan[s]).good
        /\ served' = [served EXCEPT ![p][id] = "running"] /\ UNCHANGED fate
    BY <1>2 DEF RunMethod, callVars
  <2>2. /\ Head(chan[s]) \in Messages /\ Head(chan[s]) \in Range(chan[s])
        /\ Head(chan[s]).kind = "call"
    BY <2>1, GetsFacts
  <2>3. p \in Sides /\ Peer(p) = s BY PeerFacts
  <2>4. id \in Ids /\ served[p][id] = "no" /\ id < nextRemoteId[p]
    BY <2>2, <2>3, MessageTypes DEF RequestsOK
  <2> HIDE DEF p, id
  <2>5. fate[p][id] # "unmade" BY <2>3, <2>4, IdsNat DEF CallsOK, TypeOK
  <2>6. Abstract!Start(p, id) BY <2>1, <2>4, <2>5 DEF Abstract!Start, Abstract!RunGoes
  <2> QED BY <2>3, <2>4, <2>6 DEF Abstract!RCNext
<1>3. ASSUME NEW s \in Sides, TakeReturn(s) PROVE Abstract!RCNext
  <2> DEFINE m == Head(chan[s])
             id == m.id
  <2>1. /\ Gets(s, {"result", "error"}) /\ id \in remoteCalls[s]
        /\ fate' = [fate EXCEPT ![s][id] = SettlesAs(m)] /\ UNCHANGED served
    BY <1>3 DEF TakeReturn
  <2>2. m \in Range(chan[s]) /\ m.kind \in {"result", "error"} /\ IsReturn(m)
    BY <2>1, GetsFacts DEF IsReturn
  <2>3. id \in Ids /\ id # NullId BY <2>1, NullIsNoId DEF TypeOK
  <2>4. fate[s][id] = "pending" BY <2>1, <2>3 DEF CallsOK
  <2>5. /\ m.kind = "error" => served[s][id] = "failed"
        /\ m.kind = "result" /\ m.good => served[s][id] = "ok"
        /\ m.kind = "result" /\ ~m.good => served[s][id] # "no"
    BY <2>2, <2>3 DEF ReturnsOK
  <2>6. CASE m.kind = "error"
    <3>1. SettlesAs(m) = "rejected" BY <2>6 DEF SettlesAs
    <3> HIDE DEF m, id
    <3>2. Abstract!Reject(s, id) BY <2>1, <2>4, <2>5, <2>6, <3>1 DEF Abstract!Reject, Abstract!SettleAs
    <3> QED BY <2>3, <3>2 DEF Abstract!RCNext
  <2>7. CASE m.kind = "result" /\ m.good
    <3>1. SettlesAs(m) = "resolved" BY <2>7 DEF SettlesAs
    <3> HIDE DEF m, id
    <3>2. Abstract!Resolve(s, id)
      BY <2>1, <2>4, <2>5, <2>7, <3>1 DEF Abstract!Resolve, Abstract!SettleAs
    <3> QED BY <2>3, <3>2 DEF Abstract!RCNext
  <2>8. CASE m.kind = "result" /\ ~m.good
    <3>1. SettlesAs(m) = "misread" BY <2>8 DEF SettlesAs
    <3> HIDE DEF m, id
    <3>2. Abstract!Misread(s, id)
      BY <2>1, <2>4, <2>5, <2>8, <3>1 DEF Abstract!Misread, Abstract!SettleAs
    <3> QED BY <2>3, <3>2 DEF Abstract!RCNext
  <2> QED BY <2>2, <2>6, <2>7, <2>8
<1>4. ASSUME NEW s \in Sides, NEW id \in Ids, MethodEnds(s, id) PROVE Abstract!RCNext
  <2>1. /\ served[s][id] = "running" /\ UNCHANGED fate
        /\ \/ served' = [served EXCEPT ![s][id] = "ok"]
           \/ served' = [served EXCEPT ![s][id] = "failed"]
    BY <1>4 DEF MethodEnds, MethodOk, MethodFails, callVars
  <2>2. Abstract!End(s, id) BY <2>1 DEF Abstract!End, Abstract!RunGoes
  <2> QED BY <2>2 DEF Abstract!RCNext
<1>5. ASSUME NEW s \in Sides, HandleClose(s) PROVE Abstract!RCNext
  <2>1. Abstract!Cancel(s)
    BY <1>5 DEF HandleClose, Rejects, Abstract!Cancel, Abstract!Cancelled
  <2> QED BY <2>1 DEF Abstract!RCNext
<1>6. ASSUME NEW s \in Sides, HandleMessage(s), ~RunMethod(s), ~TakeReturn(s) PROVE Still
  BY <1>6 DEF HandleMessage, RunNotification, Refuse, TakeEvent, CannotFindId, Ignore, callVars
<1>7. ASSUME NEW s \in Sides, NEW good \in BOOLEAN, Notify(s, good) PROVE Still
  BY <1>7 DEF Notify, callVars
<1>8. ASSUME NEW id \in Ids, Event(id) PROVE Still BY <1>8 DEF Event, callVars
<1>9. ASSUME Drop PROVE Still BY <1>9 DEF Drop, callVars
<1>10. ASSUME UNCHANGED vars PROVE Still BY <1>10 DEF vars
<1> HIDE DEF Still
<1> QED BY <1>0, <1>1, <1>2, <1>3, <1>4, <1>5, <1>6, <1>7, <1>8, <1>9, <1>10 DEF Next

(* The codec implements remote calls that run at most once and settle at    *)
(* most once: no message, id or close of src/jsonRpc.ts can settle a call   *)
(* twice or start its method again.                                         *)
THEOREM Refinement == Spec => ImplementsRemoteCalls
<1>1. Init => Abstract!RCInit BY DEF Init, Abstract!RCInit
<1>2. IInv /\ [Next]_vars => [Abstract!RCNext]_(Abstract!rcVars) BY StepSimulation
<1> QED BY <1>1, <1>2, Invariance, PTL DEF Spec, ImplementsRemoteCalls, Abstract!RCSpec
============================================================================
