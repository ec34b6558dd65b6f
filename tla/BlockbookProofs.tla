-------------------------- MODULE BlockbookProofs --------------------------
(* Proofs about the Blockbook plugin, for any addresses, connections, calls *)
(* and transactions.                                                        *)
EXTENDS Blockbook, FiniteSetTheorems, SequenceTheorems, TLAPS

(* A connection that may take addresses: it is made, its close event has    *)
(* not come, and the plugin did not close it when it was open.              *)
Live == {"connecting", "open", "aborted", "dropped"}

(* An address is mapped to a connection that takes addresses.               *)
MappedToLive == \A a \in Addrs : connOf[a] # NoConn => socket[connOf[a]] \in Live

(* Until the plugin is destroyed, the hub holds the mapped addresses, and   *)
(* the list of a connection whose close event is to come is what the map    *)
(* says.                                                                    *)
HeldIsMapped == ~destroyed => held = {a \in Addrs : connOf[a] # NoConn}
ListIsMapped ==
    ~destroyed => \A c \in Conns :
        socket[c] # "closed" => addresses[c] = {a \in Addrs : connOf[a] = c}

(* The pool holds no connection twice, and only ones that take addresses.   *)
PoolIsLive ==
    /\ \A i \in 1..Len(pool) : socket[pool[i]] \in Live
    /\ \A i, j \in 1..Len(pool) : pool[i] = pool[j] => i = j

(* Nothing is left of a destroyed plugin.                                   *)
DestroyedIsEmpty == destroyed => pool = <<>> /\ \A a \in Addrs : connOf[a] = NoConn

Connections == MappedToLive /\ HeldIsMapped /\ ListIsMapped /\ PoolIsLive /\ DestroyedIsEmpty

IInv == TypeOK /\ Connections

(* What makes OwedIsWatched inductive: queries have a set, requests of the  *)
(* hub have none, and no query about the address of an owed transaction     *)
(* holds another set than its entry.                                        *)
QueriesHaveSets ==
    \A k \in Calls : calls[k] # NoCall =>
        /\ calls[k].op = "confirm" => calls[k].gen \in Gens
        /\ calls[k].stage = "opening" => calls[k].gen = 0

Watches(t) ==
    LET w == watch[TxOf[t]] IN w.now # 0 /\ t \in w.sets[w.now] /\ InGoodTime(TxOf[t])

Watching == QueriesHaveSets /\ \A t \in owed : Watches(t)

----------------------------------------------------------------------------
(* The pool *)

(* Removing one entry of an array moves up the ones after it.               *)
LEMMA RemoveAtMovesUp ==
    ASSUME NEW S, NEW s \in Seq(S), NEW i \in 1..Len(s)
    PROVE  /\ RemoveAt(s, i) \in Seq(S)
           /\ Len(RemoveAt(s, i)) = Len(s) - 1
           /\ \A j \in 1..(Len(s) - 1) : RemoveAt(s, i)[j] = IF j < i THEN s[j] ELSE s[j + 1]
<1> DEFINE t == SubSeq(s, 1, i - 1)
           u == SubSeq(s, i + 1, Len(s))
<1>1. Len(s) \in Nat BY LenProperties
<1>2. /\ t \in Seq(S) /\ Len(t) = i - 1
      /\ \A j \in 1..(i - 1) : t[j] = s[j]
  BY <1>1, SubSeqProperties
<1>3. /\ u \in Seq(S) /\ Len(u) = Len(s) - i
      /\ \A j \in 1..(Len(s) - i) : u[j] = s[i + j]
  BY <1>1, SubSeqProperties
<1>4. RemoveAt(s, i) = t \o u BY DEF RemoveAt
<1> HIDE DEF t, u
<1>5. /\ t \o u \in Seq(S) /\ Len(t \o u) = Len(t) + Len(u)
      /\ \A j \in 1..(Len(t) + Len(u)) : (t \o u)[j] = IF j <= Len(t) THEN t[j] ELSE u[j - Len(t)]
  BY <1>2, <1>3, ConcatProperties
<1>6. \A j \in 1..(Len(s) - 1) : (t \o u)[j] = IF j < i THEN s[j] ELSE s[j + 1]
  BY <1>1, <1>2, <1>3, <1>5
<1> QED BY <1>1, <1>2, <1>3, <1>4, <1>5, <1>6

Distinct(s) == \A i, j \in 1..Len(s) : s[i] = s[j] => i = j

(* What a splice leaves was there before, and is not the connection that    *)
(* was to go, although another one may have gone in its place.              *)
LEMMA SpliceLeaves ==
    ASSUME NEW s \in Seq(Conns), NEW c, Distinct(s)
    PROVE  /\ Splice(s, c) \in Seq(Conns) /\ Distinct(Splice(s, c))
           /\ \A i \in 1..Len(Splice(s, c)) :
                 Splice(s, c)[i] # c /\ \E j \in 1..Len(s) : Splice(s, c)[i] = s[j]
<1>1. Len(s) \in Nat BY LenProperties
<1>2. CASE s = <<>>
  <2>1. ~Contains(s, c) BY <1>2 DEF Contains
  <2>2. Splice(s, c) = SubSeq(s, 1, -1) \o SubSeq(s, 1, 0) BY <1>2, <2>1 DEF Splice, RemoveAt
  <2>3. SubSeq(s, 1, -1) = <<>> /\ SubSeq(s, 1, 0) = <<>> BY SubSeqEmpty
  <2>4. Splice(s, c) = <<>> BY <2>2, <2>3
  <2> QED BY <2>4 DEF Distinct
<1>3. CASE s # <<>>
  <2> DEFINE at == IF Contains(s, c) THEN CHOOSE i \in 1..Len(s) : s[i] = c ELSE Len(s)
  <2>1. at \in 1..Len(s) /\ (Contains(s, c) => s[at] = c) BY <1>1, <1>3 DEF Contains
  <2>2. Splice(s, c) = RemoveAt(s, at) BY DEF Splice
  <2> HIDE DEF at
  <2>3. /\ RemoveAt(s, at) \in Seq(Conns)
        /\ Len(RemoveAt(s, at)) = Len(s) - 1
        /\ \A j \in 1..(Len(s) - 1) : RemoveAt(s, at)[j] = IF j < at THEN s[j] ELSE s[j + 1]
    BY <2>1, RemoveAtMovesUp
  <2>4. Distinct(RemoveAt(s, at)) BY <1>1, <2>1, <2>3 DEF Distinct
  <2>5. \A i \in 1..(Len(s) - 1) : \E j \in 1..Len(s) : RemoveAt(s, at)[i] = s[j] /\ j # at
    BY <1>1, <2>1, <2>3
  <2>6. \A j \in 1..Len(s) : j # at => s[j] # c BY <2>1 DEF Contains, Distinct
  <2> QED BY <2>2, <2>3, <2>4, <2>5, <2>6
<1> QED BY <1>2, <1>3

----------------------------------------------------------------------------
(* Calls and sets *)

(* A connection with room for one more address stays within its maximum.    *)
LEMMA RoomForOne ==
    ASSUME NEW T \in SUBSET Addrs, NEW a, Cardinality(T) <= MaxAddresses,
           Cardinality(T) # MaxAddresses
    PROVE  Cardinality(T \union {a}) <= MaxAddresses
<1>1. IsFiniteSet(T) BY BlockbookAssumption, FS_Subset
<1>2. Cardinality(T) \in Nat BY <1>1, FS_CardinalityType
<1>3. Cardinality(T \union {a}) = IF a \in T THEN Cardinality(T) ELSE Cardinality(T) + 1
  BY <1>1, FS_AddElement
<1> QED BY <1>2, <1>3, BlockbookAssumption

LEMMA FewerFit ==
    ASSUME NEW T \in SUBSET Addrs, NEW U \in SUBSET T, Cardinality(T) <= MaxAddresses
    PROVE  Cardinality(U) <= MaxAddresses
<1>1. IsFiniteSet(T) BY BlockbookAssumption, FS_Subset
<1>2. IsFiniteSet(U) /\ Cardinality(U) <= Cardinality(T) BY <1>1, FS_Subset
<1>3. Cardinality(T) \in Nat /\ Cardinality(U) \in Nat BY <1>1, <1>2, FS_CardinalityType
<1> QED BY <1>2, <1>3, BlockbookAssumption

LEMMA EmptyFits == Cardinality({}) <= MaxAddresses /\ Cardinality({}) # MaxAddresses
BY FS_EmptySet, BlockbookAssumption

LEMMA GensAreNat == Gens \subseteq Nat \ {0}
<1>1. Cardinality(Calls) \in Nat BY BlockbookAssumption, FS_CardinalityType
<1> QED BY <1>1 DEF Gens

(* What is left for a new call: a request keeps the types of what it        *)
(* changes.                                                                 *)
LEMMA RequestType ==
    ASSUME TypeOK, NEW k \in Calls, NEW op \in {"subscribe", "unsubscribe", "scan"},
           NEW a \in Addrs, NEW c \in Conns, NEW addrs \in SUBSET Addrs,
           Request(k, op, a, c, addrs)
    PROVE  /\ calls' \in [Calls -> {NoCall} \union Call]
           /\ lastAsked' \in [Conns -> {"subscribe", "unsubscribe"}]
           /\ serving' \in [Conns -> SUBSET Addrs]
<1> DEFINE new == [op |-> op, addr |-> a, conn |-> c, gen |-> 0,
                   stage |-> IF Waiting(c) THEN "opening" ELSE "asked"]
<1>1. new \in Call BY DEF Call
<1>2. calls' = [calls EXCEPT ![k] = new] BY DEF Request
<1> HIDE DEF new
<1>3. calls' \in [Calls -> {NoCall} \union Call] BY <1>1, <1>2 DEF TypeOK
<1>4. lastAsked' \in [Conns -> {"subscribe", "unsubscribe"}] BY DEF Request, TypeOK
<1>5. serving' \in [Conns -> SUBSET Addrs] BY DEF Request, Serve, TypeOK
<1> QED BY <1>3, <1>4, <1>5

(* The calls a connection rejects when it closes were calls.                *)
LEMMA RejectedType == ASSUME TypeOK, NEW c PROVE Rejected(c) \in [Calls -> {NoCall} \union Call]
BY DEF TypeOK, Rejected

(* What is kept of an entry has the set that is watched.                    *)
LEMMA KeptIs ==
    ASSUME NEW w \in [now : {0} \union Gens, sets : [Gens -> SUBSET Txs]], NEW a, NEW ended
    PROVE  /\ Kept(w, a, ended) \in [now : {0} \union Gens, sets : [Gens -> SUBSET Txs]]
           /\ Kept(w, a, ended).now = w.now
           /\ w.now \in Gens => Kept(w, a, ended).sets[w.now] = w.sets[w.now]
BY DEF Kept

LEMMA UnwatchedType ==
    ASSUME TypeOK, NEW gone
    PROVE  Unwatched(gone) \in [Addrs -> [now : {0} \union Gens, sets : [Gens -> SUBSET Txs]]]
<1> DEFINE Entry == [now : {0} \union Gens, sets : [Gens -> SUBSET Txs]]
<1> SUFFICES ASSUME NEW a \in Addrs, a \in gone PROVE Kept([watch[a] EXCEPT !.now = 0], a, {}) \in Entry
  BY DEF TypeOK, Unwatched
<1>1. [watch[a] EXCEPT !.now = 0] \in Entry BY DEF TypeOK
<1> QED BY <1>1, KeptIs

(* The calls cannot hold every identity a set of the watchlist may have.    *)
Unused(a) ==
    {g \in Gens : \A k \in Calls : ~Queries(a, k, g)}

LEMMA SomeGenIsUnused == ASSUME NEW a PROVE Unused(a) # {}
<1> SUFFICES ASSUME Unused(a) = {} PROVE FALSE OBVIOUS
<1> DEFINE f == [g \in Gens |-> CHOOSE k \in Calls : calls[k].gen = g]
<1>1. \A g \in Gens : \E k \in Calls : calls[k].gen = g BY DEF Unused, Queries
<1>2. \A g \in Gens : f[g] \in Calls /\ calls[f[g]].gen = g BY <1>1
<1>3. f \in [Gens -> Calls] BY <1>2
<1>4. IsFiniteSet(Calls) /\ Cardinality(Calls) \in Nat
  BY BlockbookAssumption, FS_CardinalityType
<1>5. IsFiniteSet(Gens) /\ Cardinality(Gens) = Cardinality(Calls) + 1
  BY <1>4, FS_Interval DEF Gens
<1> HIDE DEF f
<1>6. \E g, h \in Gens : g # h /\ f[g] = f[h] BY <1>3, <1>4, <1>5, FS_PigeonHole
<1> QED BY <1>2, <1>6

(* The entry of an address after transactions were added to it: nothing     *)
(* changes without any, else it has a set that holds them and what it held, *)
(* and a new set is one no call holds.                                      *)
LEMMA WatchedIs ==
    ASSUME TypeOK, NEW a \in Addrs, NEW ts \in SUBSET Txs
    PROVE  /\ Watched(a, ts) \in [now : {0} \union Gens, sets : [Gens -> SUBSET Txs]]
           /\ ts = {} => Watched(a, ts) = watch[a]
           /\ ts # {} =>
                 \E g \in Gens :
                    /\ g = watch[a].now \/ (watch[a].now = 0 /\ g \in Unused(a))
                    /\ Watched(a, ts).now = g
                    /\ Watched(a, ts).sets = [watch[a].sets EXCEPT
                           ![g] = ts \union (IF watch[a].now = 0 THEN {} ELSE watch[a].sets[g])]
<1> DEFINE w == watch[a]
           g == IF w.now = 0 THEN CHOOSE fresh \in Unused(a) : TRUE ELSE w.now
           U == ts \union (IF w.now = 0 THEN {} ELSE w.sets[g])
<1>1. Unused(a) # {} /\ Unused(a) \subseteq Gens BY SomeGenIsUnused DEF Unused
<1>2. w \in [now : {0} \union Gens, sets : [Gens -> SUBSET Txs]] BY DEF TypeOK
<1>3. Watched(a, ts) = IF ts = {} THEN w ELSE [now |-> g, sets |-> [w.sets EXCEPT ![g] = U]]
  BY DEF Watched, Unused
<1>4. g \in Gens /\ (g = w.now \/ (w.now = 0 /\ g \in Unused(a))) BY <1>1, <1>2
<1>5. U \in SUBSET Txs /\ w.sets \in [Gens -> SUBSET Txs] BY <1>2, <1>4
<1> HIDE DEF g, w, U
<1>6. CASE ts = {} BY <1>2, <1>3, <1>6 DEF w
<1>7. CASE ts # {}
  <2>1. Watched(a, ts) = [now |-> g, sets |-> [w.sets EXCEPT ![g] = U]] BY <1>3, <1>7
  <2>2. /\ Watched(a, ts).now = g
        /\ Watched(a, ts).sets = [w.sets EXCEPT ![g] = U]
    BY <2>1
  <2>3. Watched(a, ts) \in [now : {0} \union Gens, sets : [Gens -> SUBSET Txs]]
    BY <1>4, <1>5, <2>1
  <2> QED BY <1>4, <1>7, <2>2, <2>3 DEF w, U
<1> QED BY <1>6, <1>7

----------------------------------------------------------------------------
(* The connections *)

LEMMA InitInv == Init => IInv
<1> SUFFICES ASSUME Init PROVE IInv OBVIOUS
<1>1. addresses \in [Conns -> {s \in SUBSET Addrs : Cardinality(s) <= MaxAddresses}]
  BY EmptyFits DEF Init
<1>2. watch \in [Addrs -> [now : {0} \union Gens, sets : [Gens -> SUBSET Txs]]]
  <2> DEFINE none == [g \in Gens |-> {}]
  <2>1. none \in [Gens -> SUBSET Txs] OBVIOUS
  <2>2. watch = [a \in Addrs |-> [now |-> 0, sets |-> none]] BY DEF Init
  <2> HIDE DEF none
  <2> QED BY <2>1, <2>2
<1>3. pool \in Seq(Conns) BY DEF Init
<1>4. TypeOK
  <2>1. connOf \in [Addrs -> Conns \union {NoConn}] BY DEF Init
  <2>2. socket \in [Conns -> {"unused", "connecting", "open", "aborted", "closing", "dropped", "closed"}] BY DEF Init
  <2>3. calls \in [Calls -> {NoCall} \union Call] BY DEF Init
  <2>4. lastAsked \in [Conns -> {"subscribe", "unsubscribe"}] /\ serving \in [Conns -> SUBSET Addrs]
    BY DEF Init
  <2>5. drops \in 0..MaxDrops BY BlockbookAssumption DEF Init
  <2> QED BY <1>1, <1>2, <1>3, <2>1, <2>2, <2>3, <2>4, <2>5 DEF Init, TypeOK
<1>5. Connections
  BY BlockbookAssumption DEF Init, Connections, MappedToLive, HeldIsMapped, ListIsMapped,
                             PoolIsLive, DestroyedIsEmpty
<1> QED BY <1>4, <1>5 DEF IInv

(* Steps that leave the connections and the hub alone.                      *)
LEMMA StillConnected ==
    ASSUME Connections, UNCHANGED <<pool, addresses, connOf, socket, held, destroyed>>
    PROVE  Connections'
BY DEF Connections, MappedToLive, HeldIsMapped, ListIsMapped, PoolIsLive, DestroyedIsEmpty

(* A subscribe puts an address that had no connection on one with room, the *)
(* last of the pool or a new one.                                           *)
LEMMA SubscribeInv ==
    ASSUME IInv, NEW k \in Calls, NEW a \in Addrs, Subscribe(k, a)
    PROVE  IInv'
<1> USE DEF IInv, Connections
<1>1. /\ a \notin held /\ ~destroyed /\ held' = held \union {a}
      /\ UNCHANGED <<txVars, blockVars, destroyed, drops>>
  BY DEF Subscribe
<1>2. connOf[a] = NoConn BY <1>1 DEF HeldIsMapped
<1>3. PICK c \in Conns :
          /\ Chosen(a, c)
          /\ connOf' = [connOf EXCEPT ![a] = c]
          /\ addresses' = [addresses EXCEPT ![c] = addresses[c] \union {a}]
          /\ IF socket[c] = "unused"
             THEN /\ pool' = Append(pool, c)
                  /\ socket' = [socket EXCEPT ![c] = "connecting"]
                  /\ calls[k] = NoCall
                  /\ calls' = [calls EXCEPT ![k] = [op |-> "subscribe", addr |-> a, conn |-> c,
                                                    gen |-> 0, stage |-> "opening"]]
                  /\ lastAsked' = [lastAsked EXCEPT ![c] = "subscribe"]
                  /\ UNCHANGED serving
             ELSE /\ Request(k, "subscribe", a, c, addresses[c] \union {a})
                  /\ UNCHANGED <<pool, socket>>
  BY DEF Subscribe
<1>4. /\ addresses[c] \in SUBSET Addrs
      /\ Cardinality(addresses[c]) <= MaxAddresses
      /\ connOf' \in [Addrs -> Conns \union {NoConn}] /\ held' \subseteq Addrs
  BY <1>1, <1>3 DEF TypeOK
<1>5. CASE socket[c] = "unused"
  <2>1. addresses[c] = {}
    BY <1>1, <1>5, BlockbookAssumption DEF ListIsMapped, MappedToLive, Live
  <2>2. Cardinality(addresses[c] \union {a}) <= MaxAddresses BY <2>1, EmptyFits, RoomForOne
  <2>3. addresses' \in [Conns -> {s \in SUBSET Addrs : Cardinality(s) <= MaxAddresses}]
    BY <1>3, <1>4, <2>2 DEF TypeOK
  <2>4. [op |-> "subscribe", addr |-> a, conn |-> c, gen |-> 0, stage |-> "opening"] \in Call
    BY DEF Call
  <2>5. calls' \in [Calls -> {NoCall} \union Call] BY <1>3, <1>5, <2>4 DEF TypeOK
  <2>6. /\ pool' = Append(pool, c) /\ socket' = [socket EXCEPT ![c] = "connecting"]
        /\ lastAsked' = [lastAsked EXCEPT ![c] = "subscribe"] /\ UNCHANGED serving
    BY <1>3, <1>5
  <2>7. pool' \in Seq(Conns) BY <2>6 DEF TypeOK
  <2>8. TypeOK'
    BY <1>1, <1>4, <2>3, <2>5, <2>6, <2>7 DEF TypeOK, txVars, blockVars
  <2>9. MappedToLive' BY <1>3, <2>6 DEF TypeOK, MappedToLive, Live
  <2>10. HeldIsMapped' BY <1>1, <1>3, BlockbookAssumption DEF TypeOK, HeldIsMapped
  <2>11. ListIsMapped'
    BY <1>1, <1>2, <1>3, <1>5, <2>1, <2>6, BlockbookAssumption DEF TypeOK, ListIsMapped
  <2>12. PoolIsLive'
    <3>1. /\ Len(pool) \in Nat /\ Len(pool') = Len(pool) + 1 /\ pool'[Len(pool) + 1] = c
          /\ \A i \in 1..Len(pool) : pool'[i] = pool[i] /\ pool[i] \in Conns
      BY <2>6 DEF TypeOK
    <3>2. \A i \in 1..Len(pool) : socket[pool[i]] \in Live /\ pool[i] # c
      BY <1>5 DEF PoolIsLive, Live
    <3>3. \A i \in 1..Len(pool') : socket'[pool'[i]] \in Live
      BY <2>6, <3>1, <3>2 DEF TypeOK, Live
    <3>4. \A i, j \in 1..Len(pool') : pool'[i] = pool'[j] => i = j
      BY <3>1, <3>2 DEF PoolIsLive
    <3> QED BY <3>3, <3>4 DEF PoolIsLive
  <2>13. DestroyedIsEmpty' BY <1>1 DEF DestroyedIsEmpty
  <2> QED BY <2>8, <2>9, <2>10, <2>11, <2>12, <2>13
<1>6. CASE socket[c] # "unused"
  <2>1. Request(k, "subscribe", a, c, addresses[c] \union {a}) /\ UNCHANGED <<pool, socket>>
    BY <1>3, <1>6
  <2>2. pool # <<>> /\ ~Full(Last(pool)) /\ c = Last(pool)
    BY <1>2, <1>3, <1>6 DEF Chosen
  <2>3. c = pool[Len(pool)] /\ Len(pool) \in 1..Len(pool)
    BY <2>2 DEF TypeOK, Last
  <2>4. socket[c] \in Live BY <2>3 DEF PoolIsLive
  <2>5. Cardinality(addresses[c] \union {a}) <= MaxAddresses
    BY <1>4, <2>2, RoomForOne DEF Full
  <2>6. addresses' \in [Conns -> {s \in SUBSET Addrs : Cardinality(s) <= MaxAddresses}]
    BY <1>3, <1>4, <2>5 DEF TypeOK
  <2>7. /\ calls' \in [Calls -> {NoCall} \union Call]
        /\ lastAsked' \in [Conns -> {"subscribe", "unsubscribe"}]
        /\ serving' \in [Conns -> SUBSET Addrs]
    BY <1>4, <2>1, RequestType
  <2>8. TypeOK' BY <1>1, <1>4, <2>1, <2>6, <2>7 DEF TypeOK, txVars, blockVars
  <2>9. MappedToLive' BY <1>3, <2>1, <2>4 DEF TypeOK, MappedToLive
  <2>10. HeldIsMapped' BY <1>1, <1>3, BlockbookAssumption DEF TypeOK, HeldIsMapped
  <2>11. ListIsMapped'
    BY <1>1, <1>2, <1>3, <2>1, <2>4, BlockbookAssumption DEF TypeOK, ListIsMapped, Live
  <2>12. PoolIsLive' BY <2>1 DEF PoolIsLive
  <2>13. DestroyedIsEmpty' BY <1>1 DEF DestroyedIsEmpty
  <2> QED BY <2>8, <2>9, <2>10, <2>11, <2>12, <2>13
<1> QED BY <1>5, <1>6

(* An unsubscribe takes the address off its connection, and the connection  *)
(* out of the pool and to its end when no address stays.                    *)
LEMMA UnsubscribeInv ==
    ASSUME IInv, NEW k \in Calls, NEW a \in Addrs, Unsubscribe(k, a)
    PROVE  IInv'
<1> USE DEF IInv, Connections
<1> DEFINE c == connOf[a]
           rest == addresses[c] \ {a}
<1>1. /\ a \in held /\ ~destroyed /\ held' = held \ {a}
      /\ owed' = {t \in owed : TxOf[t] # a}
      /\ connOf' = [connOf EXCEPT ![a] = NoConn]
      /\ addresses' = [addresses EXCEPT ![c] = rest]
      /\ watch' = Unwatched({a})
      /\ UNCHANGED <<chain, blockVars, destroyed, drops>>
  BY DEF Unsubscribe
<1>2. IF rest = {}
      THEN /\ socket' = [socket EXCEPT ![c] = Closing(c)]
           /\ pool' = Splice(pool, c)
           /\ UNCHANGED <<callVars, serving>>
      ELSE /\ Request(k, "unsubscribe", a, c, rest)
           /\ UNCHANGED <<pool, socket>>
  BY DEF Unsubscribe
<1>3. c # NoConn /\ c \in Conns BY <1>1 DEF HeldIsMapped, TypeOK
<1>4. socket[c] \in Live /\ addresses[c] = {b \in Addrs : connOf[b] = c}
  BY <1>1, <1>3 DEF MappedToLive, ListIsMapped, Live
<1>5. addresses[c] \in SUBSET Addrs /\ Cardinality(addresses[c]) <= MaxAddresses
  BY <1>3 DEF TypeOK
<1>6. rest \in SUBSET Addrs /\ Cardinality(rest) <= MaxAddresses BY <1>5, FewerFit
<1>7. rest = {b \in Addrs : connOf[b] = c /\ b # a} BY <1>4
<1> HIDE DEF c, rest
<1>8. addresses' \in [Conns -> {s \in SUBSET Addrs : Cardinality(s) <= MaxAddresses}]
  BY <1>1, <1>6 DEF TypeOK
<1>9. /\ connOf' \in [Addrs -> Conns \union {NoConn}]
      /\ watch' \in [Addrs -> [now : {0} \union Gens, sets : [Gens -> SUBSET Txs]]]
      /\ held' \subseteq Addrs /\ owed' \subseteq Txs
  BY <1>1, UnwatchedType DEF TypeOK
<1>10. HeldIsMapped' BY <1>1 DEF TypeOK, HeldIsMapped
<1>11. DestroyedIsEmpty' BY <1>1 DEF DestroyedIsEmpty
<1>12. \A d \in Conns : socket[d] # "closed" =>
          addresses'[d] = {b \in Addrs : connOf'[b] = d}
  BY <1>1, <1>3, <1>7, BlockbookAssumption DEF c, TypeOK, ListIsMapped
<1>13. CASE rest = {}
  <2>1. /\ socket' = [socket EXCEPT ![c] = Closing(c)]
        /\ pool' = Splice(pool, c) /\ UNCHANGED <<calls, lastAsked, serving>>
    BY <1>2, <1>13 DEF callVars
  <2>2. Distinct(pool) BY DEF PoolIsLive, Distinct
  <2>3. /\ pool' \in Seq(Conns) /\ Distinct(pool')
        /\ \A i \in 1..Len(pool') : pool'[i] # c /\ \E j \in 1..Len(pool) : pool'[i] = pool[j]
    BY <2>1, <2>2, SpliceLeaves DEF TypeOK
  <2>4. socket' \in [Conns -> {"unused", "connecting", "open", "aborted", "closing", "dropped", "closed"}]
    BY <2>1 DEF TypeOK, Closing, Waiting
  <2>5. TypeOK' BY <1>1, <1>8, <1>9, <2>1, <2>3, <2>4 DEF TypeOK, blockVars
  <2>6. MappedToLive' BY <1>1, <1>7, <1>13, <2>1 DEF c, TypeOK, MappedToLive
  <2>7. ListIsMapped' BY <1>3, <1>4, <1>12, <2>1 DEF TypeOK, ListIsMapped, Live
  <2>8. PoolIsLive' BY <2>1, <2>3 DEF TypeOK, PoolIsLive, Distinct
  <2> QED BY <1>10, <1>11, <2>5, <2>6, <2>7, <2>8
<1>14. CASE rest # {}
  <2>1. Request(k, "unsubscribe", a, c, rest) /\ UNCHANGED <<pool, socket>> BY <1>2, <1>14
  <2>2. /\ calls' \in [Calls -> {NoCall} \union Call]
        /\ lastAsked' \in [Conns -> {"subscribe", "unsubscribe"}]
        /\ serving' \in [Conns -> SUBSET Addrs]
    BY <1>3, <1>6, <2>1, RequestType
  <2>3. TypeOK' BY <1>1, <1>8, <1>9, <2>1, <2>2 DEF TypeOK, blockVars
  <2>4. MappedToLive' BY <1>1, <2>1 DEF TypeOK, MappedToLive
  <2>5. ListIsMapped' BY <1>12, <2>1 DEF ListIsMapped
  <2>6. PoolIsLive' BY <2>1 DEF PoolIsLive
  <2> QED BY <1>10, <1>11, <2>3, <2>4, <2>5, <2>6
<1> QED BY <1>13, <1>14

(* Destroy closes the pool and forgets the map.                             *)
LEMMA DestroyInv == IInv /\ Destroy => IInv'
<1> SUFFICES ASSUME IInv, Destroy PROVE IInv' OBVIOUS
<1> USE DEF IInv, Connections
<1>1. /\ destroyed' = TRUE /\ pool' = <<>>
      /\ socket' = [c \in Conns |-> IF Contains(pool, c) THEN Closing(c) ELSE socket[c]]
      /\ connOf' = [a \in Addrs |-> NoConn]
      /\ watch' = Unwatched(Addrs) /\ block' = "none"
      /\ held' = {} /\ owed' = {}
      /\ UNCHANGED <<addresses, serving, lastAsked, chain, snoozing, drops>>
  BY DEF Destroy
<1>2. calls' = [k \in Calls |-> IF calls[k] # NoCall /\ Contains(pool, calls[k].conn)
                                THEN Rejected(calls[k].conn)[k] ELSE calls[k]]
  BY DEF Destroy
<1>3. calls' \in [Calls -> {NoCall} \union Call] BY <1>2, RejectedType DEF TypeOK
<1>4. watch' \in [Addrs -> [now : {0} \union Gens, sets : [Gens -> SUBSET Txs]]]
  BY <1>1, UnwatchedType
<1>5. socket' \in [Conns -> {"unused", "connecting", "open", "aborted", "closing", "dropped", "closed"}]
  BY <1>1 DEF TypeOK, Closing, Waiting
<1>6. TypeOK' BY <1>1, <1>3, <1>4, <1>5 DEF TypeOK
<1>7. MappedToLive' BY <1>1 DEF MappedToLive
<1>8. HeldIsMapped' /\ ListIsMapped' BY <1>1 DEF HeldIsMapped, ListIsMapped
<1>9. PoolIsLive' /\ DestroyedIsEmpty' BY <1>1 DEF PoolIsLive, DestroyedIsEmpty
<1> QED BY <1>6, <1>7, <1>8, <1>9

(* A connection opens, and the calls that waited for it send.               *)
LEMMA OpenedInv == ASSUME IInv, NEW c \in Conns, Opened(c) PROVE IInv'
<1> USE DEF IInv, Connections
<1>1. /\ socket[c] = "connecting" /\ socket' = [socket EXCEPT ![c] = "open"]
      /\ calls' = [k \in Calls |->
            IF calls[k] # NoCall /\ calls[k].conn = c /\ calls[k].stage = "opening"
            THEN [calls[k] EXCEPT !.stage = "asked"] ELSE calls[k]]
      /\ serving' = [serving EXCEPT ![c] = IF lastAsked[c] = "subscribe" THEN addresses[c] ELSE {}]
      /\ lastAsked' = [lastAsked EXCEPT ![c] = "subscribe"]
      /\ UNCHANGED <<pool, addresses, connOf, txVars, blockVars, held, destroyed, drops>>
  BY DEF Opened
<1>2. \A x \in Call : [x EXCEPT !.stage = "asked"] \in Call BY DEF Call
<1>3. calls' \in [Calls -> {NoCall} \union Call] BY <1>1, <1>2 DEF TypeOK
<1>4. addresses[c] \in SUBSET Addrs BY DEF TypeOK
<1>5. serving' \in [Conns -> SUBSET Addrs] BY <1>1, <1>4 DEF TypeOK
<1>6. TypeOK' BY <1>1, <1>3, <1>5 DEF TypeOK, txVars, blockVars
<1>7. \A d \in Conns : /\ socket[d] \in Live => socket'[d] \in Live
                       /\ socket'[d] = "closed" <=> socket[d] = "closed"
  BY <1>1 DEF TypeOK, Live
<1>8. MappedToLive' BY <1>1, <1>7 DEF TypeOK, MappedToLive
<1>9. HeldIsMapped' /\ ListIsMapped' BY <1>1, <1>7 DEF HeldIsMapped, ListIsMapped
<1>10. PoolIsLive' BY <1>1, <1>7 DEF TypeOK, PoolIsLive
<1>11. DestroyedIsEmpty' BY <1>1 DEF DestroyedIsEmpty
<1> QED BY <1>6, <1>8, <1>9, <1>10, <1>11

(* A connection the other side closes still takes addresses until the       *)
(* plugin hears of it.                                                      *)
LEMMA DroppedInv == ASSUME IInv, NEW c \in Conns, Dropped(c) PROVE IInv'
<1> USE DEF IInv, Connections
<1>1. /\ drops < MaxDrops /\ drops' = drops + 1
      /\ socket[c] \in {"connecting", "open"}
      /\ socket' = [socket EXCEPT ![c] = IF Waiting(c) THEN "aborted" ELSE "dropped"]
      /\ serving' = [serving EXCEPT ![c] = {}]
      /\ UNCHANGED <<pool, addresses, connOf, callVars, txVars, blockVars, held, destroyed>>
  BY DEF Dropped
<1>2. drops' \in 0..MaxDrops BY <1>1, BlockbookAssumption DEF TypeOK
<1>3. TypeOK' BY <1>1, <1>2 DEF TypeOK, callVars, txVars, blockVars
<1>4. \A d \in Conns : /\ socket[d] \in Live => socket'[d] \in Live
                       /\ socket'[d] = "closed" <=> socket[d] = "closed"
  BY <1>1 DEF TypeOK, Live
<1>5. MappedToLive' BY <1>1, <1>4 DEF TypeOK, MappedToLive
<1>6. HeldIsMapped' /\ ListIsMapped' BY <1>1, <1>4 DEF HeldIsMapped, ListIsMapped
<1>7. PoolIsLive' BY <1>1, <1>4 DEF TypeOK, PoolIsLive
<1>8. DestroyedIsEmpty' BY <1>1 DEF DestroyedIsEmpty
<1> QED BY <1>3, <1>5, <1>6, <1>7, <1>8

(* The close event of a connection takes its addresses from the map and     *)
(* from the hub; the splice takes a connection from the pool, maybe another.*)
LEMMA ClosedInv == ASSUME IInv, NEW c \in Conns, Closed(c) PROVE IInv'
<1> USE DEF IInv, Connections
<1>1. /\ socket[c] \in {"aborted", "closing", "dropped"} /\ socket' = [socket EXCEPT ![c] = "closed"]
      /\ serving' = [serving EXCEPT ![c] = {}]
      /\ calls' = Rejected(c) /\ pool' = Splice(pool, c)
      /\ connOf' = [a \in Addrs |-> IF a \in addresses[c] THEN NoConn ELSE connOf[a]]
      /\ watch' = Unwatched(addresses[c])
      /\ held' = held \ addresses[c]
      /\ owed' = {t \in owed : TxOf[t] \notin addresses[c]}
      /\ lastAsked' = [lastAsked EXCEPT ![c] = "subscribe"]
      /\ UNCHANGED <<addresses, chain, blockVars, destroyed, drops>>
  BY DEF Closed
<1>2. Distinct(pool) BY DEF PoolIsLive, Distinct
<1>3. /\ pool' \in Seq(Conns) /\ Distinct(pool')
      /\ \A i \in 1..Len(pool') : pool'[i] # c /\ \E j \in 1..Len(pool) : pool'[i] = pool[j]
  BY <1>1, <1>2, SpliceLeaves DEF TypeOK
<1>4. /\ calls' \in [Calls -> {NoCall} \union Call]
      /\ watch' \in [Addrs -> [now : {0} \union Gens, sets : [Gens -> SUBSET Txs]]]
      /\ connOf' \in [Addrs -> Conns \union {NoConn}]
      /\ held' \subseteq Addrs /\ owed' \subseteq Txs
  BY <1>1, RejectedType, UnwatchedType DEF TypeOK
<1>5. TypeOK' BY <1>1, <1>3, <1>4 DEF TypeOK, blockVars
<1>6. ~destroyed => addresses[c] = {a \in Addrs : connOf[a] = c} BY <1>1 DEF ListIsMapped
<1>7. \A d \in Conns : d # c => socket'[d] = socket[d] BY <1>1 DEF TypeOK
<1>8. MappedToLive' 
  <2>1. CASE destroyed BY <1>1, <2>1 DEF MappedToLive, DestroyedIsEmpty
  <2>2. CASE ~destroyed BY <1>1, <1>6, <1>7, <2>2 DEF TypeOK, MappedToLive
  <2> QED BY <2>1, <2>2
<1>9. HeldIsMapped' BY <1>1, <1>6, BlockbookAssumption DEF TypeOK, HeldIsMapped
<1>10. ListIsMapped'
  BY <1>1, <1>6, <1>7, BlockbookAssumption DEF TypeOK, ListIsMapped
<1>11. PoolIsLive' BY <1>3, <1>7 DEF TypeOK, PoolIsLive, Distinct
<1>12. DestroyedIsEmpty'
  <2>1. destroyed => pool' = <<>> BY <1>3 DEF DestroyedIsEmpty
  <2> QED BY <1>1, <2>1 DEF DestroyedIsEmpty
<1> QED BY <1>5, <1>8, <1>9, <1>10, <1>11, <1>12

(* The steps that leave the connections alone.                              *)
Unconnected == UNCHANGED <<pool, addresses, connOf, socket, held, destroyed>>

LEMMA ScanInv == ASSUME IInv, NEW k \in Calls, NEW a \in Addrs, Scan(k, a) PROVE TypeOK' /\ Unconnected
<1>1. /\ connOf[a] \in Conns /\ Request(k, "scan", a, connOf[a], {})
      /\ UNCHANGED <<pool, addresses, connOf, socket, txVars, blockVars, held, destroyed, drops>>
  BY DEF IInv, TypeOK, Scan
<1>2. /\ calls' \in [Calls -> {NoCall} \union Call]
      /\ lastAsked' \in [Conns -> {"subscribe", "unsubscribe"}]
      /\ serving' \in [Conns -> SUBSET Addrs]
  BY <1>1, RequestType DEF IInv
<1>3. TypeOK' BY <1>1, <1>2 DEF IInv, TypeOK, txVars, blockVars
<1> QED BY <1>1, <1>3 DEF Unconnected

(* A reply ends its call.                                                   *)
LEMMA AnsweredType ==
    ASSUME TypeOK, NEW k \in Calls, NEW op, Answered(k, op)
    PROVE  /\ calls' \in [Calls -> {NoCall} \union Call]
           /\ calls[k] \in Call /\ calls[k].op = op
           /\ UNCHANGED <<poolVars, lastAsked, chain, blockVars, held, destroyed, drops>>
BY DEF TypeOK, Answered

LEMMA RepliedInv == ASSUME IInv, NEW k \in Calls, Replied(k) PROVE TypeOK' /\ Unconnected
<1>1. PICK op : Answered(k, op) BY DEF Replied
<1>2. /\ calls' \in [Calls -> {NoCall} \union Call]
      /\ UNCHANGED <<poolVars, lastAsked, chain, blockVars, held, destroyed, drops>>
  BY <1>1, AnsweredType DEF IInv
<1>3. calls[k].addr \in Addrs BY <1>1 DEF Answered, IInv, TypeOK, Call
<1>4. /\ watch' = [watch EXCEPT ![calls[k].addr] = Kept(watch[calls[k].addr], calls[k].addr, {k})]
      /\ UNCHANGED owed
  BY DEF Replied
<1>5. Kept(watch[calls[k].addr], calls[k].addr, {k}) \in [now : {0} \union Gens, sets : [Gens -> SUBSET Txs]]
  BY <1>3, KeptIs DEF IInv, TypeOK
<1>6. watch' \in [Addrs -> [now : {0} \union Gens, sets : [Gens -> SUBSET Txs]]]
  BY <1>3, <1>4, <1>5 DEF IInv, TypeOK
<1> QED BY <1>2, <1>4, <1>6 DEF IInv, TypeOK, Unconnected, poolVars, blockVars

LEMMA ScanOkInv == ASSUME IInv, NEW k \in Calls, ScanOk(k) PROVE TypeOK' /\ Unconnected
<1> DEFINE a == calls[k].addr
<1>1. Answered(k, "scan") BY DEF ScanOk
<1>2. /\ calls' \in [Calls -> {NoCall} \union Call]
      /\ calls[k] \in Call
      /\ UNCHANGED <<poolVars, lastAsked, chain, blockVars, held, destroyed, drops>>
  BY <1>1, AnsweredType DEF IInv
<1>3. a \in Addrs BY <1>2 DEF Call
<1>4. PICK negative \in SUBSET Unconfirmed(a) : watch' = [watch EXCEPT ![a] = Watched(a, negative)]
  BY DEF ScanOk
<1>5. negative \in SUBSET Txs BY DEF Unconfirmed
<1>6. Watched(a, negative) \in [now : {0} \union Gens, sets : [Gens -> SUBSET Txs]]
  BY <1>3, <1>5, WatchedIs DEF IInv
<1> HIDE DEF a
<1>7. watch' \in [Addrs -> [now : {0} \union Gens, sets : [Gens -> SUBSET Txs]]]
  BY <1>3, <1>4, <1>6 DEF IInv, TypeOK
<1>8. UNCHANGED owed BY DEF ScanOk
<1> QED BY <1>2, <1>7, <1>8 DEF IInv, TypeOK, Unconnected, poolVars, blockVars

LEMMA ConfirmOkInv == ASSUME IInv, NEW k \in Calls, ConfirmOk(k) PROVE TypeOK' /\ Unconnected
<1> DEFINE a == calls[k].addr
           g == calls[k].gen
           done == Confirmed(watch[a].sets[g])
           rest == watch[a].sets[g] \ done
           left == [now  |-> IF Exhausted(rest) THEN 0 ELSE watch[a].now,
                    sets |-> [watch[a].sets EXCEPT ![g] = rest]]
<1>1. Answered(k, "confirm") BY DEF ConfirmOk
<1>2. /\ calls' \in [Calls -> {NoCall} \union Call]
      /\ calls[k] \in Call
      /\ UNCHANGED <<poolVars, lastAsked, chain, blockVars, held, destroyed, drops>>
  BY <1>1, AnsweredType DEF IInv
<1>3. a \in Addrs BY <1>2 DEF Call
<1>4. watch' = [watch EXCEPT ![a] = Kept(left, a, {k})] /\ owed' = owed \ done
  BY DEF ConfirmOk
<1>5. watch[a].sets \in [Gens -> SUBSET Txs] /\ watch[a].now \in {0} \union Gens
  BY <1>3 DEF IInv, TypeOK
<1>6. left \in [now : {0} \union Gens, sets : [Gens -> SUBSET Txs]] BY <1>5
<1>8. Kept(left, a, {k}) \in [now : {0} \union Gens, sets : [Gens -> SUBSET Txs]] BY <1>6, KeptIs
<1> HIDE DEF a, g, done, left
<1>7. watch' \in [Addrs -> [now : {0} \union Gens, sets : [Gens -> SUBSET Txs]]]
  BY <1>3, <1>4, <1>8 DEF IInv, TypeOK
<1> QED BY <1>2, <1>4, <1>7 DEF IInv, TypeOK, Unconnected, poolVars, blockVars

LEMMA TxInv ==
    ASSUME IInv, NEW t \in Txs, TxAppears(t) \/ TxConfirmed(t)
    PROVE  TypeOK' /\ Unconnected
<1> DEFINE a == TxOf[t]
           reported == \E c \in Conns : socket[c] \in {"open", "closing"} /\ a \in serving[c]
<1>1. CASE TxAppears(t)
  <2>1. /\ chain' = [chain EXCEPT ![t] = "mempool"]
        /\ watch' = IF reported THEN [watch EXCEPT ![a] = Watched(a, {t})] ELSE watch
        /\ owed' = IF reported /\ a \in held /\ InGoodTime(a) THEN owed \union {t} ELSE owed
        /\ UNCHANGED <<poolVars, callVars, blockVars, held, destroyed, drops>>
    BY <1>1 DEF TxAppears
  <2>2. a \in Addrs BY BlockbookAssumption
  <2>3. Watched(a, {t}) \in [now : {0} \union Gens, sets : [Gens -> SUBSET Txs]]
    BY <2>2, WatchedIs DEF IInv
  <2> HIDE DEF a, reported
  <2>4. watch' \in [Addrs -> [now : {0} \union Gens, sets : [Gens -> SUBSET Txs]]]
    BY <2>1, <2>2, <2>3 DEF IInv, TypeOK
  <2> QED BY <2>1, <2>4 DEF IInv, TypeOK, Unconnected, poolVars, callVars, blockVars
<1>2. CASE TxConfirmed(t)
  BY <1>2 DEF TxConfirmed, IInv, TypeOK, Unconnected, poolVars, callVars, blockVars
<1> QED BY <1>1, <1>2

LEMMA NewBlockInv == IInv /\ NewBlock => TypeOK' /\ Unconnected
<1> SUFFICES ASSUME IInv, NewBlock PROVE TypeOK' /\ Unconnected OBVIOUS
<1> DEFINE asking == {a \in Addrs : watch[a].now # 0 /\ connOf[a] # NoConn}
           query(a) == [op |-> "confirm", addr |-> a, conn |-> connOf[a], gen |-> watch[a].now,
                        stage |-> IF Waiting(connOf[a]) THEN "unsent" ELSE "asked"]
<1>1. PICK slot \in [asking -> {k \in Calls : calls[k] = NoCall}] :
         calls' = [k \in Calls |-> IF \E a \in asking : slot[a] = k
                                   THEN query(CHOOSE a \in asking : slot[a] = k)
                                   ELSE calls[k]]
  BY DEF NewBlock
<1>2. \A a \in asking : query(a) \in Call BY DEF IInv, TypeOK, Call
<1> HIDE DEF query
<1>3. calls' \in [Calls -> {NoCall} \union Call] BY <1>1, <1>2 DEF IInv, TypeOK
<1>4. UNCHANGED <<poolVars, lastAsked, txVars, blockVars, held, destroyed, drops>> BY DEF NewBlock
<1> QED BY <1>3, <1>4 DEF IInv, TypeOK, Unconnected, poolVars, txVars, blockVars

LEMMA BlockInv ==
    ASSUME IInv, BlockOpened \/ BlockSubscribed \/ BlockClosed \/ Reconnect
    PROVE  TypeOK' /\ Unconnected
<1>1. UNCHANGED <<poolVars, callVars, txVars, held, destroyed>>
  BY DEF BlockOpened, BlockSubscribed, BlockClosed, Reconnect
<1>2. drops' \in 0..MaxDrops
  BY BlockbookAssumption DEF BlockOpened, BlockSubscribed, BlockClosed, Reconnect, IInv, TypeOK
<1>3. block' \in {"none", "connecting", "open", "subscribed", "refused"} /\ snoozing' \in BOOLEAN
  BY DEF BlockOpened, BlockSubscribed, BlockClosed, Reconnect, Snooze, IInv, TypeOK
<1> QED BY <1>1, <1>2, <1>3 DEF IInv, TypeOK, Unconnected, poolVars, callVars, txVars

LEMMA NextInv == IInv /\ [Next]_vars => IInv'
<1> SUFFICES ASSUME IInv, [Next]_vars PROVE IInv' OBVIOUS
<1>1. ASSUME TypeOK', Unconnected PROVE IInv'
  BY <1>1, StillConnected DEF IInv, Unconnected
<1>2. ASSUME NEW k \in Calls, NEW a \in Addrs, Subscribe(k, a) \/ Unsubscribe(k, a) \/ Scan(k, a)
      PROVE  IInv'
  BY <1>1, <1>2, SubscribeInv, UnsubscribeInv, ScanInv
<1>3. ASSUME NEW c \in Conns, Opened(c) \/ Dropped(c) \/ Closed(c) PROVE IInv'
  BY <1>3, OpenedInv, DroppedInv, ClosedInv
<1>4. ASSUME NEW k \in Calls, Replied(k) \/ ScanOk(k) \/ ConfirmOk(k) PROVE IInv'
  BY <1>1, <1>4, RepliedInv, ScanOkInv, ConfirmOkInv
<1>5. ASSUME NEW t \in Txs, TxAppears(t) \/ TxConfirmed(t) PROVE IInv'
  BY <1>1, <1>5, TxInv
<1>6. CASE NewBlock BY <1>1, <1>6, NewBlockInv
<1>7. CASE BlockOpened \/ BlockSubscribed \/ BlockClosed \/ Reconnect BY <1>1, <1>7, BlockInv
<1>8. CASE UNCHANGED vars
  BY <1>1, <1>8 DEF vars, poolVars, callVars, txVars, blockVars, IInv, TypeOK, Unconnected
<1> QED BY <1>2, <1>3, <1>4, <1>5, <1>6, <1>7, <1>8, DestroyInv DEF Next

LEMMA Invariance == Spec => []IInv
<1> QED BY InitInv, NextInv, PTL DEF Spec

(* The plugin keeps its types, and its connections their maximum of         *)
(* addresses (MAX_ADDRESS_COUNT_PER_CONNECTION of blockbook.ts), for any    *)
(* addresses, connections and calls.                                        *)
THEOREM TypeCorrect == Spec => []TypeOK
<1>1. IInv => TypeOK BY DEF IInv
<1> QED BY <1>1, Invariance, PTL

(* Hub and plugin agree on every address, however connections close and     *)
(* whichever connection a splice takes from the pool (the close handler and *)
(* unsubscribe of blockbook.ts).                                            *)
THEOREM HubAndPluginAgree == Spec => []HubAgrees
<1>1. IInv => HubAgrees
  BY DEF IInv, Connections, TypeOK, HubAgrees, HeldIsMapped, ListIsMapped, MappedToLive, Live
<1> QED BY <1>1, Invariance, PTL

----------------------------------------------------------------------------
(* Calls in progress *)

(* No connection gets its close event.                                      *)
NoneCloses == \A c \in Conns : socket'[c] = "closed" => socket[c] = "closed"

(* A call made on a connection that is not closed waits on one that is not. *)
LEMMA RequestSettles ==
    ASSUME TypeOK, SentIsSettled, NEW k \in Calls, NEW op, NEW a, NEW c \in Conns, NEW addrs,
           Request(k, op, a, c, addrs), socket[c] # "closed", NoneCloses
    PROVE  SentIsSettled'
<1>1. calls' = [calls EXCEPT ![k] = [op |-> op, addr |-> a, conn |-> c, gen |-> 0,
                                     stage |-> IF Waiting(c) THEN "opening" ELSE "asked"]]
  BY DEF Request
<1>2. calls'[k].conn = c BY <1>1 DEF TypeOK
<1>3. \A l \in Calls : l # k => calls'[l] = calls[l] BY <1>1 DEF TypeOK
<1>4. \A l \in Calls : calls[l] # NoCall => calls[l].conn \in Conns BY DEF TypeOK, Call
<1> QED BY <1>2, <1>3, <1>4 DEF SentIsSettled, NoneCloses

(* A step that asks nothing new on a connection that stays what it is.      *)
LEMMA FewerCallsSettle ==
    ASSUME TypeOK, SentIsSettled, NoneCloses,
           \A k \in Calls : calls'[k] = calls[k] \/ calls'[k] = NoCall
    PROVE  SentIsSettled'
<1>1. \A k \in Calls : calls[k] # NoCall => calls[k].conn \in Conns BY DEF TypeOK, Call
<1> QED BY <1>1 DEF SentIsSettled, NoneCloses

LEMMA SettledNext == IInv /\ SentIsSettled /\ [Next]_vars => SentIsSettled'
<1> SUFFICES ASSUME IInv, SentIsSettled, [Next]_vars PROVE SentIsSettled' OBVIOUS
<1> USE DEF IInv, Connections
<1>0. \A a \in Addrs : connOf[a] # NoConn => connOf[a] \in Conns /\ socket[connOf[a]] # "closed"
  BY DEF TypeOK, MappedToLive, Live
<1>1. ASSUME NEW k \in Calls, NEW a \in Addrs, Subscribe(k, a) PROVE SentIsSettled'
  <2>1. PICK c \in Conns :
          /\ Chosen(a, c)
          /\ IF socket[c] = "unused"
             THEN /\ socket' = [socket EXCEPT ![c] = "connecting"]
                  /\ calls' = [calls EXCEPT ![k] = [op |-> "subscribe", addr |-> a, conn |-> c,
                                                    gen |-> 0, stage |-> "opening"]]
             ELSE /\ Request(k, "subscribe", a, c, addresses[c] \union {a})
                  /\ UNCHANGED socket
    BY <1>1 DEF Subscribe
  <2>2. CASE socket[c] = "unused"
    <3>1. NoneCloses BY <2>1, <2>2 DEF TypeOK, NoneCloses
    <3>2. calls'[k].stage = "opening" BY <2>1, <2>2 DEF TypeOK
    <3>3. \A l \in Calls : l # k => calls'[l] = calls[l] BY <2>1, <2>2 DEF TypeOK
    <3>4. \A l \in Calls : calls[l] # NoCall => calls[l].conn \in Conns BY DEF TypeOK, Call
    <3> QED BY <3>1, <3>2, <3>3, <3>4 DEF SentIsSettled, NoneCloses
  <2>3. CASE socket[c] # "unused"
    <3>1. NoneCloses BY <2>1, <2>3 DEF NoneCloses
    <3>2. CASE connOf[a] # NoConn
      <4>1. c = connOf[a] BY <2>1, <3>2 DEF Chosen
      <4> QED BY <1>0, <2>1, <2>3, <3>1, <3>2, <4>1, RequestSettles
    <3>3. CASE connOf[a] = NoConn
      <4>1. pool # <<>> /\ c = Last(pool) BY <2>1, <2>3, <3>3 DEF Chosen
      <4>2. c = pool[Len(pool)] /\ Len(pool) \in 1..Len(pool) BY <4>1 DEF TypeOK, Last
      <4>3. socket[c] # "closed" BY <4>2 DEF PoolIsLive, Live
      <4> QED BY <2>1, <2>3, <3>1, <4>3, RequestSettles
    <3> QED BY <3>2, <3>3
  <2> QED BY <2>2, <2>3
<1>2. ASSUME NEW k \in Calls, NEW a \in Addrs, Unsubscribe(k, a) PROVE SentIsSettled'
  <2> DEFINE c == connOf[a]
             rest == addresses[c] \ {a}
  <2>1. c \in Conns /\ socket[c] # "closed" BY <1>0, <1>2 DEF Unsubscribe, HeldIsMapped
  <2>2. IF rest = {}
        THEN /\ socket' = [socket EXCEPT ![c] = Closing(c)]
             /\ UNCHANGED callVars
        ELSE Request(k, "unsubscribe", a, c, rest) /\ UNCHANGED socket
    BY <1>2 DEF Unsubscribe
  <2> HIDE DEF c, rest
  <2>3. NoneCloses BY <2>1, <2>2 DEF TypeOK, NoneCloses, Closing, Waiting
  <2>4. CASE rest = {} BY <2>2, <2>3, <2>4, FewerCallsSettle DEF callVars
  <2>5. CASE rest # {} BY <2>1, <2>2, <2>3, <2>5, RequestSettles
  <2> QED BY <2>4, <2>5
<1>3. ASSUME NEW k \in Calls, NEW a \in Addrs, Scan(k, a) PROVE SentIsSettled'
  <2>1. connOf[a] # NoConn /\ Request(k, "scan", a, connOf[a], {}) /\ UNCHANGED socket
    BY <1>3 DEF Scan
  <2> QED BY <1>0, <2>1, RequestSettles DEF NoneCloses
<1>4. CASE Destroy
  <2>1. socket' = [c \in Conns |-> IF Contains(pool, c) THEN Closing(c) ELSE socket[c]]
    BY <1>4 DEF Destroy
  <2>2. calls' = [k \in Calls |-> IF calls[k] # NoCall /\ Contains(pool, calls[k].conn)
                                  THEN Rejected(calls[k].conn)[k] ELSE calls[k]]
    BY <1>4 DEF Destroy
  <2>3. \A k \in Calls : calls'[k] = calls[k] \/ calls'[k] = NoCall BY <2>2 DEF Rejected
  <2> QED BY <2>1, <2>3, FewerCallsSettle DEF NoneCloses, Closing, Waiting
<1>5. ASSUME NEW c \in Conns, Opened(c) PROVE SentIsSettled'
  <2>1. /\ socket[c] = "connecting" /\ socket' = [socket EXCEPT ![c] = "open"]
        /\ calls' = [k \in Calls |->
              IF calls[k] # NoCall /\ calls[k].conn = c /\ calls[k].stage = "opening"
              THEN [calls[k] EXCEPT !.stage = "asked"] ELSE calls[k]]
    BY <1>5 DEF Opened
  <2>2. \A d \in Conns : socket'[d] = "closed" => socket[d] = "closed" /\ d # c
    BY <2>1 DEF TypeOK
  <2>3. \A k \in Calls : calls[k] # NoCall => calls[k] \in Call BY DEF TypeOK
  <2>4. \A k \in Calls : calls'[k] # NoCall => calls[k] # NoCall /\ calls'[k].conn = calls[k].conn
    BY <2>1, <2>3 DEF Call
  <2>5. \A k \in Calls : calls'[k] = calls[k] \/ calls[k].conn = c BY <2>1
  <2> QED BY <2>2, <2>3, <2>4, <2>5 DEF SentIsSettled, Call
<1>6. ASSUME NEW c \in Conns, Dropped(c) PROVE SentIsSettled'
  <2>1. /\ socket' = [socket EXCEPT ![c] = IF Waiting(c) THEN "aborted" ELSE "dropped"]
        /\ UNCHANGED callVars
    BY <1>6 DEF Dropped
  <2> QED BY <2>1, FewerCallsSettle DEF NoneCloses, TypeOK, callVars
<1>7. ASSUME NEW c \in Conns, Closed(c) PROVE SentIsSettled'
  <2>1. calls' = Rejected(c) /\ socket' = [socket EXCEPT ![c] = "closed"] BY <1>7 DEF Closed
  <2>2. \A d \in Conns : d # c => socket'[d] = socket[d] BY <2>1 DEF TypeOK
  <2>3. \A k \in Calls : calls[k] # NoCall => calls[k].conn \in Conns BY DEF TypeOK, Call
  <2>4. \A k \in Calls : calls'[k] # NoCall =>
           calls'[k] = calls[k] /\ ~(calls[k].conn = c /\ calls[k].stage = "asked")
    BY <2>1 DEF Rejected
  <2> QED BY <2>2, <2>3, <2>4 DEF SentIsSettled
<1>8. ASSUME NEW k \in Calls, Replied(k) \/ ScanOk(k) \/ ConfirmOk(k) PROVE SentIsSettled'
  <2>1. PICK op : Answered(k, op) BY <1>8 DEF Replied, ScanOk, ConfirmOk
  <2>2. calls' = [calls EXCEPT ![k] = NoCall] /\ UNCHANGED socket
    BY <2>1 DEF Answered, poolVars
  <2>3. \A l \in Calls : calls'[l] = calls[l] \/ calls'[l] = NoCall BY <2>2 DEF TypeOK
  <2> QED BY <2>2, <2>3, FewerCallsSettle DEF NoneCloses
<1>9. CASE NewBlock
  <2> DEFINE asking == {a \in Addrs : watch[a].now # 0 /\ connOf[a] # NoConn}
             query(a) == [op |-> "confirm", addr |-> a, conn |-> connOf[a], gen |-> watch[a].now,
                          stage |-> IF Waiting(connOf[a]) THEN "unsent" ELSE "asked"]
  <2>1. PICK slot \in [asking -> {k \in Calls : calls[k] = NoCall}] :
           calls' = [k \in Calls |-> IF \E a \in asking : slot[a] = k
                                     THEN query(CHOOSE a \in asking : slot[a] = k)
                                     ELSE calls[k]]
    BY <1>9 DEF NewBlock
  <2>2. UNCHANGED socket BY <1>9 DEF NewBlock, poolVars
  <2>3. \A a \in asking : socket[query(a).conn] # "closed" BY <1>0
  <2> HIDE DEF query
  <2>4. \A k \in Calls : calls'[k] = calls[k] \/ socket[calls'[k].conn] # "closed"
    BY <2>1, <2>3
  <2> QED BY <2>2, <2>4 DEF SentIsSettled
<1>10. CASE \/ \E t \in Txs : TxAppears(t) \/ TxConfirmed(t)
            \/ BlockOpened \/ BlockSubscribed \/ BlockClosed \/ Reconnect \/ UNCHANGED vars
  <2>1. UNCHANGED <<poolVars, callVars>>
    BY <1>10 DEF TxAppears, TxConfirmed, BlockOpened, BlockSubscribed, BlockClosed, Reconnect, vars
  <2> QED BY <2>1, FewerCallsSettle DEF NoneCloses, poolVars, callVars
<1> QED BY <1>1, <1>2, <1>3, <1>4, <1>5, <1>6, <1>7, <1>8, <1>9, <1>10 DEF Next

(* No caller waits for the reply of a connection that has closed            *)
(* (handleClose of jsonRpc.ts as blockbook.ts uses it), whatever is in      *)
(* progress on how many connections.                                        *)
THEOREM SentCallsSettle == Spec => []SentIsSettled
<1>1. Init => SentIsSettled BY DEF Init, SentIsSettled
<1> QED BY <1>1, SettledNext, Invariance, PTL DEF Spec

(* The block connection comes back after any number of drops, in whichever  *)
(* stage (the close handler of initBlockConnection in blockbook.ts).        *)
THEOREM BlocksKeepComing == Spec => []BlockFeedReturns
<1>1. Init => BlockFeedReturns BY DEF Init, BlockFeedReturns
<1>2. TypeOK /\ BlockFeedReturns /\ [Next]_vars => BlockFeedReturns'
  <2> SUFFICES ASSUME TypeOK, BlockFeedReturns, [Next]_vars PROVE BlockFeedReturns' OBVIOUS
  <2>1. ASSUME UNCHANGED <<blockVars, destroyed>> PROVE BlockFeedReturns'
    BY <2>1 DEF BlockFeedReturns, blockVars
  <2>2. CASE BlockOpened \/ BlockSubscribed BY <2>2 DEF BlockOpened, BlockSubscribed, BlockFeedReturns
  <2>3. CASE BlockClosed BY <2>3 DEF BlockClosed, Snooze, BlockFeedReturns
  <2>4. CASE Reconnect BY <2>4 DEF Reconnect, BlockFeedReturns
  <2>5. CASE Destroy BY <2>5 DEF Destroy, BlockFeedReturns
  <2>6. ASSUME NEW k \in Calls, NEW a \in Addrs, Subscribe(k, a) \/ Unsubscribe(k, a) \/ Scan(k, a)
        PROVE  BlockFeedReturns'
    BY <2>1, <2>6 DEF Subscribe, Unsubscribe, Scan
  <2>7. ASSUME NEW c \in Conns, Opened(c) \/ Dropped(c) \/ Closed(c) PROVE BlockFeedReturns'
    BY <2>1, <2>7 DEF Opened, Dropped, Closed
  <2>8. ASSUME NEW k \in Calls, Replied(k) \/ ScanOk(k) \/ ConfirmOk(k) PROVE BlockFeedReturns'
    BY <2>1, <2>8 DEF Replied, ScanOk, ConfirmOk, Answered
  <2>9. ASSUME NEW t \in Txs, TxAppears(t) \/ TxConfirmed(t) PROVE BlockFeedReturns'
    BY <2>1, <2>9 DEF TxAppears, TxConfirmed
  <2>10. CASE NewBlock \/ UNCHANGED vars BY <2>1, <2>10 DEF NewBlock, vars
  <2> QED BY <2>2, <2>3, <2>4, <2>5, <2>6, <2>7, <2>8, <2>9, <2>10 DEF Next
<1> QED BY <1>1, <1>2, TypeCorrect, PTL DEF Spec

----------------------------------------------------------------------------
(* The watchlist *)

(* The calls after a step: the ones before it, fewer, new requests of the   *)
(* hub, or queries with the set of their entry.                             *)
NoLateQuery ==
    \A k \in Calls :
        \/ calls'[k] = calls[k]
        \/ calls'[k] = NoCall
        \/ calls'[k].gen = 0 /\ calls'[k].op # "confirm"
        \/ /\ calls'[k].gen \in Gens /\ calls'[k].stage # "opening"
           /\ calls'[k].gen = watch[calls'[k].addr].now

LEMMA QueriesKeepSets == ASSUME QueriesHaveSets, NoLateQuery PROVE QueriesHaveSets'
<1>1. 0 \notin Gens BY GensAreNat
<1> QED BY <1>1 DEF QueriesHaveSets, NoLateQuery

(* A transaction stays watched while its entry keeps its set.               *)
LEMMA StaysWatched ==
    ASSUME NEW t \in Txs, Watches(t), NoLateQuery,
           watch'[TxOf[t]].now = watch[TxOf[t]].now,
           t \in watch'[TxOf[t]].sets[watch[TxOf[t]].now]
    PROVE  Watches(t)'
<1> DEFINE a == TxOf[t]
<1>1. \A k \in Calls : \A g \in Gens :
         calls[k] # NoCall /\ calls[k].addr = a /\ calls[k].gen = g /\ calls[k].stage = "asked"
             => g = watch[a].now
  BY DEF Watches, InGoodTime, Queries
<1>2. 0 \notin Gens BY GensAreNat
<1> SUFFICES ASSUME NEW k \in Calls, NEW g \in Gens,
                    calls'[k] # NoCall, calls'[k].addr = a, calls'[k].gen = g, calls'[k].stage = "asked"
             PROVE  g = watch[a].now
  BY DEF Watches, InGoodTime, Queries
<1>3. CASE calls'[k] = calls[k] BY <1>1, <1>3
<1>4. CASE calls'[k] # calls[k] BY <1>2, <1>4 DEF NoLateQuery
<1> QED BY <1>3, <1>4

LEMMA StillWatching == ASSUME TypeOK, Watching, NoLateQuery, UNCHANGED <<watch, owed>> PROVE Watching'
<1>1. \A t \in owed : Watches(t)' BY StaysWatched DEF Watching, Watches, TypeOK
<1> QED BY <1>1, QueriesKeepSets DEF Watching

(* Entries go, with what is owed for their addresses.                       *)
LEMMA EntriesGo ==
    ASSUME TypeOK, Watching, NoLateQuery, NEW gone, watch' = Unwatched(gone),
           owed' \subseteq owed, \A t \in owed' : TxOf[t] \notin gone
    PROVE  Watching'
<1>1. ASSUME NEW t \in owed' PROVE Watches(t)'
  <2>1. t \in owed /\ t \in Txs /\ TxOf[t] \in Addrs /\ TxOf[t] \notin gone
    BY <1>1, BlockbookAssumption DEF TypeOK
  <2>2. watch'[TxOf[t]] = watch[TxOf[t]] BY <2>1 DEF Unwatched
  <2> QED BY <2>1, <2>2, StaysWatched DEF Watching, Watches
<1> QED BY <1>1, QueriesKeepSets DEF Watching

(* Transactions of an address are added to its entry.                       *)
LEMMA EntryGrows ==
    ASSUME TypeOK, Watching, NoLateQuery,
           NEW a \in Addrs, NEW ts \in SUBSET Txs,
           watch' = [watch EXCEPT ![a] = Watched(a, ts)],
           NEW t \in owed
    PROVE  Watches(t)'
<1>1. Watches(t) /\ t \in Txs /\ TxOf[t] \in Addrs BY BlockbookAssumption DEF Watching, TypeOK
<1>2. CASE TxOf[t] # a
  <2>1. watch'[TxOf[t]] = watch[TxOf[t]] BY <1>1, <1>2 DEF TypeOK
  <2> QED BY <1>1, <2>1, StaysWatched DEF Watches
<1>3. CASE TxOf[t] = a
  <2>1. watch'[a] = Watched(a, ts) BY DEF TypeOK
  <2>2. watch[a].now # 0 /\ t \in watch[a].sets[watch[a].now] BY <1>1, <1>3 DEF Watches
  <2>3. watch[a].now \in Gens /\ watch[a].sets \in [Gens -> SUBSET Txs] BY <2>2 DEF TypeOK
  <2>4. CASE ts = {}
    <3>1. watch'[a] = watch[a] BY <2>1, <2>4, WatchedIs
    <3> QED BY <1>1, <1>3, <2>2, <3>1, StaysWatched
  <2>5. CASE ts # {}
    <3>1. PICK g \in Gens :
            /\ g = watch[a].now \/ (watch[a].now = 0 /\ g \in Unused(a))
            /\ Watched(a, ts).now = g
            /\ Watched(a, ts).sets = [watch[a].sets EXCEPT
                   ![g] = ts \union (IF watch[a].now = 0 THEN {} ELSE watch[a].sets[g])]
      BY <2>5, WatchedIs
    <3>2. g = watch[a].now BY <2>2, <3>1
    <3>3. watch'[a].now = watch[a].now /\ t \in watch'[a].sets[watch[a].now]
      BY <2>1, <2>2, <2>3, <3>1, <3>2
    <3> QED BY <1>1, <1>3, <3>3, StaysWatched
  <2> QED BY <2>4, <2>5
<1> QED BY <1>2, <1>3

(* A request of the hub is no query of the watchlist.                       *)
LEMMA RequestIsNoQuery ==
    ASSUME TypeOK, NEW k \in Calls, NEW op \in {"subscribe", "unsubscribe", "scan"}, NEW a, NEW c,
           NEW addrs, Request(k, op, a, c, addrs)
    PROVE  NoLateQuery
<1>1. /\ calls' = [calls EXCEPT ![k] = [op |-> op, addr |-> a, conn |-> c, gen |-> 0,
                                        stage |-> IF Waiting(c) THEN "opening" ELSE "asked"]]
  BY DEF Request
<1> QED BY <1>1 DEF TypeOK, NoLateQuery

LEMMA FewerCallsNoQuery ==
    ASSUME \A k \in Calls : calls'[k] = calls[k] \/ calls'[k] = NoCall
    PROVE  NoLateQuery
BY DEF NoLateQuery

LEMMA WatchingOfCalls ==
    ASSUME IInv, Watching, NEW k \in Calls, NEW a \in Addrs,
           Subscribe(k, a) \/ Unsubscribe(k, a) \/ Scan(k, a)
    PROVE  Watching'
<1> USE DEF IInv
<1>1. CASE Subscribe(k, a)
  <2>1. PICK c \in Conns :
          \/ calls' = [calls EXCEPT ![k] = [op |-> "subscribe", addr |-> a, conn |-> c,
                                            gen |-> 0, stage |-> "opening"]]
          \/ Request(k, "subscribe", a, c, addresses[c] \union {a})
    BY <1>1 DEF Subscribe
  <2>2. NoLateQuery BY <2>1, RequestIsNoQuery DEF TypeOK, NoLateQuery
  <2>3. UNCHANGED txVars BY <1>1 DEF Subscribe
  <2> QED BY <2>2, <2>3, StillWatching DEF txVars
<1>2. CASE Unsubscribe(k, a)
  <2>1. /\ owed' = {t \in owed : TxOf[t] # a} /\ watch' = Unwatched({a})
        /\ \/ UNCHANGED callVars
           \/ Request(k, "unsubscribe", a, connOf[a], addresses[connOf[a]] \ {a})
    BY <1>2 DEF Unsubscribe
  <2>2. NoLateQuery BY <2>1, RequestIsNoQuery DEF NoLateQuery, callVars
  <2> QED BY <2>1, <2>2, EntriesGo
<1>3. CASE Scan(k, a)
  <2>1. Request(k, "scan", a, connOf[a], {}) /\ UNCHANGED txVars BY <1>3 DEF Scan
  <2>2. NoLateQuery BY <2>1, RequestIsNoQuery
  <2> QED BY <2>1, <2>2, StillWatching DEF txVars
<1> QED BY <1>1, <1>2, <1>3

LEMMA WatchingOfConns ==
    ASSUME IInv, Watching, NEW c \in Conns, Opened(c) \/ Dropped(c) \/ Closed(c)
    PROVE  Watching'
<1> USE DEF IInv
<1>1. CASE Opened(c)
  <2>1. /\ calls' = [k \in Calls |->
              IF calls[k] # NoCall /\ calls[k].conn = c /\ calls[k].stage = "opening"
              THEN [calls[k] EXCEPT !.stage = "asked"] ELSE calls[k]]
        /\ UNCHANGED txVars
    BY <1>1 DEF Opened
  <2>2. \A k \in Calls : calls[k] # NoCall /\ calls[k].stage = "opening" =>
           calls[k] \in Call /\ calls[k].gen = 0 /\ calls[k].op # "confirm"
    BY GensAreNat DEF TypeOK, Watching, QueriesHaveSets
  <2>3. NoLateQuery BY <2>1, <2>2 DEF NoLateQuery, Call
  <2> QED BY <2>1, <2>3, StillWatching DEF txVars
<1>2. CASE Dropped(c) BY <1>2, StillWatching DEF Dropped, txVars, callVars, NoLateQuery
<1>3. CASE Closed(c)
  <2>1. /\ calls' = Rejected(c) /\ watch' = Unwatched(addresses[c])
        /\ owed' = {t \in owed : TxOf[t] \notin addresses[c]}
    BY <1>3 DEF Closed
  <2>2. NoLateQuery BY <2>1, FewerCallsNoQuery DEF Rejected
  <2> QED BY <2>1, <2>2, EntriesGo
<1> QED BY <1>1, <1>2, <1>3

LEMMA WatchingOfDestroy == IInv /\ Watching /\ Destroy => Watching'
<1> SUFFICES ASSUME IInv, Watching, Destroy PROVE Watching' OBVIOUS
<1>1. /\ owed' = {}
      /\ calls' = [k \in Calls |-> IF calls[k] # NoCall /\ Contains(pool, calls[k].conn)
                                   THEN Rejected(calls[k].conn)[k] ELSE calls[k]]
  BY DEF Destroy
<1>2. NoLateQuery BY <1>1, FewerCallsNoQuery DEF Rejected
<1> QED BY <1>1, <1>2, QueriesKeepSets DEF Watching

(* The reply to a query about an owed transaction holds the set of the      *)
(* entry: it deletes the entry only with the last transaction in it, and    *)
(* announces what it takes.                                                 *)
LEMMA WatchingOfConfirm ==
    ASSUME IInv, Watching, NEW k \in Calls, ConfirmOk(k)
    PROVE  Watching'
<1> USE DEF IInv
<1> DEFINE a == calls[k].addr
           g == calls[k].gen
           done == Confirmed(watch[a].sets[g])
           rest == watch[a].sets[g] \ done
           left == [now  |-> IF Exhausted(rest) THEN 0 ELSE watch[a].now,
                    sets |-> [watch[a].sets EXCEPT ![g] = rest]]
<1>1. /\ Answered(k, "confirm") /\ watch' = [watch EXCEPT ![a] = Kept(left, a, {k})]
      /\ owed' = owed \ done
  BY DEF ConfirmOk
<1>2. /\ calls[k] \in Call /\ calls[k].op = "confirm" /\ calls[k] # NoCall
      /\ calls[k].stage = "asked" /\ calls' = [calls EXCEPT ![k] = NoCall]
  BY <1>1 DEF Answered, TypeOK
<1>3. a \in Addrs /\ g \in Gens BY <1>2 DEF Call, Watching, QueriesHaveSets
<1>4. NoLateQuery BY <1>2, FewerCallsNoQuery DEF TypeOK
<1>5. watch[a].sets \in [Gens -> SUBSET Txs] /\ watch[a].now \in {0} \union Gens
  BY <1>3 DEF TypeOK
<1>6. ASSUME NEW t \in owed' PROVE Watches(t)'
  <2>1. t \in owed /\ t \notin done /\ t \in Txs /\ TxOf[t] \in Addrs /\ Watches(t)
    BY <1>1, <1>6, BlockbookAssumption DEF TypeOK, Watching
  <2>2. CASE TxOf[t] # a
    <3>1. watch'[TxOf[t]] = watch[TxOf[t]] BY <1>1, <2>1, <2>2 DEF TypeOK
    <3> QED BY <1>4, <2>1, <3>1, StaysWatched DEF Watches
  <2>3. CASE TxOf[t] = a
    <3>1. g = watch[a].now BY <1>2, <1>3, <2>1, <2>3 DEF Watches, InGoodTime, Queries
    <3>2. t \in rest BY <2>1, <2>3, <3>1 DEF Watches
    <3>3. left = [now |-> watch[a].now, sets |-> [watch[a].sets EXCEPT ![g] = rest]]
      BY <3>2 DEF Exhausted
    <3> HIDE DEF done, rest, left
    <3>4. rest \subseteq watch[a].sets[g] BY DEF rest
    <3>5. /\ left \in [now : {0} \union Gens, sets : [Gens -> SUBSET Txs]]
          /\ left.now = g /\ left.sets[g] = rest
      BY <1>3, <1>5, <3>1, <3>3, <3>4
    <3>6. Kept(left, a, {k}).now = g /\ Kept(left, a, {k}).sets[g] = rest BY <1>3, <3>5, KeptIs
    <3>7. watch'[a] = Kept(left, a, {k}) BY <1>1, <1>3 DEF TypeOK
    <3> QED BY <1>4, <2>1, <2>3, <3>1, <3>2, <3>6, <3>7, StaysWatched
  <2> QED BY <2>2, <2>3
<1> QED BY <1>4, <1>6, QueriesKeepSets DEF Watching

LEMMA WatchingOfReplies ==
    ASSUME IInv, Watching, NEW k \in Calls, Replied(k) \/ ScanOk(k)
    PROVE  Watching'
<1> USE DEF IInv
<1> DEFINE a == calls[k].addr
<1>1. PICK op : Answered(k, op) BY DEF Replied, ScanOk
<1>2. calls' = [calls EXCEPT ![k] = NoCall] /\ calls[k] \in Call /\ a \in Addrs
  BY <1>1 DEF Answered, TypeOK, Call
<1>3. NoLateQuery BY <1>2, FewerCallsNoQuery DEF TypeOK
<1> HIDE DEF a
<1>4. CASE Replied(k)
  <2>1. watch' = [watch EXCEPT ![a] = Kept(watch[a], a, {k})] /\ UNCHANGED owed
    BY <1>4 DEF Replied, a
  <2>2. watch[a] \in [now : {0} \union Gens, sets : [Gens -> SUBSET Txs]] BY <1>2 DEF TypeOK
  <2>3. \A b \in Addrs : /\ watch'[b].now = watch[b].now
                         /\ watch[b].now # 0 => watch'[b].sets[watch[b].now] = watch[b].sets[watch[b].now]
    <3> DEFINE kept == Kept(watch[a], a, {k})
    <3>1. /\ kept.now = watch[a].now
          /\ watch[a].now # 0 => kept.sets[watch[a].now] = watch[a].sets[watch[a].now]
      BY <2>2, KeptIs
    <3> HIDE DEF kept
    <3>2. watch'[a] = kept BY <1>2, <2>1 DEF TypeOK, kept
    <3> QED BY <2>1, <3>1, <3>2 DEF TypeOK
  <2>4. ASSUME NEW t \in owed PROVE Watches(t)'
    <3>1. t \in Txs /\ TxOf[t] \in Addrs /\ Watches(t) BY BlockbookAssumption DEF TypeOK, Watching
    <3> QED BY <1>3, <2>3, <3>1, StaysWatched DEF Watches
  <2> QED BY <1>3, <2>1, <2>4, QueriesKeepSets DEF Watching
<1>5. CASE ScanOk(k)
  <2>1. PICK negative \in SUBSET Unconfirmed(a) : watch' = [watch EXCEPT ![a] = Watched(a, negative)]
    BY <1>5 DEF ScanOk, a
  <2>2. negative \in SUBSET Txs /\ UNCHANGED owed BY <1>5 DEF ScanOk, Unconfirmed
  <2>3. \A t \in owed : Watches(t)' BY <1>2, <1>3, <2>1, <2>2, EntryGrows
  <2> QED BY <1>3, <2>2, <2>3, QueriesKeepSets DEF Watching
<1> QED BY <1>4, <1>5

(* A new transaction is owed if no query holds another set than the entry   *)
(* it gets into.                                                            *)
LEMMA WatchingOfTxs ==
    ASSUME IInv, Watching, NEW t \in Txs, TxAppears(t) \/ TxConfirmed(t)
    PROVE  Watching'
<1> USE DEF IInv
<1>1. NoLateQuery /\ UNCHANGED calls BY DEF TxAppears, TxConfirmed, callVars, NoLateQuery
<1>2. CASE TxConfirmed(t) BY <1>1, <1>2, StillWatching DEF TxConfirmed
<1>3. CASE TxAppears(t)
  <2> DEFINE a == TxOf[t]
             reported == \E c \in Conns : socket[c] \in {"open", "closing"} /\ a \in serving[c]
             ts == {t}
  <2>1. /\ watch' = IF reported THEN [watch EXCEPT ![a] = Watched(a, ts)] ELSE watch
        /\ owed' = IF reported /\ a \in held /\ InGoodTime(a) THEN owed \union {t} ELSE owed
    BY <1>3 DEF TxAppears
  <2>2. a \in Addrs /\ ts \in SUBSET Txs /\ ts # {} BY BlockbookAssumption
  <2> HIDE DEF a, reported
  <2>3. CASE reported
    <3>1. watch' = [watch EXCEPT ![a] = Watched(a, ts)] BY <2>1, <2>3
    <3>2. \A u \in owed : Watches(u)' BY <1>1, <2>2, <3>1, EntryGrows
    <3>3. ASSUME InGoodTime(a) PROVE Watches(t)'
      <4>1. PICK g \in Gens :
              /\ g = watch[a].now \/ (watch[a].now = 0 /\ g \in Unused(a))
              /\ Watched(a, ts).now = g
              /\ Watched(a, ts).sets = [watch[a].sets EXCEPT
                     ![g] = ts \union (IF watch[a].now = 0 THEN {} ELSE watch[a].sets[g])]
        BY <2>2, WatchedIs
      <4>2. watch[a].sets \in [Gens -> SUBSET Txs] /\ 0 \notin Gens BY <2>2, GensAreNat DEF TypeOK
      <4>3. watch'[a].now = g /\ t \in watch'[a].sets[g]
        BY <2>2, <3>1, <4>1, <4>2 DEF TypeOK
      <4>4. InGoodTime(a)' BY <1>1, <3>3, <4>1, <4>2, <4>3 DEF InGoodTime, Queries
      <4> QED BY <4>2, <4>3, <4>4 DEF Watches, a
    <3> QED BY <1>1, <2>1, <3>2, <3>3, QueriesKeepSets DEF Watching
  <2>4. CASE ~reported BY <1>1, <2>1, <2>4, StillWatching
  <2> QED BY <2>3, <2>4
<1> QED BY <1>2, <1>3

(* A block asks for the set of each entry.                                  *)
LEMMA WatchingOfBlock == IInv /\ Watching /\ NewBlock => Watching'
<1> SUFFICES ASSUME IInv, Watching, NewBlock PROVE Watching' OBVIOUS
<1> USE DEF IInv
<1> DEFINE asking == {a \in Addrs : watch[a].now # 0 /\ connOf[a] # NoConn}
           query(a) == [op |-> "confirm", addr |-> a, conn |-> connOf[a], gen |-> watch[a].now,
                        stage |-> IF Waiting(connOf[a]) THEN "unsent" ELSE "asked"]
<1>1. PICK slot \in [asking -> {k \in Calls : calls[k] = NoCall}] :
         calls' = [k \in Calls |-> IF \E a \in asking : slot[a] = k
                                   THEN query(CHOOSE a \in asking : slot[a] = k)
                                   ELSE calls[k]]
  BY DEF NewBlock
<1>2. UNCHANGED <<watch, owed>> BY DEF NewBlock, txVars
<1>3. \A a \in asking : /\ query(a).addr = a /\ query(a).gen = watch[a].now
                        /\ query(a).gen \in Gens /\ query(a).stage # "opening"
  BY DEF TypeOK
<1> HIDE DEF query
<1>4. \A k \in Calls : calls'[k] = calls[k] \/ \E a \in asking : calls'[k] = query(a) BY <1>1
<1>5. NoLateQuery BY <1>3, <1>4 DEF NoLateQuery
<1> QED BY <1>2, <1>5, StillWatching

LEMMA WatchingNext == IInv /\ Watching /\ [Next]_vars => Watching'
<1> SUFFICES ASSUME IInv, Watching, [Next]_vars PROVE Watching' OBVIOUS
<1>1. CASE BlockOpened \/ BlockSubscribed \/ BlockClosed \/ Reconnect \/ UNCHANGED vars
  <2>1. UNCHANGED <<calls, watch, owed>>
    BY <1>1 DEF BlockOpened, BlockSubscribed, BlockClosed, Reconnect, vars, callVars, txVars
  <2> QED BY <2>1, StillWatching DEF IInv, NoLateQuery
<1> QED
  BY <1>1, WatchingOfCalls, WatchingOfConns, WatchingOfDestroy, WatchingOfConfirm,
     WatchingOfReplies, WatchingOfTxs, WatchingOfBlock
  DEF Next

(* A client the hub holds the address for hears of the confirmation of      *)
(* every transaction it heard of (unconfirmedTxWatchlist of blockbook.ts),  *)
(* whatever blocks, replies, scans and drops come in between; unless a      *)
(* query with an older set of the address was unanswered when the           *)
(* transaction was reported (blockbook.ts:275).                             *)
THEOREM OwedStaysWatched == Spec => []OwedIsWatched
<1>1. Init => Watching BY DEF Init, Watching, QueriesHaveSets
<1>2. IInv /\ Watching /\ [Next]_vars => Watching' BY WatchingNext
<1>3. Watching => OwedIsWatched BY DEF Watching, Watches, OwedIsWatched
<1> QED BY <1>1, <1>2, <1>3, Invariance, PTL DEF Spec
============================================================================
