------------------------------ MODULE Blockbook ------------------------------
(* The Blockbook plugin of src/plugins/blockbook.ts: the pool of address    *)
(* connections, the calls that wait for a socket and for a reply, the       *)
(* connections that drop, the connection for new blocks, and the watchlist  *)
(* of unconfirmed transactions.  The hub of src/hub.ts is the caller.       *)
(*                                                                          *)
(* One action is the code between two awaits.  The server acts on a request *)
(* when it is sent and reports the chain when its reply arrives; a message  *)
(* on the way only delays.  The chain stands still after destroy.  Time,    *)
(* and with it the reconnect delay and the pings, is left out.              *)
EXTENDS Naturals, FiniteSets, Sequences, SequencesExt

CONSTANTS
    Addrs,
    Conns,        \* bound: address connections ever made
    Calls,        \* bound: calls and queries in progress at a time
    Txs,
    TxOf,         \* the address of each transaction
    MaxAddresses, \* MAX_ADDRESS_COUNT_PER_CONNECTION
    MaxDrops,     \* bound: connections closed by the other side
    Scanned       \* bound: addresses the hub calls scanAddress for

NoConn == "none"
NoCall == [op |-> "none"]

(* Enough identities for the sets the calls and the watchlist hold.         *)
Gens == 1..(Cardinality(Calls) + 1)

ASSUME BlockbookAssumption ==
    /\ IsFiniteSet(Addrs) /\ IsFiniteSet(Calls)
    /\ NoConn \notin Conns
    /\ TxOf \in [Txs -> Addrs]
    /\ MaxAddresses \in Nat \ {0} /\ MaxDrops \in Nat
    /\ Scanned \subseteq Addrs

VARIABLES
    pool,      \* connections
    addresses, \* addresses of each connection, in no order: nothing reads it
    connOf,    \* addressToConnection
    socket,    \* state of the ws of each connection
    calls,     \* the calls in progress
    lastAsked, \* which of the requests that wait for a socket goes last
    watch,     \* unconfirmedTxWatchlist: now is the set of the address
               \* (0: no entry), sets are the sets some code still holds
    block,     \* blockConnection
    snoozing,  \* is a reconnect of blockConnection scheduled?
    destroyed,
    serving,   \* server: the addresses it reports on a connection
    chain,     \* server: what has become of each transaction
    held,      \* hub: addresses it holds, from subscribe to unsubscribe or subLost
    owed,      \* transactions reported unconfirmed for a held address in
               \* good time, whose confirmation was not announced yet
    drops      \* counts up to MaxDrops

poolVars == <<pool, addresses, connOf, socket, serving>>
callVars == <<calls, lastAsked>>
txVars == <<watch, chain, owed>>
blockVars == <<block, snoozing>>
vars == <<poolVars, callVars, txVars, blockVars, held, destroyed, drops>>

----------------------------------------------------------------------------
(* Connections *)

SpliceMissing(s, c) == s
FullLate(c) == Cardinality(addresses[c]) > MaxAddresses
RejectedNone(c) == calls
SnoozeIfOpen == snoozing' = (block # "connecting")

(* connections.splice(connections.indexOf(c), 1): without c in the array    *)
(* the index is -1, and the last connection goes.                           *)
Splice(s, c) == RemoveAt(s, IF Contains(s, c) THEN CHOOSE i \in 1..Len(s) : s[i] = c ELSE Len(s))

Full(c) == Cardinality(addresses[c]) = MaxAddresses

(* The connection of an address: the one it has, or the one                 *)
(* setAddressConnection takes, the last one unless full.                    *)
Chosen(a, c) ==
    CASE connOf[a] # NoConn -> c = connOf[a]
      [] connOf[a] = NoConn /\ pool # <<>> /\ ~Full(Last(pool)) -> c = Last(pool)
      [] OTHER -> socket[c] = "unused"

(* handleClose of the codec: the calls sent on the connection are rejected. *)
(* A call that still waits for socketReady is not.                          *)
Rejected(c) ==
    [k \in Calls |-> IF calls[k] # NoCall /\ calls[k].conn = c /\ calls[k].stage # "opening"
                     THEN NoCall ELSE calls[k]]

(* A query about the address whose reply is to come, with its set.          *)
Queries(a, k, g) == calls[k] # NoCall /\ calls[k].addr = a /\ calls[k].gen = g

(* The sets of an address that the watchlist or a query holds, now that the *)
(* calls in ended are over; the others are garbage.                         *)
Kept(w, a, ended) ==
    [now  |-> w.now,
     sets |-> [g \in Gens |-> IF g = w.now \/ \E l \in Calls \ ended : Queries(a, l, g)
                               THEN w.sets[g] ELSE {}]]

(* Entries deleted from the watchlist; the sets live on in running queries. *)
Unwatched(gone) ==
    [a \in Addrs |-> IF a \in gone THEN Kept([watch[a] EXCEPT !.now = 0], a, {}) ELSE watch[a]]

----------------------------------------------------------------------------
(* Requests *)

(* The socketReady of a socket that never opened does not settle, not even  *)
(* when the socket is closed or fails.                                      *)
Waiting(c) == socket[c] \in {"connecting", "aborted"}

(* A socket that the plugin closes.                                         *)
Closing(c) ==
    CASE Waiting(c) -> "aborted"
      [] socket[c] = "open" -> "closing"
      [] OTHER -> socket[c]

Serve(c, op, addrs) ==
    IF socket[c] # "open" THEN UNCHANGED serving
    ELSE serving' = [serving EXCEPT ![c] =
            CASE op = "subscribe" -> @ \union addrs
              [] op = "unsubscribe" -> @ \ addrs
              [] OTHER -> @]

(* A call awaits socketReady and then the reply.  The request carries the   *)
(* addresses the connection has when it is sent; a socket that closes eats  *)
(* it.                                                                      *)
Request(k, op, a, c, addrs) ==
    /\ calls[k] = NoCall
    /\ calls' = [calls EXCEPT ![k] = [op |-> op, addr |-> a, conn |-> c, gen |-> 0,
                                      stage |-> IF Waiting(c) THEN "opening" ELSE "asked"]]
    /\ lastAsked' = IF Waiting(c) /\ op # "scan" THEN [lastAsked EXCEPT ![c] = op] ELSE lastAsked
    /\ Serve(c, op, addrs)

----------------------------------------------------------------------------
(* The plugin's methods *)

Subscribe(k, a) ==
    /\ a \notin held /\ ~destroyed
    /\ held' = held \union {a}
    /\ \E c \in Conns :
          /\ Chosen(a, c)
          /\ connOf' = [connOf EXCEPT ![a] = c]
          /\ addresses' = [addresses EXCEPT ![c] = @ \union {a}]
          /\ IF socket[c] = "unused"
             THEN /\ pool' = Append(pool, c)
                  /\ socket' = [socket EXCEPT ![c] = "connecting"]
                  /\ calls[k] = NoCall
                  /\ calls' = [calls EXCEPT ![k] = [op |-> "subscribe", addr |-> a, conn |-> c,
                                                    gen |-> 0, stage |-> "opening"]]
                  /\ lastAsked' = [lastAsked EXCEPT ![c] = "subscribe"]
                  /\ UNCHANGED serving
             ELSE /\ Request(k, "subscribe", a, c, addresses[c] \union {a})
                  /\ UNCHANGED <<pool, socket>>
    /\ UNCHANGED <<txVars, blockVars, destroyed, drops>>

(* The request names the addresses that stay on the connection.             *)
Unsubscribe(k, a) ==
    /\ a \in held /\ ~destroyed
    /\ held' = held \ {a}
    /\ owed' = {t \in owed : TxOf[t] # a}
    /\ LET c == connOf[a]
           rest == addresses[c] \ {a}
       IN  /\ connOf' = [connOf EXCEPT ![a] = NoConn]
           /\ addresses' = [addresses EXCEPT ![c] = rest]
           /\ watch' = Unwatched({a})
           /\ IF rest = {}
              THEN /\ socket' = [socket EXCEPT ![c] = Closing(c)]
                   /\ pool' = Splice(pool, c)
                   /\ UNCHANGED <<callVars, serving>>
              ELSE /\ Request(k, "unsubscribe", a, c, rest)
                   /\ UNCHANGED <<pool, socket>>
    /\ UNCHANGED <<chain, blockVars, destroyed, drops>>

(* scanAddress, for an address with a connection; else it throws.           *)
Scan(k, a) ==
    /\ a \in Scanned /\ a \in held /\ connOf[a] # NoConn /\ ~destroyed
    /\ Request(k, "scan", a, connOf[a], {})
    /\ UNCHANGED <<pool, addresses, connOf, socket, txVars, blockVars, held, destroyed, drops>>

(* Only the connections still in the pool are closed.                       *)
Destroy ==
    /\ ~destroyed
    /\ destroyed' = TRUE
    /\ socket' = [c \in Conns |-> IF Contains(pool, c) THEN Closing(c) ELSE socket[c]]
    /\ calls' = [k \in Calls |-> IF calls[k] # NoCall /\ Contains(pool, calls[k].conn)
                                 THEN Rejected(calls[k].conn)[k] ELSE calls[k]]
    /\ pool' = <<>>
    /\ connOf' = [a \in Addrs |-> NoConn]
    /\ watch' = Unwatched(Addrs)
    /\ block' = "none"
    /\ held' = {} /\ owed' = {}
    /\ UNCHANGED <<addresses, serving, lastAsked, chain, snoozing, drops>>

----------------------------------------------------------------------------
(* Sockets *)

(* socketReady resolves and every call that waits sends its request.        *)
Opened(c) ==
    /\ socket[c] = "connecting"
    /\ socket' = [socket EXCEPT ![c] = "open"]
    /\ calls' = [k \in Calls |-> IF calls[k] # NoCall /\ calls[k].conn = c /\ calls[k].stage = "opening"
                                 THEN [calls[k] EXCEPT !.stage = "asked"] ELSE calls[k]]
    /\ serving' = [serving EXCEPT ![c] = IF lastAsked[c] = "subscribe" THEN addresses[c] ELSE {}]
    /\ lastAsked' = [lastAsked EXCEPT ![c] = "subscribe"]
    /\ UNCHANGED <<pool, addresses, connOf, txVars, blockVars, held, destroyed, drops>>

(* The other side closes; the plugin hears of it later.                     *)
Dropped(c) ==
    /\ drops < MaxDrops /\ drops' = drops + 1
    /\ socket[c] \in {"connecting", "open"}
    /\ socket' = [socket EXCEPT ![c] = IF Waiting(c) THEN "aborted" ELSE "dropped"]
    /\ serving' = [serving EXCEPT ![c] = {}]
    /\ UNCHANGED <<pool, addresses, connOf, callVars, txVars, blockVars, held, destroyed>>

(* The close event of an address connection, with the subLost it emits.     *)
Closed(c) ==
    /\ socket[c] \in {"aborted", "closing", "dropped"}
    /\ socket' = [socket EXCEPT ![c] = "closed"]
    /\ serving' = [serving EXCEPT ![c] = {}]
    /\ calls' = Rejected(c)
    /\ pool' = Splice(pool, c)
    /\ connOf' = [a \in Addrs |-> IF a \in addresses[c] THEN NoConn ELSE connOf[a]]
    /\ watch' = Unwatched(addresses[c])
    /\ held' = held \ addresses[c]
    /\ owed' = {t \in owed : TxOf[t] \notin addresses[c]}
    /\ lastAsked' = [lastAsked EXCEPT ![c] = "subscribe"]
    /\ UNCHANGED <<addresses, chain, blockVars, destroyed, drops>>

----------------------------------------------------------------------------
(* Replies *)

Answered(k, op) ==
    /\ calls[k] # NoCall /\ calls[k].op = op /\ calls[k].stage = "asked"
    /\ socket[calls[k].conn] \in {"open", "closing"}
    /\ calls' = [calls EXCEPT ![k] = NoCall]
    /\ UNCHANGED <<poolVars, lastAsked, chain, blockVars, held, destroyed, drops>>

(* A reply no state follows: an error, or any answer to a subscribe or an   *)
(* unsubscribe.                                                             *)
Replied(k) ==
    /\ \E op \in {"subscribe", "unsubscribe", "scan", "confirm"} : Answered(k, op)
    /\ watch' = [watch EXCEPT ![calls[k].addr] = Kept(@, calls[k].addr, {k})]
    /\ UNCHANGED owed

(* watchUnconfirmedTx: a new set if the address has no entry.               *)
Watched(a, ts) ==
    LET w == watch[a]
        unused == {n \in Gens : \A k \in Calls : ~Queries(a, k, n)}
        g == IF w.now = 0 THEN CHOOSE fresh \in unused : TRUE ELSE w.now
    IN  IF ts = {} THEN w
        ELSE [now  |-> g,
              sets |-> [w.sets EXCEPT ![g] = ts \union (IF w.now = 0 THEN {} ELSE @)]]

(* No query is unanswered that holds another set than the watchlist has for *)
(* the address: its reply could delete an entry that is not its own.        *)
InGoodTime(a) ==
    \A k \in Calls, g \in Gens : Queries(a, k, g) /\ calls[k].stage = "asked" => g = watch[a].now

Unconfirmed(a) == {t \in Txs : TxOf[t] = a /\ chain[t] = "mempool"}

(* The scan watches transactions with a negative number of confirmations,   *)
(* which the server may or may not report for an unconfirmed one.           *)
ScanOk(k) ==
    /\ Answered(k, "scan")
    /\ LET a == calls[k].addr
       IN  \E negative \in SUBSET Unconfirmed(a) : watch' = [watch EXCEPT ![a] = Watched(a, negative)]
    /\ UNCHANGED owed

----------------------------------------------------------------------------
(* Transactions and blocks *)

(* A transaction appears, and the server reports it on the connections that *)
(* it serves the address on.                                                *)
TxAppears(t) ==
    LET a == TxOf[t]
        reported == \E c \in Conns : socket[c] \in {"open", "closing"} /\ a \in serving[c]
    IN  /\ chain[t] = "unknown" /\ ~destroyed
        /\ chain' = [chain EXCEPT ![t] = "mempool"]
        /\ watch' = IF reported THEN [watch EXCEPT ![a] = Watched(a, {t})] ELSE watch
        /\ owed' = IF reported /\ a \in held /\ InGoodTime(a) THEN owed \union {t} ELSE owed
        /\ UNCHANGED <<poolVars, callVars, blockVars, held, destroyed, drops>>

TxConfirmed(t) ==
    /\ chain[t] = "mempool" /\ ~destroyed
    /\ chain' = [chain EXCEPT ![t] = "confirmed"]
    /\ UNCHANGED <<poolVars, callVars, watch, owed, blockVars, held, destroyed, drops>>

(* subscribeNewBlock: a query for every watched address with a connection.  *)
(* On a socket that is not open yet the query fails to be sent, and stays   *)
(* in the codec.                                                            *)
NewBlock ==
    LET asking == {a \in Addrs : watch[a].now # 0 /\ connOf[a] # NoConn}
    IN  /\ block = "subscribed" /\ asking # {}
        /\ \E slot \in [asking -> {k \in Calls : calls[k] = NoCall}] :
              /\ \A a, b \in asking : slot[a] = slot[b] => a = b
              /\ calls' = [k \in Calls |->
                    IF \E a \in asking : slot[a] = k
                    THEN LET a == CHOOSE a \in asking : slot[a] = k
                         IN  [op |-> "confirm", addr |-> a, conn |-> connOf[a],
                              gen |-> watch[a].now,
                              stage |-> IF Waiting(connOf[a]) THEN "unsent" ELSE "asked"]
                    ELSE calls[k]]
        /\ UNCHANGED <<poolVars, lastAsked, txVars, blockVars, held, destroyed, drops>>

ExhaustedAny(ts) == TRUE
Exhausted(ts) == ts = {}
Confirmed(ts) == {t \in ts : chain[t] = "confirmed"}

(* The reply to such a query.  Its set may not be the one in the watchlist  *)
(* any more, but the entry that is deleted is.                              *)
ConfirmOk(k) ==
    /\ Answered(k, "confirm")
    /\ LET a == calls[k].addr
           g == calls[k].gen
           done == Confirmed(watch[a].sets[g])
           rest == watch[a].sets[g] \ done
       IN  /\ watch' = [watch EXCEPT ![a] =
                  Kept([now  |-> IF Exhausted(rest) THEN 0 ELSE @.now,
                        sets |-> [@.sets EXCEPT ![g] = rest]], a, {k})]
           /\ owed' = owed \ done

----------------------------------------------------------------------------
(* The block connection *)

BlockOpened ==
    /\ block = "connecting"
    /\ block' = "open"
    /\ UNCHANGED <<poolVars, callVars, txVars, snoozing, held, destroyed, drops>>

(* The reply to subscribeNewBlock.  One that is refused or rejected is      *)
(* logged: the connection stays, without a feed.                            *)
BlockSubscribed ==
    /\ block = "open"
    /\ block' \in {"subscribed", "refused"}
    /\ UNCHANGED <<poolVars, callVars, txVars, snoozing, held, destroyed, drops>>

Snooze == snoozing' = ~destroyed

BlockClosed ==
    /\ drops < MaxDrops /\ drops' = drops + 1
    /\ block # "none"
    /\ block' = "none"
    /\ Snooze
    /\ UNCHANGED <<poolVars, callVars, txVars, held, destroyed>>

(* The delay is over: initBlockConnection.                                  *)
Reconnect ==
    /\ snoozing
    /\ snoozing' = FALSE
    /\ block' = IF destroyed \/ block # "none" THEN block ELSE "connecting"
    /\ UNCHANGED <<poolVars, callVars, txVars, held, destroyed, drops>>

----------------------------------------------------------------------------

Init ==
    /\ pool = <<>>
    /\ addresses = [c \in Conns |-> {}]
    /\ connOf = [a \in Addrs |-> NoConn]
    /\ socket = [c \in Conns |-> "unused"]
    /\ calls = [k \in Calls |-> NoCall]
    /\ lastAsked = [c \in Conns |-> "subscribe"]
    /\ watch = [a \in Addrs |-> [now |-> 0, sets |-> [g \in Gens |-> {}]]]
    /\ block = "connecting" /\ snoozing = FALSE
    /\ destroyed = FALSE
    /\ serving = [c \in Conns |-> {}]
    /\ chain = [t \in Txs |-> "unknown"]
    /\ held = {} /\ owed = {}
    /\ drops = 0

Next ==
    \/ \E k \in Calls, a \in Addrs : Subscribe(k, a) \/ Unsubscribe(k, a) \/ Scan(k, a)
    \/ Destroy
    \/ \E c \in Conns : Opened(c) \/ Dropped(c) \/ Closed(c)
    \/ \E k \in Calls : Replied(k) \/ ScanOk(k) \/ ConfirmOk(k)
    \/ \E t \in Txs : TxAppears(t) \/ TxConfirmed(t)
    \/ NewBlock
    \/ BlockOpened \/ BlockSubscribed \/ BlockClosed \/ Reconnect

Spec == Init /\ [][Next]_vars

----------------------------------------------------------------------------
(* Properties *)

Call == [op : {"subscribe", "unsubscribe", "scan", "confirm"}, addr : Addrs, conn : Conns,
         gen : {0} \union Gens, stage : {"opening", "asked", "unsent"}]

(* The type invariant; a connection never has more addresses than allowed.  *)
TypeOK ==
    /\ pool \in Seq(Conns)
    /\ addresses \in [Conns -> {s \in SUBSET Addrs : Cardinality(s) <= MaxAddresses}]
    /\ connOf \in [Addrs -> Conns \union {NoConn}]
    /\ socket \in [Conns -> {"unused", "connecting", "open", "aborted", "closing", "dropped", "closed"}]
    /\ calls \in [Calls -> {NoCall} \union Call]
    /\ lastAsked \in [Conns -> {"subscribe", "unsubscribe"}]
    /\ watch \in [Addrs -> [now : {0} \union Gens, sets : [Gens -> SUBSET Txs]]]
    /\ block \in {"none", "connecting", "open", "subscribed", "refused"}
    /\ snoozing \in BOOLEAN /\ destroyed \in BOOLEAN
    /\ serving \in [Conns -> SUBSET Addrs]
    /\ chain \in [Txs -> {"unknown", "mempool", "confirmed"}]
    /\ held \subseteq Addrs /\ owed \subseteq Txs
    /\ drops \in 0..MaxDrops

(* What the hub believes and what the plugin knows agree, however the       *)
(* connections drop: an address the hub holds is on one connection that is  *)
(* not closed, and one that it gave up or was told to be lost is on none.   *)
HubAgrees ==
    ~destroyed => \A a \in Addrs :
        /\ a \in held <=> connOf[a] # NoConn
        /\ a \in held => /\ a \in addresses[connOf[a]]
                         /\ socket[connOf[a]] # "closed"
                         /\ \A c \in Conns : a \in addresses[c] /\ socket[c] # "closed" => c = connOf[a]

(* A request that was sent is answered, or rejected when its connection     *)
(* closes: no caller waits on a closed connection.                          *)
SentIsSettled ==
    \A k \in Calls : calls[k] # NoCall /\ calls[k].stage = "asked" =>
                        socket[calls[k].conn] # "closed"

(* A transaction the server reported for a held address stays watched until *)
(* its confirmation is announced, however blocks, replies, scans and drops  *)
(* interleave; except one reported while a query with an older set of the   *)
(* address was unanswered, whose reply deletes the newer entry.             *)
OwedIsWatched ==
    \A t \in owed : LET w == watch[TxOf[t]] IN w.now # 0 /\ t \in w.sets[w.now]

(* A block connection that is gone has its reconnect scheduled, whichever   *)
(* stage it dropped in.  A connection that is open need not have a feed:    *)
(* nothing asks again after the server refused it.                          *)
BlockFeedReturns == block = "none" => snoozing \/ destroyed
============================================================================
