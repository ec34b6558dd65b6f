-------------------------------- MODULE Hub --------------------------------
(* The address hub of src/hub.ts: which sockets subscribe to which          *)
(* addresses, the subscribe and unsubscribe calls a client makes, the       *)
(* notifications of the plugins, and the cleanup when a socket closes.      *)
(*                                                                          *)
(* The hub keeps one address table per plugin, so an address here belongs   *)
(* to one plugin: PluginOf gives it.  The hub runs on one JavaScript        *)
(* thread: an action is the code between two awaits, with the plugin calls  *)
(* it makes.  A plugin is seen through src/types/addressPlugin.ts: it       *)
(* starts or stops watching an address when it is called and its promise    *)
(* settles later.  A websocket keeps the order of its messages, so the      *)
(* client's knowledge changes when the hub sends.                           *)
EXTENDS Integers, FiniteSets

CONSTANTS
    Sockets,    \* socket ids; hub.ts never reuses one
    Plugins,    \* the plugin ids clients may name
    Supported,  \* the plugins this server has
    Scanning,   \* the plugins with a scanAddress method
    Failing,    \* the plugins whose subscribe or unsubscribe may fail
    Addresses,
    PluginOf,   \* [Addresses -> Plugins]
    Active,     \* bound: the addresses with activity
    Calls,      \* the RPC calls clients may make, each used once (a bound)
    MaxItems,   \* bound: addresses named by one call
    MaxLost,    \* bound: subLost events of one plugin
    Patient     \* the sockets whose client names no address again before its
                \* earlier call naming it is answered; a plugin does not lose
                \* an address while such a call of theirs is in progress

ASSUME HubAssumption ==
    /\ Supported \subseteq Plugins
    /\ Scanning \subseteq Supported
    /\ Failing \subseteq Supported
    /\ PluginOf \in [Addresses -> Plugins]
    /\ Active \subseteq Addresses
    /\ MaxItems \in Nat /\ MaxLost \in Nat
    /\ Patient \subseteq Sockets

ASSUME FiniteAddresses == IsFiniteSet(Addresses)

VARIABLES
    status,      \* "open" while the socket is in codecMap
    subs,        \* addressSubscriptions; {} stands for no entry
    gauge,       \* subscriptionGauge of each plugin
    pluginGauge, \* pluginGauge of each plugin
    phase,       \* progress of each RPC call
    caller,      \* the socket that made the call
    item,        \* progress of each address named by the call
    watched,     \* the addresses the plugins really watch
    wants,       \* the addresses each client last asked for
    believed,    \* the addresses each client was told it is subscribed to
    behind       \* the addresses with activity the client was not told of

vars == <<status, subs, gauge, pluginGauge, phase, caller, item,
          watched, wants, believed, behind>>

hubVars == <<subs, gauge, watched>>
callVars == <<phase, caller, item>>
clientVars == <<wants, believed, behind>>

NoCaller == "nobody"

(* Where one address of a subscribe call stands: the plugin call in flight  *)
(* ("subscribing", or "refused" when the plugin will not watch it), the     *)
(* scan in flight, then one of the four results of changeProtocol.ts (-1,   *)
(* 0, 1, 2).                                                                *)
SubscribeResults == {"unsupported", "failed", "unchanged", "changed"}
SubscribeItems == {"subscribing", "refused", "scanning"} \union SubscribeResults

(* Where one address of an unsubscribe call stands.                         *)
UnsubscribeItems == {"todo", "leaving", "left"}

NoItems == [a \in Addresses |-> "none"]

Items == {"none"} \union SubscribeItems \union UnsubscribeItems
Phases == {"unused", "subscribing", "unsubscribing", "answered", "rejected"}

Open == {s \in Sockets : status[s] = "open"}
Pending(c) == phase[c] \in {"subscribing", "unsubscribing"}
IsSupported(a) == PluginOf[a] \in Supported

(* The addresses with an entry in the table of a plugin.                    *)
Entries(p, table) == {a \in Addresses : PluginOf[a] = p /\ table[a] # {}}

(* subscriptionGauge.set, for the plugins of the changed addresses.         *)
SetGauge(changed, table) ==
    gauge' = [p \in Plugins |-> IF \E a \in changed : PluginOf[a] = p
                                THEN Cardinality(Entries(p, table))
                                ELSE gauge[p]]

Busy(addrs, s) ==
    \E c \in Calls : Pending(c) /\ caller[c] = s /\ \E a \in addrs : item[c][a] # "none"

----------------------------------------------------------------------------
(* Connections *)

(* The tables without the socket, and the addresses nobody else is in.      *)
RemainingLast(s) == [a \in Addresses |-> IF subs[a] = {s} THEN {} ELSE subs[a]]
EmptiedAny(s) == {a \in Addresses : s \in subs[a]}
Remaining(s) == [a \in Addresses |-> subs[a] \ {s}]
Emptied(s) == {a \in Addresses : subs[a] = {s}}

Connect(s) ==
    /\ status[s] = "new"
    /\ status' = [status EXCEPT ![s] = "open"]
    /\ UNCHANGED <<hubVars, pluginGauge, callVars, clientVars>>

(* The close handler drops the socket everywhere and unsubscribes each      *)
(* address it leaves without a subscriber; calls in progress go on.         *)
Close(s) ==
    /\ status[s] = "open"
    /\ status' = [status EXCEPT ![s] = "closed"]
    /\ subs' = Remaining(s)
    /\ watched' = watched \ Emptied(s)
    /\ SetGauge(Emptied(s), Remaining(s))
    /\ wants' = [wants EXCEPT ![s] = {}]
    /\ believed' = [believed EXCEPT ![s] = {}]
    /\ behind' = [behind EXCEPT ![s] = {}]
    /\ UNCHANGED <<pluginGauge, callVars>>

----------------------------------------------------------------------------
(* The subscribe call *)

AfterSubscribeUnscanned(a) == IF PluginOf[a] \in Scanning THEN "unchanged" ELSE "changed"

(* What follows a plugin's true: scan, or let the client do it.             *)
AfterSubscribe(a) == IF PluginOf[a] \in Scanning THEN "scanning" ELSE "changed"

Done(it) == \A a \in Addresses : it[a] \in {"none"} \union SubscribeResults

(* Record the new progress of a subscribe call and, once every address has  *)
(* its result, send the reply (Promise.all).                                *)
Progress(c, s, it, asked) ==
    /\ item' = [item EXCEPT ![c] = IF Done(it) THEN NoItems ELSE it]
    /\ phase' = [phase EXCEPT ![c] = IF Done(it) THEN "answered" ELSE "subscribing"]
    /\ IF Done(it) /\ status[s] = "open"
       THEN /\ believed' = [believed EXCEPT ![s] = @ \union
                   {a \in asked : it[a] \in {"unchanged", "changed"}}]
            /\ behind' = [behind EXCEPT ![s] = {a \in @ : it[a] # "changed"}]
       ELSE UNCHANGED <<believed, behind>>

(* The addresses without an entry yet, for which the plugin is called; the  *)
(* others just note the socket.                                             *)
Fresh(addrs) == {a \in addrs : subs[a] = {}}

(* The synchronous part of the handler: every address gets its socket, and  *)
(* the plugin is called for those without an entry; it takes some of them.  *)
SubscribeCall(c, s, addrs) ==
    LET known == {a \in addrs : IsSupported(a)}
        fresh == Fresh(known)
        joined == [a \in Addresses |-> IF a \in known THEN subs[a] \union {s} ELSE subs[a]]
    IN  /\ phase[c] = "unused" /\ status[s] = "open"
        /\ s \in Patient => ~Busy(addrs, s)
        /\ caller' = [caller EXCEPT ![c] = s]
        /\ wants' = [wants EXCEPT ![s] = @ \union addrs]
        /\ subs' = joined
        /\ SetGauge(fresh, joined)
        /\ \E refused \in SUBSET {a \in fresh : PluginOf[a] \in Failing} :
              /\ watched' = watched \union (fresh \ refused)
              /\ Progress(c, s,
                    [a \in Addresses |->
                        CASE a \notin addrs -> "none"
                          [] a \in addrs \ known -> "unsupported"
                          [] a \in known \ fresh -> AfterSubscribe(a)
                          [] a \in refused -> "refused"
                          [] OTHER -> "subscribing"],
                    wants[s] \union addrs)
        /\ UNCHANGED <<status, pluginGauge>>

(* One address of a subscribe call in progress moves from one state to the  *)
(* next.                                                                    *)
Step(c, a, from, to) ==
    /\ phase[c] = "subscribing" /\ item[c][a] = from
    /\ Progress(c, caller[c], [item[c] EXCEPT ![a] = to], wants[caller[c]])
    /\ UNCHANGED <<status, hubVars, pluginGauge, caller, wants>>

SubscribeTrue(c, a) == Step(c, a, "subscribing", AfterSubscribe(a))
SubscribeFalse(c, a) == Step(c, a, "refused", "failed")

(* A throw rejects the whole call, the other addresses stay subscribed.     *)
SubscribeThrow(c, a) ==
    /\ phase[c] = "subscribing" /\ item[c][a] = "refused"
    /\ phase' = [phase EXCEPT ![c] = "rejected"]
    /\ item' = [item EXCEPT ![c] = NoItems]
    /\ UNCHANGED <<status, hubVars, pluginGauge, caller, clientVars>>

(* A scan reports activity the client has not seen; one that fails counts   *)
(* as changed.                                                              *)
ScanChanged(c, a) == Step(c, a, "scanning", "changed")
ScanUnchanged(c, a) ==
    /\ Step(c, a, "scanning", "unchanged")
    /\ a \notin behind[caller[c]]

----------------------------------------------------------------------------
(* The unsubscribe call *)

RestForgotten(c) == {}

(* The addresses the loop has not reached yet.                              *)
Rest(c) == {a \in Addresses : item[c][a] = "todo"}

(* The addresses of a call the socket has been dropped from.                *)
Without(s, addrs) == [a \in Addresses |-> IF a \in addrs THEN subs[a] \ {s} ELSE subs[a]]

(* The loop of the handler goes through the addresses of todo that keep a   *)
(* subscriber, or never had this one, without an await; here to the end...  *)
LoopEnds(c, s, todo) ==
    /\ \A a \in todo : subs[a] # {s}
    /\ subs' = Without(s, todo)
    /\ phase' = [phase EXCEPT ![c] = "answered"]
    /\ item' = [item EXCEPT ![c] = NoItems]
    /\ UNCHANGED <<gauge, watched>>

(* ... and here, after those in passed, to one that is left without a       *)
(* subscriber, whose plugin the handler calls and awaits.                   *)
LoopAwaits(c, s, todo, passed, last) ==
    LET gone == passed \union {last}
    IN  /\ \A a \in passed : subs[a] # {s}
        /\ subs[last] = {s}
        /\ subs' = Without(s, gone)
        /\ watched' = watched \ {last}
        /\ SetGauge({last}, Without(s, gone))
        /\ phase' = [phase EXCEPT ![c] = "unsubscribing"]
        /\ item' = [item EXCEPT ![c] = [a \in Addresses |->
                       CASE a = last -> "leaving"
                         [] a \in todo \ gone -> "todo"
                         [] a \in passed \/ (a \notin todo /\ item[c][a] # "none") -> "left"
                         [] OTHER -> "none"]]

Leave(c, s, todo) ==
    \/ LoopEnds(c, s, todo)
    \/ \E passed \in SUBSET todo, last \in todo : LoopAwaits(c, s, todo, passed, last)

UnsubscribeCall(c, s, addrs) ==
    /\ phase[c] = "unused" /\ status[s] = "open"
    /\ s \in Patient => ~Busy(addrs, s)
    /\ caller' = [caller EXCEPT ![c] = s]
    /\ wants' = [wants EXCEPT ![s] = @ \ addrs]
    /\ believed' = [believed EXCEPT ![s] = @ \ addrs]
    /\ Leave(c, s, addrs)
    /\ UNCHANGED <<status, pluginGauge, behind>>

LeaveSettles(c) ==
    /\ phase[c] = "unsubscribing"
    /\ Leave(c, caller[c], Rest(c))
    /\ UNCHANGED <<status, pluginGauge, caller, clientVars>>

(* A throw of plugin.unsubscribe rejects the call and ends the loop before  *)
(* the addresses still to do.                                               *)
LeaveThrows(c) ==
    /\ phase[c] = "unsubscribing"
    /\ \E a \in Addresses : item[c][a] = "leaving" /\ PluginOf[a] \in Failing
    /\ phase' = [phase EXCEPT ![c] = "rejected"]
    /\ item' = [item EXCEPT ![c] = [a \in Addresses |->
                   IF item[c][a] = "todo" THEN "todo" ELSE "none"]]
    /\ UNCHANGED <<status, hubVars, pluginGauge, caller, clientVars>>

----------------------------------------------------------------------------
(* The events of the plugins *)

(* New activity of an address.  The plugin emits an update if it watches    *)
(* the address, and the update handler tells the sockets in its entry.      *)
Activity(a) ==
    LET told == IF a \in watched THEN subs[a] \intersect Open ELSE {}
    IN  /\ behind' = [s \in Sockets |-> IF s \in told THEN behind[s] \ {a}
                                        ELSE IF s \in Open THEN behind[s] \union {a}
                                        ELSE behind[s]]
        /\ UNCHANGED <<status, hubVars, pluginGauge, callVars, wants, believed>>

ToldNothing(s, lost) == {}

(* The addresses of an event a socket is told of: those it is in.           *)
Told(s, lost) == {a \in lost : s \in Open /\ s \in subs[a]}

PluginGaugeInc(p) == pluginGauge' = [pluginGauge EXCEPT ![p] = @ + 1]
PluginGaugeDec(p) == pluginGauge' = [pluginGauge EXCEPT ![p] = @ - 1]

(* The subLost handler: it tells the sockets and deletes the entries; the   *)
(* subscription gauge keeps its value.                                      *)
SubLost(p, lost) ==
    /\ p \in Supported /\ pluginGauge[p] > -MaxLost
    /\ \A s \in Patient : ~Busy(lost, s)
    /\ watched' = watched \ lost
    /\ PluginGaugeDec(p)
    /\ believed' = [s \in Sockets |-> believed[s] \ Told(s, lost)]
    /\ subs' = [a \in Addresses |-> IF a \in lost THEN {} ELSE subs[a]]
    /\ UNCHANGED <<status, gauge, callVars, wants, behind>>

----------------------------------------------------------------------------

Init ==
    /\ status = [s \in Sockets |-> "new"]
    /\ subs = [a \in Addresses |-> {}]
    /\ gauge = [p \in Plugins |-> 0]
    /\ pluginGauge = [p \in Plugins |-> 0]
    /\ phase = [c \in Calls |-> "unused"]
    /\ caller = [c \in Calls |-> NoCaller]
    /\ item = [c \in Calls |-> [a \in Addresses |-> "none"]]
    /\ watched = {}
    /\ wants = [s \in Sockets |-> {}]
    /\ believed = [s \in Sockets |-> {}]
    /\ behind = [s \in Sockets |-> {}]

(* What a client may name in one call.                                      *)
Requests == {r \in SUBSET Addresses : r # {} /\ Cardinality(r) <= MaxItems}

Request(c) == \E s \in Sockets, r \in Requests :
                 SubscribeCall(c, s, r) \/ UnsubscribeCall(c, s, r)

(* A promise of a plugin settles.                                           *)
Settle(c) ==
    \/ \E a \in Addresses :
          \/ SubscribeTrue(c, a)
          \/ SubscribeFalse(c, a)
          \/ SubscribeThrow(c, a)
          \/ ScanChanged(c, a)
          \/ ScanUnchanged(c, a)
    \/ LeaveSettles(c)
    \/ LeaveThrows(c)

Next ==
    \/ \E s \in Sockets : Connect(s) \/ Close(s)
    \/ \E c \in Calls : Request(c) \/ Settle(c)
    \/ \E a \in Active : Activity(a)
    \/ \E p \in Plugins : \E lost \in SUBSET {a \in watched : PluginOf[a] = p} :
          SubLost(p, lost)

Spec == Init /\ [][Next]_vars

----------------------------------------------------------------------------
(* Properties *)

(* The type invariant.                                                      *)
TypeOK ==
    /\ status \in [Sockets -> {"new", "open", "closed"}]
    /\ subs \in [Addresses -> SUBSET Sockets]
    /\ gauge \in [Plugins -> Nat]
    /\ pluginGauge \in [Plugins -> -MaxLost..0]
    /\ phase \in [Calls -> Phases]
    /\ caller \in [Calls -> Sockets \union {NoCaller}]
    /\ item \in [Calls -> [Addresses -> Items]]
    /\ watched \subseteq Addresses
    /\ wants \in [Sockets -> SUBSET Addresses]
    /\ believed \in [Sockets -> SUBSET Addresses]
    /\ behind \in [Sockets -> SUBSET Addresses]

(* A socket that has closed is in no entry, whatever calls it left behind:  *)
(* the close handler is the only cleanup, so an entry made after it would   *)
(* keep its address subscribed for ever.                                    *)
NoDanglingSocket == \A a \in Addresses : subs[a] \subseteq Open

(* A plugin that never fails watches exactly the addresses with an entry:   *)
(* no subscription is leaked or lost when calls, closes and subLost events  *)
(* of several sockets interleave.                                           *)
HubPluginAgree ==
    \A a \in Addresses : PluginOf[a] \in Supported \ Failing =>
        (a \in watched <=> subs[a] # {})

(* A socket is subscribed to nothing its client has given up, except what   *)
(* an unsubscribe call has not reached yet or left when it was rejected.    *)
NothingUnwanted ==
    \A a \in Addresses : \A s \in subs[a] :
        a \in wants[s] \/ \E c \in Calls : caller[c] = s /\ item[c][a] = "todo"

(* A client that awaits its answers and was told that it is subscribed is   *)
(* in the entry of the address.                                             *)
BelievesTruly(s) == \A a \in believed[s] : s \in subs[a]
BelievedIsSubscribed == \A s \in Patient : BelievesTruly(s)

(* Such a client never misses activity silently: it gets an update, a       *)
(* result of 2 or a subLost for it.                                         *)
NeverSilentlyBehind ==
    \A s \in Patient, a \in Addresses :
        PluginOf[a] \notin Failing /\ a \in believed[s] => a \notin behind[s]

(* What every client was told is true, also when it names an address again  *)
(* before its earlier call naming it is answered.                           *)
EveryBeliefIsTrue == \A s \in Sockets : BelievesTruly(s)

(* To the clients that await their answers, for the addresses of plugins    *)
(* that do not fail, the hub is what Subscriptions promises, whatever the   *)
(* interleaving of calls, scans, closes, activity and subLost events.       *)
Reliable == {a \in Addresses : PluginOf[a] \notin Failing}
OfPatient(f) == [s \in Patient |-> f[s] \intersect Reliable]
Promise == INSTANCE Subscriptions WITH
               Clients <- Patient, Topics <- Reliable,
               link <- [s \in Patient |-> status[s]], wants <- OfPatient(wants),
               believed <- OfPatient(believed), behind <- OfPatient(behind)
ImplementsSubscriptions == Promise!SubSpec
=============================================================================
