----------------------------- MODULE HubProofs -----------------------------
(* Proofs about the hub, for any sockets, plugins, addresses and calls.     *)
EXTENDS Hub, FiniteSetTheorems, TLAPS

(* Whatever the table, the value given to the subscription gauge is a       *)
(* natural number (Prometheus gauge set in hub.ts).                         *)
LEMMA EntriesNat ==
    ASSUME NEW p, NEW table
    PROVE  Cardinality(Entries(p, table)) \in Nat
<1>1. Entries(p, table) \subseteq Addresses BY DEF Entries
<1>2. IsFiniteSet(Entries(p, table)) BY <1>1, FiniteAddresses, FS_Subset
<1> QED BY <1>2, FS_CardinalityType

LEMMA GaugeType ==
    ASSUME NEW changed, NEW table, gauge \in [Plugins -> Nat], SetGauge(changed, table)
    PROVE  gauge' \in [Plugins -> Nat]
BY EntriesNat DEF SetGauge

(* A call in progress was made by a socket.                                 *)
Callers == \A c \in Calls : Pending(c) => caller[c] \in Sockets

(* The reply to a subscribe call keeps the types of what it changes.        *)
LEMMA ProgressType ==
    ASSUME NEW c \in Calls, NEW s \in Sockets, NEW it \in [Addresses -> Items],
           NEW asked \in SUBSET Addresses, TypeOK, Progress(c, s, it, asked)
    PROVE  /\ phase' \in [Calls -> Phases]
           /\ item' \in [Calls -> [Addresses -> Items]]
           /\ believed' \in [Sockets -> SUBSET Addresses]
           /\ behind' \in [Sockets -> SUBSET Addresses]
<1>1. NoItems \in [Addresses -> Items] BY DEF NoItems, Items
<1>2. item' \in [Calls -> [Addresses -> Items]] BY <1>1 DEF TypeOK, Progress
<1>3. phase' \in [Calls -> Phases] BY DEF TypeOK, Progress, Phases
<1>4. /\ believed' \in [Sockets -> SUBSET Addresses]
      /\ behind' \in [Sockets -> SUBSET Addresses]
  <2> DEFINE told == {a \in asked : it[a] \in {"unchanged", "changed"}}
             late == {a \in behind[s] : it[a] # "changed"}
  <2>1. told \in SUBSET Addresses OBVIOUS
  <2>2. late \in SUBSET Addresses BY DEF TypeOK
  <2>3. believed[s] \union told \in SUBSET Addresses BY <2>1 DEF TypeOK
  <2>4. CASE Done(it) /\ status[s] = "open"
    <3>1. believed' = [believed EXCEPT ![s] = believed[s] \union told]
      BY <2>4 DEF Progress
    <3>2. behind' = [behind EXCEPT ![s] = late] BY <2>4 DEF Progress
    <3> HIDE DEF told, late
    <3> QED BY <3>1, <3>2, <2>2, <2>3 DEF TypeOK
  <2>5. CASE ~(Done(it) /\ status[s] = "open")
    BY <2>5 DEF TypeOK, Progress
  <2> QED BY <2>4, <2>5
<1> QED BY <1>2, <1>3, <1>4

LEMMA StepType ==
    ASSUME NEW c \in Calls, NEW a \in Addresses, NEW from, NEW to \in Items,
           TypeOK, Callers, Step(c, a, from, to)
    PROVE  TypeOK'
<1>1. [item[c] EXCEPT ![a] = to] \in [Addresses -> Items] BY DEF TypeOK
<1>2. caller[c] \in Sockets BY DEF Callers, Step, Pending
<1>3. wants[caller[c]] \in SUBSET Addresses BY <1>2 DEF TypeOK
<1>4. Progress(c, caller[c], [item[c] EXCEPT ![a] = to], wants[caller[c]])
  BY DEF Step
<1>5. /\ phase' \in [Calls -> Phases]
      /\ item' \in [Calls -> [Addresses -> Items]]
      /\ believed' \in [Sockets -> SUBSET Addresses]
      /\ behind' \in [Sockets -> SUBSET Addresses]
  BY <1>1, <1>2, <1>3, <1>4, ProgressType
<1> QED BY <1>5 DEF TypeOK, Step, hubVars

(* An iteration of the unsubscribe loop keeps the types of what it changes. *)
LEMMA LeaveType ==
    ASSUME NEW c \in Calls, NEW s \in Sockets, NEW todo \in SUBSET Addresses,
           TypeOK, Leave(c, s, todo)
    PROVE  /\ subs' \in [Addresses -> SUBSET Sockets]
           /\ gauge' \in [Plugins -> Nat]
           /\ watched' \subseteq Addresses
           /\ phase' \in [Calls -> Phases]
           /\ item' \in [Calls -> [Addresses -> Items]]
<1>1. CASE LoopEnds(c, s, todo)
  <2>1. NoItems \in [Addresses -> Items] BY DEF NoItems, Items
  <2> QED BY <1>1, <2>1 DEF LoopEnds, Without, TypeOK, Phases
<1>2. ASSUME NEW passed \in SUBSET todo, NEW last \in todo,
             LoopAwaits(c, s, todo, passed, last)
      PROVE  /\ subs' \in [Addresses -> SUBSET Sockets]
             /\ gauge' \in [Plugins -> Nat]
             /\ watched' \subseteq Addresses
             /\ phase' \in [Calls -> Phases]
             /\ item' \in [Calls -> [Addresses -> Items]]
  <2> DEFINE gone == passed \union {last}
             it == [a \in Addresses |->
                      CASE a = last -> "leaving"
                        [] a \in todo \ gone -> "todo"
                        [] a \in passed \/ (a \notin todo /\ item[c][a] # "none") -> "left"
                        [] OTHER -> "none"]
  <2>1. subs' \in [Addresses -> SUBSET Sockets] BY <1>2 DEF LoopAwaits, Without, TypeOK
  <2>2. gauge' \in [Plugins -> Nat] BY <1>2, GaugeType DEF LoopAwaits, TypeOK
  <2>3. watched' \subseteq Addresses BY <1>2 DEF LoopAwaits, TypeOK
  <2>4. phase' \in [Calls -> Phases] BY <1>2 DEF LoopAwaits, TypeOK, Phases
  <2>5. it \in [Addresses -> Items] BY DEF Items, UnsubscribeItems
  <2>6. item' = [item EXCEPT ![c] = it] BY <1>2 DEF LoopAwaits
  <2>7. item' \in [Calls -> [Addresses -> Items]]
    <3> HIDE DEF it
    <3> QED BY <2>5, <2>6 DEF TypeOK
  <2> QED BY <2>1, <2>2, <2>3, <2>4, <2>7
<1> QED BY <1>1, <1>2 DEF Leave

----------------------------------------------------------------------------
(* Type correctness *)

LEMMA TypeInit == Init => TypeOK /\ Callers
BY HubAssumption DEF Init, TypeOK, Callers, Pending, NoItems, Items, Phases

LEMMA TypeNext == TypeOK /\ Callers /\ [Next]_vars => TypeOK' /\ Callers'
<1> SUFFICES ASSUME TypeOK, Callers, [Next]_vars PROVE TypeOK' /\ Callers'
  OBVIOUS
<1>1. ASSUME NEW s \in Sockets, Connect(s) PROVE TypeOK' /\ Callers'
  BY <1>1 DEF Connect, TypeOK, Callers, Pending, hubVars, callVars, clientVars
<1>2. ASSUME NEW s \in Sockets, Close(s) PROVE TypeOK' /\ Callers'
  <2>1. gauge' \in [Plugins -> Nat] BY <1>2, GaugeType DEF Close, TypeOK
  <2> QED BY <1>2, <2>1 DEF Close, Remaining, TypeOK, Callers, Pending, callVars
<1>3. ASSUME NEW c \in Calls, NEW s \in Sockets, NEW addrs \in Requests, SubscribeCall(c, s, addrs)
      PROVE  TypeOK' /\ Callers'
  <2> DEFINE known == {a \in addrs : IsSupported(a)}
             fresh == Fresh(known)
  <2>0. addrs \subseteq Addresses BY DEF Requests
  <2>1. gauge' \in [Plugins -> Nat] BY <1>3, GaugeType DEF SubscribeCall, TypeOK
  <2>2. PICK refused \in SUBSET {a \in fresh : PluginOf[a] \in Failing} :
          /\ watched' = watched \union (fresh \ refused)
          /\ Progress(c, s,
                [a \in Addresses |->
                    CASE a \notin addrs -> "none"
                      [] a \in addrs \ known -> "unsupported"
                      [] a \in known \ fresh -> AfterSubscribe(a)
                      [] a \in refused -> "refused"
                      [] OTHER -> "subscribing"],
                wants[s] \union addrs)
    BY <1>3 DEF SubscribeCall
  <2> DEFINE it == [a \in Addresses |->
                      CASE a \notin addrs -> "none"
                        [] a \in addrs \ known -> "unsupported"
                        [] a \in known \ fresh -> AfterSubscribe(a)
                        [] a \in refused -> "refused"
                        [] OTHER -> "subscribing"]
  <2>3. it \in [Addresses -> Items]
    BY DEF Items, SubscribeItems, SubscribeResults, AfterSubscribe
  <2>4. wants[s] \union addrs \in SUBSET Addresses BY <2>0 DEF TypeOK
  <2>5. Progress(c, s, it, wants[s] \union addrs) BY <2>2
  <2> HIDE DEF it
  <2>6. /\ phase' \in [Calls -> Phases]
        /\ item' \in [Calls -> [Addresses -> Items]]
        /\ believed' \in [Sockets -> SUBSET Addresses]
        /\ behind' \in [Sockets -> SUBSET Addresses]
    BY <2>3, <2>4, <2>5, ProgressType
  <2>7. watched' \subseteq Addresses BY <2>0, <2>2 DEF Fresh, TypeOK
  <2>8. /\ subs' \in [Addresses -> SUBSET Sockets]
        /\ caller' \in [Calls -> Sockets \union {NoCaller}]
        /\ wants' \in [Sockets -> SUBSET Addresses]
    BY <1>3, <2>4 DEF SubscribeCall, TypeOK
  <2>9. TypeOK' BY <1>3, <2>1, <2>6, <2>7, <2>8 DEF SubscribeCall, TypeOK
  <2>10. Callers'
    BY <1>3, <2>5 DEF SubscribeCall, Progress, Callers, Pending, TypeOK
  <2> QED BY <2>9, <2>10
<1>4. ASSUME NEW c \in Calls, NEW s \in Sockets, NEW addrs \in Requests, UnsubscribeCall(c, s, addrs)
      PROVE  TypeOK' /\ Callers'
  <2>0. addrs \in SUBSET Addresses BY DEF Requests
  <2>1. Leave(c, s, addrs) BY <1>4 DEF UnsubscribeCall
  <2>2. TypeOK' BY <1>4, <2>0, <2>1, LeaveType DEF UnsubscribeCall, TypeOK
  <2>3. Callers'
    BY <1>4, <2>1 DEF UnsubscribeCall, Leave, LoopEnds, LoopAwaits, Callers, Pending, TypeOK
  <2> QED BY <2>2, <2>3
<1>5. ASSUME NEW c \in Calls, NEW a \in Addresses, NEW from, NEW to \in Items, Step(c, a, from, to)
      PROVE  TypeOK' /\ Callers'
  <2>1. TypeOK' BY <1>5, StepType
  <2>2. Callers' BY <1>5 DEF Step, Progress, Callers, Pending, TypeOK
  <2> QED BY <2>1, <2>2
<1>6. ASSUME NEW c \in Calls, NEW a \in Addresses, SubscribeThrow(c, a) PROVE TypeOK' /\ Callers'
  <2>1. NoItems \in [Addresses -> Items] BY DEF NoItems, Items
  <2> QED BY <1>6, <2>1 DEF SubscribeThrow, TypeOK, Callers, Pending, Phases, hubVars, clientVars
<1>7. ASSUME NEW c \in Calls, LeaveSettles(c) PROVE TypeOK' /\ Callers'
    <2>1. Leave(c, caller[c], Rest(c)) BY <1>7 DEF LeaveSettles
  <2>2. caller[c] \in Sockets BY <1>7 DEF LeaveSettles, Callers, Pending
  <2>3. Rest(c) \in SUBSET Addresses BY DEF Rest
  <2>4. TypeOK' BY <1>7, <2>1, <2>2, <2>3, LeaveType DEF LeaveSettles, TypeOK, clientVars
  <2>5. Callers'
    BY <1>7, <2>1 DEF LeaveSettles, Leave, LoopEnds, LoopAwaits, Callers, Pending, TypeOK
  <2> QED BY <2>4, <2>5
<1>8. ASSUME NEW c \in Calls, LeaveThrows(c) PROVE TypeOK' /\ Callers'
  <2>1. [a \in Addresses |-> IF item[c][a] = "todo" THEN "todo" ELSE "none"]
          \in [Addresses -> Items]
    BY DEF Items, UnsubscribeItems
  <2> QED BY <1>8, <2>1 DEF LeaveThrows, TypeOK, Callers, Pending, Phases, hubVars, clientVars
<1>9. ASSUME NEW a \in Addresses, Activity(a) PROVE TypeOK' /\ Callers'
  <2>1. behind' \in [Sockets -> SUBSET Addresses] BY <1>9 DEF Activity, TypeOK
  <2> QED BY <1>9, <2>1 DEF Activity, TypeOK, Callers, Pending, hubVars, callVars
<1>10. ASSUME NEW p \in Plugins, NEW lost \in SUBSET Addresses, SubLost(p, lost)
       PROVE  TypeOK' /\ Callers'
  <2>1. pluginGauge' \in [Plugins -> -MaxLost..0]
    BY <1>10, HubAssumption DEF SubLost, PluginGaugeDec, TypeOK
  <2>2. believed' \in [Sockets -> SUBSET Addresses] BY <1>10 DEF SubLost, TypeOK
  <2> QED BY <1>10, <2>1, <2>2 DEF SubLost, TypeOK, Callers, Pending, callVars
<1>11. ASSUME NEW c \in Calls, NEW a \in Addresses,
              \/ SubscribeTrue(c, a) \/ SubscribeFalse(c, a)
              \/ ScanChanged(c, a) \/ ScanUnchanged(c, a)
       PROVE  TypeOK' /\ Callers'
  <2>1. {"failed", "changed", "unchanged", AfterSubscribe(a)} \subseteq Items
    BY DEF Items, SubscribeItems, SubscribeResults, AfterSubscribe
  <2> QED BY <1>5, <1>11, <2>1 DEF SubscribeTrue, SubscribeFalse, ScanChanged, ScanUnchanged
<1>12. CASE UNCHANGED vars
  BY <1>12 DEF vars, TypeOK, Callers, Pending
<1> QED
  BY <1>1, <1>2, <1>3, <1>4, <1>6, <1>7, <1>8, <1>9, <1>10, <1>11, <1>12, HubAssumption
  DEF Next, Request, Settle, TypeOK

(* The hub keeps its types for any sockets, plugins, addresses and calls.   *)
THEOREM TypeCorrect == Spec => []TypeOK
<1> QED BY TypeInit, TypeNext, PTL DEF Spec

----------------------------------------------------------------------------
(* The tables of the hub *)

(* An address of a plugin the server does not have never gets an entry.     *)
OnlySupported == \A a \in Addresses : subs[a] # {} => IsSupported(a)

Tables == NoDanglingSocket /\ OnlySupported /\ HubPluginAgree

IInv == TypeOK /\ Tables

LEMMA TablesInit == Init => Tables
BY DEF Tables, Init, NoDanglingSocket, OnlySupported, HubPluginAgree

(* Removing one socket empties an entry only if it was the last.            *)
LEMMA LastLeaves == ASSUME NEW T, NEW x PROVE T \ {x} = {} <=> T = {} \/ T = {x}
OBVIOUS

(* One iteration of the unsubscribe loop keeps the hub and the plugins in   *)
(* agreement: only the address whose last subscriber left is unsubscribed.  *)
LEMMA LeaveTables ==
    ASSUME NEW c, NEW s, NEW todo \in SUBSET Addresses, IInv, Leave(c, s, todo),
           UNCHANGED status
    PROVE  Tables'
<1>1. CASE LoopEnds(c, s, todo)
  <2>1. \A a \in Addresses : subs'[a] = IF a \in todo THEN subs[a] \ {s} ELSE subs[a]
    BY <1>1 DEF LoopEnds, Without
  <2>2. \A a \in todo : subs[a] # {s} BY <1>1 DEF LoopEnds
  <2>3. \A a \in Addresses : subs'[a] = {} <=> subs[a] = {}
    <3> TAKE a \in Addresses
    <3>1. CASE a \in todo
      <4>1. subs'[a] = subs[a] \ {s} BY <2>1, <3>1
      <4>2. subs[a] # {s} BY <2>2, <3>1
      <4> QED BY <4>1, <4>2, LastLeaves
    <3>2. CASE a \notin todo BY <2>1, <3>2
    <3> QED BY <3>1, <3>2
  <2>4. \A a \in Addresses : subs'[a] \subseteq subs[a] BY <2>1
  <2>5. watched' = watched BY <1>1 DEF LoopEnds
  <2> QED BY <2>3, <2>4, <2>5
          DEF IInv, Tables, NoDanglingSocket, OnlySupported, HubPluginAgree, IsSupported, Open
<1>2. ASSUME NEW passed \in SUBSET todo, NEW last \in todo, LoopAwaits(c, s, todo, passed, last)
      PROVE  Tables'
  <2>1. \A a \in Addresses :
          subs'[a] = IF a \in passed \union {last} THEN subs[a] \ {s} ELSE subs[a]
    BY <1>2 DEF LoopAwaits, Without
  <2>2. /\ subs[last] = {s}
        /\ \A a \in passed : subs[a] # {s}
    BY <1>2 DEF LoopAwaits
  <2>3. \A a \in Addresses : subs'[a] = {} <=> (subs[a] = {} \/ a = last)
    <3> TAKE a \in Addresses
    <3>1. CASE a \in passed \union {last}
      <4>1. subs'[a] = subs[a] \ {s} BY <2>1, <3>1
      <4>2. subs[a] = {s} <=> a = last BY <2>2, <3>1
      <4>3. {s} # {} OBVIOUS
      <4> QED BY <4>1, <4>2, <4>3, LastLeaves
    <3>2. CASE a \notin passed \union {last} BY <2>1, <3>2
    <3> QED BY <3>1, <3>2
  <2>4. \A a \in Addresses : subs'[a] \subseteq subs[a] BY <2>1
  <2>5. watched' = watched \ {last} BY <1>2 DEF LoopAwaits
  <2> QED BY <2>3, <2>4, <2>5
          DEF IInv, Tables, NoDanglingSocket, OnlySupported, HubPluginAgree, IsSupported, Open
<1> QED BY <1>1, <1>2 DEF Leave

LEMMA TablesNext ==
    IInv /\ [Next]_vars => Tables'
<1> SUFFICES ASSUME IInv, [Next]_vars
             PROVE  Tables'
  OBVIOUS
<1>1. ASSUME UNCHANGED hubVars, Open \subseteq Open' PROVE Tables'
  BY <1>1 DEF IInv, Tables, NoDanglingSocket, OnlySupported, HubPluginAgree, IsSupported, hubVars
<1>2. ASSUME NEW s \in Sockets, Connect(s) PROVE Tables'
  <2>1. Open \subseteq Open' BY <1>2 DEF Connect, Open, IInv, TypeOK
  <2>2. UNCHANGED hubVars BY <1>2 DEF Connect
  <2> QED BY <1>1, <2>1, <2>2
<1>3. ASSUME NEW s \in Sockets, Close(s) PROVE Tables'
  <2>1. \A a \in Addresses : subs'[a] = subs[a] \ {s} BY <1>3 DEF Close, Remaining
  <2>2. Open' = Open \ {s} BY <1>3 DEF Close, Open, IInv, TypeOK
  <2>3. watched' = {a \in watched : subs[a] # {s}}
    BY <1>3 DEF Close, Emptied, IInv, TypeOK
  <2>4. \A a \in Addresses : subs'[a] = {} <=> (subs[a] = {} \/ subs[a] = {s}) BY <2>1
  <2> QED BY <2>1, <2>2, <2>3, <2>4
          DEF IInv, Tables, NoDanglingSocket, OnlySupported, HubPluginAgree, IsSupported
<1>4. ASSUME NEW c \in Calls, NEW s \in Sockets, NEW addrs \in Requests, SubscribeCall(c, s, addrs)
      PROVE  Tables'
  <2> DEFINE known == {a \in addrs : IsSupported(a)}
             fresh == Fresh(known)
  <2>1. \A a \in Addresses : subs'[a] = IF a \in known THEN subs[a] \union {s} ELSE subs[a]
    BY <1>4 DEF SubscribeCall
  <2>2. PICK refused \in SUBSET {a \in fresh : PluginOf[a] \in Failing} :
          watched' = watched \union (fresh \ refused)
    BY <1>4 DEF SubscribeCall
  <2>3. s \in Open /\ Open' = Open BY <1>4 DEF SubscribeCall, Open
  <2>4. NoDanglingSocket' BY <2>1, <2>3 DEF IInv, Tables, NoDanglingSocket
  <2>5. OnlySupported' BY <2>1 DEF IInv, Tables, OnlySupported, IsSupported
  <2>6. HubPluginAgree' BY <2>1, <2>2 DEF Fresh, IInv, Tables, HubPluginAgree, IsSupported
  <2> QED BY <2>4, <2>5, <2>6 DEF Tables
<1>5. ASSUME NEW c \in Calls, NEW s \in Sockets, NEW addrs \in Requests, UnsubscribeCall(c, s, addrs)
      PROVE  Tables'
  BY <1>5, LeaveTables DEF UnsubscribeCall, Requests
<1>6. ASSUME NEW c \in Calls, LeaveSettles(c) PROVE Tables'
  BY <1>6, LeaveTables DEF LeaveSettles, Rest
<1>7. ASSUME NEW p \in Plugins, NEW lost \in SUBSET watched, SubLost(p, lost) PROVE Tables'
  <2>1. \A a \in Addresses : subs'[a] = IF a \in lost THEN {} ELSE subs[a]
    BY <1>7 DEF SubLost
  <2>2. watched' = watched \ lost /\ Open' = Open BY <1>7 DEF SubLost, Open
  <2> QED BY <2>1, <2>2
          DEF IInv, Tables, NoDanglingSocket, OnlySupported, HubPluginAgree, IsSupported
<1>8. ASSUME NEW c \in Calls, NEW a \in Addresses,
             \/ SubscribeTrue(c, a) \/ SubscribeFalse(c, a) \/ SubscribeThrow(c, a)
             \/ ScanChanged(c, a) \/ ScanUnchanged(c, a)
      PROVE  Tables'
  <2>1. UNCHANGED hubVars /\ UNCHANGED status
    BY <1>8 DEF SubscribeTrue, SubscribeFalse, SubscribeThrow, ScanChanged, ScanUnchanged,
                Step
  <2> QED BY <1>1, <2>1 DEF Open
<1>9. ASSUME NEW a \in Addresses, Activity(a) PROVE Tables'
  BY <1>1, <1>9 DEF Activity, Open
<1>10. CASE UNCHANGED vars
  BY <1>1, <1>10 DEF vars, hubVars, Open
<1>11. ASSUME NEW c \in Calls, LeaveThrows(c) PROVE Tables'
  <2>1. UNCHANGED hubVars /\ Open' = Open BY <1>11 DEF LeaveThrows, Open
  <2> QED BY <1>1, <2>1
<1> QED
  BY <1>2, <1>3, <1>4, <1>5, <1>6, <1>7, <1>8, <1>9, <1>10, <1>11, HubAssumption
  DEF Next, Request, Settle

LEMMA Inductive == Spec => [](IInv /\ Callers)
<1>1. Init => IInv /\ Callers BY TypeInit, TablesInit DEF IInv
<1>2. IInv /\ Callers /\ [Next]_vars => IInv' /\ Callers'
  BY TypeNext, TablesNext DEF IInv
<1> QED BY <1>1, <1>2, PTL DEF Spec

(* No calls a socket leaves behind keep an address subscribed for it once   *)
(* it has closed, however many sockets, calls and failing plugins there are.*)
THEOREM ClosedSocketsAreGone == Spec => []NoDanglingSocket
<1>1. IInv => NoDanglingSocket BY DEF IInv, Tables
<1> QED BY <1>1, Inductive, PTL

(* The tables of the hub and the plugins that never fail agree, for any     *)
(* number of sockets, addresses and calls.                                  *)
THEOREM TablesAgree == Spec => []HubPluginAgree
<1>1. IInv => HubPluginAgree BY DEF IInv, Tables
<1> QED BY <1>1, Inductive, PTL

----------------------------------------------------------------------------
(* The calls *)

(* The progress a call can have in each of its phases: only an unsubscribe  *)
(* call has addresses to do, and a rejected one keeps those it had left.    *)
Protocol ==
    \A c \in Calls, a \in Addresses :
        /\ phase[c] \in {"unused", "answered"} => item[c][a] = "none"
        /\ phase[c] = "subscribing" => item[c][a] \in {"none"} \union SubscribeItems
        /\ phase[c] = "unsubscribing" => item[c][a] \in {"none"} \union UnsubscribeItems
        /\ phase[c] = "rejected" => item[c][a] \in {"none", "todo"}

(* The calls of a client that awaits its answers name different addresses.  *)
Exclusive ==
    \A c, d \in Calls : c # d /\ Pending(c) /\ Pending(d) /\ caller[c] = caller[d]
                        /\ caller[c] \in Patient =>
        \A a \in Addresses : item[c][a] = "none" \/ item[d][a] = "none"

(* The items of a subscribe call that end in a reply the client believes.   *)
Hopeful == {"subscribing", "scanning", "unchanged", "changed"}

(* Such a client is in the entry of what a call of its is to make it        *)
(* believe, and believes nothing one of its calls is to leave.              *)
HopefulIsIn ==
    \A c \in Calls, a \in Addresses :
        phase[c] = "subscribing" /\ caller[c] \in Patient /\ status[caller[c]] # "closed"
        /\ item[c][a] \in Hopeful => caller[c] \in subs[a]
LeavingIsNotBelieved ==
    \A c \in Calls, a \in Addresses :
        phase[c] = "unsubscribing" /\ caller[c] \in Patient /\ item[c][a] # "none" =>
            a \notin believed[caller[c]]

(* A scan result the client is still to get has not been overtaken by       *)
(* activity the client was not told of.                                     *)
UnchangedIsCurrent ==
    \A c \in Calls, a \in Addresses :
        phase[c] = "subscribing" /\ caller[c] \in Patient /\ status[caller[c]] # "closed"
        /\ item[c][a] = "unchanged" /\ PluginOf[a] \notin Failing => a \notin behind[caller[c]]

Believing ==
    /\ Exclusive /\ HopefulIsIn /\ LeavingIsNotBelieved /\ UnchangedIsCurrent
    /\ BelievedIsSubscribed /\ NeverSilentlyBehind

(* What the reply of a subscribe call changes: the progress of that call,   *)
(* and what its socket believes once the last result is there.              *)
LEMMA ProgressIs ==
    ASSUME TypeOK, NEW c \in Calls, NEW s \in Sockets, NEW it \in [Addresses -> Items],
           NEW asked \in SUBSET Addresses, Progress(c, s, it, asked)
    PROVE  /\ \A d \in Calls : d # c => item'[d] = item[d] /\ phase'[d] = phase[d]
           /\ Done(it) => phase'[c] = "answered" /\ item'[c] = NoItems
           /\ ~Done(it) => phase'[c] = "subscribing" /\ item'[c] = it
           /\ \A t \in Sockets, a \in Addresses :
                 /\ a \in believed'[t] => \/ a \in believed[t]
                                          \/ /\ t = s /\ status[s] = "open" /\ Done(it)
                                             /\ it[a] \in {"unchanged", "changed"}
                 /\ a \in behind'[t] =>
                       /\ a \in behind[t]
                       /\ ~(t = s /\ status[s] = "open" /\ Done(it) /\ it[a] = "changed")
<1>1. /\ item' = [item EXCEPT ![c] = IF Done(it) THEN NoItems ELSE it]
      /\ phase' = [phase EXCEPT ![c] = IF Done(it) THEN "answered" ELSE "subscribing"]
  BY DEF Progress
<1>2. /\ \A d \in Calls : d # c => item'[d] = item[d] /\ phase'[d] = phase[d]
      /\ Done(it) => phase'[c] = "answered" /\ item'[c] = NoItems
      /\ ~Done(it) => phase'[c] = "subscribing" /\ item'[c] = it
  BY <1>1 DEF TypeOK
<1>3. CASE Done(it) /\ status[s] = "open"
  <2> DEFINE told == {a \in asked : it[a] \in {"unchanged", "changed"}}
             late == {a \in behind[s] : it[a] # "changed"}
  <2>1. /\ believed' = [believed EXCEPT ![s] = believed[s] \union told]
        /\ behind' = [behind EXCEPT ![s] = late]
    BY <1>3 DEF Progress
  <2>2. /\ believed'[s] = believed[s] \union told /\ behind'[s] = late
        /\ \A t \in Sockets : t # s => believed'[t] = believed[t] /\ behind'[t] = behind[t]
    BY <2>1 DEF TypeOK
  <2> QED BY <1>2, <1>3, <2>2
<1>4. CASE ~(Done(it) /\ status[s] = "open")
  <2>1. UNCHANGED <<believed, behind>> BY <1>4 DEF Progress
  <2> QED BY <1>2, <1>4, <2>1
<1> QED BY <1>3, <1>4

(* A subscribe call goes on, or starts, without breaking what a client that *)
(* awaits its answers believes: it is in the entries of the call's hopeful  *)
(* items, knows of the activity of its unchanged ones, and has no other     *)
(* call with them.                                                          *)
LEMMA ProgressBelieves ==
    ASSUME TypeOK, Believing,
           NEW c \in Calls, NEW s \in Sockets, NEW it \in [Addresses -> Items],
           NEW asked \in SUBSET Addresses, Progress(c, s, it, asked),
           UNCHANGED status,
           caller'[c] = s, \A d \in Calls : d # c => caller'[d] = caller[d],
           \A a \in Addresses : subs[a] \subseteq subs'[a],
           s \in Patient => \A a \in Addresses :
              /\ status[s] # "closed" /\ it[a] \in Hopeful => s \in subs'[a]
              /\ status[s] # "closed" /\ it[a] = "unchanged" /\ PluginOf[a] \notin Failing =>
                    a \notin behind[s]
              /\ \A d \in Calls : d # c /\ Pending(d) /\ caller[d] = s =>
                    it[a] = "none" \/ item[d][a] = "none"
    PROVE  Believing'
<1> USE DEF Believing
<1>1. /\ \A d \in Calls : d # c => item'[d] = item[d] /\ phase'[d] = phase[d]
      /\ Done(it) => phase'[c] = "answered" /\ item'[c] = NoItems
      /\ ~Done(it) => phase'[c] = "subscribing" /\ item'[c] = it
      /\ \A t \in Sockets, a \in Addresses :
            /\ a \in believed'[t] => \/ a \in believed[t]
                                     \/ /\ t = s /\ status[s] = "open" /\ Done(it)
                                        /\ it[a] \in {"unchanged", "changed"}
            /\ a \in behind'[t] =>
                  /\ a \in behind[t]
                  /\ ~(t = s /\ status[s] = "open" /\ Done(it) /\ it[a] = "changed")
  BY ProgressIs
<1>2. \A d \in Calls : d # c => (Pending(d)' <=> Pending(d)) BY <1>1 DEF Pending
<1>3. Pending(c)' => phase'[c] = "subscribing" /\ item'[c] = it BY <1>1 DEF Pending
<1>4. \A t \in Patient : t \in Sockets /\ believed[t] \subseteq Addresses /\ behind[t] \subseteq Addresses
  BY HubAssumption DEF TypeOK
<1>5. believed' \in [Sockets -> SUBSET Addresses] /\ behind' \in [Sockets -> SUBSET Addresses]
  BY ProgressType
<1>6. Exclusive' BY <1>1, <1>2, <1>3 DEF Exclusive
<1>7. HopefulIsIn' BY <1>1, <1>3 DEF HopefulIsIn, Pending
<1>8. LeavingIsNotBelieved'
  <2> SUFFICES ASSUME NEW d \in Calls, NEW a \in Addresses,
                      phase'[d] = "unsubscribing", caller'[d] \in Patient, item'[d][a] # "none",
                      a \in believed'[caller'[d]]
               PROVE  FALSE
    BY DEF LeavingIsNotBelieved
  <2>1. d # c BY <1>1
  <2>2. /\ phase[d] = "unsubscribing" /\ caller[d] \in Patient /\ item[d][a] # "none"
        /\ a \in believed'[caller[d]]
    BY <1>1, <2>1
  <2>3. a \notin believed[caller[d]] BY <2>2 DEF LeavingIsNotBelieved
  <2>4. caller[d] = s /\ it[a] \in {"unchanged", "changed"} BY <1>1, <1>4, <2>2, <2>3
  <2>5. Pending(d) BY <2>2 DEF Pending
  <2> QED BY <2>1, <2>2, <2>4, <2>5
<1>9. UnchangedIsCurrent'
  BY <1>1, <1>3, <1>4 DEF UnchangedIsCurrent, Pending
<1>10. BelievedIsSubscribed'
  <2> SUFFICES ASSUME NEW t \in Patient, NEW a \in believed'[t] PROVE t \in subs'[a]
    BY DEF BelievedIsSubscribed, BelievesTruly
  <2>1. t \in Sockets /\ a \in Addresses BY <1>4, <1>5
  <2>2. CASE a \in believed[t] BY <2>1, <2>2 DEF BelievedIsSubscribed, BelievesTruly
  <2>3. CASE a \notin believed[t]
    <3>1. t = s /\ status[s] = "open" /\ it[a] \in {"unchanged", "changed"} BY <1>1, <2>1, <2>3
    <3> QED BY <2>1, <3>1 DEF Hopeful
  <2> QED BY <2>2, <2>3
<1>11. NeverSilentlyBehind'
  <2> SUFFICES ASSUME NEW t \in Patient, NEW a \in Addresses, PluginOf[a] \notin Failing,
                      a \in believed'[t], a \in behind'[t]
               PROVE  FALSE
    BY DEF NeverSilentlyBehind
  <2>1. a \in behind[t] BY <1>1, <1>4
  <2>2. a \notin believed[t] BY <2>1 DEF NeverSilentlyBehind
  <2>3. t = s /\ status[s] = "open" /\ Done(it) /\ it[a] \in {"unchanged", "changed"}
    BY <1>1, <1>4, <2>2
  <2> QED BY <1>1, <1>4, <2>1, <2>3
<1> QED BY <1>6, <1>7, <1>8, <1>9, <1>10, <1>11

(* What an iteration of the unsubscribe loop changes: it takes the socket   *)
(* from some of the entries to do, and what it has not reached stays to do. *)
LEMMA LeaveIs ==
    ASSUME TypeOK, NEW c \in Calls, NEW s \in Sockets, NEW todo \in SUBSET Addresses,
           Leave(c, s, todo)
    PROVE  /\ \A d \in Calls : d # c => item'[d] = item[d] /\ phase'[d] = phase[d]
           /\ \A a \in Addresses : /\ subs'[a] \subseteq subs[a]
                                   /\ subs[a] \ {s} \subseteq subs'[a]
                                   /\ a \notin todo => subs'[a] = subs[a]
           /\ \/ /\ phase'[c] = "answered" /\ item'[c] = NoItems
                 /\ \A a \in todo : s \notin subs'[a]
              \/ /\ phase'[c] = "unsubscribing"
                 /\ \A a \in Addresses : item'[c][a] \in {"none"} \union UnsubscribeItems
                 /\ \A a \in Addresses : item'[c][a] # "none" => a \in todo \/ item[c][a] # "none"
                 /\ \A a \in todo : s \in subs'[a] => item'[c][a] = "todo"
<1>1. CASE LoopEnds(c, s, todo)
  <2>1. /\ subs' = Without(s, todo)
        /\ phase' = [phase EXCEPT ![c] = "answered"] /\ item' = [item EXCEPT ![c] = NoItems]
    BY <1>1 DEF LoopEnds
  <2> QED BY <2>1 DEF TypeOK, Without
<1>2. ASSUME NEW passed \in SUBSET todo, NEW last \in todo,
             LoopAwaits(c, s, todo, passed, last)
      PROVE  /\ \A d \in Calls : d # c => item'[d] = item[d] /\ phase'[d] = phase[d]
             /\ \A a \in Addresses : /\ subs'[a] \subseteq subs[a]
                                     /\ subs[a] \ {s} \subseteq subs'[a]
                                     /\ a \notin todo => subs'[a] = subs[a]
             /\ phase'[c] = "unsubscribing"
             /\ \A a \in Addresses : item'[c][a] \in {"none"} \union UnsubscribeItems
             /\ \A a \in Addresses : item'[c][a] # "none" => a \in todo \/ item[c][a] # "none"
             /\ \A a \in todo : s \in subs'[a] => item'[c][a] = "todo"
  <2> DEFINE gone == passed \union {last}
             it == [a \in Addresses |->
                      CASE a = last -> "leaving"
                        [] a \in todo \ gone -> "todo"
                        [] a \in passed \/ (a \notin todo /\ item[c][a] # "none") -> "left"
                        [] OTHER -> "none"]
  <2>1. /\ subs' = Without(s, gone) /\ phase' = [phase EXCEPT ![c] = "unsubscribing"]
        /\ item' = [item EXCEPT ![c] = it] /\ subs[last] = {s}
        /\ \A a \in passed : subs[a] # {s}
    BY <1>2 DEF LoopAwaits
  <2>2. last \notin passed BY <2>1
  <2>3. \A a \in Addresses :
           /\ it[a] \in {"none"} \union UnsubscribeItems
           /\ it[a] # "none" => a \in todo \/ item[c][a] # "none"
           /\ a \in todo \ gone => it[a] = "todo"
    BY <2>2 DEF UnsubscribeItems
  <2> HIDE DEF it
  <2>4. /\ item'[c] = it /\ phase'[c] = "unsubscribing"
        /\ \A d \in Calls : d # c => item'[d] = item[d] /\ phase'[d] = phase[d]
    BY <2>1 DEF TypeOK
  <2>5. \A a \in Addresses : subs'[a] = IF a \in gone THEN subs[a] \ {s} ELSE subs[a]
    BY <2>1 DEF Without
  <2> QED BY <2>3, <2>4, <2>5
<1> QED BY <1>1, <1>2 DEF Leave

(* Leaving does not touch what a client that awaits its answers believes,   *)
(* nor what its other calls are about.                                      *)
LEMMA LeaveBelieves ==
    ASSUME TypeOK, Believing,
           NEW c \in Calls, NEW s \in Sockets, NEW todo \in SUBSET Addresses, Leave(c, s, todo),
           UNCHANGED <<status, behind>>,
           caller'[c] = s, \A d \in Calls : d # c => caller'[d] = caller[d],
           \A t \in Sockets : believed'[t] \subseteq believed[t],
           s \in Patient => \A a \in Addresses : a \in todo \/ item[c][a] # "none" =>
              /\ a \notin believed'[s]
              /\ \A d \in Calls : d # c /\ Pending(d) /\ caller[d] = s => item[d][a] = "none"
    PROVE  Believing'
<1> USE DEF Believing
<1>1. /\ \A d \in Calls : d # c => item'[d] = item[d] /\ phase'[d] = phase[d]
      /\ \A a \in Addresses : /\ subs[a] \ {s} \subseteq subs'[a]
                              /\ a \notin todo => subs'[a] = subs[a]
      /\ \/ phase'[c] = "answered"
         \/ /\ phase'[c] = "unsubscribing"
            /\ \A a \in Addresses : item'[c][a] # "none" => a \in todo \/ item[c][a] # "none"
  BY LeaveIs
<1>2. \A d \in Calls : d # c => (Pending(d)' <=> Pending(d)) BY <1>1 DEF Pending
<1>3. \A t \in Patient : t \in Sockets /\ believed[t] \subseteq Addresses BY HubAssumption DEF TypeOK
<1>4. Exclusive'
  <2>1. \A d \in Calls, a \in Addresses : d # c /\ Pending(c)' /\ Pending(d)' /\ caller'[d] = s
           /\ s \in Patient => item'[c][a] = "none" \/ item'[d][a] = "none"
    BY <1>1, <1>2 DEF Pending
  <2> QED BY <1>1, <1>2, <2>1 DEF Exclusive
<1>5. HopefulIsIn'
  <2> SUFFICES ASSUME NEW d \in Calls, NEW a \in Addresses,
                      phase'[d] = "subscribing", caller'[d] \in Patient,
                      status'[caller'[d]] # "closed", item'[d][a] \in Hopeful
               PROVE  caller'[d] \in subs'[a]
    BY DEF HopefulIsIn
  <2>1. d # c /\ Pending(d) /\ item[d][a] # "none" BY <1>1 DEF Pending, Hopeful
  <2>2. caller[d] \in subs[a] /\ caller'[d] = caller[d] BY <1>1, <2>1 DEF HopefulIsIn
  <2>3. caller[d] = s => a \notin todo BY <2>1, <2>2
  <2> QED BY <1>1, <2>2, <2>3
<1>6. LeavingIsNotBelieved'
  <2>1. \A d \in Calls : d # c => caller'[d] = caller[d] OBVIOUS
  <2>2. \A a \in Addresses : phase'[c] = "unsubscribing" /\ s \in Patient /\ item'[c][a] # "none" =>
           a \notin believed'[s]
    BY <1>1
  <2>3. \A d \in Calls, a \in Addresses : d # c /\ phase'[d] = "unsubscribing"
           /\ caller'[d] \in Patient /\ item'[d][a] # "none" => a \notin believed'[caller'[d]]
    BY <1>1, <1>3 DEF LeavingIsNotBelieved
  <2> QED BY <2>2, <2>3 DEF LeavingIsNotBelieved
<1>7. UnchangedIsCurrent' BY <1>1 DEF UnchangedIsCurrent
<1>8. BelievedIsSubscribed'
  <2> SUFFICES ASSUME NEW t \in Patient, NEW a \in believed'[t] PROVE t \in subs'[a]
    BY DEF BelievedIsSubscribed, BelievesTruly
  <2>1. a \in believed[t] /\ a \in Addresses /\ t \in subs[a]
    BY <1>3 DEF BelievedIsSubscribed, BelievesTruly
  <2>2. t = s => a \notin todo BY <2>1
  <2> QED BY <1>1, <2>1, <2>2
<1>9. NeverSilentlyBehind' BY <1>3 DEF NeverSilentlyBehind
<1> QED BY <1>4, <1>5, <1>6, <1>7, <1>8, <1>9

(* The synchronous part of a subscribe call adds its socket to entries of   *)
(* the addresses it names, and to nothing else.                             *)
LEMMA SubscribeCallIs ==
    ASSUME TypeOK, NEW c \in Calls, NEW s \in Sockets, NEW addrs \in Requests,
           SubscribeCall(c, s, addrs)
    PROVE  /\ caller'[c] = s /\ \A d \in Calls : d # c => caller'[d] = caller[d]
           /\ \A a \in Addresses : subs[a] \subseteq subs'[a]
           /\ \A a \in Addresses : subs'[a] \subseteq subs[a] \union {s}
           /\ \A a \in Addresses : a \notin addrs => subs'[a] = subs[a]
           /\ wants'[s] = wants[s] \union addrs /\ \A t \in Sockets : t # s => wants'[t] = wants[t]
           /\ wants[s] \union addrs \in SUBSET Addresses
<1> DEFINE known == {a \in addrs : IsSupported(a)}
<1>1. addrs \subseteq Addresses BY DEF Requests
<1>2. subs' = [a \in Addresses |-> IF a \in known THEN subs[a] \union {s} ELSE subs[a]]
  BY DEF SubscribeCall
<1>3. caller' = [caller EXCEPT ![c] = s] /\ wants' = [wants EXCEPT ![s] = @ \union addrs]
  BY DEF SubscribeCall
<1>4. /\ \A a \in Addresses : subs[a] \subseteq subs'[a]
      /\ \A a \in Addresses : subs'[a] \subseteq subs[a] \union {s}
      /\ \A a \in Addresses : a \notin addrs => subs'[a] = subs[a]
  BY <1>2
<1> QED BY <1>1, <1>3, <1>4 DEF TypeOK

(* What a new subscribe call starts with: a result or a plugin call for     *)
(* each address it names, none of them a finished scan, and an entry with   *)
(* the socket for each that may end in a reply the client believes.         *)
LEMMA SubscribeCallStarts ==
    ASSUME TypeOK, NEW c \in Calls, NEW s \in Sockets, NEW addrs \in Requests,
           SubscribeCall(c, s, addrs)
    PROVE  \E it \in [Addresses -> Items] :
              /\ Progress(c, s, it, wants[s] \union addrs)
              /\ \A a \in Addresses :
                    /\ it[a] \in {"none"} \union SubscribeItems
                    /\ it[a] # "unchanged"
                    /\ it[a] # "none" => a \in addrs
                    /\ it[a] \in Hopeful => s \in subs'[a]
<1> DEFINE known == {a \in addrs : IsSupported(a)}
           fresh == Fresh(known)
           it(refused) == [a \in Addresses |->
                     CASE a \notin addrs -> "none"
                       [] a \in addrs \ known -> "unsupported"
                       [] a \in known \ fresh -> AfterSubscribe(a)
                       [] a \in refused -> "refused"
                       [] OTHER -> "subscribing"]
<1>1. addrs \subseteq Addresses BY DEF Requests
<1>2. PICK refused \in SUBSET {a \in fresh : PluginOf[a] \in Failing} :
        Progress(c, s, it(refused), wants[s] \union addrs)
  BY DEF SubscribeCall
<1>3. subs' = [a \in Addresses |-> IF a \in known THEN subs[a] \union {s} ELSE subs[a]]
  BY DEF SubscribeCall
<1>4. fresh \subseteq known /\ known \subseteq addrs /\ refused \subseteq fresh BY DEF Fresh
<1> DEFINE first == it(refused)
<1>5. \A a \in Addresses :
         /\ first[a] \in {"none"} \union SubscribeItems
         /\ first[a] # "unchanged"
         /\ first[a] # "none" => a \in addrs
         /\ first[a] \in Hopeful => a \in known
  <2> HIDE DEF fresh, known
  <2>1. \A a \in Addresses : AfterSubscribe(a) \in {"scanning", "changed"} BY DEF AfterSubscribe
  <2>2. \A a \in Addresses : /\ a \notin addrs => first[a] = "none"
                             /\ a \in addrs \ known => first[a] = "unsupported"
                             /\ a \in known \ fresh => first[a] = AfterSubscribe(a)
                             /\ a \in refused => first[a] = "refused"
                             /\ a \in fresh \ refused => first[a] = "subscribing"
    BY <1>4
  <2> HIDE DEF first
  <2> QED BY <1>4, <2>1, <2>2 DEF Hopeful, SubscribeItems, SubscribeResults
<1>6. first \in [Addresses -> Items]
  <2>1. first = [a \in Addresses |-> first[a]] OBVIOUS
  <2> HIDE DEF first
  <2> QED BY <1>5, <2>1 DEF Items
<1>7. Progress(c, s, first, wants[s] \union addrs) BY <1>2
<1> HIDE DEF first
<1>8. \A a \in known : s \in subs'[a] BY <1>1, <1>3
<1> HIDE DEF known, fresh
<1> QED BY <1>5, <1>6, <1>7, <1>8

(* The four ways in which an address of a subscribe call moves on.          *)
LEMMA SettleMoves ==
    ASSUME NEW c, NEW a,
           \/ SubscribeTrue(c, a) \/ SubscribeFalse(c, a)
           \/ ScanChanged(c, a) \/ ScanUnchanged(c, a)
    PROVE  \E from \in SubscribeItems, to \in SubscribeItems :
              /\ Step(c, a, from, to)
              /\ to \in Hopeful => from \in Hopeful
              /\ to = "unchanged" => a \notin behind[caller[c]]
<1>1. /\ {"subscribing", "refused", "failed", "scanning", "changed", "unchanged"}
            \subseteq SubscribeItems
      /\ AfterSubscribe(a) \in SubscribeItems /\ AfterSubscribe(a) # "unchanged"
      /\ {"subscribing", "scanning"} \subseteq Hopeful /\ "failed" \notin Hopeful
  BY DEF SubscribeItems, SubscribeResults, AfterSubscribe, Hopeful
<1>2. CASE SubscribeTrue(c, a) BY <1>1, <1>2 DEF SubscribeTrue
<1>3. CASE SubscribeFalse(c, a) BY <1>1, <1>3 DEF SubscribeFalse
<1>4. CASE ScanChanged(c, a) BY <1>1, <1>4 DEF ScanChanged
<1>5. CASE ScanUnchanged(c, a) BY <1>1, <1>5 DEF ScanUnchanged
<1> QED BY <1>2, <1>3, <1>4, <1>5

LEMMA ProgressProtocol ==
    ASSUME TypeOK, Protocol,
           NEW c \in Calls, NEW s \in Sockets, NEW it \in [Addresses -> Items],
           NEW asked \in SUBSET Addresses, Progress(c, s, it, asked),
           \A a \in Addresses : it[a] \in {"none"} \union SubscribeItems
    PROVE  Protocol'
<1>1. /\ \A d \in Calls : d # c => item'[d] = item[d] /\ phase'[d] = phase[d]
      /\ Done(it) => phase'[c] = "answered" /\ item'[c] = NoItems
      /\ ~Done(it) => phase'[c] = "subscribing" /\ item'[c] = it
  BY ProgressIs
<1>2. \A a \in Addresses : NoItems[a] = "none" BY DEF NoItems
<1> QED BY <1>1, <1>2 DEF Protocol

LEMMA LeaveProtocol ==
    ASSUME TypeOK, Protocol, NEW c \in Calls, NEW s \in Sockets, NEW todo \in SUBSET Addresses,
           Leave(c, s, todo)
    PROVE  Protocol'
<1>1. \A a \in Addresses : NoItems[a] = "none" BY DEF NoItems
<1>2. /\ \A d \in Calls : d # c => item'[d] = item[d] /\ phase'[d] = phase[d]
      /\ \/ phase'[c] = "answered" /\ item'[c] = NoItems
         \/ /\ phase'[c] = "unsubscribing"
            /\ \A a \in Addresses : item'[c][a] \in {"none"} \union UnsubscribeItems
  BY LeaveIs
<1> QED BY <1>1, <1>2 DEF Protocol

LEMMA ProtocolNext ==
    ASSUME TypeOK, Callers, Protocol, [Next]_vars
    PROVE  Protocol'
<1>1. ASSUME UNCHANGED <<phase, item>> PROVE Protocol' BY <1>1 DEF Protocol
<1>2. ASSUME NEW c \in Calls, NEW s \in Sockets, NEW addrs \in Requests, SubscribeCall(c, s, addrs)
      PROVE  Protocol'
  <2>1. PICK it \in [Addresses -> Items] :
          /\ Progress(c, s, it, wants[s] \union addrs)
          /\ \A a \in Addresses : it[a] \in {"none"} \union SubscribeItems
    BY <1>2, SubscribeCallStarts
  <2>2. wants[s] \union addrs \in SUBSET Addresses BY <1>2, SubscribeCallIs
  <2> QED BY <2>1, <2>2, ProgressProtocol
<1>3. ASSUME NEW c \in Calls, NEW s \in Sockets, NEW addrs \in Requests, UnsubscribeCall(c, s, addrs)
      PROVE  Protocol'
  BY <1>3, LeaveProtocol DEF UnsubscribeCall, Requests
<1>4. ASSUME NEW c \in Calls, NEW a \in Addresses,
             \/ SubscribeTrue(c, a) \/ SubscribeFalse(c, a)
             \/ ScanChanged(c, a) \/ ScanUnchanged(c, a)
      PROVE  Protocol'
  <2>1. PICK from \in SubscribeItems, to \in SubscribeItems : Step(c, a, from, to)
    BY <1>4, SettleMoves
  <2> DEFINE it == [item[c] EXCEPT ![a] = to]
  <2>2. phase[c] = "subscribing" /\ Progress(c, caller[c], it, wants[caller[c]])
    BY <2>1 DEF Step
  <2>3. caller[c] \in Sockets BY <2>2 DEF Callers, Pending
  <2>4. it \in [Addresses -> Items] BY DEF TypeOK, Items
  <2>5. \A b \in Addresses : it[b] \in {"none"} \union SubscribeItems
    BY <2>2 DEF Protocol, TypeOK
  <2>6. wants[caller[c]] \in SUBSET Addresses BY <2>3 DEF TypeOK
  <2> HIDE DEF it
  <2> QED BY <2>2, <2>3, <2>4, <2>5, <2>6, ProgressProtocol
<1>5. ASSUME NEW c \in Calls, NEW a \in Addresses, SubscribeThrow(c, a) PROVE Protocol'
  BY <1>5 DEF SubscribeThrow, Protocol, TypeOK, NoItems
<1>6. ASSUME NEW c \in Calls, LeaveSettles(c) PROVE Protocol'
  BY <1>6, LeaveProtocol DEF LeaveSettles, Rest, Callers, Pending
<1>7. ASSUME NEW c \in Calls, LeaveThrows(c) PROVE Protocol'
  BY <1>7 DEF LeaveThrows, Protocol, TypeOK
<1> QED
  BY <1>1, <1>2, <1>3, <1>4, <1>5, <1>6, <1>7
  DEF Next, Request, Settle, Connect, Close, Activity, SubLost, callVars, vars

LEMMA ProtocolInit == Init => Protocol
BY DEF Init, Protocol

----------------------------------------------------------------------------
(* What the clients gave up *)

LEMMA UnwantedNext ==
    ASSUME TypeOK, Callers, Protocol, NothingUnwanted, [Next]_vars
    PROVE  NothingUnwanted'
<1> USE DEF NothingUnwanted
<1>1. ASSUME \A a \in Addresses : subs'[a] \subseteq subs[a], UNCHANGED <<caller, wants>>,
             \A c \in Calls, a \in Addresses : item[c][a] = "todo" => item'[c][a] = "todo"
      PROVE  NothingUnwanted'
  BY <1>1
<1>2. ASSUME NEW s \in Sockets, Close(s) PROVE NothingUnwanted'
  <2>1. \A a \in Addresses : subs'[a] = subs[a] \ {s} BY <1>2 DEF Close, Remaining
  <2>2. \A t \in Sockets : t # s => wants'[t] = wants[t] BY <1>2 DEF Close, TypeOK
  <2>3. UNCHANGED <<caller, item>> BY <1>2 DEF Close, callVars
  <2>4. \A a \in Addresses : subs[a] \subseteq Sockets BY DEF TypeOK
  <2> QED BY <2>1, <2>2, <2>3, <2>4
<1>3. ASSUME NEW c \in Calls, NEW s \in Sockets, NEW addrs \in Requests, SubscribeCall(c, s, addrs)
      PROVE  NothingUnwanted'
  <2>0. /\ caller'[c] = s /\ \A d \in Calls : d # c => caller'[d] = caller[d]
        /\ \A a \in Addresses : subs'[a] \subseteq subs[a] \union {s}
        /\ \A a \in Addresses : a \notin addrs => subs'[a] = subs[a]
        /\ wants'[s] = wants[s] \union addrs /\ \A t \in Sockets : t # s => wants'[t] = wants[t]
        /\ wants[s] \union addrs \in SUBSET Addresses
    BY <1>3, SubscribeCallIs
  <2>1. PICK it \in [Addresses -> Items] : Progress(c, s, it, wants[s] \union addrs)
    BY <1>3, SubscribeCallStarts
  <2>2. \A d \in Calls : d # c => item'[d] = item[d] BY <2>0, <2>1, ProgressIs
  <2>3. \A d \in Calls : d # c => item'[d] = item[d] /\ caller'[d] = caller[d]
    BY <2>0, <2>2
  <2>4. \A a \in Addresses : item[c][a] # "todo" BY <1>3 DEF SubscribeCall, Protocol
  <2>5. \A a \in Addresses : subs[a] \subseteq Sockets BY DEF TypeOK
  <2> SUFFICES ASSUME NEW a \in Addresses, NEW t \in subs'[a], a \notin wants'[t]
               PROVE  \E d \in Calls : caller'[d] = t /\ item'[d][a] = "todo"
    OBVIOUS
  <2>6. t \in subs[a] \union {s} /\ t \in Sockets BY <2>0, <2>5
  <2>7. a \notin wants[t] /\ (t = s => a \notin addrs) BY <2>0, <2>6
  <2>8. t \in subs[a] BY <2>0, <2>6, <2>7
  <2>9. PICK d \in Calls : caller[d] = t /\ item[d][a] = "todo" BY <2>7, <2>8
  <2> QED BY <2>3, <2>4, <2>9
<1>4. ASSUME NEW c \in Calls, NEW s \in Sockets, NEW addrs \in Requests, UnsubscribeCall(c, s, addrs)
      PROVE  NothingUnwanted'
  <2>1. addrs \in SUBSET Addresses /\ Leave(c, s, addrs) BY <1>4 DEF UnsubscribeCall, Requests
  <2>2. caller'[c] = s /\ \A d \in Calls : d # c => caller'[d] = caller[d] /\ item'[d] = item[d]
    BY <1>4, <2>1, LeaveIs DEF UnsubscribeCall, TypeOK
  <2>3. \A a \in Addresses : item[c][a] # "todo" BY <1>4 DEF UnsubscribeCall, Protocol
  <2>4. \A t \in Sockets : wants'[t] = IF t = s THEN wants[s] \ addrs ELSE wants[t]
    BY <1>4 DEF UnsubscribeCall, TypeOK
  <2>5. /\ \A a \in Addresses : subs'[a] \subseteq subs[a] /\ subs[a] \subseteq Sockets
        /\ \A a \in addrs : s \in subs'[a] => item'[c][a] = "todo"
    BY <2>1, LeaveIs DEF TypeOK
  <2> SUFFICES ASSUME NEW a \in Addresses, NEW t \in subs'[a], a \notin wants'[t]
               PROVE  \E d \in Calls : caller'[d] = t /\ item'[d][a] = "todo"
    OBVIOUS
  <2>6. t \in Sockets /\ t \in subs[a] BY <2>5
  <2>7. CASE a \in wants[t] BY <2>2, <2>4, <2>5, <2>6, <2>7
  <2>8. CASE a \notin wants[t]
    <3>1. PICK d \in Calls : caller[d] = t /\ item[d][a] = "todo" BY <2>6, <2>8
    <3> QED BY <2>2, <2>3, <3>1
  <2> QED BY <2>7, <2>8
<1>5. ASSUME NEW c \in Calls, LeaveSettles(c) PROVE NothingUnwanted'
  <2>1. caller[c] \in Sockets /\ Rest(c) \in SUBSET Addresses /\ Leave(c, caller[c], Rest(c))
    BY <1>5 DEF LeaveSettles, Callers, Pending, Rest
  <2>2. UNCHANGED <<caller, wants>> BY <1>5 DEF LeaveSettles, clientVars
  <2>3. /\ \A d \in Calls : d # c => item'[d] = item[d]
        /\ \A a \in Addresses : subs'[a] \subseteq subs[a]
        /\ \A a \in Rest(c) : caller[c] \in subs'[a] => item'[c][a] = "todo"
    BY <2>1, LeaveIs
  <2> SUFFICES ASSUME NEW a \in Addresses, NEW t \in subs'[a], a \notin wants[t]
               PROVE  \E d \in Calls : caller[d] = t /\ item'[d][a] = "todo"
    BY <2>2
  <2>4. PICK d \in Calls : caller[d] = t /\ item[d][a] = "todo" BY <2>3
  <2> QED BY <2>3, <2>4 DEF Rest
<1>6. ASSUME NEW c \in Calls, NEW a \in Addresses,
             \/ SubscribeTrue(c, a) \/ SubscribeFalse(c, a)
             \/ ScanChanged(c, a) \/ ScanUnchanged(c, a)
      PROVE  NothingUnwanted'
  <2>1. PICK from \in SubscribeItems, to \in SubscribeItems : Step(c, a, from, to)
    BY <1>6, SettleMoves
  <2>2. /\ phase[c] = "subscribing" /\ UNCHANGED <<subs, caller, wants>>
        /\ \A d \in Calls : d # c => item'[d] = item[d]
    BY <2>1 DEF Step, hubVars, Progress, TypeOK
  <2>3. \A b \in Addresses : item[c][b] # "todo"
    BY <2>2 DEF Protocol, SubscribeItems, SubscribeResults
  <2> QED BY <1>1, <2>2, <2>3
<1>7. ASSUME NEW c \in Calls, NEW a \in Addresses, SubscribeThrow(c, a) PROVE NothingUnwanted'
  <2>1. /\ phase[c] = "subscribing" /\ UNCHANGED <<subs, caller, wants>>
        /\ \A d \in Calls : d # c => item'[d] = item[d]
    BY <1>7 DEF SubscribeThrow, hubVars, clientVars, TypeOK
  <2>2. \A b \in Addresses : item[c][b] # "todo"
    BY <2>1 DEF Protocol, SubscribeItems, SubscribeResults
  <2> QED BY <1>1, <2>1, <2>2
<1>8. ASSUME NEW c \in Calls, LeaveThrows(c) PROVE NothingUnwanted'
  BY <1>1, <1>8 DEF LeaveThrows, hubVars, clientVars, TypeOK
<1>9. ASSUME NEW p \in Plugins, NEW lost \in SUBSET Addresses, SubLost(p, lost)
      PROVE  NothingUnwanted'
  BY <1>1, <1>9 DEF SubLost, callVars
<1>10. ASSUME UNCHANGED <<subs, caller, wants, item>> PROVE NothingUnwanted'
  BY <1>1, <1>10
<1> QED
  BY <1>2, <1>3, <1>4, <1>5, <1>6, <1>7, <1>8, <1>9, <1>10
  DEF Next, Request, Settle, Connect, Activity, hubVars, callVars, clientVars, vars, TypeOK

(* A client that unsubscribes or goes away leaves no entry behind, except   *)
(* what an unsubscribe call has still to do or left when it was rejected,   *)
(* however many calls of it are in progress at once.                        *)
THEOREM GivenUpIsLeft == Spec => []NothingUnwanted
<1>1. Init => NothingUnwanted BY DEF Init, NothingUnwanted
<1>2. Init => TypeOK /\ Callers /\ Protocol /\ NothingUnwanted
  BY <1>1, TypeInit, ProtocolInit
<1>3. TypeOK /\ Callers /\ Protocol /\ NothingUnwanted /\ [Next]_vars =>
        (TypeOK /\ Callers /\ Protocol /\ NothingUnwanted)'
  BY TypeNext, ProtocolNext, UnwantedNext
<1> QED BY <1>2, <1>3, PTL DEF Spec

----------------------------------------------------------------------------
(* What the clients believe *)

LEMMA BelievingInit == Init => Believing
BY HubAssumption DEF Init, Believing, Exclusive, HopefulIsIn, LeavingIsNotBelieved,
   UnchangedIsCurrent, BelievedIsSubscribed, BelievesTruly, NeverSilentlyBehind, Pending

(* The sockets that await their answers are sockets.                        *)
LEMMA PatientTypes ==
    ASSUME TypeOK
    PROVE  \A t \in Patient : /\ t \in Sockets
                              /\ believed[t] \subseteq Addresses
                              /\ behind[t] \subseteq Addresses
BY HubAssumption DEF TypeOK

LEMMA SubscribeBelieves ==
    ASSUME TypeOK, Protocol, Believing,
           NEW c \in Calls, NEW s \in Sockets, NEW addrs \in Requests, SubscribeCall(c, s, addrs)
    PROVE  Believing'
<1>1. PICK it \in [Addresses -> Items] :
        /\ Progress(c, s, it, wants[s] \union addrs)
        /\ \A a \in Addresses : /\ it[a] \in {"none"} \union SubscribeItems
                                /\ it[a] # "unchanged"
                                /\ it[a] # "none" => a \in addrs
                                /\ it[a] \in Hopeful => s \in subs'[a]
  BY SubscribeCallStarts
<1>2. /\ caller'[c] = s /\ \A d \in Calls : d # c => caller'[d] = caller[d]
      /\ \A a \in Addresses : subs[a] \subseteq subs'[a]
      /\ wants[s] \union addrs \in SUBSET Addresses
  BY SubscribeCallIs
<1>3. UNCHANGED status /\ (s \in Patient => ~Busy(addrs, s)) BY DEF SubscribeCall
<1>4. ASSUME s \in Patient, NEW a \in Addresses
      PROVE  /\ status[s] # "closed" /\ it[a] \in Hopeful => s \in subs'[a]
             /\ status[s] # "closed" /\ it[a] = "unchanged" /\ PluginOf[a] \notin Failing =>
                   a \notin behind[s]
             /\ \A d \in Calls : d # c /\ Pending(d) /\ caller[d] = s =>
                   it[a] = "none" \/ item[d][a] = "none"
  BY <1>1, <1>3, <1>4 DEF Busy
<1> QED BY <1>1, <1>2, <1>3, <1>4, ProgressBelieves

LEMMA SettleBelieves ==
    ASSUME TypeOK, Callers, Protocol, Believing, NEW c \in Calls, NEW a \in Addresses,
           \/ SubscribeTrue(c, a) \/ SubscribeFalse(c, a)
           \/ ScanChanged(c, a) \/ ScanUnchanged(c, a)
    PROVE  Believing'
<1>1. PICK from \in SubscribeItems, to \in SubscribeItems :
        /\ Step(c, a, from, to)
        /\ to \in Hopeful => from \in Hopeful
        /\ to = "unchanged" => a \notin behind[caller[c]]
  BY SettleMoves
<1> DEFINE s == caller[c]
           it == [item[c] EXCEPT ![a] = to]
<1>2. /\ phase[c] = "subscribing" /\ item[c][a] = from
      /\ Progress(c, s, it, wants[s])
      /\ UNCHANGED <<status, subs, caller>>
  BY <1>1 DEF Step, hubVars
<1>3. s \in Sockets /\ Pending(c) BY <1>2 DEF Callers, Pending
<1>4. it \in [Addresses -> Items] BY DEF TypeOK, Items
<1>5. wants[s] \in SUBSET Addresses BY <1>3 DEF TypeOK
<1>6. \A b \in Addresses : /\ it[b] \in Hopeful => item[c][b] \in Hopeful
                           /\ it[b] # "none" => item[c][b] # "none"
                           /\ it[b] = "unchanged" => item[c][b] = "unchanged" \/ b \notin behind[s]
  <2>1. "none" \notin SubscribeItems BY DEF SubscribeItems, SubscribeResults
  <2> QED BY <1>1, <1>2, <2>1 DEF TypeOK
<1> HIDE DEF it
<1>7. ASSUME s \in Patient, NEW b \in Addresses
      PROVE  /\ status[s] # "closed" /\ it[b] \in Hopeful => s \in subs'[b]
             /\ status[s] # "closed" /\ it[b] = "unchanged" /\ PluginOf[b] \notin Failing =>
                   b \notin behind[s]
             /\ \A d \in Calls : d # c /\ Pending(d) /\ caller[d] = s =>
                   it[b] = "none" \/ item[d][b] = "none"
  <2>1. status[s] # "closed" /\ it[b] \in Hopeful => s \in subs'[b]
    BY <1>2, <1>6, <1>7 DEF Believing, HopefulIsIn
  <2>2. status[s] # "closed" /\ it[b] = "unchanged" /\ PluginOf[b] \notin Failing =>
           b \notin behind[s]
    BY <1>2, <1>6, <1>7 DEF Believing, UnchangedIsCurrent
  <2>3. \A d \in Calls : d # c /\ Pending(d) /\ caller[d] = s => it[b] = "none" \/ item[d][b] = "none"
    BY <1>3, <1>6, <1>7 DEF Believing, Exclusive
  <2> QED BY <2>1, <2>2, <2>3
<1> HIDE DEF s
<1>8. caller'[c] = s /\ \A d \in Calls : d # c => caller'[d] = caller[d] BY <1>2 DEF s
<1>9. \A b \in Addresses : subs[b] \subseteq subs'[b] BY <1>2
<1> QED BY <1>2, <1>3, <1>4, <1>5, <1>7, <1>8, <1>9, ProgressBelieves

LEMMA UnsubscribeBelieves ==
    ASSUME TypeOK, Protocol, Believing,
           NEW c \in Calls, NEW s \in Sockets, NEW addrs \in Requests, UnsubscribeCall(c, s, addrs)
    PROVE  Believing'
<1>1. /\ addrs \in SUBSET Addresses /\ Leave(c, s, addrs) /\ UNCHANGED <<status, behind>>
      /\ s \in Patient => ~Busy(addrs, s)
  BY DEF UnsubscribeCall, Requests
<1>2. caller'[c] = s /\ \A d \in Calls : d # c => caller'[d] = caller[d]
  BY DEF UnsubscribeCall, TypeOK
<1>3. believed'[s] = believed[s] \ addrs /\ \A t \in Sockets : believed'[t] \subseteq believed[t]
  BY DEF UnsubscribeCall, TypeOK
<1>4. \A a \in Addresses : item[c][a] = "none" BY DEF UnsubscribeCall, Protocol
<1>5. ASSUME s \in Patient, NEW a \in Addresses, a \in addrs \/ item[c][a] # "none"
      PROVE  /\ a \notin believed'[s]
             /\ \A d \in Calls : d # c /\ Pending(d) /\ caller[d] = s => item[d][a] = "none"
  BY <1>1, <1>3, <1>4, <1>5 DEF Busy
<1> QED BY <1>1, <1>2, <1>3, <1>5, LeaveBelieves

LEMMA LeaveSettlesBelieves ==
    ASSUME TypeOK, Callers, Believing, NEW c \in Calls, LeaveSettles(c)
    PROVE  Believing'
<1> DEFINE s == caller[c]
<1>1. /\ phase[c] = "unsubscribing" /\ Leave(c, s, Rest(c))
      /\ UNCHANGED <<status, behind, caller, believed>>
  BY DEF LeaveSettles, clientVars
<1>2. s \in Sockets /\ Pending(c) BY <1>1 DEF Callers, Pending
<1>3. Rest(c) \in SUBSET Addresses /\ \A a \in Rest(c) : item[c][a] # "none" BY DEF Rest
<1>4. ASSUME s \in Patient, NEW a \in Addresses, a \in Rest(c) \/ item[c][a] # "none"
      PROVE  /\ a \notin believed'[s]
             /\ \A d \in Calls : d # c /\ Pending(d) /\ caller[d] = s => item[d][a] = "none"
  <2>1. item[c][a] # "none" BY <1>3, <1>4
  <2>2. a \notin believed'[s] BY <1>1, <1>4, <2>1 DEF Believing, LeavingIsNotBelieved
  <2>3. \A d \in Calls : d # c /\ Pending(d) /\ caller[d] = s => item[d][a] = "none"
    BY <1>2, <1>4, <2>1 DEF Believing, Exclusive
  <2> QED BY <2>2, <2>3
<1> HIDE DEF s
<1>5. caller'[c] = s /\ \A d \in Calls : d # c => caller'[d] = caller[d] BY <1>1 DEF s
<1>6. \A t \in Sockets : believed'[t] \subseteq believed[t] BY <1>1
<1> QED BY <1>1, <1>2, <1>3, <1>4, <1>5, <1>6, LeaveBelieves

(* A call that is rejected takes its addresses with it.                     *)
LEMMA ThrowBelieves ==
    ASSUME TypeOK, Believing, NEW c \in Calls,
           \A d \in Calls : d # c => phase'[d] = phase[d] /\ item'[d] = item[d],
           phase'[c] = "rejected",
           UNCHANGED <<status, subs, caller, believed, behind>>
    PROVE  Believing'
<1> USE DEF Believing
<1>1. ~Pending(c)' /\ \A d \in Calls : d # c => (Pending(d)' <=> Pending(d)) BY DEF Pending
<1>2. Exclusive' BY <1>1 DEF Exclusive
<1>3. HopefulIsIn' BY DEF HopefulIsIn
<1>4. LeavingIsNotBelieved' BY DEF LeavingIsNotBelieved
<1>5. UnchangedIsCurrent' BY DEF UnchangedIsCurrent
<1>6. BelievedIsSubscribed' /\ NeverSilentlyBehind'
  BY DEF BelievedIsSubscribed, BelievesTruly, NeverSilentlyBehind
<1> QED BY <1>2, <1>3, <1>4, <1>5, <1>6

LEMMA CloseBelieves ==
    ASSUME TypeOK, Believing, NEW s \in Sockets, Close(s)
    PROVE  Believing'
<1> USE DEF Believing
<1>1. /\ status'[s] = "closed" /\ \A t \in Sockets : t # s => status'[t] = status[t]
      /\ believed'[s] = {} /\ \A t \in Sockets : t # s => believed'[t] = believed[t]
      /\ behind'[s] = {} /\ \A t \in Sockets : t # s => behind'[t] = behind[t]
      /\ UNCHANGED <<phase, caller, item>>
  BY DEF Close, TypeOK, callVars
<1>2. \A a \in Addresses : subs'[a] = subs[a] \ {s} BY DEF Close, Remaining
<1>3. \A t \in Patient : t \in Sockets /\ believed[t] \subseteq Addresses BY PatientTypes
<1>4. Exclusive' BY <1>1 DEF Exclusive, Pending
<1>5. HopefulIsIn' BY <1>1, <1>2, <1>3 DEF HopefulIsIn
<1>6. LeavingIsNotBelieved' BY <1>1, <1>3 DEF LeavingIsNotBelieved
<1>7. UnchangedIsCurrent' BY <1>1, <1>3 DEF UnchangedIsCurrent
<1>8. BelievedIsSubscribed' BY <1>1, <1>2, <1>3 DEF BelievedIsSubscribed, BelievesTruly
<1>9. NeverSilentlyBehind' BY <1>1, <1>3 DEF NeverSilentlyBehind
<1> QED BY <1>4, <1>5, <1>6, <1>7, <1>8, <1>9

(* Activity of an address reaches every open socket in its entry when its   *)
(* plugin does not fail: the plugin watches what has an entry.              *)
LEMMA ActivityBelieves ==
    ASSUME IInv, Believing, NEW x \in Addresses, Activity(x)
    PROVE  Believing'
<1> USE DEF Believing
<1>1. /\ behind' = [s \in Sockets |-> IF s \in (IF x \in watched THEN subs[x] \intersect Open ELSE {})
                                      THEN behind[s] \ {x}
                                      ELSE IF s \in Open THEN behind[s] \union {x}
                                      ELSE behind[s]]
      /\ UNCHANGED <<status, subs, phase, caller, item, believed>>
  BY DEF Activity, hubVars, callVars
<1>2. \A t \in Patient : t \in Sockets BY PatientTypes DEF IInv
<1>3. ASSUME NEW t \in Sockets, NEW a \in Addresses, PluginOf[a] \notin Failing,
             t \in subs[a], a \notin behind[t]
      PROVE  a \notin behind'[t]
  <2>1. t \in Open /\ IsSupported(a) BY <1>3 DEF IInv, Tables, NoDanglingSocket, OnlySupported
  <2>2. a \in watched BY <1>3, <2>1 DEF IInv, Tables, HubPluginAgree, IsSupported
  <2> QED BY <1>1, <1>3, <2>1, <2>2
<1>4. Exclusive' BY <1>1 DEF Exclusive, Pending
<1>5. HopefulIsIn' BY <1>1 DEF HopefulIsIn
<1>6. LeavingIsNotBelieved' BY <1>1 DEF LeavingIsNotBelieved
<1>7. UnchangedIsCurrent'
  <2> SUFFICES ASSUME NEW c \in Calls, NEW a \in Addresses,
                      phase[c] = "subscribing", caller[c] \in Patient,
                      status[caller[c]] # "closed", item[c][a] = "unchanged",
                      PluginOf[a] \notin Failing
               PROVE  a \notin behind'[caller[c]]
    BY <1>1 DEF UnchangedIsCurrent
  <2>1. caller[c] \in subs[a] BY DEF HopefulIsIn, Hopeful
  <2>2. a \notin behind[caller[c]] BY DEF UnchangedIsCurrent
  <2> QED BY <1>2, <1>3, <2>1, <2>2
<1>8. BelievedIsSubscribed' BY <1>1 DEF BelievedIsSubscribed, BelievesTruly
<1>9. NeverSilentlyBehind'
  <2> SUFFICES ASSUME NEW t \in Patient, NEW a \in Addresses, PluginOf[a] \notin Failing,
                      a \in believed[t]
               PROVE  a \notin behind'[t]
    BY <1>1 DEF NeverSilentlyBehind
  <2>1. t \in subs[a] BY DEF BelievedIsSubscribed, BelievesTruly
  <2>2. a \notin behind[t] BY DEF NeverSilentlyBehind
  <2> QED BY <1>2, <1>3, <2>1, <2>2
<1> QED BY <1>4, <1>5, <1>6, <1>7, <1>8, <1>9

(* A client that is told of the loss stops believing.                       *)
LEMMA SubLostBelieves ==
    ASSUME IInv, Believing, Callers, NEW p \in Plugins, NEW lost \in SUBSET Addresses,
           SubLost(p, lost)
    PROVE  Believing'
<1> USE DEF Believing
<1>1. /\ \A s \in Patient : ~Busy(lost, s)
      /\ \A s \in Sockets : believed'[s] = believed[s] \ Told(s, lost)
      /\ \A a \in Addresses : subs'[a] = IF a \in lost THEN {} ELSE subs[a]
      /\ UNCHANGED <<status, phase, caller, item, behind>>
  BY DEF SubLost, callVars
<1>2. \A t \in Patient : t \in Sockets /\ believed[t] \subseteq Addresses
  BY PatientTypes DEF IInv
<1>3. Exclusive' BY <1>1 DEF Exclusive, Pending
<1>4. HopefulIsIn'
  <2> SUFFICES ASSUME NEW c \in Calls, NEW a \in Addresses,
                      phase[c] = "subscribing", caller[c] \in Patient,
                      status[caller[c]] # "closed", item[c][a] \in Hopeful
               PROVE  caller[c] \in subs'[a]
    BY <1>1 DEF HopefulIsIn
  <2>1. caller[c] \in subs[a] BY DEF HopefulIsIn
  <2>2. Pending(c) /\ item[c][a] # "none" BY DEF Pending, Hopeful
  <2>3. a \notin lost BY <1>1, <2>2 DEF Busy
  <2> QED BY <1>1, <2>1, <2>3
<1>5. LeavingIsNotBelieved' BY <1>1, <1>2 DEF LeavingIsNotBelieved
<1>6. UnchangedIsCurrent' BY <1>1 DEF UnchangedIsCurrent
<1>7. BelievedIsSubscribed'
  <2> SUFFICES ASSUME NEW t \in Patient, NEW a \in believed'[t] PROVE t \in subs'[a]
    BY DEF BelievedIsSubscribed, BelievesTruly
  <2>1. a \in believed[t] /\ a \notin Told(t, lost) /\ a \in Addresses BY <1>1, <1>2
  <2>2. t \in subs[a] BY <2>1 DEF BelievedIsSubscribed, BelievesTruly
  <2>3. t \in Open BY <2>1, <2>2 DEF IInv, Tables, NoDanglingSocket
  <2> QED BY <1>1, <2>1, <2>2, <2>3 DEF Told
<1>8. NeverSilentlyBehind' BY <1>1, <1>2 DEF NeverSilentlyBehind
<1> QED BY <1>3, <1>4, <1>5, <1>6, <1>7, <1>8

LEMMA ConnectBelieves ==
    ASSUME TypeOK, Believing, NEW s \in Sockets, Connect(s)
    PROVE  Believing'
<1> USE DEF Believing
<1>1. /\ \A t \in Sockets : status'[t] # "closed" <=> status[t] # "closed"
      /\ UNCHANGED <<subs, phase, caller, item, believed, behind>>
  BY DEF Connect, TypeOK, hubVars, callVars, clientVars
<1>2. \A t \in Patient : t \in Sockets BY PatientTypes
<1>3. Exclusive' /\ LeavingIsNotBelieved' BY <1>1 DEF Exclusive, LeavingIsNotBelieved, Pending
<1>4. HopefulIsIn' BY <1>1, <1>2 DEF HopefulIsIn
<1>5. UnchangedIsCurrent' BY <1>1, <1>2 DEF UnchangedIsCurrent
<1>6. BelievedIsSubscribed' /\ NeverSilentlyBehind'
  BY <1>1 DEF BelievedIsSubscribed, BelievesTruly, NeverSilentlyBehind
<1> QED BY <1>3, <1>4, <1>5, <1>6

LEMMA BelievingNext ==
    ASSUME IInv, Callers, Protocol, Believing, [Next]_vars
    PROVE  Believing'
<1>0. TypeOK BY DEF IInv
<1>1. ASSUME NEW c \in Calls, NEW a \in Addresses, SubscribeThrow(c, a) PROVE Believing'
  BY <1>0, <1>1, ThrowBelieves DEF SubscribeThrow, hubVars, clientVars, TypeOK
<1>2. ASSUME NEW c \in Calls, LeaveThrows(c) PROVE Believing'
  BY <1>0, <1>2, ThrowBelieves DEF LeaveThrows, hubVars, clientVars, TypeOK
<1>3. CASE UNCHANGED vars
  BY <1>3 DEF vars, Believing, Exclusive, HopefulIsIn, LeavingIsNotBelieved,
     UnchangedIsCurrent, BelievedIsSubscribed, BelievesTruly, NeverSilentlyBehind, Pending
<1>4. ASSUME NEW s \in Sockets, Connect(s) \/ Close(s) PROVE Believing'
  BY <1>0, <1>4, ConnectBelieves, CloseBelieves
<1>5. ASSUME NEW c \in Calls, Request(c) PROVE Believing'
  BY <1>0, <1>5, SubscribeBelieves, UnsubscribeBelieves DEF Request
<1>6. ASSUME NEW c \in Calls, Settle(c) PROVE Believing'
  BY <1>0, <1>1, <1>2, <1>6, SettleBelieves, LeaveSettlesBelieves DEF Settle
<1>7. ASSUME NEW a \in Active, Activity(a) PROVE Believing'
  BY <1>7, ActivityBelieves, HubAssumption
<1>8. ASSUME NEW p \in Plugins, NEW lost \in SUBSET {a \in watched : PluginOf[a] = p},
             SubLost(p, lost)
      PROVE  Believing'
  BY <1>0, <1>8, SubLostBelieves DEF TypeOK
<1> QED BY <1>3, <1>4, <1>5, <1>6, <1>7, <1>8 DEF Next

LEMMA Belief == Spec => []Believing
<1>1. Init => IInv /\ Callers /\ Protocol /\ Believing
  BY TypeInit, TablesInit, ProtocolInit, BelievingInit DEF IInv
<1>2. IInv /\ Callers /\ Protocol /\ Believing /\ [Next]_vars =>
        (IInv /\ Callers /\ Protocol /\ Believing)'
  BY TypeNext, TablesNext, ProtocolNext, BelievingNext DEF IInv
<1> QED BY <1>1, <1>2, PTL DEF Spec

(* What the hub told a client that awaits its answers stays true, whatever  *)
(* the other clients, the plugins and its own calls about other addresses   *)
(* do: it is in the entry of every address it believes to be subscribed to. *)
THEOREM BeliefIsTrue == Spec => []BelievedIsSubscribed
<1>1. Believing => BelievedIsSubscribed BY DEF Believing
<1> QED BY <1>1, Belief, PTL

(* Such a client learns of all activity of the addresses of plugins that do *)
(* not fail: by an update, a scan result of its reply, or a loss.           *)
THEOREM ActivityIsTold == Spec => []NeverSilentlyBehind
<1>1. Believing => NeverSilentlyBehind BY DEF Believing
<1> QED BY <1>1, Belief, PTL

----------------------------------------------------------------------------
(* The promise to the clients *)

(* What the clients that await their answers see of a variable.             *)
LEMMA OfPatientIs ==
    ASSUME NEW f, NEW t \in Patient
    PROVE  OfPatient(f)[t] = f[t] \intersect Reliable
BY DEF OfPatient

(* The promise does not see a step that leaves these sockets alone.         *)
Unseen == \A t \in Patient : /\ status'[t] = status[t] /\ wants'[t] = wants[t]
                             /\ believed'[t] = believed[t]
                             /\ behind'[t] \intersect Reliable = behind[t] \intersect Reliable

LEMMA UnseenStutters == ASSUME Unseen PROVE UNCHANGED Promise!subVars
<1>1. Reliable' = Reliable BY DEF Reliable
<1>2. [s \in Patient |-> status[s]]' = [s \in Patient |-> status[s]] BY DEF Unseen
<1>3. OfPatient(wants)' = OfPatient(wants) BY <1>1 DEF Unseen, OfPatient
<1>4. OfPatient(believed)' = OfPatient(believed) BY <1>1 DEF Unseen, OfPatient
<1>5. OfPatient(behind)' = OfPatient(behind) BY <1>1 DEF Unseen, OfPatient
<1> QED BY <1>2, <1>3, <1>4, <1>5 DEF Promise!subVars

(* The reply to a subscribe call confirms what the client asked for, with   *)
(* all the news the client does not have: this rests on the belief of such  *)
(* a client still being true and current after the reply.                   *)
LEMMA ProgressConfirms ==
    ASSUME TypeOK, Believing',
           NEW c \in Calls, NEW s \in Sockets, NEW it \in [Addresses -> Items],
           NEW asked \in SUBSET Addresses, Progress(c, s, it, asked)
    PROVE  /\ s \in Patient /\ status[s] = "open" => Promise!Confirm(s, asked \intersect Reliable)
           /\ ~(s \in Patient /\ status[s] = "open") =>
                 \A t \in Patient : believed'[t] = believed[t] /\ behind'[t] = behind[t]
<1> DEFINE told == {a \in asked : it[a] \in {"unchanged", "changed"}}
           late == {a \in behind[s] : it[a] # "changed"}
<1>1. \A t \in Patient : t \in Sockets BY HubAssumption
<1>2. \A t \in Sockets : t # s => believed'[t] = believed[t] /\ behind'[t] = behind[t]
  BY DEF Progress, TypeOK
<1>3. status[s] # "open" => believed' = believed /\ behind' = behind BY DEF Progress
<1>4. ASSUME s \in Patient, status[s] = "open"
      PROVE  Promise!Confirm(s, asked \intersect Reliable)
  <2>1. PICK yes \in SUBSET asked, rest \in SUBSET behind[s] :
          believed'[s] = believed[s] \union yes /\ behind'[s] = rest
    <3>1. CASE Done(it)
      <4>1. believed'[s] = believed[s] \union told /\ behind'[s] = late
        BY <1>4, <3>1 DEF Progress, TypeOK
      <4>2. told \in SUBSET asked /\ late \in SUBSET behind[s] OBVIOUS
      <4> HIDE DEF told, late
      <4> QED BY <4>1, <4>2
    <3>2. CASE ~Done(it)
      <4>1. believed' = believed /\ behind' = behind BY <3>2 DEF Progress
      <4>2. believed'[s] = believed[s] \union {} BY <4>1
      <4>3. {} \in SUBSET asked OBVIOUS
      <4> QED BY <4>1, <4>2, <4>3
    <3> QED BY <3>1, <3>2
  <2> DEFINE news == (behind[s] \ rest) \intersect Reliable
             sure == yes \intersect Reliable
  <2>2. sure \in SUBSET (asked \intersect Reliable) OBVIOUS
  <2>3. news \in SUBSET OfPatient(behind)[s] BY <1>4, OfPatientIs
  <2>4. \A a \in Reliable : a \in believed'[s] => a \notin behind'[s]
    BY <1>4 DEF Believing, NeverSilentlyBehind, Reliable
  <2>5. sure \intersect (OfPatient(behind)[s] \ news) = {}
    BY <1>4, <2>1, <2>4, OfPatientIs
  <2>6. Reliable' = Reliable BY DEF Reliable
  <2>7. OfPatient(believed)' = OfPatient(believed') BY <2>6 DEF OfPatient
  <2>8. OfPatient(behind)' = OfPatient(behind') BY <2>6 DEF OfPatient
  <2>9. OfPatient(believed)' = [OfPatient(believed) EXCEPT ![s] = OfPatient(believed)[s] \union sure]
    <3>1. OfPatient(believed') = [OfPatient(believed) EXCEPT ![s] = believed'[s] \intersect Reliable]
      BY <1>1, <1>2, <1>4 DEF OfPatient
    <3>2. believed'[s] \intersect Reliable = OfPatient(believed)[s] \union sure
      BY <1>4, <2>1, OfPatientIs
    <3> QED BY <2>7, <3>1, <3>2
  <2>10. OfPatient(behind)' = [OfPatient(behind) EXCEPT ![s] = OfPatient(behind)[s] \ news]
    <3>1. OfPatient(behind') = [OfPatient(behind) EXCEPT ![s] = behind'[s] \intersect Reliable]
      BY <1>1, <1>2, <1>4 DEF OfPatient
    <3>2. behind'[s] \intersect Reliable = OfPatient(behind)[s] \ news
      BY <1>4, <2>1, OfPatientIs
    <3> QED BY <2>8, <3>1, <3>2
  <2> HIDE DEF news, sure
  <2> QED BY <2>2, <2>3, <2>5, <2>9, <2>10 DEF Promise!Confirm
<1> QED BY <1>1, <1>2, <1>3, <1>4

(* A subscribe call asks, and its reply is an answer.                       *)
LEMMA SubscribePromised ==
    ASSUME TypeOK, Believing',
           NEW c \in Calls, NEW s \in Sockets, NEW addrs \in Requests, SubscribeCall(c, s, addrs)
    PROVE  Promise!SubNext \/ Unseen
<1>1. PICK it \in [Addresses -> Items] : Progress(c, s, it, wants[s] \union addrs)
  BY SubscribeCallStarts
<1>2. /\ wants'[s] = wants[s] \union addrs /\ \A t \in Sockets : t # s => wants'[t] = wants[t]
      /\ wants[s] \union addrs \in SUBSET Addresses
  BY SubscribeCallIs
<1>3. status[s] = "open" /\ UNCHANGED status BY DEF SubscribeCall
<1>4. \A t \in Patient : t \in Sockets BY HubAssumption
<1>5. CASE s \notin Patient
  <2>1. \A t \in Patient : believed'[t] = believed[t] /\ behind'[t] = behind[t]
    BY <1>1, <1>2, <1>5, ProgressConfirms
  <2> QED BY <1>2, <1>3, <1>4, <1>5, <2>1 DEF Unseen
<1>6. CASE s \in Patient
  <2> DEFINE topics == addrs \intersect Reliable
  <2>1. Promise!Confirm(s, (wants[s] \union addrs) \intersect Reliable)
    BY <1>1, <1>2, <1>3, <1>6, ProgressConfirms
  <2>2. (wants[s] \union addrs) \intersect Reliable = OfPatient(wants)[s] \union topics
    BY <1>6, OfPatientIs
  <2>3. Promise!Confirm(s, OfPatient(wants)[s] \union topics) BY <2>1, <2>2
  <2>4. OfPatient(wants)' = [OfPatient(wants) EXCEPT ![s] = OfPatient(wants)[s] \union topics]
    BY <1>2, <1>4, <1>6 DEF OfPatient, Reliable
  <2>5. [t \in Patient |-> status[t]][s] = "open"
        /\ [t \in Patient |-> status[t]]' = [t \in Patient |-> status[t]]
    BY <1>3, <1>6
  <2>6. topics \in SUBSET Reliable OBVIOUS
  <2> HIDE DEF topics
  <2>7. Promise!Ask(s, topics) BY <2>3, <2>4, <2>5 DEF Promise!Ask
  <2> QED BY <1>6, <2>6, <2>7 DEF Promise!SubNext
<1> QED BY <1>5, <1>6

LEMMA SettlePromised ==
    ASSUME TypeOK, Callers, Believing', NEW c \in Calls, NEW a \in Addresses,
           \/ SubscribeTrue(c, a) \/ SubscribeFalse(c, a)
           \/ ScanChanged(c, a) \/ ScanUnchanged(c, a)
    PROVE  Promise!SubNext \/ Unseen
<1>1. PICK from \in SubscribeItems, to \in SubscribeItems : Step(c, a, from, to) BY SettleMoves
<1> DEFINE s == caller[c]
           it == [item[c] EXCEPT ![a] = to]
<1>2. /\ phase[c] = "subscribing" /\ Progress(c, s, it, wants[s]) /\ UNCHANGED <<status, wants>>
  BY <1>1 DEF Step
<1>3. s \in Sockets BY <1>2 DEF Callers, Pending
<1>4. it \in [Addresses -> Items] BY DEF TypeOK, Items
<1>5. wants[s] \in SUBSET Addresses BY <1>3 DEF TypeOK
<1> HIDE DEF it, s
<1>6. CASE ~(s \in Patient /\ status[s] = "open")
  <2>1. \A t \in Patient : believed'[t] = believed[t] /\ behind'[t] = behind[t]
    BY <1>2, <1>3, <1>4, <1>5, <1>6, ProgressConfirms
  <2> QED BY <1>2, <2>1 DEF Unseen
<1>7. CASE s \in Patient /\ status[s] = "open"
  <2>1. Promise!Confirm(s, wants[s] \intersect Reliable)
    BY <1>2, <1>3, <1>4, <1>5, <1>7, ProgressConfirms
  <2>2. wants[s] \intersect Reliable = OfPatient(wants)[s] BY <1>7, OfPatientIs
  <2>3. Promise!Confirm(s, OfPatient(wants)[s]) BY <2>1, <2>2
  <2>4. OfPatient(wants)' = OfPatient(wants) BY <1>2 DEF OfPatient, Reliable
  <2>5. [t \in Patient |-> status[t]][s] = "open"
        /\ [t \in Patient |-> status[t]]' = [t \in Patient |-> status[t]]
    BY <1>2, <1>7
  <2>6. Promise!Answer(s) BY <2>3, <2>4, <2>5 DEF Promise!Answer
  <2> QED BY <1>7, <2>6 DEF Promise!SubNext
<1> QED BY <1>6, <1>7

LEMMA UnsubscribePromised ==
    ASSUME TypeOK,
           NEW c \in Calls, NEW s \in Sockets, NEW addrs \in Requests, UnsubscribeCall(c, s, addrs)
    PROVE  Promise!SubNext \/ Unseen
<1>1. /\ wants'[s] = wants[s] \ addrs /\ \A t \in Sockets : t # s => wants'[t] = wants[t]
      /\ believed'[s] = believed[s] \ addrs
      /\ \A t \in Sockets : t # s => believed'[t] = believed[t]
      /\ status[s] = "open" /\ UNCHANGED <<status, behind>>
  BY DEF UnsubscribeCall, TypeOK
<1>2. \A t \in Patient : t \in Sockets BY HubAssumption
<1>3. CASE s \notin Patient BY <1>1, <1>2, <1>3 DEF Unseen
<1>4. CASE s \in Patient
  <2> DEFINE topics == addrs \intersect Reliable
  <2>1. OfPatient(wants)' = [OfPatient(wants) EXCEPT ![s] = OfPatient(wants)[s] \ topics]
    BY <1>1, <1>2, <1>4 DEF OfPatient, Reliable
  <2>2. OfPatient(believed)' = [OfPatient(believed) EXCEPT ![s] = OfPatient(believed)[s] \ topics]
    BY <1>1, <1>2, <1>4 DEF OfPatient, Reliable
  <2>3. OfPatient(behind)' = OfPatient(behind) BY <1>1 DEF OfPatient, Reliable
  <2>4. [t \in Patient |-> status[t]][s] = "open"
        /\ [t \in Patient |-> status[t]]' = [t \in Patient |-> status[t]]
    BY <1>1, <1>4
  <2>5. topics \in SUBSET Reliable OBVIOUS
  <2> HIDE DEF topics
  <2>6. Promise!GiveUp(s, topics) BY <2>1, <2>2, <2>3, <2>4 DEF Promise!GiveUp
  <2> QED BY <1>4, <2>5, <2>6 DEF Promise!SubNext
<1> QED BY <1>3, <1>4

LEMMA LinkPromised ==
    ASSUME TypeOK, NEW s \in Sockets, Connect(s) \/ Close(s)
    PROVE  Promise!SubNext \/ Unseen
<1>1. \A t \in Patient : t \in Sockets BY HubAssumption
<1> DEFINE link == [t \in Patient |-> status[t]]
<1>2. CASE Connect(s)
  <2>1. status[s] = "new" /\ status' = [status EXCEPT ![s] = "open"]
        /\ UNCHANGED <<wants, believed, behind>>
    BY <1>2 DEF Connect, clientVars
  <2>2. CASE s \notin Patient BY <1>1, <2>1, <2>2 DEF Unseen, TypeOK
  <2>3. CASE s \in Patient
    <3>1. link[s] = "new" /\ link' = [link EXCEPT ![s] = "open"]
      BY <1>1, <2>1, <2>3 DEF TypeOK
    <3>2. /\ OfPatient(wants)' = OfPatient(wants) /\ OfPatient(believed)' = OfPatient(believed)
          /\ OfPatient(behind)' = OfPatient(behind)
      BY <2>1 DEF OfPatient, Reliable
    <3>3. Promise!Join(s) BY <3>1, <3>2 DEF Promise!Join
    <3> QED BY <2>3, <3>3 DEF Promise!SubNext
  <2> QED BY <2>2, <2>3
<1>3. CASE Close(s)
  <2>1. /\ status[s] = "open" /\ status' = [status EXCEPT ![s] = "closed"]
        /\ wants'[s] = {} /\ \A t \in Sockets : t # s => wants'[t] = wants[t]
        /\ believed'[s] = {} /\ \A t \in Sockets : t # s => believed'[t] = believed[t]
        /\ behind'[s] = {} /\ \A t \in Sockets : t # s => behind'[t] = behind[t]
    BY <1>3 DEF Close, TypeOK
  <2>2. CASE s \notin Patient BY <1>1, <2>1, <2>2 DEF Unseen, TypeOK
  <2>3. CASE s \in Patient
    <3>1. link[s] = "open" /\ link' = [link EXCEPT ![s] = "closed"]
      BY <1>1, <2>1, <2>3 DEF TypeOK
    <3>2. /\ OfPatient(wants)' = [OfPatient(wants) EXCEPT ![s] = {}]
          /\ OfPatient(believed)' = [OfPatient(believed) EXCEPT ![s] = {}]
          /\ OfPatient(behind)' = [OfPatient(behind) EXCEPT ![s] = {}]
      BY <1>1, <2>1, <2>3 DEF OfPatient, Reliable
    <3>3. Promise!Part(s) BY <3>1, <3>2 DEF Promise!Part
    <3> QED BY <2>3, <3>3 DEF Promise!SubNext
  <2> QED BY <2>2, <2>3
<1> QED BY <1>2, <1>3

(* Whoever believes to be subscribed is in the entry, so that the plugin    *)
(* watches the address and the update handler tells the client.             *)
LEMMA ActivityPromised ==
    ASSUME IInv, Believing, NEW x \in Addresses, Activity(x)
    PROVE  Promise!SubNext \/ Unseen
<1> DEFINE told == IF x \in watched THEN subs[x] \intersect Open ELSE {}
           hearers == told \intersect Patient
<1>1. /\ behind' = [s \in Sockets |-> IF s \in told THEN behind[s] \ {x}
                                      ELSE IF s \in Open THEN behind[s] \union {x}
                                      ELSE behind[s]]
      /\ UNCHANGED <<status, wants, believed>>
  BY DEF Activity
<1>2. \A t \in Patient : t \in Sockets BY HubAssumption
<1>3. \A t \in Sockets : t \in Open <=> status[t] = "open" BY DEF Open
<1>4. told \subseteq Open OBVIOUS
<1>5. CASE x \notin Reliable
  <2> HIDE DEF told
  <2> QED BY <1>1, <1>2, <1>5 DEF Unseen
<1>6. CASE x \in Reliable
  <2>1. ASSUME NEW t \in Patient, x \in believed[t] PROVE t \in told
    <3>1. t \in subs[x] BY <2>1 DEF Believing, BelievedIsSubscribed, BelievesTruly
    <3>2. t \in Open /\ IsSupported(x) BY <3>1 DEF IInv, Tables, NoDanglingSocket, OnlySupported
    <3>3. x \in watched
      BY <1>6, <3>1, <3>2 DEF IInv, Tables, HubPluginAgree, IsSupported, Reliable
    <3> QED BY <3>1, <3>2, <3>3
  <2> HIDE DEF told
  <2> DEFINE link == [t \in Patient |-> status[t]]
  <2>2. hearers \in SUBSET {t \in Patient : link[t] = "open"} BY <1>2, <1>3, <1>4
  <2>3. \A t \in Patient : x \in OfPatient(believed)[t] => t \in hearers BY <2>1, OfPatientIs
  <2>4. OfPatient(behind)' =
          [t \in Patient |-> IF t \in hearers THEN OfPatient(behind)[t] \ {x}
                             ELSE IF link[t] = "open" THEN OfPatient(behind)[t] \union {x}
                             ELSE OfPatient(behind)[t]]
    <3> DEFINE next(t) == IF t \in hearers THEN OfPatient(behind)[t] \ {x}
                          ELSE IF link[t] = "open" THEN OfPatient(behind)[t] \union {x}
                          ELSE OfPatient(behind)[t]
    <3>1. ASSUME NEW t \in Patient PROVE behind'[t] \intersect Reliable = next(t)
      <4>1. OfPatient(behind)[t] = behind[t] \intersect Reliable BY OfPatientIs
      <4>2. link[t] = status[t] OBVIOUS
      <4>3. CASE status[t] # "open"
        <5>1. behind'[t] = behind[t] BY <1>1, <1>2, <1>3, <1>4, <4>3
        <5>2. t \notin hearers BY <1>2, <1>3, <1>4, <4>3
        <5>3. next(t) = OfPatient(behind)[t] BY <4>2, <4>3, <5>2
        <5> QED BY <4>1, <5>1, <5>3
      <4>4. CASE status[t] = "open" /\ t \in told
        <5>1. behind'[t] = behind[t] \ {x} BY <1>1, <1>2, <4>4
        <5>2. next(t) = OfPatient(behind)[t] \ {x} BY <4>2, <4>4
        <5> QED BY <4>1, <5>1, <5>2
      <4>5. CASE status[t] = "open" /\ t \notin told
        <5>1. behind'[t] = behind[t] \union {x} BY <1>1, <1>2, <1>3, <4>5
        <5>2. next(t) = OfPatient(behind)[t] \union {x} BY <4>2, <4>5
        <5> QED BY <1>6, <4>1, <5>1, <5>2
      <4> QED BY <4>3, <4>4, <4>5
    <3>2. OfPatient(behind)' = [t \in Patient |-> behind'[t] \intersect Reliable]
      BY DEF OfPatient, Reliable
    <3> QED BY <3>1, <3>2
  <2>5. link' = link /\ OfPatient(wants)' = OfPatient(wants)
        /\ OfPatient(believed)' = OfPatient(believed)
    BY <1>1 DEF OfPatient, Reliable
  <2> HIDE DEF hearers
  <2>6. Promise!Publish(x) BY <2>2, <2>3, <2>4, <2>5 DEF Promise!Publish
  <2> QED BY <1>6, <2>6 DEF Promise!SubNext
<1> QED BY <1>5, <1>6

(* The subLost handler tells every socket in the entry, so every client     *)
(* that believes.                                                           *)
LEMMA SubLostPromised ==
    ASSUME IInv, Believing, NEW p \in Plugins, NEW lost \in SUBSET Addresses, SubLost(p, lost)
    PROVE  Promise!SubNext \/ Unseen
<1> DEFINE topics == lost \intersect Reliable
<1>1. /\ \A s \in Sockets : believed'[s] = believed[s] \ Told(s, lost)
      /\ UNCHANGED <<status, wants, behind>>
  BY DEF SubLost
<1>2. \A t \in Patient : t \in Sockets BY HubAssumption
<1>3. ASSUME NEW t \in Patient
      PROVE  believed'[t] \intersect Reliable = OfPatient(believed)[t] \ topics
  <2>1. Told(t, lost) \subseteq lost BY DEF Told
  <2>2. ASSUME NEW a \in believed[t], a \in lost PROVE a \in Told(t, lost)
    <3>1. t \in subs[a] BY DEF Believing, BelievedIsSubscribed, BelievesTruly
    <3>2. t \in Open BY <2>2, <3>1 DEF IInv, Tables, NoDanglingSocket
    <3> QED BY <2>2, <3>1, <3>2 DEF Told
  <2> QED BY <1>1, <1>2, <2>1, <2>2, OfPatientIs
<1>4. OfPatient(believed)' = [t \in Patient |-> OfPatient(believed)[t] \ topics]
  <2>1. OfPatient(believed)' = [t \in Patient |-> believed'[t] \intersect Reliable]
    BY DEF OfPatient, Reliable
  <2> HIDE DEF topics
  <2> QED BY <1>3, <2>1
<1>5. /\ [t \in Patient |-> status[t]]' = [t \in Patient |-> status[t]]
      /\ OfPatient(wants)' = OfPatient(wants) /\ OfPatient(behind)' = OfPatient(behind)
  BY <1>1 DEF OfPatient, Reliable
<1>6. topics \in SUBSET Reliable OBVIOUS
<1> HIDE DEF topics
<1>7. Promise!Lose(topics) BY <1>4, <1>5 DEF Promise!Lose
<1> QED BY <1>6, <1>7 DEF Promise!SubNext

(* Each step of the hub is a step of the promise, or one it does not see.   *)
LEMMA StepSimulation ==
    ASSUME IInv, Callers, Believing, Believing', [Next]_vars
    PROVE  [Promise!SubNext]_(Promise!subVars)
<1>0. TypeOK BY DEF IInv
<1> SUFFICES Promise!SubNext \/ Unseen BY UnseenStutters
<1>1. ASSUME UNCHANGED <<status, wants, believed, behind>> PROVE Unseen BY <1>1 DEF Unseen
<1>2. CASE UNCHANGED vars BY <1>1, <1>2 DEF vars
<1>3. ASSUME NEW s \in Sockets, Connect(s) \/ Close(s) PROVE Promise!SubNext \/ Unseen
  BY <1>0, <1>3, LinkPromised
<1>4. ASSUME NEW c \in Calls, Request(c) PROVE Promise!SubNext \/ Unseen
  BY <1>0, <1>4, SubscribePromised, UnsubscribePromised DEF Request
<1>5. ASSUME NEW c \in Calls, Settle(c) PROVE Promise!SubNext \/ Unseen
  <2>1. ASSUME NEW a \in Addresses, SubscribeThrow(c, a) PROVE Unseen
    BY <1>1, <2>1 DEF SubscribeThrow, clientVars
  <2>2. CASE LeaveSettles(c) BY <1>1, <2>2 DEF LeaveSettles, clientVars
  <2>3. CASE LeaveThrows(c) BY <1>1, <2>3 DEF LeaveThrows, clientVars
  <2> QED BY <1>0, <1>5, <2>1, <2>2, <2>3, SettlePromised DEF Settle
<1>6. ASSUME NEW a \in Active, Activity(a) PROVE Promise!SubNext \/ Unseen
  BY <1>6, ActivityPromised, HubAssumption
<1>7. ASSUME NEW p \in Plugins, NEW lost \in SUBSET {a \in watched : PluginOf[a] = p},
             SubLost(p, lost)
      PROVE  Promise!SubNext \/ Unseen
  BY <1>0, <1>7, SubLostPromised DEF TypeOK
<1> QED BY <1>2, <1>3, <1>4, <1>5, <1>6, <1>7 DEF Next

(* The hub implements Subscriptions for the clients that await their        *)
(* answers and the addresses of plugins that do not fail: such a client is  *)
(* told that it is subscribed only with all news, then of every activity,   *)
(* until it leaves or is told of the loss.                                  *)
THEOREM PromiseKept == Spec => ImplementsSubscriptions
<1>1. Init => Promise!SubInit
  BY HubAssumption DEF Init, Promise!SubInit, Promise!Nothing, OfPatient, Reliable
<1>2. IInv /\ Callers /\ Believing /\ Believing' /\ [Next]_vars =>
        [Promise!SubNext]_(Promise!subVars)
  BY StepSimulation
<1>3. Spec => [](IInv /\ Callers) /\ []Believing BY Inductive, Belief
<1> QED BY <1>1, <1>2, <1>3, PTL DEF Spec, ImplementsSubscriptions, Promise!SubSpec
============================================================================
