---------------------------- MODULE ClusterProofs ----------------------------
(* Proofs about the broadcast of webhook activity, the keys of the workers  *)
(* and their shared webhooks, for any number of workers, addresses,         *)
(* requests, webhooks, exits and failed recoveries.                         *)
EXTENDS Cluster, FiniteSetTheorems, WellFoundedInduction, TLAPS

----------------------------------------------------------------------------
(* The inductive invariant *)

Requests == [at : {"unmade", "sent", "waiting", "refused", "accepted"},
             worker : SUBSET Workers, hook : Hooks \union {NoHook},
             addr : Addrs \union {NoHook}]

(* Requests the code has changed are still requests.                        *)
Replied(r, at, ws) == [r EXCEPT !.at = at, !.worker = ws]
Refused(r) == [r EXCEPT !.at = "refused"]
LEMMA RequestTypes ==
    \A r \in Requests :
        /\ Refused(r) \in Requests /\ Refused(r).at = "refused"
        /\ \A at \in {"unmade", "sent", "waiting", "refused", "accepted"}, ws \in SUBSET Workers :
              Replied(r, at, ws) \in Requests /\ Replied(r, at, ws).at = at
BY DEF Requests, Refused, Replied

MailTypes ==
    /\ life \in [Workers -> {"up", "down"}]
    /\ request \in [Activities -> Requests]
    /\ sending \in [Workers -> SUBSET Activities]
    /\ orphans \subseteq Activities
    /\ inbox \in [Workers -> SUBSET Activities]
    /\ told \in [Workers -> [Activities -> Nat]]
    /\ owed \in [Activities -> SUBSET Workers]

(* Nobody has heard of a request before it is accepted.                     *)
Unheard(n) ==
    /\ n \notin orphans /\ owed[n] = {}
    /\ \A w \in Workers : n \notin sending[w] /\ n \notin inbox[w] /\ told[w][n] = 0
SilentBefore == \A n \in Activities : request[n].at # "accepted" => Unheard(n)

(* An activity is at one stage of the broadcast at a time: on its way to    *)
(* the primary from the one worker that handled it, or relayed to workers   *)
(* that have not handled it.                                                *)
OneStage ==
    \A n \in Activities : \A w \in Workers :
        /\ n \in sending[w] =>
              /\ n \notin orphans
              /\ \A v \in Workers : n \notin inbox[v]
              /\ \A v \in Workers \ {w} : n \notin sending[v] /\ told[v][n] = 0
        /\ n \in orphans => n \notin inbox[w] /\ told[w][n] = 0
        /\ n \in inbox[w] => told[w][n] = 0

(* Only workers that are up and did not accept it are still to be told.     *)
OwedToOthers ==
    \A n \in Activities : \A w \in owed[n] : life[w] = "up" /\ n \notin sending[w]

IInv == MailTypes /\ SilentBefore /\ OneStage /\ OwedToOthers /\ HeardOnce /\ NobodySkipped

LEMMA OnItsWayIs ==
    \A w \in Workers, n \in Activities :
        OnItsWay(w, n) <=> n \in orphans \/ n \in inbox[w] \/ \E v \in Workers : n \in sending[v]
BY DEF OnItsWay

----------------------------------------------------------------------------
(* Each step keeps the invariant *)

LEMMA InvInit == Init => IInv
<1> SUFFICES ASSUME Init PROVE IInv OBVIOUS
<1>1. MailTypes
  <2>1. PICK left \in 0..MaxLeft, gone \in Nat :
          gone <= left /\ request \in [Activities -> {Unmade} \union Late(gone)]
    <3>1. PICK left \in 0..MaxLeft : \E gone \in 0..left :
            request \in [Activities -> {Unmade} \union Late(gone)]
      BY DEF Init
    <3> QED BY <3>1
  <2>2. 1..gone \subseteq Hooks BY <2>1, ClusterAssumption DEF Hooks
  <2>3. Late(gone) \subseteq Requests BY <2>2 DEF Late, Requests
  <2>4. Unmade \in Requests BY DEF Unmade, Requests
  <2>5. request \in [Activities -> Requests] BY <2>1, <2>3, <2>4
  <2> QED BY <2>5 DEF Init, MailTypes
<1>2. SilentBefore BY DEF Init, SilentBefore, Unheard
<1>3. OneStage /\ OwedToOthers BY DEF Init, OneStage, OwedToOthers
<1>4. HeardOnce /\ NobodySkipped BY DEF Init, HeardOnce, NobodySkipped
<1> QED BY <1>1, <1>2, <1>3, <1>4 DEF IInv

(* Steps that leave the broadcast alone, and accept no request.             *)
LEMMA QuietStep ==
    ASSUME IInv,
           UNCHANGED <<sending, orphans, inbox, told>>,
           request' \in [Activities -> Requests],
           owed' \in [Activities -> SUBSET Workers],
           life' \in [Workers -> {"up", "down"}],
           \A w \in Workers : life[w] = "up" => life'[w] = "up",
           \A n \in Activities : request'[n].at = "accepted" <=> request[n].at = "accepted",
           \A n \in Activities : owed'[n] \subseteq owed[n]
    PROVE  IInv'
<1> USE DEF IInv
<1>1. MailTypes' BY DEF MailTypes
<1>2. SilentBefore' BY DEF SilentBefore, Unheard
<1>3. OneStage' BY DEF OneStage
<1>4. OwedToOthers' BY DEF OwedToOthers, MailTypes
<1>5. HeardOnce' BY DEF HeardOnce
<1>6. NobodySkipped' BY DEF NobodySkipped, OnItsWay
<1> QED BY <1>1, <1>2, <1>3, <1>4, <1>5, <1>6

(* handleActivity counts at most one more for each activity.                *)
LEMMA HandleFacts ==
    ASSUME MailTypes, NEW w \in Workers, NEW N, HandleActivity(w, N)
    PROVE  /\ told' \in [Workers -> [Activities -> Nat]]
           /\ \A v \in Workers : \A n \in Activities :
                 /\ v # w \/ n \notin N => told'[v][n] = told[v][n]
                 /\ told'[v][n] <= told[v][n] + 1
BY DEF HandleActivity, MailTypes

(* A worker answers requests, which it has just received or which waited    *)
(* for its keys; it broadcasts those it accepts.                            *)
LEMMA ReplyStep ==
    ASSUME IInv, NEW w \in Workers, NEW N \in SUBSET Activities, NEW keys, Reply(w, N, keys),
           \A n \in N : request[n].at # "accepted", UNCHANGED life
    PROVE  IInv'
<1> USE DEF IInv
<1> DEFINE good == {n \in N : request[n].hook \in keys}
<1>1. /\ HandleActivity(w, good)
      /\ sending' = [sending EXCEPT ![w] = sending[w] \union good]
      /\ UNCHANGED <<orphans, inbox>>
  BY DEF Reply, Broadcast
<1>2. good \subseteq N OBVIOUS
<1>3. ASSUME NEW n \in Activities
      PROVE  /\ request'[n] \in Requests
             /\ request'[n].at = "accepted" <=> request[n].at = "accepted" \/ n \in good
             /\ n \in good => owed'[n] \subseteq Up \ {w}
             /\ n \notin good => owed'[n] = owed[n]
             /\ owed'[n] \subseteq Workers
  <2>1. /\ request'[n] = IF n \in N
                         THEN [request[n] EXCEPT !.at = IF n \in good THEN "accepted" ELSE "refused",
                                                 !.worker = {w}]
                         ELSE request[n]
        /\ owed'[n] = IF n \in good THEN {v \in Up \ {w} : request[n].addr \in Subscribed(v)}
                                    ELSE owed[n]
    BY DEF Reply
  <2>2. request[n] \in Requests /\ owed[n] \subseteq Workers BY DEF MailTypes
  <2> HIDE DEF good
  <2> DEFINE at == IF n \in good THEN "accepted" ELSE "refused"
  <2>3. at \in {"accepted", "refused"} /\ (at = "accepted" <=> n \in good) OBVIOUS
  <2>4. n \in N => request'[n] = [request[n] EXCEPT !.at = at, !.worker = {w}] BY <2>1
  <2> HIDE DEF at
  <2>5. n \in N => request'[n] \in Requests /\ request'[n].at = at
    <3>1. n \in N => request'[n] = Replied(request[n], at, {w}) BY <2>4 DEF Replied
    <3>2. {w} \in SUBSET Workers OBVIOUS
    <3> QED BY <2>2, <2>3, <3>1, <3>2, RequestTypes
  <2>6. n \notin N => request'[n] = request[n] BY <2>1
  <2>7. request'[n] \in Requests BY <2>2, <2>5, <2>6
  <2>8. request'[n].at = "accepted" <=> request[n].at = "accepted" \/ n \in good
    BY <1>2, <2>3, <2>5, <2>6
  <2> QED BY <2>1, <2>2, <2>7, <2>8 DEF Up
<1>4. DOMAIN request' = Activities /\ DOMAIN owed' = Activities
      /\ request' = [n \in Activities |-> request'[n]] /\ owed' = [n \in Activities |-> owed'[n]]
  BY DEF Reply
<1> HIDE DEF good
<1>5. \A n \in good : n \in Activities /\ Unheard(n) BY <1>2 DEF SilentBefore
<1>6. /\ told' \in [Workers -> [Activities -> Nat]]
      /\ \A v \in Workers : \A n \in Activities :
            /\ v # w \/ n \notin good => told'[v][n] = told[v][n]
            /\ told'[v][n] <= told[v][n] + 1
  BY <1>1, HandleFacts
<1>7. \A v \in Workers : sending'[v] = IF v = w THEN sending[w] \union good ELSE sending[v]
  BY <1>1 DEF MailTypes
<1>8. MailTypes'
  <2>1. request' \in [Activities -> Requests] BY <1>3, <1>4
  <2>2. owed' \in [Activities -> SUBSET Workers] BY <1>3, <1>4
  <2> QED BY <1>1, <1>2, <1>6, <2>1, <2>2 DEF MailTypes
<1>9. SilentBefore' BY <1>1, <1>3, <1>6, <1>7 DEF SilentBefore, Unheard
<1>10. OneStage'
  <2> SUFFICES ASSUME NEW n \in Activities, NEW x \in Workers
               PROVE  /\ n \in sending'[x] =>
                            /\ n \notin orphans
                            /\ \A v \in Workers : n \notin inbox[v]
                            /\ \A v \in Workers \ {x} : n \notin sending'[v] /\ told'[v][n] = 0
                      /\ n \in orphans => n \notin inbox[x] /\ told'[x][n] = 0
                      /\ n \in inbox[x] => told'[x][n] = 0
    BY <1>1 DEF OneStage
  <2>1. CASE n \in good BY <1>5, <1>6, <1>7, <2>1 DEF Unheard
  <2>2. CASE n \notin good BY <1>6, <1>7, <2>2 DEF OneStage
  <2> QED BY <2>1, <2>2
<1>11. OwedToOthers'
  <2> SUFFICES ASSUME NEW n \in Activities, NEW v \in owed'[n]
               PROVE  life[v] = "up" /\ n \notin sending'[v]
    BY DEF OwedToOthers
  <2>1. CASE n \in good
    <3>1. v \in Workers /\ life[v] = "up" /\ v # w BY <1>3, <2>1 DEF Up
    <3> QED BY <1>5, <1>7, <2>1, <3>1 DEF Unheard
  <2>2. CASE n \notin good
    <3>1. v \in owed[n] /\ v \in Workers BY <1>3, <2>2
    <3> QED BY <1>7, <2>2, <3>1 DEF OwedToOthers
  <2> QED BY <2>1, <2>2
<1>12. HeardOnce'
  <2> SUFFICES ASSUME NEW v \in Workers, NEW n \in Activities PROVE told'[v][n] <= 1
    BY DEF HeardOnce
  <2>1. CASE n \in good
    <3>1. told[v][n] = 0 /\ told'[v][n] <= told[v][n] + 1 BY <1>5, <1>6, <2>1 DEF Unheard
    <3> QED BY <3>1
  <2>2. CASE n \notin good BY <1>6, <2>2 DEF HeardOnce
  <2> QED BY <2>1, <2>2
<1>13. NobodySkipped'
  <2> SUFFICES ASSUME NEW n \in Activities, NEW v \in owed'[n] PROVE OnItsWay(v, n)'
    BY DEF NobodySkipped
  <2>1. v \in Workers BY <1>3
  <2>2. CASE n \in good
    <3>1. n \in sending'[w] BY <1>7, <2>2
    <3> QED BY <3>1 DEF OnItsWay
  <2>3. CASE n \notin good
    <3>1. OnItsWay(v, n) BY <1>3, <2>3 DEF NobodySkipped
    <3>2. \A u \in Workers : sending[u] \subseteq sending'[u] BY <1>7
    <3> QED BY <1>1, <2>1, <3>1, <3>2 DEF OnItsWay
  <2> QED BY <2>2, <2>3
<1> QED BY <1>8, <1>9, <1>10, <1>11, <1>12, <1>13

LEMMA RelayStep ==
    ASSUME IInv, NEW w \in Workers, NEW n \in Activities, Relay(w, n)
    PROVE  IInv'
<1> USE DEF IInv
<1>1. /\ n \in sending[w]
      /\ sending' = [sending EXCEPT ![w] = sending[w] \ {n}]
      /\ inbox' = [v \in Workers |-> IF v \in Up \ {w} THEN inbox[v] \union {n} ELSE inbox[v]]
      /\ UNCHANGED <<life, request, orphans, told, owed>>
  BY DEF Relay, Delivered, Recipients, callerVars
<1>2. \A v \in Workers : \A k \in Activities :
          /\ k \in sending'[v] <=> k \in sending[v] /\ ~(v = w /\ k = n)
          /\ k \in inbox'[v] <=> k \in inbox[v] \/ (k = n /\ v \in Up \ {w})
  BY <1>1 DEF MailTypes
<1>3. /\ n \notin orphans /\ request[n].at = "accepted"
      /\ \A v \in Workers : n \notin inbox[v]
      /\ \A v \in Workers \ {w} : n \notin sending[v] /\ told[v][n] = 0
  BY <1>1 DEF OneStage, SilentBefore, Unheard
<1>4. MailTypes' BY <1>1 DEF MailTypes
<1>5. SilentBefore' BY <1>1, <1>2, <1>3 DEF SilentBefore, Unheard
<1>6. OneStage' BY <1>1, <1>2, <1>3 DEF OneStage
<1>7. OwedToOthers'
  <2>1. \A k \in Activities : owed[k] \subseteq Workers BY DEF MailTypes
  <2> QED BY <1>1, <1>2, <2>1 DEF OwedToOthers
<1>8. HeardOnce' BY <1>1 DEF HeardOnce
<1>9. NobodySkipped'
  <2> SUFFICES ASSUME NEW k \in Activities, NEW v \in owed[k] PROVE OnItsWay(v, k)'
    BY <1>1 DEF NobodySkipped
  <2>1. v \in Workers /\ OnItsWay(v, k) BY DEF MailTypes, NobodySkipped
  <2>2. CASE k = n
    <3>1. v \in Up \ {w} BY <1>1, <2>1, <2>2 DEF OwedToOthers, Up
    <3>2. n \in inbox'[v] BY <1>2, <2>1, <3>1
    <3> QED BY <2>2, <3>2 DEF OnItsWay
  <2>3. CASE k # n
    <3>1. \A u \in Workers : (k \in sending'[u] <=> k \in sending[u]) /\ (k \in inbox[u] => k \in inbox'[u])
      BY <1>2, <2>3
    <3> QED BY <1>1, <2>1, <3>1 DEF OnItsWay
  <2> QED BY <2>2, <2>3
<1> QED BY <1>4, <1>5, <1>6, <1>7, <1>8, <1>9

LEMMA RelayOrphanStep ==
    ASSUME IInv, NEW n \in Activities, RelayOrphan(n)
    PROVE  IInv'
<1> USE DEF IInv
<1>1. /\ n \in orphans /\ orphans' = orphans \ {n}
      /\ inbox' = [v \in Workers |-> IF v \in Up THEN inbox[v] \union {n} ELSE inbox[v]]
      /\ UNCHANGED <<life, request, sending, told, owed>>
  BY DEF RelayOrphan, Delivered, callerVars
<1>2. \A v \in Workers : \A k \in Activities :
          k \in inbox'[v] <=> k \in inbox[v] \/ (k = n /\ v \in Up)
  BY <1>1
<1>3. /\ request[n].at = "accepted"
      /\ \A v \in Workers : n \notin inbox[v] /\ n \notin sending[v] /\ told[v][n] = 0
  BY <1>1 DEF OneStage, SilentBefore, Unheard
<1>4. MailTypes' BY <1>1 DEF MailTypes
<1>5. SilentBefore' BY <1>1, <1>2, <1>3 DEF SilentBefore, Unheard
<1>6. OneStage' BY <1>1, <1>2, <1>3 DEF OneStage
<1>7. OwedToOthers' BY <1>1 DEF OwedToOthers
<1>8. HeardOnce' BY <1>1 DEF HeardOnce
<1>9. NobodySkipped'
  <2> SUFFICES ASSUME NEW k \in Activities, NEW v \in owed[k] PROVE OnItsWay(v, k)'
    BY <1>1 DEF NobodySkipped
  <2>1. v \in Workers /\ OnItsWay(v, k) BY DEF MailTypes, NobodySkipped
  <2>2. CASE k = n
    <3>1. v \in Up BY <2>1 DEF OwedToOthers, Up
    <3>2. n \in inbox'[v] BY <1>2, <2>1, <3>1
    <3> QED BY <2>2, <3>2 DEF OnItsWay
  <2>3. CASE k # n
    <3>1. \A u \in Workers : k \in inbox[u] => k \in inbox'[u] BY <1>2
    <3> QED BY <1>1, <2>1, <2>3, <3>1 DEF OnItsWay
  <2> QED BY <2>2, <2>3
<1> QED BY <1>4, <1>5, <1>6, <1>7, <1>8, <1>9

LEMMA IpcStep ==
    ASSUME IInv, NEW w \in Workers, NEW n \in Activities, IpcHandler(w, n)
    PROVE  IInv'
<1> USE DEF IInv
<1>1. /\ n \in inbox[w]
      /\ inbox' = [inbox EXCEPT ![w] = inbox[w] \ {n}]
      /\ HandleActivity(w, {n})
      /\ owed' = [owed EXCEPT ![n] = owed[n] \ {w}]
      /\ UNCHANGED <<life, request, sending, orphans>>
  BY DEF IpcHandler, callerVars
<1>2. /\ told' \in [Workers -> [Activities -> Nat]]
      /\ \A v \in Workers : \A k \in Activities :
            /\ v # w \/ k # n => told'[v][k] = told[v][k]
            /\ told'[v][k] <= told[v][k] + 1
  BY <1>1, HandleFacts
<1>3. \A v \in Workers : \A k \in Activities :
          /\ k \in inbox'[v] <=> k \in inbox[v] /\ ~(v = w /\ k = n)
          /\ v \in owed'[k] <=> v \in owed[k] /\ ~(v = w /\ k = n)
  BY <1>1 DEF MailTypes
<1>4. /\ told[w][n] = 0 /\ request[n].at = "accepted" /\ n \notin orphans
      /\ \A v \in Workers : n \notin sending[v]
  BY <1>1 DEF OneStage, SilentBefore, Unheard
<1>5. MailTypes' BY <1>1, <1>2 DEF MailTypes
<1>6. SilentBefore'
  <2> SUFFICES ASSUME NEW k \in Activities, request[k].at # "accepted" PROVE Unheard(k)'
    BY <1>1 DEF SilentBefore
  <2>1. k # n /\ Unheard(k) BY <1>4 DEF SilentBefore
  <2>2. owed'[k] = owed[k] BY <1>1, <2>1 DEF MailTypes
  <2> QED BY <1>1, <1>2, <1>3, <2>1, <2>2 DEF Unheard
<1>7. OneStage' BY <1>1, <1>2, <1>3, <1>4 DEF OneStage
<1>8. OwedToOthers'
  <2> SUFFICES ASSUME NEW k \in Activities, NEW v \in owed'[k]
               PROVE  life[v] = "up" /\ k \notin sending[v]
    BY <1>1 DEF OwedToOthers
  <2>1. v \in Workers BY <1>5 DEF MailTypes
  <2> QED BY <1>3, <2>1 DEF OwedToOthers
<1>9. HeardOnce'
  <2> SUFFICES ASSUME NEW v \in Workers, NEW k \in Activities PROVE told'[v][k] <= 1
    BY DEF HeardOnce
  <2>1. CASE v = w /\ k = n
    <3>1. told'[w][n] <= 0 + 1 BY <1>2, <1>4
    <3> QED BY <2>1, <3>1
  <2>2. CASE ~(v = w /\ k = n) BY <1>2, <2>2 DEF HeardOnce
  <2> QED BY <2>1, <2>2
<1>10. NobodySkipped'
  <2> SUFFICES ASSUME NEW k \in Activities, NEW v \in owed'[k] PROVE OnItsWay(v, k)'
    BY DEF NobodySkipped
  <2>1. v \in Workers BY <1>5 DEF MailTypes
  <2>2. v \in owed[k] /\ ~(v = w /\ k = n) BY <1>3, <2>1
  <2>3. OnItsWay(v, k) BY <2>2 DEF NobodySkipped
  <2>4. k \in inbox[v] => k \in inbox'[v] BY <1>3, <2>1, <2>2
  <2> QED BY <1>1, <2>3, <2>4 DEF OnItsWay
<1> QED BY <1>5, <1>6, <1>7, <1>8, <1>9, <1>10

LEMMA DieStep ==
    ASSUME IInv, NEW w \in Workers, Die(w)
    PROVE  IInv'
<1> USE DEF IInv
<1>1. PICK out \in SUBSET sending[w] :
          /\ orphans' = orphans \union out
          /\ owed' = [n \in Activities |->
                 IF n \in sending[w] \ out THEN {} ELSE owed[n] \ {w}]
  BY DEF Die
<1>2. /\ life' = [life EXCEPT ![w] = "down"]
      /\ sending' = [sending EXCEPT ![w] = {}]
      /\ inbox' = [inbox EXCEPT ![w] = {}]
      /\ told' = [told EXCEPT ![w] = [n \in Activities |-> 0]]
      /\ request' = [n \in Activities |->
             IF n \in Waiting(w) THEN [request[n] EXCEPT !.at = "refused"] ELSE request[n]]
  BY DEF Die
<1>3. \A v \in Workers :
          /\ life'[v] = IF v = w THEN "down" ELSE life[v]
          /\ sending'[v] = IF v = w THEN {} ELSE sending[v]
          /\ inbox'[v] = IF v = w THEN {} ELSE inbox[v]
          /\ \A n \in Activities : told'[v][n] = IF v = w THEN 0 ELSE told[v][n]
  BY <1>2 DEF MailTypes
<1>4. ASSUME NEW n \in Activities
      PROVE  /\ request'[n] \in Requests
             /\ request'[n].at = "accepted" <=> request[n].at = "accepted"
  <2>1. request[n] \in Requests BY DEF MailTypes
  <2>2. CASE n \in Waiting(w)
    <3>1. request'[n] = Refused(request[n]) BY <1>2, <2>2 DEF Refused
    <3>2. request[n].at = "waiting" BY <2>2 DEF Waiting
    <3> QED BY <2>1, <3>1, <3>2, RequestTypes
  <2>3. CASE n \notin Waiting(w) BY <1>2, <2>1, <2>3
  <2> QED BY <2>2, <2>3
<1>5. MailTypes'
  <2>1. request' \in [Activities -> Requests] BY <1>2, <1>4
  <2>2. told' \in [Workers -> [Activities -> Nat]] BY <1>2 DEF MailTypes
  <2>3. orphans' \subseteq Activities /\ owed' \in [Activities -> SUBSET Workers]
    BY <1>1 DEF MailTypes
  <2> QED BY <1>2, <2>1, <2>2, <2>3 DEF MailTypes
<1>6. \A n \in Activities : owed'[n] = IF n \in sending[w] \ out THEN {} ELSE owed[n] \ {w}
  BY <1>1
<1>7. SilentBefore' BY <1>1, <1>3, <1>4, <1>6 DEF SilentBefore, Unheard
<1>8. OneStage'
  <2> SUFFICES ASSUME NEW n \in Activities, NEW x \in Workers
               PROVE  /\ n \in sending'[x] =>
                            /\ n \notin orphans'
                            /\ \A v \in Workers : n \notin inbox'[v]
                            /\ \A v \in Workers \ {x} : n \notin sending'[v] /\ told'[v][n] = 0
                      /\ n \in orphans' => n \notin inbox'[x] /\ told'[x][n] = 0
                      /\ n \in inbox'[x] => told'[x][n] = 0
    BY DEF OneStage
  <2>1. n \in orphans' => n \in orphans \/ n \in sending[w] BY <1>1
  <2> QED BY <1>3, <2>1 DEF OneStage
<1>9. OwedToOthers'
  <2> SUFFICES ASSUME NEW n \in Activities, NEW v \in owed'[n]
               PROVE  life'[v] = "up" /\ n \notin sending'[v]
    BY DEF OwedToOthers
  <2>1. v \in owed[n] /\ v # w /\ v \in Workers BY <1>5, <1>6 DEF MailTypes
  <2> QED BY <1>3, <2>1 DEF OwedToOthers
<1>10. HeardOnce' BY <1>3 DEF HeardOnce
<1>11. NobodySkipped'
  <2> SUFFICES ASSUME NEW n \in Activities, NEW v \in owed'[n] PROVE OnItsWay(v, n)'
    BY DEF NobodySkipped
  <2>1. v \in owed[n] /\ v # w /\ v \in Workers /\ n \notin sending[w] \ out
    BY <1>5, <1>6 DEF MailTypes
  <2>2. OnItsWay(v, n) BY <2>1 DEF NobodySkipped
  <2>3. CASE n \in sending[w] BY <1>1, <2>1, <2>3 DEF OnItsWay
  <2>4. CASE n \notin sending[w]
    <3>1. \A u \in Workers : n \in sending[u] => n \in sending'[u] BY <1>3, <2>4
    <3>2. n \in inbox[v] => n \in inbox'[v] BY <1>3, <2>1
    <3> QED BY <1>1, <2>2, <3>1, <3>2 DEF OnItsWay
  <2> QED BY <2>3, <2>4
<1> QED BY <1>5, <1>7, <1>8, <1>9, <1>10, <1>11

(* A request goes to another stage short of accepted.                       *)
LEMMA RequestStep ==
    ASSUME IInv, NEW n \in Activities, NEW r \in Requests,
           request' = [request EXCEPT ![n] = r],
           r.at # "accepted", request[n].at # "accepted",
           UNCHANGED <<life, sending, orphans, inbox, told, owed>>
    PROVE  IInv'
<1>1. request' \in [Activities -> Requests] BY DEF IInv, MailTypes
<1>2. \A k \in Activities : request'[k].at = "accepted" <=> request[k].at = "accepted"
  BY DEF IInv, MailTypes
<1>3. owed' \in [Activities -> SUBSET Workers] /\ life' \in [Workers -> {"up", "down"}]
  BY DEF IInv, MailTypes
<1> QED BY <1>1, <1>2, <1>3, QuietStep

LEMMA ReceiveUnknownStep ==
    ASSUME IInv, NEW w \in Workers, NEW n \in Activities, ReceiveUnknown(w, n)
    PROVE  IInv'
<1> DEFINE r == Replied(request[n], "waiting", {w})
<1>1. request[n] \in Requests BY DEF IInv, MailTypes
<1>2. {w} \in SUBSET Workers OBVIOUS
<1>3. r \in Requests /\ r.at = "waiting" BY <1>1, <1>2, RequestTypes
<1>4. /\ request' = [request EXCEPT ![n] = r] /\ request[n].at = "sent"
      /\ UNCHANGED <<life, sending, orphans, inbox, told, owed>>
  BY DEF ReceiveUnknown, Replied, callerVars
<1> HIDE DEF r
<1> QED BY <1>3, <1>4, RequestStep

LEMMA RedeliverStep ==
    ASSUME IInv, NEW n \in Activities, Redeliver(n)
    PROVE  IInv'
<1> DEFINE r == Replied(request[n], "sent", {})
<1>1. request[n] \in Requests BY DEF IInv, MailTypes
<1>2. r \in Requests /\ r.at = "sent" BY <1>1, RequestTypes
<1>3. /\ request' = [request EXCEPT ![n] = r] /\ request[n].at = "refused"
      /\ UNCHANGED <<life, sending, orphans, inbox, told, owed>>
  BY DEF Redeliver, Replied, callerVars
<1> HIDE DEF r
<1> QED BY <1>2, <1>3, RequestStep

LEMMA ActivityStep ==
    ASSUME IInv, NEW n \in Activities, NEW h \in Hooks, NEW a \in Addrs, Activity(n, h, a)
    PROVE  IInv'
<1> DEFINE r == [at |-> "sent", worker |-> {}, hook |-> h, addr |-> a]
<1>1. r \in Requests /\ r.at = "sent" BY DEF Requests
<1>2. /\ request' = [request EXCEPT ![n] = r] /\ request[n].at = "unmade"
      /\ UNCHANGED <<life, sending, orphans, inbox, told, owed>>
  BY DEF Activity, callerVars
<1> HIDE DEF r
<1> QED BY <1>1, <1>2, RequestStep

(* The plugin's own steps touch nothing of the broadcast; an unsubscribe    *)
(* and a fork only what it may.                                             *)
LEMMA PluginStep ==
    ASSUME IInv, NEW w \in Workers,
           \/ \E a \in Addrs : Subscribe(w, a) \/ Unsubscribe(w, a)
           \/ Batch(w) \/ Fork(w)
    PROVE  IInv'
<1> USE DEF IInv
<1>1. request' = request /\ UNCHANGED <<sending, orphans, inbox, told>>
  BY DEF Subscribe, Unsubscribe, Batch, FetchOk, Look, DiscoveryEnds, Fire, Initialized, CallOk,
         CallFails, Fork, restVars, mailVars
<1>2. /\ life' \in [Workers -> {"up", "down"}]
      /\ \A v \in Workers : life[v] = "up" => life'[v] = "up"
  <2>1. life' = life \/ life' = [life EXCEPT ![w] = "up"]
    BY DEF Subscribe, Unsubscribe, Batch, FetchOk, Look, DiscoveryEnds, Fire, Initialized, CallOk,
           CallFails, Fork, restVars
  <2> QED BY <2>1 DEF MailTypes
<1>3. /\ owed' \in [Activities -> SUBSET Workers]
      /\ \A n \in Activities : owed'[n] \subseteq owed[n]
  <2>1. \/ owed' = owed
        \/ \E a \in Addrs : owed' =
              [n \in Activities |-> IF request[n].addr = a THEN owed[n] \ {w} ELSE owed[n]]
    BY DEF Subscribe, Unsubscribe, Batch, FetchOk, Look, DiscoveryEnds, Fire, Initialized, CallOk,
           CallFails, Fork, restVars, mailVars
  <2> QED BY <2>1 DEF MailTypes
<1>4. request' \in [Activities -> Requests] BY <1>1 DEF MailTypes
<1> QED BY <1>1, <1>2, <1>3, <1>4, QuietStep

LEMMA AnswerStep ==
    ASSUME IInv, NEW w \in Workers,
           Recover(w) \/ \E n \in Activities : Receive(w, n)
    PROVE  IInv'
<1>1. ASSUME NEW n \in Activities, Receive(w, n) PROVE IInv'
  <2>1. Reply(w, {n}, store[w].keys) /\ request[n].at # "accepted" /\ UNCHANGED life
    BY <1>1 DEF Receive, callerVars
  <2>2. {n} \in SUBSET Activities OBVIOUS
  <2> QED BY <2>1, <2>2, ReplyStep
<1>2. ASSUME Recover(w) PROVE IInv'
  <2>1. UNCHANGED life /\ (ListForRecovery(w) \/ \E keys : Reply(w, Waiting(w), keys))
    BY <1>2 DEF Recover, ListForRecovery, RecoverOk, RecoverFails, callerVars
  <2>2. Waiting(w) \in SUBSET Activities /\ \A n \in Waiting(w) : request[n].at # "accepted"
    BY DEF Waiting
  <2>3. CASE ListForRecovery(w)
    BY <2>1, <2>3, QuietStep DEF ListForRecovery, mailVars, IInv, MailTypes
  <2> QED BY <2>1, <2>2, <2>3, ReplyStep
<1> QED BY <1>1, <1>2

LEMMA StutterStep ==
    ASSUME IInv, UNCHANGED vars
    PROVE  IInv'
<1>1. UNCHANGED <<life, request, sending, orphans, inbox, told, owed>> BY DEF vars, mailVars
<1> QED BY <1>1, QuietStep DEF IInv, MailTypes

LEMMA Inductive == IInv /\ [Next]_vars => IInv'
<1> SUFFICES ASSUME IInv, [Next]_vars PROVE IInv' OBVIOUS
<1>1. ASSUME NEW w \in Workers,
             \/ \E a \in Addrs : Subscribe(w, a) \/ Unsubscribe(w, a)
             \/ Batch(w) \/ Fork(w)
      PROVE  IInv'
  BY <1>1, PluginStep
<1>2. ASSUME NEW w \in Workers, NEW n \in Activities, Receive(w, n) \/ ReceiveUnknown(w, n)
      PROVE  IInv'
  BY <1>2, AnswerStep, ReceiveUnknownStep
<1>3. ASSUME NEW w \in Workers, Recover(w) PROVE IInv' BY <1>3, AnswerStep
<1>4. ASSUME NEW w \in Workers, Die(w) PROVE IInv' BY <1>4, DieStep
<1>5. ASSUME NEW n \in Activities, NEW h \in Hooks, NEW a \in Addrs, Activity(n, h, a)
      PROVE  IInv'
  BY <1>5, ActivityStep
<1>6. ASSUME NEW n \in Activities, Redeliver(n) PROVE IInv' BY <1>6, RedeliverStep
<1>7. ASSUME Post PROVE IInv' BY <1>7, RelayStep, IpcStep, RelayOrphanStep DEF Post
<1> QED BY <1>1, <1>2, <1>3, <1>4, <1>5, <1>6, <1>7, StutterStep DEF Next

LEMMA Invariance == Spec => []IInv
<1>1. Init => IInv BY InvInit
<1>2. IInv /\ [Next]_vars => IInv' BY Inductive
<1> QED BY <1>1, <1>2, PTL DEF Spec

----------------------------------------------------------------------------
(* The theorems *)

(* No process announces a request twice that the cluster accepted once: the *)
(* relay of src/index.ts (lines 49-60) reaches each worker once, and the    *)
(* sender and its successors not again.                                     *)
THEOREM ToldOnce == Spec => []HeardOnce
<1>1. IInv => HeardOnce BY DEF IInv
<1> QED BY <1>1, Invariance, PTL

(* A worker whose clients were subscribed when another worker accepted an   *)
(* activity has been told or the message is on its way.                     *)
THEOREM NobodyForgotten == Spec => []NobodySkipped
<1>1. IInv => NobodySkipped BY DEF IInv
<1> QED BY <1>1, Invariance, PTL

----------------------------------------------------------------------------
(* Type correctness *)

Queues == [Addrs -> Nat]
Labels == {"idle", "initializing", "creating", "updating", "deleting"}
Plugins == [subscribed : SUBSET Addrs, add : Queues, remove : Queues,
            toAdd : Queues, toRemove : Queues, pc : Labels,
            discovery : {"fetching", "listing", "done"},
            found : SUBSET Hooks, webhookId : Hooks \union {NoHook}]
Stores == [keys : SUBSET Hooks, hasRecovered : BOOLEAN,
           recovering : {"no", "asked", "answered"}, answer : SUBSET Hooks]

OwnTypes ==
    /\ plugin \in [Workers -> Plugins]
    /\ store \in [Workers -> Stores]
    /\ hook \in [Hooks -> {"unmade", "active", "deleted"}]
    /\ onHook \in [Hooks -> SUBSET Addrs]
    /\ newer \in [Workers -> SUBSET Hooks]
    /\ users \subseteq Workers
    /\ calls \in 0..MaxCalls /\ deaths \in 0..MaxDeaths /\ failures \in 0..MaxFailures

LEMMA TypeIs == TypeOK <=> MailTypes /\ OwnTypes
BY DEF TypeOK, MailTypes, OwnTypes, Requests, Plugins, Stores, Queues, Labels

LEMMA QueueTypes ==
    ASSUME NEW list \in Queues, NEW more \in Queues, NEW a \in Addrs
    PROVE  /\ Empty \in Queues /\ Push(list, a) \in Queues /\ Splice(list, a) \in Queues
           /\ PushAll(list, more) \in Queues
BY DEF Queues, Empty, Push, Splice, PushAll

LEMMA FreshTypes == FreshPlugin \in Plugins /\ FreshStore \in Stores
BY DEF FreshPlugin, FreshStore, Plugins, Stores, Queues, Labels, Empty

LEMMA AwaitType ==
    ASSUME NEW p \in Plugins, NEW label \in Labels, NEW add \in Queues, NEW remove \in Queues
    PROVE  Await(p, label, add, remove) \in Plugins
BY DEF Await, Plugins

LEMMA FinishType == ASSUME NEW p \in Plugins PROVE Finish(p) \in Plugins
<1>1. Empty \in Queues /\ "idle" \in Labels BY DEF Empty, Queues, Labels
<1> QED BY <1>1, AwaitType DEF Finish

LEMMA AfterUpdateType == ASSUME NEW p \in Plugins PROVE AfterUpdate(p) \in Plugins
<1>1. Empty \in Queues /\ "deleting" \in Labels BY DEF Empty, Queues, Labels
<1> QED BY <1>1, AwaitType, FinishType DEF AfterUpdate

LEMMA ProceedType == ASSUME NEW p \in Plugins PROVE Proceed(p) \in Plugins
<1>1. {"creating", "updating"} \subseteq Labels /\ p.toAdd \in Queues /\ p.toRemove \in Queues
  BY DEF Labels, Plugins
<1>2. \A label \in Labels : Await(p, label, p.toAdd, p.toRemove) \in Plugins BY <1>1, AwaitType
<1> QED BY <1>1, <1>2, FinishType, AfterUpdateType DEF Proceed

LEMMA AnsweredType ==
    ASSUME NEW p \in Plugins, NEW h \in Hooks
    PROVE  Answered(p, h) \in Plugins
<1>1. [p EXCEPT !.webhookId = h, !.toAdd = Empty] \in Plugins
  BY DEF Plugins, Queues, Empty
<1>2. [p EXCEPT !.webhookId = NoHook] \in Plugins BY DEF Plugins
<1> QED BY <1>1, <1>2, ProceedType, AfterUpdateType, FinishType DEF Answered

LEMMA RequeueType == ASSUME NEW p \in Plugins PROVE Requeue(p) \in Plugins
<1> DEFINE q == Finish(p)
<1>1. q \in Plugins BY FinishType
<1>2. PushAll(q.add, p.toAdd) \in Queues /\ PushAll(q.remove, p.toRemove) \in Queues
  BY <1>1, QueueTypes DEF Plugins, Queues, PushAll
<1> HIDE DEF q
<1>3. [q EXCEPT !.add = PushAll(@, p.toAdd), !.remove = PushAll(@, p.toRemove)] \in Plugins
  BY <1>1, <1>2 DEF Plugins
<1> QED BY <1>3 DEF Requeue, q

----------------------------------------------------------------------------
(* The webhooks and the keys *)

(* The API numbers the webhooks as it makes them, and a discovery only      *)
(* finds webhooks it has made.                                              *)
MadeInOrder ==
    /\ \E k \in 0..MaxHooks : \A h \in Hooks : hook[h] = "unmade" <=> h > k
    /\ \A w \in Workers : \A h \in plugin[w].found : hook[h] # "unmade"

(* A process that has just started knows no key.                            *)
DownIsFresh == \A w \in Workers : life[w] = "down" => store[w] = FreshStore

(* Keys are recovered once.  When the API has listed the webhooks for it,   *)
(* the list, and then the keys, have every webhook that was not made later. *)
Knows(s, more, active) ==
    /\ s.recovering # "no" => ~s.hasRecovered
    /\ s.recovering = "answered" => active \subseteq s.answer \union more
    /\ s.hasRecovered => active \subseteq s.keys \union more
KeysAreKnown == \A w \in Workers : Knows(store[w], newer[w], Active)

Keys == MadeInOrder /\ DownIsFresh /\ KeysAreKnown

(* The webhook a create makes is the next one: all the others are older.    *)
LEMMA CreatesIs ==
    ASSUME OwnTypes, MadeInOrder, NEW addrs \in SUBSET Addrs, ApiCreates(addrs)
    PROVE  \E h \in Hooks :
              /\ \A g \in Hooks : hook[g] # "unmade" <=> g < h
              /\ hook' = [hook EXCEPT ![h] = "active"]
              /\ onHook' = [onHook EXCEPT ![h] = addrs]
              /\ newer' = [w \in Workers |->
                     IF HasList(w) THEN newer[w] \union {h} ELSE newer[w]]
<1>1. PICK k \in 0..MaxHooks : \A h \in Hooks : hook[h] = "unmade" <=> h > k BY DEF MadeInOrder
<1>2. {g \in Hooks : hook[g] # "unmade"} = 1..k BY <1>1, ClusterAssumption DEF Hooks
<1>3. Cardinality(1..k) = k BY FS_Interval, <1>1
<1>4. /\ k + 1 \in Hooks
      /\ hook' = [hook EXCEPT ![k + 1] = "active"] /\ onHook' = [onHook EXCEPT ![k + 1] = addrs]
      /\ newer' = [w \in Workers |->
             IF HasList(w) THEN newer[w] \union {k + 1} ELSE newer[w]]
  BY <1>2, <1>3 DEF ApiCreates
<1>5. \A g \in Hooks : hook[g] # "unmade" <=> g < k + 1 BY <1>1 DEF Hooks
<1> QED BY <1>4, <1>5

LEMMA Newest ==
    ASSUME OwnTypes, NEW h \in Hooks, \A g \in Hooks : hook[g] # "unmade" <=> g < h,
           hook' = [hook EXCEPT ![h] = "active"]
    PROVE  Active' = Active \union {h} /\ Max(Active') = h
<1>1. Active' = Active \union {h} BY DEF Active, OwnTypes
<1>2. \A g \in Active : g < h /\ g \in Hooks BY DEF Active
<1>3. \A x \in Active' : (\A y \in Active' : x >= y) <=> x = h BY <1>1, <1>2 DEF Hooks
<1> QED BY <1>1, <1>3 DEF Max

(* Whatever the API does for a worker, the webhooks stay numbered, and a    *)
(* worker that has a list of them already notes the new one.                *)
ApiMoves ==
    /\ hook' \in [Hooks -> {"unmade", "active", "deleted"}]
    /\ onHook' \in [Hooks -> SUBSET Addrs]
    /\ newer' \in [Workers -> SUBSET Hooks]
    /\ \E k \in 0..MaxHooks : \A h \in Hooks : hook'[h] = "unmade" <=> h > k
    /\ \A h \in Hooks : hook[h] # "unmade" => hook'[h] # "unmade"
    /\ \A w \in Workers : newer[w] \subseteq newer'[w]
    /\ \A w \in Workers : HasList(w) => Active' \subseteq Active \union newer'[w]

LEMMA DeleteMoves ==
    ASSUME OwnTypes, MadeInOrder, NEW h \in Hooks, ApiDeletes(h)
    PROVE  ApiMoves
<1>1. /\ hook[h] = "active" /\ hook' = [hook EXCEPT ![h] = "deleted"]
      /\ onHook' = [onHook EXCEPT ![h] = {}] /\ newer' = newer
  BY DEF ApiDeletes, Active
<1>2. \A g \in Hooks : hook'[g] = "unmade" <=> hook[g] = "unmade" BY <1>1 DEF OwnTypes
<1>3. Active' \subseteq Active BY <1>1 DEF Active, OwnTypes
<1> QED BY <1>1, <1>2, <1>3 DEF ApiMoves, OwnTypes, MadeInOrder

LEMMA StayMoves ==
    ASSUME OwnTypes, MadeInOrder, UNCHANGED <<apiVars, newer>>
    PROVE  ApiMoves
BY DEF OwnTypes, MadeInOrder, ApiMoves, apiVars, Active

LEMMA ServesMoves ==
    ASSUME OwnTypes, MadeInOrder, NEW p \in Plugins, ApiServes(p)
    PROVE  ApiMoves
<1>1. CASE ApiCreates(Listed(p.toAdd))
  <2>1. Listed(p.toAdd) \in SUBSET Addrs BY DEF Listed
  <2>2. PICK h \in Hooks :
           /\ \A g \in Hooks : hook[g] # "unmade" <=> g < h
           /\ hook' = [hook EXCEPT ![h] = "active"]
           /\ onHook' = [onHook EXCEPT ![h] = Listed(p.toAdd)]
           /\ newer' = [w \in Workers |->
                  IF HasList(w) THEN newer[w] \union {h} ELSE newer[w]]
    BY <1>1, <2>1, CreatesIs
  <2>3. Active' = Active \union {h} BY <2>2, Newest
  <2>4. \A g \in Hooks : hook'[g] # "unmade" <=> g <= h BY <2>2 DEF OwnTypes, Hooks
  <2>5. h \in 0..MaxHooks /\ \A g \in Hooks : hook'[g] = "unmade" <=> g > h
    BY <2>4, ClusterAssumption DEF Hooks
  <2>6. hook' \in [Hooks -> {"unmade", "active", "deleted"}] /\ onHook' \in [Hooks -> SUBSET Addrs]
    BY <2>1, <2>2 DEF OwnTypes
  <2>7. /\ newer' \in [Workers -> SUBSET Hooks] /\ \A w \in Workers : newer[w] \subseteq newer'[w]
        /\ \A w \in Workers : HasList(w) => h \in newer'[w]
    BY <2>2 DEF OwnTypes
  <2>8. \A g \in Hooks : hook[g] # "unmade" => hook'[g] # "unmade" BY <2>2 DEF OwnTypes
  <2> QED BY <2>3, <2>5, <2>6, <2>7, <2>8 DEF ApiMoves
<1>2. CASE ApiUpdates(p.webhookId, Listed(p.toAdd), Listed(p.toRemove))
  <2>1. onHook' \in [Hooks -> SUBSET Addrs] /\ UNCHANGED <<hook, newer>>
    BY <1>2 DEF ApiUpdates, OwnTypes, Listed
  <2> QED BY <2>1 DEF OwnTypes, MadeInOrder, ApiMoves, Active
<1>3. CASE ApiDeletes(p.webhookId)
  <2>1. p.webhookId \in Hooks BY <1>3 DEF ApiDeletes, Active
  <2> QED BY <1>3, <2>1, DeleteMoves
<1> QED BY <1>1, <1>2, <1>3 DEF ApiServes

(* The least of a set of webhooks, which a discovery takes.                 *)
LEMMA MinIs ==
    ASSUME NEW S \in SUBSET Hooks, S # {}
    PROVE  Min(S) \in S /\ \A g \in S : Min(S) <= g
<1> DEFINE R == {ss \in Nat \X Nat : ss[1] < ss[2]}
<1>1. IsWellFoundedOn(R, Nat) BY NatLessThanWellFounded, Zenon DEF OpToRel
<1>2. \A a, b \in Nat : a < b => <<a, b>> \in R OBVIOUS
<1> HIDE DEF R
<1>3. S \subseteq Nat BY DEF Hooks
<1>4. \E x \in S : \A y \in S : ~ (<<y, x>> \in R) BY <1>1, <1>3, WFMin
<1>5. \E x \in S : \A y \in S : x <= y
  <2>1. PICK x \in S : \A y \in S : ~ (<<y, x>> \in R) BY <1>4
  <2>2. ASSUME NEW y \in S PROVE x <= y
    <3>1. x \in Nat /\ y \in Nat BY <1>3
    <3>2. ~(y < x) BY <1>2, <2>1, <3>1
    <3> QED BY <3>1, <3>2
  <2> QED BY <2>2
<1> QED BY <1>5 DEF Min

(* A worker's plugin moves on, with or without the API.                     *)
LEMMA PluginMoves ==
    ASSUME OwnTypes, Keys, ApiMoves,
           NEW w \in Workers, NEW q \in Plugins, Becomes(w, q),
           \A h \in q.found : h \in plugin[w].found \union Active,
           UNCHANGED store \/ \E h \in Hooks : Learns(w, h),
           life[w] = "up", UNCHANGED <<life, deaths, failures>>,
           users' \subseteq Workers, calls' \in 0..MaxCalls
    PROVE  OwnTypes' /\ Keys'
<1> USE DEF Keys
<1>1. plugin' = [plugin EXCEPT ![w] = q] BY DEF Becomes
<1>2. /\ store' \in [Workers -> Stores]
      /\ \A v \in Workers : /\ store'[v].hasRecovered = store[v].hasRecovered
                            /\ store'[v].recovering = store[v].recovering
                            /\ store'[v].answer = store[v].answer
                            /\ store[v].keys \subseteq store'[v].keys
                            /\ v # w => store'[v] = store[v]
  <2>1. CASE UNCHANGED store BY <2>1 DEF OwnTypes
  <2>2. ASSUME NEW h \in Hooks, Learns(w, h)
        PROVE  /\ store' \in [Workers -> Stores]
               /\ \A v \in Workers : /\ store'[v].hasRecovered = store[v].hasRecovered
                                     /\ store'[v].recovering = store[v].recovering
                                     /\ store'[v].answer = store[v].answer
                                     /\ store[v].keys \subseteq store'[v].keys
                                     /\ v # w => store'[v] = store[v]
    <3> DEFINE s == [store[w] EXCEPT !.keys = @ \union {h}]
    <3>1. store[w] \in Stores BY DEF OwnTypes
    <3>2. /\ s \in Stores /\ s.hasRecovered = store[w].hasRecovered
          /\ s.recovering = store[w].recovering /\ s.answer = store[w].answer
          /\ store[w].keys \subseteq s.keys
      BY <3>1 DEF Stores
    <3>3. store' = [store EXCEPT ![w] = s] BY <2>2 DEF Learns
    <3> HIDE DEF s
    <3> QED BY <3>2, <3>3 DEF OwnTypes
  <2> QED BY <2>1, <2>2
<1>3. OwnTypes' BY <1>1, <1>2 DEF OwnTypes, ApiMoves
<1>4. MadeInOrder'
  <2>1. \A v \in Workers : plugin[v].found \subseteq Hooks BY DEF OwnTypes, Plugins
  <2>2. \A h \in Active : h \in Hooks /\ hook[h] # "unmade" BY DEF Active
  <2>3. \A v \in Workers : \A h \in plugin'[v].found : h \in Hooks /\ hook[h] # "unmade"
    <3> SUFFICES ASSUME NEW v \in Workers, NEW h \in plugin'[v].found
                 PROVE  h \in Hooks /\ hook[h] # "unmade"
      OBVIOUS
    <3>1. CASE v = w
      <4>1. h \in q.found BY <1>1, <3>1 DEF OwnTypes
      <4> QED BY <2>1, <2>2, <4>1 DEF MadeInOrder
    <3>2. CASE v # w
      <4>1. h \in plugin[v].found BY <1>1, <3>2 DEF OwnTypes
      <4> QED BY <2>1, <4>1 DEF MadeInOrder
    <3> QED BY <3>1, <3>2
  <2> QED BY <2>3 DEF MadeInOrder, ApiMoves
<1>5. DownIsFresh' BY <1>2 DEF DownIsFresh
<1>6. KeysAreKnown' BY <1>2 DEF KeysAreKnown, Knows, HasList, ApiMoves
<1> QED BY <1>3, <1>4, <1>5, <1>6

LEMMA BatchTypes ==
    ASSUME OwnTypes, Keys, NEW w \in Workers, Batch(w)
    PROVE  OwnTypes' /\ Keys'
<1> DEFINE p == plugin[w]
<1>0. p \in Plugins /\ MadeInOrder BY DEF OwnTypes, Keys
<1>1. /\ life[w] = "up" /\ UNCHANGED <<life, deaths, failures>>
      /\ users' \subseteq Workers /\ calls' \in 0..MaxCalls
  BY DEF Batch, FetchOk, Look, DiscoveryEnds, Fire, Initialized, CallOk, CallFails,
         restVars, boundVars, OwnTypes
<1>2. ASSUME NEW q \in Plugins, Becomes(w, q), q.found \subseteq p.found \union Active,
             UNCHANGED <<store, apiVars, newer>>
      PROVE  OwnTypes' /\ Keys'
  BY <1>0, <1>1, <1>2, StayMoves, PluginMoves
<1>3. CASE FetchOk(w)
  <2> DEFINE q == [p EXCEPT !.discovery = "listing", !.found = Active]
  <2>1. q \in Plugins /\ q.found = Active BY <1>0 DEF Plugins, Active
  <2>2. Becomes(w, q) /\ UNCHANGED <<store, apiVars, newer>> BY <1>3 DEF FetchOk
  <2> HIDE DEF q
  <2> QED BY <1>2, <2>1, <2>2
<1>4. CASE Look(w)
  <2> DEFINE h == Min(p.found)
             q == [p EXCEPT !.webhookId = h, !.found = @ \ {h}]
             r == [p EXCEPT !.found = @ \ {h}]
  <2>1. h \in p.found /\ p.found \subseteq Hooks BY <1>0, <1>4, MinIs DEF Look, Plugins
  <2> HIDE DEF h
  <2>2. /\ q \in Plugins /\ q.found \subseteq p.found
        /\ r \in Plugins /\ r.found \subseteq p.found
    BY <1>0, <2>1 DEF Plugins
  <2>3. \/ Becomes(w, q) /\ Learns(w, h) /\ UNCHANGED <<apiVars, newer>>
        \/ Becomes(w, r) /\ UNCHANGED store /\ (ApiDeletes(h) \/ UNCHANGED <<apiVars, newer>>)
    BY <1>4 DEF Look, h
  <2>4. ApiMoves BY <1>0, <2>1, <2>3, StayMoves, DeleteMoves
  <2> HIDE DEF q, r
  <2> QED BY <1>1, <2>1, <2>2, <2>3, <2>4, PluginMoves
<1>5. CASE DiscoveryEnds(w)
  <2> DEFINE q == [p EXCEPT !.discovery = "done"]
  <2>1. q \in Plugins /\ q.found = p.found BY <1>0 DEF Plugins
  <2>2. Becomes(w, q) /\ UNCHANGED <<store, apiVars, newer>> BY <1>5 DEF DiscoveryEnds
  <2> HIDE DEF q
  <2> QED BY <1>2, <2>1, <2>2
<1>6. CASE Fire(w)
  <2> DEFINE t == Await(p, "initializing", p.add, p.remove)
             q == [t EXCEPT !.add = Empty, !.remove = Empty]
  <2>1. /\ p.add \in Queues /\ p.remove \in Queues /\ Empty \in Queues
        /\ "initializing" \in Labels
    BY <1>0 DEF Plugins, Queues, Empty, Labels
  <2>2. t \in Plugins BY <1>0, <2>1, AwaitType
  <2>3. t.found = p.found BY <1>0 DEF Await, Plugins
  <2> HIDE DEF t
  <2>4. q \in Plugins /\ q.found = t.found BY <2>1, <2>2 DEF Plugins
  <2>5. Becomes(w, q) /\ UNCHANGED <<store, apiVars, newer>> BY <1>6 DEF Fire, t
  <2> HIDE DEF q
  <2> QED BY <1>2, <2>3, <2>4, <2>5
<1>7. ASSUME NEW r \in Plugins
      PROVE  /\ \A label \in Labels, add \in Queues, remove \in Queues :
                   Await(r, label, add, remove).found = r.found
             /\ Finish(r).found = r.found /\ AfterUpdate(r).found = r.found
             /\ Proceed(r).found = r.found /\ Requeue(r).found = r.found
  BY DEF Plugins, Await, Finish, AfterUpdate, Proceed, Requeue
<1>8. CASE Initialized(w)
  <2>1. Becomes(w, Proceed(p)) /\ UNCHANGED <<store, apiVars, newer>> BY <1>8 DEF Initialized
  <2> QED BY <1>0, <1>2, <1>7, <2>1, ProceedType
<1>9. CASE CallFails(w)
  <2>1. /\ Becomes(w, Requeue(p)) \/ Becomes(w, Finish(p))
        /\ UNCHANGED <<store, apiVars, newer>>
    BY <1>9 DEF CallFails
  <2> QED BY <1>0, <1>2, <1>7, <2>1, RequeueType, FinishType
<1>10. CASE CallOk(w)
  <2> DEFINE h == Max(Active')
             q == Answered(p, h)
  <2>1. ApiServes(p) /\ Becomes(w, q) /\ (Learns(w, h) \/ UNCHANGED store)
        /\ (p.pc # "creating" => UNCHANGED store)
    BY <1>10 DEF CallOk
  <2>2. ApiMoves BY <1>0, <2>1, ServesMoves
  <2>3. CASE p.pc = "creating"
    <3>1. ApiCreates(Listed(p.toAdd)) /\ Listed(p.toAdd) \in SUBSET Addrs
      BY <2>1, <2>3 DEF ApiServes, Listed
    <3>2. h \in Hooks BY <1>0, <3>1, CreatesIs, Newest
    <3> HIDE DEF h
    <3> DEFINE r == [p EXCEPT !.webhookId = h, !.toAdd = Empty]
    <3>3. r \in Plugins /\ r.found = p.found BY <1>0, <3>2 DEF Plugins, Queues, Empty
    <3>4. q = Proceed(r) BY <2>3 DEF Answered
    <3> HIDE DEF r, q
    <3>5. q \in Plugins /\ q.found = p.found BY <1>7, <3>3, <3>4, ProceedType
    <3> QED BY <1>1, <2>1, <2>2, <3>2, <3>5, PluginMoves
  <2>4. CASE p.pc # "creating"
    <3> DEFINE r == [p EXCEPT !.webhookId = NoHook]
    <3>1. r \in Plugins /\ r.found = p.found BY <1>0 DEF Plugins
    <3>2. q = AfterUpdate(p) \/ q = Finish(r) BY <2>4 DEF Answered
    <3> HIDE DEF r, q
    <3>3. q \in Plugins /\ q.found = p.found
      BY <1>0, <1>7, <3>1, <3>2, AfterUpdateType, FinishType
    <3> QED BY <1>1, <2>1, <2>2, <2>4, <3>3, PluginMoves
  <2> QED BY <2>3, <2>4
<1> QED BY <1>3, <1>4, <1>5, <1>6, <1>8, <1>9, <1>10 DEF Batch

LEMMA ClientTypes ==
    ASSUME OwnTypes, Keys, NEW w \in Workers, NEW a \in Addrs,
           Subscribe(w, a) \/ Unsubscribe(w, a)
    PROVE  OwnTypes' /\ Keys'
<1> DEFINE p == plugin[w]
           q == [p EXCEPT !.subscribed = @ \union {a},
                          !.add = Push(@, a), !.remove = Splice(@, a)]
           r == [p EXCEPT !.subscribed = @ \ {a},
                          !.remove = Push(@, a), !.add = Splice(@, a)]
<1>1. p \in Plugins BY DEF OwnTypes
<1>2. /\ Push(p.add, a) \in Queues /\ Splice(p.add, a) \in Queues
      /\ Push(p.remove, a) \in Queues /\ Splice(p.remove, a) \in Queues
  BY <1>1, QueueTypes DEF Plugins
<1>3. /\ q \in Plugins /\ q.found = p.found
      /\ r \in Plugins /\ r.found = p.found
  BY <1>1, <1>2 DEF Plugins
<1>4. /\ Becomes(w, q) \/ Becomes(w, r)
      /\ life[w] = "up" /\ UNCHANGED <<life, store, apiVars, newer, deaths, failures>>
      /\ users' \subseteq Workers /\ calls' \in 0..MaxCalls
  BY ClusterAssumption DEF Subscribe, Unsubscribe, OwnTypes
<1>5. ApiMoves BY <1>4, StayMoves DEF Keys
<1> HIDE DEF q, r
<1> QED BY <1>3, <1>4, <1>5, PluginMoves

(* The handling of webhook requests changes no more than what the workers   *)
(* know of the keys.                                                        *)
LEMMA MailKeeps ==
    ASSUME OwnTypes, Keys, UNCHANGED callerVars,
           store' \in [Workers -> Stores], newer' \in [Workers -> SUBSET Hooks],
           failures' \in 0..MaxFailures,
           \A v \in Workers : \/ store'[v] = store[v] /\ newer'[v] = newer[v]
                              \/ life[v] # "down" /\ Knows(store'[v], newer'[v], Active)
    PROVE  OwnTypes' /\ Keys'
<1> USE DEF Keys
<1>1. UNCHANGED <<life, plugin, hook, onHook, users, calls, deaths, Active>>
  BY DEF callerVars, apiVars, Active
<1>2. OwnTypes' BY <1>1 DEF OwnTypes
<1>3. MadeInOrder' /\ DownIsFresh' BY <1>1 DEF MadeInOrder, DownIsFresh
<1>4. KeysAreKnown' BY <1>1 DEF KeysAreKnown
<1> QED BY <1>2, <1>3, <1>4

LEMMA MailStepTypes ==
    ASSUME OwnTypes, Keys,
           \/ \E w \in Workers :
                 \/ \E n \in Activities : Receive(w, n) \/ ReceiveUnknown(w, n)
                 \/ Recover(w)
           \/ \E n \in Activities, h \in Hooks, a \in Addrs : Activity(n, h, a)
           \/ \E n \in Activities : Redeliver(n)
           \/ Post
    PROVE  OwnTypes' /\ Keys' /\ UNCHANGED callerVars
<1>0. UNCHANGED callerVars
  BY DEF Receive, ReceiveUnknown, Recover, ListForRecovery, RecoverOk, RecoverFails, Activity,
         Redeliver, Post, Relay, RelayOrphan, IpcHandler
<1>1. CASE UNCHANGED <<store, newer, failures>>
  BY <1>0, <1>1, MailKeeps DEF OwnTypes
<1>2. ASSUME NEW w \in Workers, NEW n \in Activities, ReceiveUnknown(w, n)
      PROVE  OwnTypes' /\ Keys'
  <2> DEFINE s == [store[w] EXCEPT !.recovering = IF @ = "no" THEN "asked" ELSE @]
  <2>1. store' = [store EXCEPT ![w] = s] /\ life[w] = "up" /\ ~store[w].hasRecovered
        /\ UNCHANGED <<newer, failures>>
    BY <1>2 DEF ReceiveUnknown
  <2>2. s \in Stores /\ Knows(s, newer[w], Active)
    BY <2>1 DEF OwnTypes, Stores, Keys, KeysAreKnown, Knows
  <2> HIDE DEF s
  <2> QED BY <1>0, <2>1, <2>2, MailKeeps DEF OwnTypes
<1>3. ASSUME NEW w \in Workers, ListForRecovery(w) PROVE OwnTypes' /\ Keys'
  <2> DEFINE s == [store[w] EXCEPT !.recovering = "answered", !.answer = Active]
  <2>1. /\ store' = [store EXCEPT ![w] = s] /\ newer' = [newer EXCEPT ![w] = {}]
        /\ store[w].recovering = "asked" /\ UNCHANGED failures
    BY <1>3 DEF ListForRecovery
  <2>2. life[w] # "down" BY <2>1 DEF Keys, DownIsFresh, FreshStore
  <2>3. s \in Stores /\ Knows(s, {}, Active)
    BY <2>1 DEF OwnTypes, Stores, Active, Keys, KeysAreKnown, Knows
  <2> HIDE DEF s
  <2> QED BY <1>0, <2>1, <2>2, <2>3, MailKeeps DEF OwnTypes
<1>4. ASSUME NEW w \in Workers, RecoverOk(w) PROVE OwnTypes' /\ Keys'
  <2> DEFINE s == [keys |-> store[w].keys \union store[w].answer, hasRecovered |-> TRUE,
                   recovering |-> "no", answer |-> {}]
  <2>1. store' = [store EXCEPT ![w] = s] /\ store[w].recovering = "answered"
        /\ UNCHANGED <<newer, failures>>
    BY <1>4 DEF RecoverOk
  <2>2. s \in Stores /\ Knows(s, newer[w], Active)
    BY <2>1 DEF OwnTypes, Stores, Keys, KeysAreKnown, Knows
  <2>3. life[w] # "down" BY <2>1 DEF Keys, DownIsFresh, FreshStore
  <2> HIDE DEF s
  <2> QED BY <1>0, <2>1, <2>2, <2>3, MailKeeps DEF OwnTypes
<1>5. ASSUME NEW w \in Workers, RecoverFails(w) PROVE OwnTypes' /\ Keys'
  <2> DEFINE s == Failed(store[w])
  <2>1. store' = [store EXCEPT ![w] = s] /\ store[w].recovering # "no" /\ UNCHANGED newer
    BY <1>5 DEF RecoverFails
  <2>2. s \in Stores /\ Knows(s, newer[w], Active)
    BY DEF OwnTypes, Stores, Failed, Keys, KeysAreKnown, Knows
  <2>3. life[w] # "down" BY <2>1 DEF Keys, DownIsFresh, FreshStore
  <2>4. failures' \in 0..MaxFailures BY <1>5, ClusterAssumption DEF RecoverFails, OwnTypes
  <2> HIDE DEF s
  <2> QED BY <1>0, <2>1, <2>2, <2>3, <2>4, MailKeeps DEF OwnTypes
<1> QED
  BY <1>0, <1>1, <1>2, <1>3, <1>4, <1>5
  DEF Receive, Recover, Activity, Redeliver, Post, Relay, RelayOrphan, IpcHandler

LEMMA LifeTypes ==
    ASSUME MailTypes, OwnTypes, Keys, NEW w \in Workers, Die(w) \/ Fork(w)
    PROVE  OwnTypes' /\ Keys'
<1> USE DEF Keys
<1>1. CASE Die(w)
  <2>1. /\ life' = [life EXCEPT ![w] = "down"]
        /\ plugin' = [plugin EXCEPT ![w] = FreshPlugin]
        /\ store' = [store EXCEPT ![w] = FreshStore]
        /\ ApiServes(plugin[w]) \/ UNCHANGED <<apiVars, newer>>
        /\ UNCHANGED <<users, calls, failures>>
    BY <1>1 DEF Die
  <2>2. deaths' \in 0..MaxDeaths BY <1>1, ClusterAssumption DEF Die, OwnTypes
  <2>3. plugin[w] \in Plugins BY DEF OwnTypes
  <2>4. ApiMoves BY <2>1, <2>3, ServesMoves, StayMoves
  <2>5. OwnTypes' BY <2>1, <2>2, <2>4, FreshTypes DEF OwnTypes, ApiMoves
  <2>6. MadeInOrder'
    <3>1. FreshPlugin.found = {} BY DEF FreshPlugin
    <3>2. \A v \in Workers : plugin'[v].found \subseteq plugin[v].found
      BY <2>1, <3>1 DEF OwnTypes
    <3>3. \A v \in Workers : plugin[v].found \subseteq Hooks BY DEF OwnTypes, Plugins
    <3> QED BY <2>4, <3>2, <3>3 DEF MadeInOrder, ApiMoves
  <2>7. DownIsFresh' BY <2>1 DEF DownIsFresh, MailTypes, OwnTypes
  <2>8. KeysAreKnown'
    <3>1. Knows(FreshStore, newer'[w], Active') BY DEF FreshStore, Knows
    <3>2. store'[w] = FreshStore /\ \A v \in Workers \ {w} : store'[v] = store[v]
      BY <2>1 DEF OwnTypes
    <3> QED BY <2>4, <3>1, <3>2 DEF KeysAreKnown, Knows, HasList, ApiMoves
  <2> QED BY <2>5, <2>6, <2>7, <2>8
<1>2. CASE Fork(w)
  <2>1. /\ life[w] = "down" /\ life' = [life EXCEPT ![w] = "up"]
        /\ newer' = [newer EXCEPT ![w] = {}]
        /\ UNCHANGED <<plugin, store, hook, onHook, users, calls, deaths, failures, Active>>
    BY <1>2 DEF Fork, apiVars, boundVars, Active
  <2>2. OwnTypes' BY <2>1 DEF OwnTypes
  <2>3. MadeInOrder' BY <2>1 DEF MadeInOrder
  <2>4. DownIsFresh' BY <2>1 DEF DownIsFresh, MailTypes
  <2>5. Knows(store[w], {}, Active) BY <2>1 DEF DownIsFresh, FreshStore, Knows
  <2>6. KeysAreKnown' BY <2>1, <2>5 DEF KeysAreKnown, Knows, OwnTypes
  <2> QED BY <2>2, <2>3, <2>4, <2>6
<1> QED BY <1>1, <1>2

LEMMA OwnInit == Init => OwnTypes /\ Keys
<1> SUFFICES ASSUME Init PROVE OwnTypes /\ Keys OBVIOUS
<1>1. PICK left \in 0..MaxLeft, gone \in 0..MaxLeft, addrs \in SUBSET Addrs :
        /\ gone <= left
        /\ hook = [h \in Hooks |->
               IF h > left THEN "unmade" ELSE IF h > gone THEN "active" ELSE "deleted"]
        /\ onHook = [h \in Hooks |-> IF h > left \/ h <= gone THEN {} ELSE addrs]
  <2>1. PICK left \in 0..MaxLeft : \E gone \in 0..left, addrs \in SUBSET Addrs :
          /\ hook = [h \in Hooks |->
                 IF h > left THEN "unmade" ELSE IF h > gone THEN "active" ELSE "deleted"]
          /\ onHook = [h \in Hooks |-> IF h > left \/ h <= gone THEN {} ELSE addrs]
    BY DEF Init
  <2>2. 0..left \subseteq 0..MaxLeft /\ \A k \in 0..left : k <= left
    BY ClusterAssumption
  <2> QED BY <2>1, <2>2
<1>2. left \in 0..MaxHooks BY ClusterAssumption
<1>3. \A h \in Hooks : hook[h] = "unmade" <=> h > left BY <1>1, <1>2 DEF Hooks
<1>4. hook \in [Hooks -> {"unmade", "active", "deleted"}] /\ onHook \in [Hooks -> SUBSET Addrs]
  BY <1>1
<1>5. OwnTypes BY <1>4, FreshTypes, ClusterAssumption DEF Init, OwnTypes
<1>6. MadeInOrder BY <1>2, <1>3 DEF Init, MadeInOrder, FreshPlugin
<1>7. DownIsFresh /\ KeysAreKnown
  BY DEF Init, DownIsFresh, KeysAreKnown, Knows, FreshStore
<1> QED BY <1>5, <1>6, <1>7 DEF Keys

LEMMA OwnNext ==
    ASSUME MailTypes, OwnTypes, Keys, [Next]_vars
    PROVE  OwnTypes' /\ Keys'
<1>1. CASE UNCHANGED vars
  BY <1>1 DEF vars, apiVars, boundVars, OwnTypes, Keys, MadeInOrder, DownIsFresh, KeysAreKnown,
     Knows, Active
<1> QED BY <1>1, BatchTypes, ClientTypes, MailStepTypes, LifeTypes DEF Next

LEMMA Typing == Spec => [](IInv /\ OwnTypes /\ Keys)
<1>1. Init => IInv /\ OwnTypes /\ Keys BY InvInit, OwnInit
<1>2. IInv /\ OwnTypes /\ Keys /\ [Next]_vars => (IInv /\ OwnTypes /\ Keys)'
  BY Inductive, OwnNext DEF IInv
<1> QED BY <1>1, <1>2, PTL DEF Spec

(* The processes, the API and the messages between them keep their types,   *)
(* for any number of workers, webhooks and requests.                        *)
THEOREM TypeCorrect == Spec => []TypeOK
<1>1. IInv /\ OwnTypes => TypeOK BY TypeIs DEF IInv
<1> QED BY <1>1, Typing, PTL

(* A webhook request is refused only when the keys cannot be had, or the    *)
(* webhook is gone or younger than the list the API composed for the        *)
(* worker's recovery (src/util/signingKeyStore.ts), however many requests   *)
(* share that recovery and whatever happens while the list is awaited.      *)
THEOREM RefusalsAreJust == Spec => RefusesOnlyStrangers
<1> DEFINE Just ==
      \A n \in Activities : Refuses(n) =>
          \/ failures' # failures \/ deaths' # deaths
          \/ request[n].hook \notin Active
          \/ \E w \in request'[n].worker : request[n].hook \in newer[w]
<1>1. IInv /\ OwnTypes /\ Keys /\ [Next]_vars => [Just]_vars
  <2> SUFFICES ASSUME IInv, OwnTypes, Keys, Next, NEW n \in Activities, Refuses(n),
                      UNCHANGED <<failures, deaths>>
               PROVE  \/ request[n].hook \notin Active
                      \/ \E w \in request'[n].worker : request[n].hook \in newer[w]
    OBVIOUS
  <2>1. request[n].at # "refused" /\ request'[n].at = "refused" BY DEF Refuses
  <2>2. request[n] \in Requests BY DEF IInv, MailTypes
  <2>3. ASSUME NEW w \in Workers, NEW N, NEW keys, Reply(w, N, keys),
               \A h \in Active : h \in keys \union newer[w]
        PROVE  \/ request[n].hook \notin Active
               \/ \E v \in request'[n].worker : request[n].hook \in newer[v]
    <3> DEFINE good == {k \in N : request[k].hook \in keys}
    <3>1. request'[n] = IF n \in N
                        THEN [request[n] EXCEPT !.at = IF n \in good THEN "accepted" ELSE "refused",
                                                !.worker = {w}]
                        ELSE request[n]
      BY <2>3 DEF Reply
    <3>2. n \in N BY <2>1, <3>1
    <3>3. request'[n].worker = {w} BY <2>2, <3>1, <3>2 DEF Requests
    <3>4. n \notin good
      <4>1. CASE n \in good
        <5>1. request'[n] = [request[n] EXCEPT !.at = "accepted", !.worker = {w}]
          BY <3>1, <3>2, <4>1
        <5>2. request'[n].at = "accepted" BY <2>2, <5>1 DEF Requests
        <5> QED BY <2>1, <5>2
      <4> QED BY <4>1
    <3>5. request[n].hook \notin keys BY <3>2, <3>4
    <3> QED BY <2>3, <3>3, <3>5
  <2>4. ASSUME NEW w \in Workers, NEW m \in Activities, Receive(w, m)
        PROVE  \/ request[n].hook \notin Active
               \/ \E v \in request'[n].worker : request[n].hook \in newer[v]
    <3>1. Reply(w, {m}, store[w].keys) BY <2>4 DEF Receive
    <3>2. CASE store[w].hasRecovered
      <4>1. \A h \in Active : h \in store[w].keys \union newer[w]
        BY <3>2 DEF Keys, KeysAreKnown, Knows
      <4> QED BY <2>3, <3>1, <4>1
    <3>3. CASE request[m].hook \in store[w].keys
      <4>1. request'[n] = IF n = m
                          THEN [request[n] EXCEPT !.at = "accepted", !.worker = {w}]
                          ELSE request[n]
        BY <3>1, <3>3 DEF Reply
      <4>2. request'[n].at = "accepted" \/ request'[n] = request[n]
        BY <2>2, <4>1 DEF Requests
      <4> QED BY <2>1, <4>2
    <3> QED BY <2>4, <3>2, <3>3 DEF Receive
  <2>5. ASSUME NEW w \in Workers, Recover(w)
        PROVE  \/ request[n].hook \notin Active
               \/ \E v \in request'[n].worker : request[n].hook \in newer[v]
    <3>1. ~RecoverFails(w) BY DEF RecoverFails, OwnTypes
    <3>2. CASE ListForRecovery(w) BY <2>1, <3>2 DEF ListForRecovery, mailVars
    <3>3. CASE RecoverOk(w)
      <4>1. /\ Reply(w, Waiting(w), store[w].keys \union store[w].answer)
            /\ store[w].recovering = "answered"
        BY <3>3 DEF RecoverOk
      <4>2. \A h \in Active : h \in (store[w].keys \union store[w].answer) \union newer[w]
        BY <4>1 DEF Keys, KeysAreKnown, Knows
      <4> QED BY <2>3, <4>1, <4>2
    <3> QED BY <2>5, <3>1, <3>2, <3>3 DEF Recover
  <2>6. ASSUME NEW w \in Workers, Die(w) PROVE FALSE
    BY <2>6 DEF Die, OwnTypes
  <2>7. ASSUME request' = request PROVE FALSE BY <2>1, <2>7
  <2>8. ASSUME NEW w \in Workers, NEW m \in Activities, ReceiveUnknown(w, m) PROVE FALSE
    BY <2>1, <2>8 DEF ReceiveUnknown, IInv, MailTypes, Requests
  <2>9. ASSUME NEW m \in Activities, Redeliver(m) PROVE FALSE
    BY <2>1, <2>9 DEF Redeliver, IInv, MailTypes, Requests
  <2>10. ASSUME NEW m \in Activities, NEW h \in Hooks, NEW a \in Addrs, Activity(m, h, a)
         PROVE  FALSE
    BY <2>1, <2>10 DEF Activity, IInv, MailTypes
  <2>11. ASSUME NEW w \in Workers,
                \/ \E a \in Addrs : Subscribe(w, a) \/ Unsubscribe(w, a)
                \/ Batch(w) \/ Fork(w)
         PROVE  request' = request
    BY <2>11 DEF Subscribe, Unsubscribe, Batch, FetchOk, Look, DiscoveryEnds, Fire, Initialized,
           CallOk, CallFails, Fork, restVars, mailVars
  <2>12. ASSUME Post PROVE request' = request
    BY <2>12 DEF Post, Relay, RelayOrphan, IpcHandler
  <2> QED BY <2>4, <2>5, <2>6, <2>7, <2>8, <2>9, <2>10, <2>11, <2>12 DEF Next
<1> QED BY <1>1, Typing, PTL DEF Spec, RefusesOnlyStrangers

----------------------------------------------------------------------------
(* One worker with clients *)

Single == \A v, w \in users : v = w

(* A worker that never had clients only looks for webhooks.                 *)
OnlyDiscovers(p) ==
    /\ p.subscribed = {} /\ p.pc = "idle"
    /\ Listed(p.add) = {} /\ Listed(p.remove) = {}
    /\ p.discovery = "fetching" => p.webhookId = NoHook
Strangers == \A w \in Workers \ users : OnlyDiscovers(plugin[w])

Least(h, S) == h \in S /\ \A g \in S : h <= g

(* No discovery is to delete the first of the active webhooks, which every  *)
(* other one keeps.                                                         *)
Spares(p, active) ==
    \A h \in p.found : Least(h, active) => p.webhookId = NoHook /\ Least(h, p.found)

(* What the discovery of the worker with clients has found, of the active   *)
(* webhooks...                                                              *)
DiscoveryKeeps(p, active) ==
    /\ p.discovery = "fetching" => p.webhookId = NoHook
    /\ p.discovery = "listing" =>
          IF p.webhookId = NoHook
          THEN /\ active \subseteq p.found
               /\ \A h \in p.found : Least(h, p.found) => h \in active
          ELSE Least(p.webhookId, active) /\ active \subseteq p.found \union {p.webhookId}
    /\ p.discovery = "done" => active = (IF p.webhookId = NoHook THEN {} ELSE {p.webhookId})

(* ... the call its batch awaits...                                         *)
BatchKeeps(p) ==
    /\ p.discovery # "done" => p.pc \in {"idle", "initializing"}
    /\ p.pc = "creating" => p.webhookId = NoHook
    /\ p.pc \in {"updating", "deleting"} => p.webhookId # NoHook
    /\ p.pc = "deleting" => p.subscribed \subseteq Listed(p.add)
    /\ p.pc \in {"idle", "deleting"} => Listed(p.toAdd) = {} /\ Listed(p.toRemove) = {}

(* ... its queues...                                                        *)
QueuesKeep(p) ==
    \A a \in Addrs :
        /\ p.add[a] <= 1 /\ p.remove[a] <= 1
        /\ a \in p.subscribed => p.remove[a] = 0
        /\ a \notin p.subscribed => p.add[a] = 0
        /\ ~(a \in Listed(p.toAdd) /\ a \in Listed(p.toRemove))

(* ... and where each subscribed address is, given those of the webhooks.   *)
AddressesKept(p, on) ==
    \A a \in p.subscribed :
        \/ a \in Listed(p.add)
        \/ a \in Listed(p.toAdd)
        \/ /\ p.discovery = "done" /\ p.webhookId # NoHook
           /\ a \in on[p.webhookId] /\ a \notin Listed(p.toRemove)

Keeps(p, active, on) ==
    DiscoveryKeeps(p, active) /\ BatchKeeps(p) /\ QueuesKeep(p) /\ AddressesKept(p, on)

OneUser ==
    /\ Strangers
    /\ Single => /\ \A w \in Workers : Spares(plugin[w], Active)
                 /\ \A w \in Workers : users \subseteq {w} => Keeps(plugin[w], Active, onHook)

LEMMA NothingListed == Listed(Empty) = {} /\ Empty \in Queues
BY DEF Listed, Empty, Queues

LEMMA FreshKeeps ==
    ASSUME NEW active, NEW on
    PROVE  /\ Keeps(FreshPlugin, active, on)
           /\ Spares(FreshPlugin, active) /\ OnlyDiscovers(FreshPlugin)
<1>1. Listed(Empty) = {} /\ \A a \in Addrs : Empty[a] = 0 BY NothingListed DEF Empty
<1> QED
  BY <1>1 DEF FreshPlugin, Keeps, DiscoveryKeeps, BatchKeeps, QueuesKeep, AddressesKept, Spares,
     OnlyDiscovers

LEMMA AfterUpdateKeeps ==
    ASSUME NEW p \in Plugins, NEW active, NEW on,
           p.discovery = "done", p.webhookId # NoHook, DiscoveryKeeps(p, active), QueuesKeep(p),
           \A a \in p.subscribed : a \in Listed(p.add) \/ a \in on[p.webhookId]
    PROVE  Keeps(AfterUpdate(p), active, on)
<1> DEFINE q == AfterUpdate(p)
<1>1. /\ q.discovery = "done" /\ q.webhookId = p.webhookId /\ q.found = p.found
      /\ q.subscribed = p.subscribed /\ q.add = p.add /\ q.remove = p.remove
      /\ q.toAdd = Empty /\ q.toRemove = Empty
      /\ (q.pc = "deleting" /\ p.subscribed = {}) \/ q.pc = "idle"
  BY DEF AfterUpdate, Finish, Await, Plugins
<1> HIDE DEF q
<1> USE NothingListed
<1>2. DiscoveryKeeps(q, active) BY <1>1 DEF DiscoveryKeeps
<1>3. BatchKeeps(q) BY <1>1 DEF BatchKeeps
<1>4. QueuesKeep(q) BY <1>1 DEF QueuesKeep
<1>5. AddressesKept(q, on) BY <1>1 DEF AddressesKept
<1> QED BY <1>2, <1>3, <1>4, <1>5 DEF Keeps, q

LEMMA ProceedKeeps ==
    ASSUME NEW p \in Plugins, NEW active, NEW on,
           p.discovery = "done", DiscoveryKeeps(p, active), QueuesKeep(p), AddressesKept(p, on)
    PROVE  Keeps(Proceed(p), active, on)
<1>1. CASE p.webhookId = NoHook /\ Listed(p.toAdd) = {}
  <2> DEFINE q == Finish(p)
  <2>1. /\ q.discovery = "done" /\ q.webhookId = p.webhookId /\ q.found = p.found
        /\ q.subscribed = p.subscribed /\ q.add = p.add /\ q.remove = p.remove
        /\ q.toAdd = Empty /\ q.toRemove = Empty /\ q.pc = "idle"
    BY DEF Finish, Await, Plugins
  <2>2. Proceed(p) = q BY <1>1 DEF Proceed
  <2> HIDE DEF q
  <2>3. DiscoveryKeeps(q, active) BY <2>1 DEF DiscoveryKeeps
  <2>4. BatchKeeps(q) BY <2>1, NothingListed DEF BatchKeeps
  <2>5. QueuesKeep(q) BY <2>1, NothingListed DEF QueuesKeep
  <2>6. AddressesKept(q, on) BY <1>1, <2>1 DEF AddressesKept
  <2> QED BY <2>2, <2>3, <2>4, <2>5, <2>6 DEF Keeps
<1>2. ASSUME NEW label \in {"creating", "updating"},
             label = "creating" <=> p.webhookId = NoHook,
             Proceed(p) = Await(p, label, p.toAdd, p.toRemove)
      PROVE  Keeps(Proceed(p), active, on)
  <2> DEFINE q == Await(p, label, p.toAdd, p.toRemove)
  <2>1. /\ q.discovery = "done" /\ q.webhookId = p.webhookId /\ q.found = p.found
        /\ q.subscribed = p.subscribed /\ q.add = p.add /\ q.remove = p.remove
        /\ q.toAdd = p.toAdd /\ q.toRemove = p.toRemove /\ q.pc = label
    BY DEF Await, Plugins
  <2> HIDE DEF q
  <2>2. DiscoveryKeeps(q, active) BY <2>1 DEF DiscoveryKeeps
  <2>3. BatchKeeps(q) BY <1>2, <2>1 DEF BatchKeeps
  <2>4. QueuesKeep(q) BY <2>1 DEF QueuesKeep
  <2>5. AddressesKept(q, on) BY <2>1 DEF AddressesKept
  <2> QED BY <1>2, <2>2, <2>3, <2>4, <2>5 DEF Keeps, q
<1>3. CASE p.webhookId # NoHook /\ Listed(p.toAdd) \union Listed(p.toRemove) = {}
  <2>1. Proceed(p) = AfterUpdate(p) BY <1>3 DEF Proceed
  <2>2. \A a \in p.subscribed : a \in Listed(p.add) \/ a \in on[p.webhookId]
    BY <1>3 DEF AddressesKept
  <2> QED BY <1>3, <2>1, <2>2, AfterUpdateKeeps
<1>4. CASE p.webhookId = NoHook /\ Listed(p.toAdd) # {} BY <1>2, <1>4 DEF Proceed
<1>5. CASE p.webhookId # NoHook /\ Listed(p.toAdd) \union Listed(p.toRemove) # {}
  BY <1>2, <1>5 DEF Proceed
<1> QED BY <1>1, <1>3, <1>4, <1>5

(* Deleting a webhook that is not the first disturbs nobody.                *)
LEMMA DeleteKeeps ==
    ASSUME NEW p \in Plugins, NEW active \in SUBSET Hooks, NEW on, NEW later,
           NEW h \in active, ~Least(h, active),
           \A g \in Hooks : g # h => later[g] = on[g]
    PROVE  /\ Keeps(p, active, on) => Keeps(p, active \ {h}, later)
           /\ Spares(p, active) => Spares(p, active \ {h})
<1>1. active \subseteq Nat BY DEF Hooks
<1>2. PICK g \in active : g < h BY <1>1 DEF Least
<1>3. \A x : Least(x, active \ {h}) => Least(x, active)
  BY <1>1, <1>2 DEF Least
<1>4. ASSUME Spares(p, active) PROVE Spares(p, active \ {h}) BY <1>3, <1>4 DEF Spares
<1>5. ASSUME Keeps(p, active, on) PROVE Keeps(p, active \ {h}, later)
  <2> USE DEF Keeps
  <2>1. p.discovery # "done" BY <1>2, <1>1, <1>5 DEF DiscoveryKeeps
  <2>2. p.discovery = "listing" /\ p.webhookId = NoHook =>
           \A x \in p.found : Least(x, p.found) => x \in active \ {h}
    BY <1>5 DEF DiscoveryKeeps, Least
  <2>3. p.discovery = "listing" /\ p.webhookId # NoHook => Least(p.webhookId, active \ {h})
    BY <1>5 DEF DiscoveryKeeps, Least
  <2>4. DiscoveryKeeps(p, active \ {h}) BY <1>5, <2>1, <2>2, <2>3 DEF DiscoveryKeeps
  <2>5. AddressesKept(p, later) BY <1>5, <2>1 DEF AddressesKept
  <2> QED BY <1>5, <2>4, <2>5
<1> QED BY <1>4, <1>5

(* What the API does for the one worker with clients leaves its webhook the *)
(* only active one, and no discovery is about to delete that.               *)
LEMMA ServesSpares ==
    ASSUME OwnTypes, Keys, OneUser, Single, NEW w \in users, ApiServes(plugin[w]),
           NEW v \in Workers, Spares(plugin[v], Active)
    PROVE  Spares(plugin[v], Active')
<1> DEFINE p == plugin[w]
<1>1. p \in Plugins /\ Keeps(p, Active, onHook) BY DEF OneUser, Single, OwnTypes
<1>2. p.discovery = "done"
  BY <1>1 DEF Keeps, BatchKeeps, ApiServes
<1>3. Active = IF p.webhookId = NoHook THEN {} ELSE {p.webhookId}
  BY <1>1, <1>2 DEF Keeps, DiscoveryKeeps
<1>4. CASE ApiCreates(Listed(p.toAdd)) /\ p.pc = "creating"
  <2>1. Active = {} BY <1>1, <1>3, <1>4 DEF Keeps, BatchKeeps
  <2>2. PICK h \in Hooks : /\ \A g \in Hooks : hook[g] # "unmade" <=> g < h
                           /\ hook' = [hook EXCEPT ![h] = "active"]
    <3>1. Listed(p.toAdd) \in SUBSET Addrs BY DEF Listed
    <3> QED BY <1>4, <3>1, CreatesIs DEF Keys
  <2>3. Active' = {h} BY <2>1, <2>2, Newest
  <2>4. h \notin plugin[v].found BY <2>2 DEF Keys, MadeInOrder, Hooks
  <2> QED BY <2>3, <2>4 DEF Spares, Least
<1>5. CASE ApiUpdates(p.webhookId, Listed(p.toAdd), Listed(p.toRemove))
  <2>1. Active' = Active BY <1>5 DEF ApiUpdates, Active
  <2> QED BY <2>1
<1>6. CASE ApiDeletes(p.webhookId)
  <2>1. Active' = {} BY <1>3, <1>6 DEF ApiDeletes, Active, OwnTypes
  <2> QED BY <2>1 DEF Spares, Least
<1> QED BY <1>4, <1>5, <1>6 DEF ApiServes

(* Only a worker that had clients has a call to make.                       *)
LEMMA CallersAreUsers ==
    ASSUME Strangers, NEW w \in Workers, plugin[w].pc # "idle" \/ Queued(plugin[w])
    PROVE  w \in users
BY DEF Strangers, OnlyDiscovers, Queued

(* One plugin moves on, and the others are not disturbed by what changed at *)
(* the API.                                                                 *)
LEMMA PluginKeeps ==
    ASSUME OwnTypes, OneUser, NEW w \in Workers, NEW q, Becomes(w, q),
           users \subseteq users', users' \subseteq users \union {w},
           w \notin users' => OnlyDiscovers(q),
           Single' => /\ Spares(q, Active')
                      /\ users' \subseteq {w} => Keeps(q, Active', onHook')
                      /\ \A v \in Workers \ {w} :
                            /\ Spares(plugin[v], Active')
                            /\ users \subseteq {v} /\ w \notin users' =>
                                  Keeps(plugin[v], Active', onHook')
    PROVE  OneUser'
<1>1. plugin'[w] = q /\ \A v \in Workers : v # w => plugin'[v] = plugin[v]
  BY DEF Becomes, OwnTypes
<1>2. Strangers' BY <1>1 DEF OneUser, Strangers
<1>3. ASSUME Single' PROVE /\ \A v \in Workers : Spares(plugin'[v], Active')
                           /\ \A v \in Workers : users' \subseteq {v} =>
                                 Keeps(plugin'[v], Active', onHook')
  <2>1. \A v \in Workers : Spares(plugin'[v], Active') BY <1>1, <1>3
  <2>2. ASSUME NEW v \in Workers, users' \subseteq {v} PROVE Keeps(plugin'[v], Active', onHook')
    <3>1. CASE v = w BY <1>1, <1>3, <2>2, <3>1
    <3>2. CASE v # w
      <4>1. w \notin users' /\ users \subseteq {v} BY <2>2, <3>2
      <4> QED BY <1>1, <1>3, <3>2, <4>1
    <3> QED BY <3>1, <3>2
  <2> QED BY <2>1, <2>2
<1> QED BY <1>2, <1>3 DEF OneUser

LEMMA DiscoveryOneUser ==
    ASSUME OwnTypes, OneUser, NEW w \in Workers, FetchOk(w) \/ Look(w) \/ DiscoveryEnds(w)
    PROVE  OneUser'
<1> DEFINE p == plugin[w]
<1>0. p \in Plugins /\ UNCHANGED users BY DEF OwnTypes, FetchOk, Look, DiscoveryEnds, restVars
<1>1. Active \subseteq Hooks BY DEF Active
<1>2. ASSUME Single PROVE /\ \A v \in Workers : Spares(plugin[v], Active)
                          /\ \A v \in Workers : users \subseteq {v} =>
                                Keeps(plugin[v], Active, onHook)
  BY <1>2 DEF OneUser
<1>3. w \notin users => OnlyDiscovers(p) BY DEF OneUser, Strangers
<1>4. Single' = Single BY <1>0 DEF Single
<1>5. CASE FetchOk(w)
  <2> DEFINE q == [p EXCEPT !.discovery = "listing", !.found = Active]
  <2>1. Becomes(w, q) /\ p.discovery = "fetching" /\ UNCHANGED <<hook, onHook>>
    BY <1>5 DEF FetchOk, apiVars
  <2>2. /\ q.discovery = "listing" /\ q.found = Active
        /\ q.webhookId = p.webhookId /\ q.subscribed = p.subscribed
        /\ q.add = p.add /\ q.remove = p.remove /\ q.toAdd = p.toAdd
        /\ q.toRemove = p.toRemove /\ q.pc = p.pc
    BY <1>0 DEF Plugins
  <2> HIDE DEF q
  <2>3. UNCHANGED <<Active, onHook>> BY <2>1 DEF Active
  <2>4. w \notin users' => OnlyDiscovers(q) BY <1>0, <1>3, <2>2 DEF OnlyDiscovers
  <2>5. ASSUME Single PROVE Spares(q, Active)
    <3>1. p.webhookId = NoHook
      <4>1. CASE w \in users
        <5>1. users \subseteq {w} BY <2>5, <4>1 DEF Single
        <5> QED BY <1>2, <2>1, <2>5, <5>1 DEF Keeps, DiscoveryKeeps
      <4>2. CASE w \notin users BY <1>3, <2>1, <4>2 DEF OnlyDiscovers
      <4> QED BY <4>1, <4>2
    <3> QED BY <2>2, <3>1 DEF Spares
  <2>6. ASSUME Single, users \subseteq {w} PROVE Keeps(q, Active, onHook)
    <3>1. Keeps(p, Active, onHook) BY <1>2, <2>6
    <3>2. DiscoveryKeeps(q, Active) BY <2>1, <2>2, <3>1 DEF Keeps, DiscoveryKeeps, Least
    <3>3. BatchKeeps(q) /\ QueuesKeep(q) /\ AddressesKept(q, onHook)
      BY <2>1, <2>2, <3>1 DEF Keeps, BatchKeeps, QueuesKeep, AddressesKept
    <3> QED BY <3>2, <3>3 DEF Keeps
  <2> QED BY <1>0, <1>2, <1>4, <2>1, <2>3, <2>4, <2>5, <2>6, PluginKeeps
<1>6. CASE Look(w)
  <2> DEFINE h == Min(p.found)
  <2>1. Least(h, p.found) /\ p.discovery = "listing"
    BY <1>0, <1>6, MinIs DEF Look, Plugins, Least
  <2>2. p.found \subseteq Hooks BY <1>0 DEF Plugins
  <2>3. CASE p.webhookId = NoHook
    <3> DEFINE q == [p EXCEPT !.webhookId = h, !.found = @ \ {h}]
    <3>1. Becomes(w, q) /\ UNCHANGED <<hook, onHook>> BY <1>6, <2>3 DEF Look, apiVars
    <3> HIDE DEF h
    <3>2. /\ q.discovery = "listing" /\ q.found = p.found \ {h}
          /\ q.webhookId = h /\ q.subscribed = p.subscribed
          /\ q.add = p.add /\ q.remove = p.remove /\ q.toAdd = p.toAdd
          /\ q.toRemove = p.toRemove /\ q.pc = p.pc
      BY <1>0, <2>1 DEF Plugins
    <3> HIDE DEF q
    <3>3. UNCHANGED <<Active, onHook>> BY <3>1 DEF Active
    <3>4. h # NoHook BY <2>1, <2>2 DEF Least, Hooks, NoHook
    <3>5. w \notin users' => OnlyDiscovers(q) BY <1>0, <1>3, <3>2 DEF OnlyDiscovers
    <3>6. ASSUME Single PROVE Spares(q, Active)
      <4> SUFFICES ASSUME NEW g \in p.found \ {h}, Least(g, Active) PROVE FALSE
        BY <3>2 DEF Spares
      <4>1. Least(g, p.found) BY <1>2, <3>6 DEF Spares
      <4>2. g <= h /\ h <= g BY <2>1, <4>1 DEF Least
      <4>3. g \in Nat /\ h \in Nat /\ g # h BY <2>1, <2>2 DEF Least, Hooks
      <4> QED BY <4>2, <4>3
    <3>7. ASSUME Single, users \subseteq {w} PROVE Keeps(q, Active, onHook)
      <4>1. Keeps(p, Active, onHook) BY <1>2, <3>7
      <4>2. h \in Active /\ Active \subseteq p.found
        <5>1. h \in p.found BY <2>1 DEF Least
        <5> QED BY <2>1, <2>3, <4>1, <5>1 DEF Keeps, DiscoveryKeeps
      <4>3. Least(h, Active) BY <2>1, <4>2 DEF Least
      <4>4. DiscoveryKeeps(q, Active) BY <3>2, <3>4, <4>2, <4>3 DEF DiscoveryKeeps
      <4>5. BatchKeeps(q) /\ QueuesKeep(q) /\ AddressesKept(q, onHook)
        BY <2>1, <3>2, <4>1 DEF Keeps, BatchKeeps, QueuesKeep, AddressesKept
      <4> QED BY <4>4, <4>5 DEF Keeps
    <3> QED BY <1>0, <1>2, <1>4, <3>1, <3>3, <3>5, <3>6, <3>7, PluginKeeps
  <2>4. CASE p.webhookId # NoHook
    <3> DEFINE q == [p EXCEPT !.found = @ \ {h}]
    <3>1. /\ Becomes(w, q)
          /\ IF h \in Active THEN ApiDeletes(h) ELSE UNCHANGED <<apiVars, newer>>
      BY <1>6, <2>4 DEF Look
    <3> HIDE DEF h
    <3>2. /\ q.discovery = "listing" /\ q.found = p.found \ {h}
          /\ q.webhookId = p.webhookId /\ q.subscribed = p.subscribed
          /\ q.add = p.add /\ q.remove = p.remove /\ q.toAdd = p.toAdd
          /\ q.toRemove = p.toRemove /\ q.pc = p.pc
      BY <1>0, <2>1 DEF Plugins
    <3>3. q \in Plugins BY <1>0 DEF Plugins
    <3> HIDE DEF q
    <3>4. /\ Active' = Active \ {h}
          /\ \A g \in Hooks : g # h => onHook'[g] = onHook[g]
          /\ h \notin Active => onHook' = onHook
      <4>1. CASE h \in Active BY <3>1, <4>1 DEF ApiDeletes, Active, OwnTypes
      <4>2. CASE h \notin Active BY <3>1, <4>2 DEF apiVars, Active
      <4> QED BY <4>1, <4>2
    <3>5. w \notin users' => OnlyDiscovers(q) BY <1>0, <1>3, <3>2 DEF OnlyDiscovers
    <3>6. ASSUME Single, NEW v \in Workers
          PROVE  /\ Spares(plugin[v], Active')
                 /\ users \subseteq {v} => Keeps(plugin[v], Active', onHook')
      <4>1. Spares(plugin[v], Active) /\ (users \subseteq {v} => Keeps(plugin[v], Active, onHook))
        BY <1>2, <3>6
      <4>2. ~Least(h, Active) BY <1>2, <2>1, <2>4, <3>6 DEF Spares, Least
      <4>3. plugin[v] \in Plugins BY DEF OwnTypes
      <4>4. CASE h \in Active BY <1>1, <3>4, <4>1, <4>2, <4>3, <4>4, DeleteKeeps
      <4>5. CASE h \notin Active BY <3>4, <4>1, <4>5
      <4> QED BY <4>4, <4>5
    <3>7. ASSUME Single PROVE Spares(q, Active')
      <4>1. Spares(p, Active') BY <3>6, <3>7
      <4> QED BY <2>4, <3>2, <4>1 DEF Spares
    <3>8. ASSUME Single, users \subseteq {w} PROVE Keeps(q, Active', onHook')
      <4>1. Keeps(p, Active', onHook') BY <3>6, <3>8
      <4>2. DiscoveryKeeps(q, Active')
        BY <2>1, <2>4, <3>2, <3>4, <4>1 DEF Keeps, DiscoveryKeeps
      <4>3. BatchKeeps(q) /\ QueuesKeep(q) /\ AddressesKept(q, onHook')
        BY <2>1, <3>2, <4>1 DEF Keeps, BatchKeeps, QueuesKeep, AddressesKept
      <4> QED BY <4>2, <4>3 DEF Keeps
    <3> QED BY <1>0, <1>4, <3>1, <3>5, <3>6, <3>7, <3>8, PluginKeeps
  <2> QED BY <2>3, <2>4
<1>7. CASE DiscoveryEnds(w)
  <2> DEFINE q == [p EXCEPT !.discovery = "done"]
  <2>1. /\ Becomes(w, q) /\ p.discovery = "listing" /\ p.found = {}
        /\ UNCHANGED <<hook, onHook>>
    BY <1>7 DEF DiscoveryEnds, apiVars
  <2>2. /\ q.discovery = "done" /\ q.found = p.found
        /\ q.webhookId = p.webhookId /\ q.subscribed = p.subscribed
        /\ q.add = p.add /\ q.remove = p.remove /\ q.toAdd = p.toAdd
        /\ q.toRemove = p.toRemove /\ q.pc = p.pc
    BY <1>0 DEF Plugins
  <2> HIDE DEF q
  <2>3. UNCHANGED <<Active, onHook>> BY <2>1 DEF Active
  <2>4. w \notin users' => OnlyDiscovers(q) BY <1>0, <1>3, <2>2 DEF OnlyDiscovers
  <2>5. Spares(q, Active) BY <2>1, <2>2 DEF Spares
  <2>6. ASSUME Single, users \subseteq {w} PROVE Keeps(q, Active, onHook)
    <3>1. Keeps(p, Active, onHook) BY <1>2, <2>6
    <3>2. DiscoveryKeeps(q, Active)
      BY <2>1, <2>2, <3>1 DEF Keeps, DiscoveryKeeps, Least
    <3>3. BatchKeeps(q) /\ QueuesKeep(q) /\ AddressesKept(q, onHook)
      BY <2>1, <2>2, <3>1 DEF Keeps, BatchKeeps, QueuesKeep, AddressesKept
    <3> QED BY <3>2, <3>3 DEF Keeps
  <2> QED BY <1>0, <1>2, <1>4, <2>1, <2>3, <2>4, <2>5, <2>6, PluginKeeps
<1> QED BY <1>5, <1>6, <1>7

LEMMA ClientOneUser ==
    ASSUME OwnTypes, OneUser, NEW w \in Workers, NEW a \in Addrs,
           Subscribe(w, a) \/ Unsubscribe(w, a)
    PROVE  OneUser'
<1> DEFINE p == plugin[w]
<1>0. p \in Plugins /\ p.add \in Queues /\ p.remove \in Queues BY DEF OwnTypes, Plugins
<1>1. UNCHANGED <<Active, onHook>> BY DEF Subscribe, Unsubscribe, apiVars, Active
<1>2. ASSUME Single, NEW v \in Workers
      PROVE  /\ Spares(plugin[v], Active)
             /\ users \subseteq {v} => Keeps(plugin[v], Active, onHook)
  BY <1>2 DEF OneUser
<1>3. CASE Subscribe(w, a)
  <2> DEFINE q == [p EXCEPT !.subscribed = @ \union {a},
                            !.add = Push(@, a), !.remove = Splice(@, a)]
  <2>1. Becomes(w, q) /\ a \notin p.subscribed /\ users' = users \union {w}
    BY <1>3 DEF Subscribe, Subscribed
  <2>2. /\ q.subscribed = p.subscribed \union {a} /\ q.add = Push(p.add, a)
        /\ q.remove = Splice(p.remove, a)
        /\ q.discovery = p.discovery /\ q.found = p.found /\ q.webhookId = p.webhookId
        /\ q.toAdd = p.toAdd /\ q.toRemove = p.toRemove /\ q.pc = p.pc
    BY <1>0 DEF Plugins
  <2> HIDE DEF q
  <2>3. \A b \in Addrs : /\ Push(p.add, a)[b] = IF b = a THEN p.add[b] + 1 ELSE p.add[b]
                         /\ Splice(p.remove, a)[b] =
                               IF b = a THEN (IF p.remove[b] > 0 THEN p.remove[b] - 1 ELSE 0)
                                        ELSE p.remove[b]
    BY <1>0 DEF Push, Splice, Queues
  <2>4. \A b \in Addrs : p.add[b] \in Nat /\ p.remove[b] \in Nat BY <1>0 DEF Queues
  <2>5. Listed(p.add) \union {a} \subseteq Listed(q.add)
    BY <2>2, <2>3, <2>4 DEF Listed
  <2>6. ASSUME Single' PROVE Single /\ users \subseteq {w} BY <2>1, <2>6 DEF Single
  <2>7. Spares(p, Active) => Spares(q, Active) BY <2>2 DEF Spares
  <2>8. ASSUME Keeps(p, Active, onHook) PROVE Keeps(q, Active, onHook)
    <3>1. DiscoveryKeeps(q, Active) BY <2>2, <2>8 DEF Keeps, DiscoveryKeeps
    <3>2. BatchKeeps(q) BY <2>2, <2>5, <2>8 DEF Keeps, BatchKeeps
    <3>3. QueuesKeep(q)
      BY <2>1, <2>2, <2>3, <2>4, <2>8 DEF Keeps, QueuesKeep
    <3>4. AddressesKept(q, onHook)
      BY <2>2, <2>5, <2>8 DEF Keeps, AddressesKept
    <3> QED BY <3>1, <3>2, <3>3, <3>4 DEF Keeps
  <2>9. w \in users' BY <2>1
  <2> QED BY <1>1, <1>2, <2>1, <2>6, <2>7, <2>8, <2>9, PluginKeeps
<1>4. CASE Unsubscribe(w, a)
  <2> DEFINE q == [p EXCEPT !.subscribed = @ \ {a},
                            !.remove = Push(@, a), !.add = Splice(@, a)]
  <2>1. Becomes(w, q) /\ a \in p.subscribed /\ UNCHANGED users
    BY <1>4 DEF Unsubscribe, Subscribed
  <2>2. /\ q.subscribed = p.subscribed \ {a} /\ q.add = Splice(p.add, a)
        /\ q.remove = Push(p.remove, a)
        /\ q.discovery = p.discovery /\ q.found = p.found /\ q.webhookId = p.webhookId
        /\ q.toAdd = p.toAdd /\ q.toRemove = p.toRemove /\ q.pc = p.pc
    BY <1>0 DEF Plugins
  <2> HIDE DEF q
  <2>3. \A b \in Addrs : /\ Push(p.remove, a)[b] = IF b = a THEN p.remove[b] + 1 ELSE p.remove[b]
                         /\ Splice(p.add, a)[b] =
                               IF b = a THEN (IF p.add[b] > 0 THEN p.add[b] - 1 ELSE 0)
                                        ELSE p.add[b]
    BY <1>0 DEF Push, Splice, Queues
  <2>4. \A b \in Addrs : p.add[b] \in Nat /\ p.remove[b] \in Nat BY <1>0 DEF Queues
  <2>5. Listed(p.add) \ {a} \subseteq Listed(q.add) BY <2>2, <2>3 DEF Listed
  <2>6. w \in users BY <2>1 DEF OneUser, Strangers, OnlyDiscovers
  <2>7. Single' = Single BY <2>1 DEF Single
  <2>8. Spares(p, Active) => Spares(q, Active) BY <2>2 DEF Spares
  <2>9. ASSUME Keeps(p, Active, onHook) PROVE Keeps(q, Active, onHook)
    <3>1. DiscoveryKeeps(q, Active) BY <2>2, <2>9 DEF Keeps, DiscoveryKeeps
    <3>2. BatchKeeps(q) BY <2>2, <2>5, <2>9 DEF Keeps, BatchKeeps
    <3>3. QueuesKeep(q)
      BY <2>1, <2>2, <2>3, <2>4, <2>9 DEF Keeps, QueuesKeep
    <3>4. AddressesKept(q, onHook)
      BY <2>2, <2>5, <2>9 DEF Keeps, AddressesKept
    <3> QED BY <3>1, <3>2, <3>3, <3>4 DEF Keeps
  <2>10. w \in users' BY <2>1, <2>6
  <2> QED BY <1>1, <1>2, <2>1, <2>7, <2>8, <2>9, <2>10, PluginKeeps
<1> QED BY <1>3, <1>4

LEMMA FireOneUser ==
    ASSUME OwnTypes, OneUser, NEW w \in Workers, Fire(w) \/ Initialized(w) \/ CallFails(w)
    PROVE  OneUser'
<1> DEFINE p == plugin[w]
<1>0. p \in Plugins BY DEF OwnTypes
<1>1. UNCHANGED <<Active, onHook, users>>
  BY DEF Fire, Initialized, CallFails, apiVars, restVars, Active
<1>2. ASSUME Single, NEW v \in Workers
      PROVE  /\ Spares(plugin[v], Active)
             /\ users \subseteq {v} => Keeps(plugin[v], Active, onHook)
  BY <1>2 DEF OneUser
<1>3. w \in users
  BY CallersAreUsers DEF OneUser, Fire, Initialized, CallFails
<1>4. Single' = Single /\ (Single => users \subseteq {w}) BY <1>1, <1>3 DEF Single
<1>5. ASSUME NEW q, Becomes(w, q), q.found = p.found, q.webhookId = p.webhookId,
             Keeps(p, Active, onHook) => Keeps(q, Active, onHook)
      PROVE  OneUser'
  <2>1. Spares(p, Active) => Spares(q, Active) BY <1>5 DEF Spares
  <2>2. w \in users' BY <1>1, <1>3
  <2> QED BY <1>1, <1>2, <1>4, <1>5, <2>1, <2>2, PluginKeeps
<1>6. CASE Fire(w)
  <2> DEFINE q == [Await(p, "initializing", p.add, p.remove) EXCEPT !.add = Empty, !.remove = Empty]
  <2>1. Becomes(w, q) /\ p.pc = "idle" BY <1>6 DEF Fire
  <2>2. /\ q.subscribed = p.subscribed /\ q.add = Empty /\ q.remove = Empty
        /\ q.discovery = p.discovery /\ q.found = p.found /\ q.webhookId = p.webhookId
        /\ q.toAdd = p.add /\ q.toRemove = p.remove /\ q.pc = "initializing"
    BY <1>0 DEF Plugins, Await
  <2> HIDE DEF q
  <2>3. \A b \in Addrs : Empty[b] = 0 BY DEF Empty
  <2>4. ASSUME Keeps(p, Active, onHook) PROVE Keeps(q, Active, onHook)
    <3>1. DiscoveryKeeps(q, Active) BY <2>2, <2>4 DEF Keeps, DiscoveryKeeps
    <3>2. BatchKeeps(q) BY <2>2 DEF BatchKeeps
    <3>3. QueuesKeep(q)
      <4>1. \A b \in Addrs : ~(b \in Listed(p.add) /\ b \in Listed(p.remove))
        BY <2>4 DEF Keeps, QueuesKeep, Listed
      <4> QED BY <2>2, <2>3, <4>1 DEF QueuesKeep
    <3>4. AddressesKept(q, onHook)
      <4>1. \A b \in p.subscribed : b \notin Listed(p.remove)
        BY <2>4 DEF Keeps, QueuesKeep, Listed
      <4>2. Listed(p.toAdd) = {} BY <2>1, <2>4 DEF Keeps, BatchKeeps
      <4> QED BY <2>2, <2>4, <4>1, <4>2 DEF Keeps, AddressesKept
    <3> QED BY <3>1, <3>2, <3>3, <3>4 DEF Keeps
  <2> QED BY <1>5, <2>1, <2>2, <2>4
<1>7. CASE Initialized(w)
  <2>1. Becomes(w, Proceed(p)) /\ p.discovery = "done" BY <1>7 DEF Initialized
  <2>2. Proceed(p).found = p.found /\ Proceed(p).webhookId = p.webhookId
    BY <1>0 DEF Proceed, Plugins, Await, Finish, AfterUpdate
  <2>3. Keeps(p, Active, onHook) => Keeps(Proceed(p), Active, onHook)
    BY <1>0, <2>1, ProceedKeeps DEF Keeps
  <2> QED BY <1>5, <2>1, <2>2, <2>3
<1>8. CASE CallFails(w)
  <2> DEFINE q == IF p.pc = "updating" THEN Requeue(p) ELSE Finish(p)
  <2>1. /\ Becomes(w, q) /\ p.pc \in {"updating", "deleting"} /\ p.webhookId \notin Active
    BY <1>8 DEF CallFails
  <2>2. ~Keeps(p, Active, onHook) BY <2>1 DEF Keeps, BatchKeeps, DiscoveryKeeps
  <2>3. q.found = p.found /\ q.webhookId = p.webhookId
    BY <1>0 DEF Plugins, Requeue, Finish, Await
  <2> HIDE DEF q
  <2> QED BY <1>5, <2>1, <2>2, <2>3
<1> QED BY <1>6, <1>7, <1>8

(* The worker with clients after its call has been answered.                *)
LEMMA CallKeeps ==
    ASSUME OwnTypes, Keys, NEW w \in Workers, NEW h,
           Keeps(plugin[w], Active, onHook), Spares(plugin[w], Active),
           ApiServes(plugin[w]), h = Max(Active')
    PROVE  /\ Keeps(Answered(plugin[w], h), Active', onHook')
           /\ Spares(Answered(plugin[w], h), Active')
<1> DEFINE p == plugin[w]
           q == Answered(p, h)
<1>0. p \in Plugins BY DEF OwnTypes
<1>1. /\ p.discovery = "done" /\ DiscoveryKeeps(p, Active) /\ BatchKeeps(p) /\ QueuesKeep(p)
      /\ AddressesKept(p, onHook)
  BY DEF Keeps, BatchKeeps, ApiServes
<1>2. Active = IF p.webhookId = NoHook THEN {} ELSE {p.webhookId}
  BY <1>1 DEF DiscoveryKeeps
<1> USE NothingListed
<1>3. ASSUME NEW r \in Plugins
      PROVE  /\ Proceed(r).found = r.found /\ AfterUpdate(r).found = r.found
             /\ AfterUpdate(r).webhookId = r.webhookId
  BY DEF Plugins, Await, Finish, AfterUpdate, Proceed
<1>4. CASE p.pc = "creating"
  <2> DEFINE r == [p EXCEPT !.webhookId = h, !.toAdd = Empty]
  <2>1. p.webhookId = NoHook /\ Active = {} BY <1>1, <1>2, <1>4 DEF BatchKeeps
  <2>2. PICK g \in Hooks : /\ \A x \in Hooks : hook[x] # "unmade" <=> x < g
                           /\ hook' = [hook EXCEPT ![g] = "active"]
                           /\ onHook' = [onHook EXCEPT ![g] = Listed(p.toAdd)]
    <3>1. ApiCreates(Listed(p.toAdd)) BY <1>4 DEF ApiServes
    <3>2. Listed(p.toAdd) \in SUBSET Addrs BY DEF Listed
    <3> QED BY <3>1, <3>2, CreatesIs DEF Keys
  <2>3. Active' = {h} /\ h = g BY <2>1, <2>2, Newest
  <2>4. h \in Hooks /\ h # NoHook /\ onHook'[h] = Listed(p.toAdd)
    BY <2>2, <2>3 DEF OwnTypes, Hooks, NoHook
  <2>5. /\ r \in Plugins /\ r.discovery = "done" /\ r.webhookId = h /\ r.found = p.found
        /\ r.subscribed = p.subscribed /\ r.add = p.add /\ r.remove = p.remove
        /\ r.toAdd = Empty /\ r.toRemove = p.toRemove
    BY <1>0, <1>1, <2>4 DEF Plugins
  <2>6. q = Proceed(r) BY <1>4 DEF Answered
  <2> HIDE DEF r
  <2>7. DiscoveryKeeps(r, Active') BY <2>3, <2>4, <2>5 DEF DiscoveryKeeps
  <2>8. QueuesKeep(r) BY <1>1, <2>5 DEF QueuesKeep
  <2>9. AddressesKept(r, onHook')
    <3>1. \A a \in p.subscribed : a \in Listed(p.add) \/ a \in Listed(p.toAdd)
      BY <1>1, <2>1 DEF AddressesKept
    <3>2. \A a \in p.subscribed : a \in Listed(p.toAdd) => a \notin Listed(p.toRemove)
      BY <1>0, <1>1 DEF QueuesKeep, Plugins
    <3> QED BY <2>4, <2>5, <3>1, <3>2 DEF AddressesKept
  <2>10. Keeps(q, Active', onHook') BY <2>5, <2>6, <2>7, <2>8, <2>9, ProceedKeeps
  <2>11. h \notin p.found BY <2>2, <2>3 DEF Keys, MadeInOrder, Hooks
  <2>12. Spares(q, Active') BY <1>3, <2>3, <2>5, <2>6, <2>11 DEF Spares, Least
  <2> QED BY <2>10, <2>12
<1>5. CASE p.pc = "updating"
  <2>1. /\ Active' = Active /\ p.webhookId \in Hooks
        /\ onHook'[p.webhookId] =
              (onHook[p.webhookId] \union Listed(p.toAdd)) \ Listed(p.toRemove)
    BY <1>5 DEF ApiServes, ApiUpdates, Active, OwnTypes
  <2>2. p.webhookId # NoHook BY <2>1 DEF Hooks, NoHook
  <2>3. \A a \in p.subscribed : a \in Listed(p.toAdd) => a \notin Listed(p.toRemove)
    BY <1>0, <1>1 DEF QueuesKeep, Plugins
  <2>4. \A a \in p.subscribed : a \in Listed(p.add) \/ a \in onHook'[p.webhookId]
    BY <1>1, <2>1, <2>3 DEF AddressesKept
  <2>5. q = AfterUpdate(p) BY <1>5 DEF Answered
  <2>6. Keeps(q, Active', onHook') BY <1>0, <1>1, <2>1, <2>2, <2>4, <2>5, AfterUpdateKeeps
  <2>7. Spares(q, Active') BY <1>0, <1>3, <2>1, <2>5 DEF Spares
  <2> QED BY <2>6, <2>7
<1>6. CASE p.pc = "deleting"
  <2>1. Active' = {} BY <1>2, <1>6 DEF ApiServes, ApiDeletes, Active, OwnTypes
  <2>2. /\ q.discovery = "done" /\ q.webhookId = NoHook
        /\ q.subscribed = p.subscribed /\ q.add = p.add /\ q.remove = p.remove
        /\ q.toAdd = Empty /\ q.toRemove = Empty /\ q.pc = "idle"
    BY <1>0, <1>1, <1>6 DEF Answered, Finish, Await, Plugins
  <2>3. p.subscribed \subseteq Listed(p.add) BY <1>1, <1>6 DEF BatchKeeps
  <2> HIDE DEF q
  <2>4. DiscoveryKeeps(q, Active') BY <2>1, <2>2 DEF DiscoveryKeeps
  <2>5. BatchKeeps(q) BY <2>2 DEF BatchKeeps
  <2>6. QueuesKeep(q) BY <1>1, <2>2 DEF QueuesKeep
  <2>7. AddressesKept(q, onHook') BY <2>2, <2>3 DEF AddressesKept
  <2>8. Spares(q, Active') BY <2>1 DEF Spares, Least
  <2> QED BY <2>4, <2>5, <2>6, <2>7, <2>8 DEF Keeps, q
<1> QED BY <1>4, <1>5, <1>6 DEF ApiServes

LEMMA CallOneUser ==
    ASSUME OwnTypes, Keys, OneUser, NEW w \in Workers, CallOk(w)
    PROVE  OneUser'
<1> DEFINE q == Answered(plugin[w], Max(Active'))
<1>1. ApiServes(plugin[w]) /\ Becomes(w, q) /\ UNCHANGED users BY DEF CallOk, restVars
<1>2. w \in users /\ w \in users' BY <1>1, CallersAreUsers DEF ApiServes, OneUser
<1>3. Single' => Single /\ users \subseteq {w} BY <1>1, <1>2 DEF Single
<1>4. ASSUME Single, NEW v \in Workers PROVE Spares(plugin[v], Active')
  <2>1. Spares(plugin[v], Active) BY <1>4 DEF OneUser
  <2> QED BY <1>1, <1>2, <1>4, <2>1, ServesSpares
<1>5. ASSUME Single PROVE Keeps(q, Active', onHook') /\ Spares(q, Active')
  <2>1. Keeps(plugin[w], Active, onHook) /\ Spares(plugin[w], Active)
    BY <1>2, <1>5 DEF OneUser, Single
  <2> QED BY <1>1, <2>1, CallKeeps
<1> HIDE DEF q
<1> QED BY <1>1, <1>2, <1>3, <1>4, <1>5, PluginKeeps

LEMMA DieOneUser ==
    ASSUME OwnTypes, Keys, OneUser, NEW w \in Workers, Die(w)
    PROVE  OneUser'
<1>1. /\ plugin' = [plugin EXCEPT ![w] = FreshPlugin] /\ UNCHANGED users
      /\ ApiServes(plugin[w]) \/ UNCHANGED <<hook, onHook>>
  BY DEF Die, apiVars
<1>2. Becomes(w, FreshPlugin) BY <1>1 DEF Becomes
<1>3. Single' = Single BY <1>1 DEF Single
<1>4. /\ Keeps(FreshPlugin, Active', onHook') /\ Spares(FreshPlugin, Active')
      /\ OnlyDiscovers(FreshPlugin)
  BY FreshKeeps
<1>5. CASE ApiServes(plugin[w])
  <2>1. w \in users BY <1>5, CallersAreUsers DEF ApiServes, OneUser
  <2>2. ASSUME Single, NEW v \in Workers PROVE Spares(plugin[v], Active')
    <3>1. Spares(plugin[v], Active) BY <2>2 DEF OneUser
    <3> QED BY <1>5, <2>1, <2>2, <3>1, ServesSpares
  <2>3. w \in users' BY <1>1, <2>1
  <2> QED BY <1>1, <1>2, <1>3, <1>4, <2>2, <2>3, PluginKeeps
<1>6. CASE UNCHANGED <<hook, onHook>>
  <2>1. UNCHANGED <<Active, onHook>> BY <1>6 DEF Active
  <2>2. ASSUME Single, NEW v \in Workers
        PROVE  /\ Spares(plugin[v], Active)
               /\ users \subseteq {v} => Keeps(plugin[v], Active, onHook)
    BY <2>2 DEF OneUser
  <2> QED BY <1>1, <1>2, <1>3, <1>4, <2>1, <2>2, PluginKeeps
<1> QED BY <1>1, <1>5, <1>6

LEMMA StayOneUser ==
    ASSUME OneUser, UNCHANGED <<plugin, hook, onHook, users>>
    PROVE  OneUser'
<1>1. UNCHANGED Active BY DEF Active
<1>2. UNCHANGED <<Strangers, Single>> BY DEF Strangers, Single
<1> QED BY <1>1, <1>2 DEF OneUser

LEMMA OneUserInit == Init => OneUser /\ IsFiniteSet(users)
<1> SUFFICES ASSUME Init PROVE OneUser /\ IsFiniteSet(users) OBVIOUS
<1>1. \A w \in Workers : plugin[w] = FreshPlugin BY DEF Init
<1>2. OneUser BY <1>1, FreshKeeps DEF OneUser, Strangers
<1>3. IsFiniteSet(users) BY FS_EmptySet DEF Init
<1> QED BY <1>2, <1>3

LEMMA OneUserNext ==
    ASSUME OwnTypes, Keys, OneUser, [Next]_vars
    PROVE  OneUser'
<1>1. CASE UNCHANGED vars BY <1>1, StayOneUser DEF vars, apiVars
<1>2. ASSUME NEW w \in Workers, NEW a \in Addrs, Subscribe(w, a) \/ Unsubscribe(w, a)
      PROVE  OneUser'
  BY <1>2, ClientOneUser
<1>3. ASSUME NEW w \in Workers, Batch(w) PROVE OneUser'
  BY <1>3, DiscoveryOneUser, FireOneUser, CallOneUser DEF Batch
<1>4. ASSUME NEW w \in Workers, Die(w) \/ Fork(w) PROVE OneUser'
  BY <1>4, DieOneUser, StayOneUser DEF Fork, apiVars
<1>5. CASE UNCHANGED callerVars BY <1>5, StayOneUser DEF callerVars, apiVars
<1> QED BY <1>1, <1>2, <1>3, <1>4, <1>5, MailStepTypes DEF Next

LEMMA UsersAreFinite == IsFiniteSet(users) /\ [Next]_vars => IsFiniteSet(users)'
<1> SUFFICES ASSUME IsFiniteSet(users), [Next]_vars PROVE IsFiniteSet(users') OBVIOUS
<1>1. UNCHANGED users \/ \E w \in Workers : users' = users \union {w}
  BY DEF Next, vars, Subscribe, Unsubscribe, Batch, FetchOk, Look, DiscoveryEnds, Fire, Initialized,
         CallOk, CallFails, Receive, ReceiveUnknown, Recover, ListForRecovery, RecoverOk, RecoverFails, Die, Fork,
         Activity, Redeliver, Post, Relay, RelayOrphan, IpcHandler, callerVars, restVars
<1> QED BY <1>1, FS_AddElement

LEMMA SingleIs ==
    ASSUME IsFiniteSet(users), Cardinality(users) <= 1
    PROVE  Single
<1> SUFFICES ASSUME NEW v \in users, NEW w \in users, v # w PROVE FALSE BY DEF Single
<1>1. IsFiniteSet({v, w}) /\ Cardinality({v, w}) = 2
  <2>1. IsFiniteSet({v}) /\ Cardinality({v}) = 1 BY FS_Singleton
  <2>2. IsFiniteSet({v} \union {w}) /\ Cardinality({v} \union {w}) = 2
    BY <2>1, FS_AddElement
  <2>3. {v} \union {w} = {v, w} OBVIOUS
  <2> QED BY <2>2, <2>3
<1>2. Cardinality({v, w}) <= Cardinality(users) BY FS_Subset
<1>3. Cardinality(users) \in Nat BY FS_CardinalityType
<1> QED BY <1>1, <1>2, <1>3

(* As long as one worker alone has ever had clients, each address they      *)
(* subscribed is on a webhook whenever the workers have nothing left to do, *)
(* whatever webhooks an earlier cluster left, the others' discoveries       *)
(* delete, and whichever workers exit at which await.                       *)
THEOREM OneUserServed == Spec => []OneUserIsServed
<1>1. Spec => [](OneUser /\ IsFiniteSet(users))
  <2>1. Init => OneUser /\ IsFiniteSet(users) BY OneUserInit
  <2>2. OwnTypes /\ Keys /\ OneUser /\ IsFiniteSet(users) /\ [Next]_vars =>
           OneUser' /\ IsFiniteSet(users)'
    BY OneUserNext, UsersAreFinite
  <2> QED BY <2>1, <2>2, Typing, PTL DEF Spec
<1>2. OwnTypes /\ OneUser /\ IsFiniteSet(users) => OneUserIsServed
  <2> SUFFICES ASSUME OwnTypes, OneUser, IsFiniteSet(users), Cardinality(users) <= 1,
                      \A w \in Workers : Idle(w), NEW w \in Workers, NEW a \in Subscribed(w)
               PROVE  \E h \in Active : a \in onHook[h]
    BY DEF OneUserIsServed, SubscribedIsServed
  <2>1. Single BY SingleIs
  <2>2. a \in plugin[w].subscribed BY DEF Subscribed
  <2>3. w \in users BY <2>2 DEF OneUser, Strangers, OnlyDiscovers
  <2>4. Keeps(plugin[w], Active, onHook) BY <2>1, <2>3 DEF OneUser, Single
  <2>5. plugin[w].discovery = "done" /\ plugin[w].pc = "idle" /\ ~Queued(plugin[w]) BY DEF Idle
  <2>6. a \notin Listed(plugin[w].add) BY <2>5 DEF Queued
  <2>7. a \notin Listed(plugin[w].toAdd) BY <2>4, <2>5 DEF Keeps, BatchKeeps
  <2>8. plugin[w].webhookId # NoHook /\ a \in onHook[plugin[w].webhookId]
    BY <2>2, <2>4, <2>6, <2>7 DEF Keeps, AddressesKept
  <2>9. plugin[w].webhookId \in Active BY <2>4, <2>5, <2>8 DEF Keeps, DiscoveryKeeps
  <2> QED BY <2>8, <2>9
<1> QED BY <1>1, <1>2, Typing, PTL
============================================================================
