---------------------------- MODULE Subscriptions ----------------------------
(* What the change server promises to a client, without tables, calls or    *)
(* plugins: once the client is told that it is subscribed to an address, it *)
(* is told of all its activity until it leaves it or is told of the loss.   *)
CONSTANTS
    Clients,
    Topics   \* the addresses the promise is about

VARIABLES
    link,     \* [Clients -> {"new", "open", "closed"}]: the websocket
    wants,    \* [Clients -> SUBSET Topics]: what it last asked for
    believed, \* [Clients -> SUBSET Topics]: what it was told it is subscribed to
    behind    \* [Clients -> SUBSET Topics]: activity it was not told of

subVars == <<link, wants, believed, behind>>

Nothing == [c \in Clients |-> {}]

SubInit ==
    /\ link = [c \in Clients |-> "new"]
    /\ wants = Nothing
    /\ believed = Nothing
    /\ behind = Nothing

Join(c) ==
    /\ link[c] = "new"
    /\ link' = [link EXCEPT ![c] = "open"]
    /\ UNCHANGED <<wants, believed, behind>>

Part(c) ==
    /\ link[c] = "open"
    /\ link' = [link EXCEPT ![c] = "closed"]
    /\ wants' = [wants EXCEPT ![c] = {}]
    /\ believed' = [believed EXCEPT ![c] = {}]
    /\ behind' = [behind EXCEPT ![c] = {}]

(* The client is told that it is subscribed to some of what it asked for,   *)
(* with news of whatever activity of those it does not know.                *)
Confirm(c, asked) ==
    \E yes \in SUBSET asked, news \in SUBSET behind[c] :
        /\ yes \intersect (behind[c] \ news) = {}
        /\ believed' = [believed EXCEPT ![c] = @ \union yes]
        /\ behind' = [behind EXCEPT ![c] = @ \ news]

(* The client asks for more, or gives up; an answer comes at once or later. *)
Ask(c, topics) ==
    /\ link[c] = "open"
    /\ wants' = [wants EXCEPT ![c] = @ \union topics]
    /\ Confirm(c, wants[c] \union topics)
    /\ UNCHANGED link
Answer(c) ==
    /\ link[c] = "open"
    /\ Confirm(c, wants[c])
    /\ UNCHANGED <<link, wants>>
GiveUp(c, topics) ==
    /\ link[c] = "open"
    /\ wants' = [wants EXCEPT ![c] = @ \ topics]
    /\ believed' = [believed EXCEPT ![c] = @ \ topics]
    /\ UNCHANGED <<link, behind>>

(* Activity of an address: who believes to be subscribed is told of it.     *)
Publish(t) ==
    \E told \in SUBSET {c \in Clients : link[c] = "open"} :
        /\ \A c \in Clients : t \in believed[c] => c \in told
        /\ behind' = [c \in Clients |-> IF c \in told THEN behind[c] \ {t}
                                        ELSE IF link[c] = "open" THEN behind[c] \union {t}
                                        ELSE behind[c]]
        /\ UNCHANGED <<link, wants, believed>>

(* The server can watch some addresses no more: whoever believes to be      *)
(* subscribed is told.                                                      *)
Lose(topics) ==
    /\ believed' = [c \in Clients |-> believed[c] \ topics]
    /\ UNCHANGED <<link, wants, behind>>

SubNext ==
    \/ \E c \in Clients : Join(c) \/ Part(c) \/ Answer(c)
    \/ \E c \in Clients, topics \in SUBSET Topics : Ask(c, topics) \/ GiveUp(c, topics)
    \/ \E t \in Topics : Publish(t)
    \/ \E topics \in SUBSET Topics : Lose(topics)

SubSpec == SubInit /\ [][SubNext]_subVars
==============================================================================
