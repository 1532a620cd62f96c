--------------------------- MODULE Subscriptions ---------------------------
(* What TwitchChatService promises the modules that share one chat client:  *)
(* while the client is up, every channel some module wants is a channel it  *)
(* is in, is getting into, or was refused by Twitch; it turns its back on   *)
(* a channel only when the last module has unsubscribed.                    *)
EXTENDS Naturals

CONSTANTS Channels, ModuleIds

VARIABLES
  wanted,   \* pairs <<module, channel>>
  up,       \* the client is registered with the chat server
  promised  \* the channels it has asked to be in, and not to leave since

subscriptionVars == <<wanted, up, promised>>

Wanted == {c \in Channels : \E m \in ModuleIds : <<m, c>> \in wanted}

Init == wanted = {} /\ up = FALSE /\ promised = {}

Subscribe(m, cs) ==
  /\ wanted' = wanted \cup ({m} \X cs)
  /\ promised' = IF up THEN promised \cup cs ELSE promised
  /\ UNCHANGED up

Unsubscribe(m, c) ==
  /\ wanted' = wanted \ {<<m, c>>}
  /\ promised' = IF \E x \in ModuleIds : <<x, c>> \in wanted' THEN promised
                 ELSE promised \ {c}
  /\ UNCHANGED up

\* It may return to channels nobody wants any more, but to all that are wanted.
ComesUp ==
  /\ ~up
  /\ up' = TRUE
  /\ \E others \in SUBSET Channels : promised' = Wanted \cup others
  /\ UNCHANGED wanted

GoesDown ==
  /\ up' = FALSE
  /\ promised' = {}
  /\ UNCHANGED wanted

Restarts == wanted' = {} /\ up' = FALSE /\ promised' = {}

Next ==
  \/ \E m \in ModuleIds, cs \in SUBSET Channels : Subscribe(m, cs)
  \/ \E m \in ModuleIds, c \in Channels : Unsubscribe(m, c)
  \/ ComesUp
  \/ GoesDown
  \/ Restarts

Spec == Init /\ [][Next]_subscriptionVars
=============================================================================
