-------------------------- MODULE TwitchChatProofs --------------------------
(* Proofs about the shared chat client: for any channels and modules, a     *)
(* subscribed channel is heard once its commands are answered, and the      *)
(* client implements Subscriptions.                                         *)
EXTENDS TwitchChat, TLAPS

\* A client that is not registered has no commands under way and no channels.
EmptyOffline ==
  ~Registered => commands = NoCommands /\ joined = {} /\ refused = {}

SubscribedIsPromised ==
  Registered => \A c \in Channels : SubscribersOf(c) # {} => Promised(c)

\* The inductive invariant: SubscribedIsHeard speaks of channels without commands
\* only, which no step could preserve without knowing what the commands promise.
ChatInv == ChatTypeOK /\ EmptyOffline /\ SubscribedIsPromised

----------------------------------------------------------------------------
(* Queues of commands                                                       *)

\* The last command given is the one appended.
LEMMA AppendLast ==
  ASSUME NEW s \in Seq(Command), NEW k \in Command
  PROVE  /\ Append(s, k) \in Seq(Command)
         /\ Append(s, k) # <<>>
         /\ Append(s, k)[Len(Append(s, k))] = k
  OBVIOUS

\* Answering the oldest command leaves the last one last.
LEMMA TailLast ==
  ASSUME NEW s \in Seq(Command), s # <<>>
  PROVE  /\ Tail(s) \in Seq(Command)
         /\ Head(s) \in Command
         /\ Tail(s) = <<>> => s[Len(s)] = Head(s)
         /\ Tail(s) # <<>> => Tail(s)[Len(Tail(s))] = s[Len(s)]
<1>1. Len(s) \in Nat /\ Len(s) >= 1
  OBVIOUS
<1>2. Len(Tail(s)) = Len(s) - 1 /\ Tail(s) \in Seq(Command)
  BY <1>1
<1>3. CASE Tail(s) = <<>>
  BY <1>1, <1>2, <1>3
<1>4. CASE Tail(s) # <<>>
  <2>1. Len(s) - 1 >= 1
    BY <1>1, <1>2, <1>4
  <2>2. Tail(s)[Len(s) - 1] = s[(Len(s) - 1) + 1]
    BY <1>1, <2>1
  <2>3. QED
    BY <1>1, <1>2, <1>4, <2>1, <2>2
<1>5. QED
  BY <1>3, <1>4

\* Commands sent to a set of channels are the last ones there, and no other
\* channel notices.
LEMMA SendLast ==
  ASSUME ChatTypeOK, NEW cs \in SUBSET Channels, NEW k \in Command, Send(cs, k)
  PROVE  /\ commands' \in [Channels -> Seq(Command)]
         /\ \A c \in cs : commands'[c] # <<>> /\ commands'[c][Len(commands'[c])] = k
         /\ \A c \in Channels \ cs : commands'[c] = commands[c]
<1>1. \A c \in Channels : commands[c] \in Seq(Command)
  BY DEF ChatTypeOK
<1>2. \A c \in cs : commands'[c] = Append(commands[c], k)
  BY DEF Send
<1>3. \A c \in Channels \ cs : commands'[c] = commands[c]
  BY DEF Send
<1>4. \A c \in Channels : commands'[c] \in Seq(Command)
  BY <1>1, <1>2, <1>3, AppendLast
<1>5. commands' \in [Channels -> Seq(Command)]
  BY <1>4 DEF Send
<1>6. QED
  BY <1>1, <1>2, <1>3, <1>5, AppendLast

\* What the steps of the server do to what is promised: nothing.
LEMMA AnswerKeepsPromise ==
  ASSUME ChatTypeOK, NEW c \in Channels, Answers(c) \/ Refuses(c)
  PROVE  /\ commands' \in [Channels -> Seq(Command)]
         /\ \A x \in Channels : Promised(x)' <=> Promised(x)
<1>1. commands[c] \in Seq(Command) /\ commands[c] # <<>>
  BY DEF ChatTypeOK, Answers, Refuses
<1>2. commands' = [commands EXCEPT ![c] = Tail(@)]
  BY DEF Answers, Refuses
<1>3. commands'[c] = Tail(commands[c]) /\ \A x \in Channels \ {c} : commands'[x] = commands[x]
  BY <1>2 DEF ChatTypeOK
<1>4. commands' \in [Channels -> Seq(Command)]
  BY <1>1, <1>2, TailLast DEF ChatTypeOK
<1>5. ASSUME NEW x \in Channels, x # c PROVE Promised(x)' <=> Promised(x)
  <2>1. /\ x \in joined' <=> x \in joined
        /\ x \in refused' <=> x \in refused
    BY <1>5 DEF Answers, Refuses
  <2>2. QED
    BY <1>3, <1>5, <2>1 DEF Promised
<1>6. Promised(c)' <=> Promised(c)
  <2>1. CASE Tail(commands[c]) # <<>>
    BY <1>1, <1>3, <2>1, TailLast DEF Promised
  <2>2. CASE Tail(commands[c]) = <<>>
    <3>1. commands[c][Len(commands[c])] = Head(commands[c])
      BY <1>1, <2>2, TailLast
    <3>2. Promised(c) <=> Head(commands[c]) = "JOIN"
      BY <1>1, <3>1 DEF Promised
    <3>3. Promised(c)' <=> c \in joined' \cup refused'
      BY <1>3, <2>2 DEF Promised
    <3>4. c \in joined' \cup refused' <=> Head(commands[c]) = "JOIN"
      BY DEF Answers, Refuses
    <3>5. QED
      BY <3>2, <3>3, <3>4
  <2>3. QED
    BY <2>1, <2>2
<1>7. QED
  BY <1>4, <1>5, <1>6

----------------------------------------------------------------------------
(* The invariant                                                            *)

LEMMA InitInv == ChatInit => ChatInv
BY DEF ChatInit, ChatInv, ChatTypeOK, EmptyOffline, SubscribedIsPromised, Registered,
       NoCommands, SubscribersOf

LEMMA JoinInv ==
  ASSUME ChatInv, NEW cs \in SUBSET Channels, NEW m \in ModuleIds, Join(cs, m)
  PROVE  ChatInv'
<1> USE DEF ChatInv
<1>1. ChatTypeOK /\ EmptyOffline /\ SubscribedIsPromised
  OBVIOUS
<1>2. /\ DOMAIN channels' = DOMAIN channels \cup cs
      /\ \A c \in cs : channels'[c] = SubscribersOf(c) \cup {m}
      /\ \A c \in DOMAIN channels \ cs : channels'[c] = channels[c]
      /\ channels' = [c \in DOMAIN channels' |-> channels'[c]]
  BY DEF Join
<1>3. \A c \in Channels : SubscribersOf(c) \in SUBSET ModuleIds
  BY <1>1 DEF ChatTypeOK, SubscribersOf
<1>4. /\ DOMAIN channels' \subseteq Channels
      /\ channels' \in [DOMAIN channels' -> SUBSET ModuleIds]
  BY <1>1, <1>2, <1>3 DEF ChatTypeOK
<1>5. CASE Registered
  <2>1. Send(cs, "JOIN") /\ "JOIN" \in Command
    BY <1>5 DEF Join, Command
  <2>2. ChatTypeOK'
    BY <1>1, <1>4, <2>1, SendLast DEF Join, ChatTypeOK
  <2>3. EmptyOffline'
    BY <1>5 DEF Join, EmptyOffline, Registered
  <2>4. ASSUME NEW c \in Channels, SubscribersOf(c)' # {} PROVE Promised(c)'
    <3>1. CASE c \in cs
      BY <1>1, <2>1, <3>1, SendLast DEF Promised
    <3>2. CASE c \notin cs
      <4>1. SubscribersOf(c) # {}
        BY <1>2, <2>4, <3>2 DEF SubscribersOf
      <4>2. commands'[c] = commands[c] /\ joined' = joined /\ refused' = refused
        BY <1>1, <2>1, <3>2, SendLast DEF Join
      <4>3. QED
        BY <1>1, <1>5, <4>1, <4>2 DEF SubscribedIsPromised, Promised
    <3>3. QED
      BY <3>1, <3>2
  <2>5. QED
    BY <2>2, <2>3, <2>4 DEF SubscribedIsPromised
<1>6. CASE ~Registered
  BY <1>1, <1>4, <1>6 DEF Join, ChatTypeOK, EmptyOffline, SubscribedIsPromised, Registered
<1>7. QED
  BY <1>5, <1>6

LEMMA PartInv ==
  ASSUME ChatInv, NEW c \in Channels, NEW m \in ModuleIds, Part(c, m)
  PROVE  ChatInv'
<1>1. ChatTypeOK /\ EmptyOffline /\ SubscribedIsPromised
  BY DEF ChatInv
<1>2. /\ DOMAIN channels' = DOMAIN channels \cup {c}
      /\ channels'[c] = SubscribersOf(c) \ {m}
      /\ \A x \in DOMAIN channels \ {c} : channels'[x] = channels[x]
      /\ channels' = [x \in DOMAIN channels' |-> channels'[x]]
  BY DEF Part
<1>3. \A x \in Channels : SubscribersOf(x) \in SUBSET ModuleIds
  BY <1>1 DEF ChatTypeOK, SubscribersOf
<1>4. /\ DOMAIN channels' \subseteq Channels
      /\ channels' \in [DOMAIN channels' -> SUBSET ModuleIds]
  BY <1>1, <1>2, <1>3 DEF ChatTypeOK
<1>5. \A x \in Channels : SubscribersOf(x)' # {} => SubscribersOf(x) # {}
  BY <1>2 DEF SubscribersOf
<1>6. CASE Registered /\ SubscribersOf(c) \ {m} = {}
  <2>1. Send({c}, "PART") /\ "PART" \in Command
    BY <1>6 DEF Part, Command
  <2>2. ChatTypeOK'
    BY <1>1, <1>4, <2>1, SendLast DEF Part, ChatTypeOK
  <2>3. EmptyOffline'
    BY <1>6 DEF Part, EmptyOffline, Registered
  <2>4. ASSUME NEW x \in Channels, SubscribersOf(x)' # {} PROVE Promised(x)'
    <3>1. x # c
      BY <1>2, <1>6, <2>4 DEF SubscribersOf
    <3>2. x \in Channels \ {c} /\ {c} \in SUBSET Channels
      BY <3>1
    <3>3. commands'[x] = commands[x]
      BY <1>1, <2>1, <3>2, SendLast
    <3>4. joined' = joined /\ refused' = refused
      BY DEF Part
    <3>5. QED
      BY <1>1, <1>5, <1>6, <2>4, <3>3, <3>4 DEF SubscribedIsPromised, Promised
  <2>5. QED
    BY <2>2, <2>3, <2>4 DEF ChatInv, SubscribedIsPromised
<1>7. CASE ~(Registered /\ SubscribersOf(c) \ {m} = {})
  <2>1. UNCHANGED <<connection, commands, joined, refused>>
    BY <1>7 DEF Part
  <2>2. ChatTypeOK' /\ EmptyOffline'
    BY <1>1, <1>4, <2>1 DEF ChatTypeOK, EmptyOffline, Registered
  <2>3. SubscribedIsPromised'
    BY <1>1, <1>5, <2>1 DEF SubscribedIsPromised, Registered, Promised
  <2>4. QED
    BY <2>2, <2>3 DEF ChatInv
<1>8. QED
  BY <1>6, <1>7

LEMMA AnswerInv ==
  ASSUME ChatInv, NEW c \in Channels, Answers(c) \/ Refuses(c)
  PROVE  ChatInv'
<1>1. ChatTypeOK /\ EmptyOffline /\ SubscribedIsPromised
  BY DEF ChatInv
<1>2. UNCHANGED <<channels, connection>>
  BY DEF Answers, Refuses
<1>3. /\ commands' \in [Channels -> Seq(Command)]
      /\ \A x \in Channels : Promised(x)' <=> Promised(x)
  BY <1>1, AnswerKeepsPromise
<1>4. ChatTypeOK'
  BY <1>1, <1>2, <1>3 DEF ChatTypeOK, Answers, Refuses
<1>5. Registered
  BY <1>1 DEF EmptyOffline, NoCommands, Answers, Refuses
<1>6. EmptyOffline'
  BY <1>2, <1>5 DEF EmptyOffline, Registered
<1>7. SubscribedIsPromised'
  BY <1>1, <1>2, <1>3 DEF SubscribedIsPromised, SubscribersOf, Registered
<1>8. QED
  BY <1>4, <1>6, <1>7 DEF ChatInv

LEMMA RegisterInv ==
  ASSUME ChatInv, Register
  PROVE  ChatInv'
<1>1. ChatTypeOK
  BY DEF ChatInv
<1>2. DOMAIN channels \in SUBSET Channels /\ Send(DOMAIN channels, "JOIN") /\ "JOIN" \in Command
  BY <1>1 DEF ChatTypeOK, Register, Command
<1>3. ChatTypeOK'
  BY <1>1, <1>2, SendLast DEF ChatTypeOK, Register
<1>4. EmptyOffline'
  BY DEF EmptyOffline, Register, Registered
<1>5. ASSUME NEW c \in Channels, SubscribersOf(c)' # {} PROVE Promised(c)'
  <2>1. c \in DOMAIN channels
    BY <1>5 DEF Register, SubscribersOf
  <2>2. commands'[c] # <<>> /\ commands'[c][Len(commands'[c])] = "JOIN"
    BY <1>1, <1>2, <2>1, SendLast
  <2>3. QED
    BY <2>2 DEF Promised
<1>6. QED
  BY <1>3, <1>4, <1>5 DEF ChatInv, SubscribedIsPromised

\* Losing the connection, quitting and ending leave the client offline and empty.
LEMMA OfflineInv ==
  ASSUME ChatInv, Disconnect \/ Quit \/ ChatEnds
  PROVE  ChatInv'
<1>1. NoCommands \in [Channels -> Seq(Command)]
  BY DEF NoCommands
<1>2. /\ connection' \in {"idle", "quit"}
      /\ commands' = NoCommands /\ joined' = {} /\ refused' = {}
  BY DEF Disconnect, Quit, ChatEnds
<1>3. /\ DOMAIN channels' \subseteq Channels
      /\ channels' \in [DOMAIN channels' -> SUBSET ModuleIds]
  BY DEF ChatInv, ChatTypeOK, Disconnect, Quit, ChatEnds
<1>4. ~Registered'
  BY <1>2 DEF Registered
<1>5. ChatTypeOK'
  BY <1>1, <1>2, <1>3 DEF ChatTypeOK
<1>6. EmptyOffline'
  BY <1>2 DEF EmptyOffline, NoCommands
<1>7. QED
  BY <1>4, <1>5, <1>6 DEF ChatInv, SubscribedIsPromised

LEMMA NextInv == ChatInv /\ [ChatNext]_chatVars => ChatInv'
<1> SUFFICES ASSUME ChatInv, [ChatNext]_chatVars PROVE ChatInv'
  OBVIOUS
<1>1. ASSUME NEW cs \in SUBSET Channels, NEW m \in ModuleIds, Join(cs, m) PROVE ChatInv'
  BY <1>1, JoinInv
<1>2. ASSUME NEW c \in Channels, NEW m \in ModuleIds, Part(c, m) PROVE ChatInv'
  BY <1>2, PartInv
<1>3. ASSUME NEW c \in Channels, Answers(c) \/ Refuses(c) PROVE ChatInv'
  BY <1>3, AnswerInv
<1>4. CASE Register
  BY <1>4, RegisterInv
<1>5. CASE Disconnect \/ Quit \/ ChatEnds
  BY <1>5, OfflineInv
<1>6. CASE UNCHANGED chatVars
  BY <1>6 DEF chatVars, ChatInv, ChatTypeOK, EmptyOffline, SubscribedIsPromised,
              Registered, NoCommands, SubscribersOf, Promised
<1>7. QED
  BY <1>1, <1>2, <1>3, <1>4, <1>5, <1>6 DEF ChatNext

\* Whatever joins, parts, answers, refusals and reconnections happen in whatever
\* order, a channel with a subscriber and no command under way is one the client
\* is in, or was refused.
THEOREM SubscriptionsHeard == ChatSpec => []SubscribedIsHeard
<1>1. ChatInv => SubscribedIsHeard
  BY DEF ChatInv, SubscribedIsPromised, SubscribedIsHeard, Promised
<1>2. QED
  BY <1>1, InitInv, NextInv, PTL DEF ChatSpec

----------------------------------------------------------------------------
(* The client implements Subscriptions                                      *)

\* The state functions that stand for the variables of Subscriptions.
WantedPairs == {p \in ModuleIds \X Channels : p[1] \in SubscribersOf(p[2])}
PromisedChannels == {c \in Channels : Promised(c)}

LEMMA OfflinePromisesNothing == ChatInv /\ ~Registered => PromisedChannels = {}
BY DEF ChatInv, EmptyOffline, PromisedChannels, Promised, NoCommands

LEMMA JoinSubscribes ==
  ASSUME ChatInv, ChatInv', NEW cs \in SUBSET Channels, NEW m \in ModuleIds, Join(cs, m)
  PROVE  Subs!Subscribe(m, cs)
<1>1. \A c \in cs : SubscribersOf(c)' = SubscribersOf(c) \cup {m}
  BY DEF Join, SubscribersOf
<1>2. \A x \in Channels \ cs : SubscribersOf(x)' = SubscribersOf(x)
  BY DEF Join, SubscribersOf
<1>3. WantedPairs' = WantedPairs \cup ({m} \X cs)
  <2>1. WantedPairs' \subseteq WantedPairs \cup ({m} \X cs)
    BY <1>1, <1>2 DEF WantedPairs
  <2>2. WantedPairs \cup ({m} \X cs) \subseteq WantedPairs'
    BY <1>1, <1>2 DEF WantedPairs
  <2>3. QED
    BY <2>1, <2>2
<1>4. Registered' = Registered
  BY DEF Join, Registered
<1>5. CASE Registered
  <2>1. ChatTypeOK /\ Send(cs, "JOIN") /\ "JOIN" \in Command
    BY <1>5 DEF ChatInv, Join, Command
  <2>2. ASSUME NEW c \in cs PROVE Promised(c)'
    <3>1. /\ c \in Channels
          /\ commands'[c] # <<>>
          /\ commands'[c][Len(commands'[c])] = "JOIN"
      BY <2>1, SendLast
    <3>2. QED
      BY <3>1 DEF Promised
  <2>3. ASSUME NEW x \in Channels \ cs PROVE Promised(x)' <=> Promised(x)
    <3>1. commands'[x] = commands[x]
      BY <2>1, SendLast
    <3>2. joined' = joined /\ refused' = refused
      BY DEF Join
    <3>3. QED
      BY <3>1, <3>2 DEF Promised
  <2>4. PromisedChannels' = PromisedChannels \cup cs
    BY <2>2, <2>3 DEF PromisedChannels
  <2>5. QED
    BY <1>3, <1>4, <1>5, <2>4 DEF Subs!Subscribe, WantedPairs, PromisedChannels
<1>6. CASE ~Registered
  <2>1. PromisedChannels = {} /\ PromisedChannels' = {}
    BY <1>4, <1>6, OfflinePromisesNothing DEF ChatInv, EmptyOffline, PromisedChannels,
       Promised, NoCommands
  <2>2. QED
    BY <1>3, <1>4, <1>6, <2>1 DEF Subs!Subscribe, WantedPairs, PromisedChannels
<1>7. QED
  BY <1>5, <1>6

LEMMA PartUnsubscribes ==
  ASSUME ChatInv, ChatInv', NEW c \in Channels, NEW m \in ModuleIds, Part(c, m)
  PROVE  Subs!Unsubscribe(m, c)
<1>1. SubscribersOf(c)' = SubscribersOf(c) \ {m}
  BY DEF Part, SubscribersOf
<1>2. \A x \in Channels \ {c} : SubscribersOf(x)' = SubscribersOf(x)
  BY DEF Part, SubscribersOf
<1>3. WantedPairs' = WantedPairs \ {<<m, c>>}
  BY <1>1, <1>2 DEF WantedPairs
<1>4. SubscribersOf(c) \in SUBSET ModuleIds
  BY DEF ChatInv, ChatTypeOK, SubscribersOf
<1>5. (\E x \in ModuleIds : <<x, c>> \in WantedPairs') <=> SubscribersOf(c) \ {m} # {}
  BY <1>1, <1>4 DEF WantedPairs
<1>6. Registered' = Registered
  BY DEF Part, Registered
<1>7. CASE Registered /\ SubscribersOf(c) \ {m} = {}
  <2>1. ChatTypeOK /\ {c} \in SUBSET Channels /\ Send({c}, "PART") /\ "PART" \in Command
    BY <1>7 DEF ChatInv, Part, Command
  <2>2. ~Promised(c)'
    BY <2>1, SendLast DEF Promised
  <2>3. ASSUME NEW x \in Channels, x # c PROVE Promised(x)' <=> Promised(x)
    <3>1. x \in Channels \ {c}
      BY <2>3
    <3>2. commands'[x] = commands[x]
      BY <2>1, <3>1, SendLast
    <3>3. joined' = joined /\ refused' = refused
      BY DEF Part
    <3>4. QED
      BY <3>2, <3>3 DEF Promised
  <2>4. PromisedChannels' = PromisedChannels \ {c}
    BY <2>2, <2>3 DEF PromisedChannels
  <2>5. QED
    BY <1>3, <1>5, <1>6, <1>7, <2>4 DEF Subs!Unsubscribe, WantedPairs, PromisedChannels
<1>8. CASE ~(Registered /\ SubscribersOf(c) \ {m} = {})
  <2>1. PromisedChannels' = PromisedChannels
    BY <1>8 DEF Part, PromisedChannels, Promised
  <2>2. SubscribersOf(c) \ {m} = {} => PromisedChannels = {}
    BY <1>8, OfflinePromisesNothing
  <2>3. QED
    BY <1>3, <1>5, <1>6, <2>1, <2>2 DEF Subs!Unsubscribe, WantedPairs, PromisedChannels
<1>9. QED
  BY <1>7, <1>8

LEMMA AnswerStutters ==
  ASSUME ChatInv, NEW c \in Channels, Answers(c) \/ Refuses(c)
  PROVE  UNCHANGED Subs!subscriptionVars
<1>1. UNCHANGED <<channels, connection>>
  BY DEF Answers, Refuses
<1>2. \A x \in Channels : Promised(x)' <=> Promised(x)
  BY AnswerKeepsPromise DEF ChatInv
<1>3. PromisedChannels' = PromisedChannels
  BY <1>2 DEF PromisedChannels
<1>4. WantedPairs' = WantedPairs
  BY <1>1 DEF WantedPairs, SubscribersOf
<1>5. QED
  BY <1>1, <1>3, <1>4 DEF Subs!subscriptionVars, PromisedChannels, WantedPairs, Registered

LEMMA RegisterComesUp ==
  ASSUME ChatInv, ChatInv', Register
  PROVE  Subs!ComesUp
<1>1. ~Registered /\ Registered'
  BY DEF Register, Registered
<1>2. WantedPairs' = WantedPairs
  BY DEF Register, WantedPairs, SubscribersOf
<1>3. \A c \in Channels : SubscribersOf(c)' = SubscribersOf(c)
  BY DEF Register, SubscribersOf
<1>4. \A c \in Subs!Wanted : c \in Channels /\ SubscribersOf(c) # {}
  BY DEF Subs!Wanted
<1>5. Subs!Wanted \subseteq PromisedChannels'
  BY <1>1, <1>3, <1>4 DEF ChatInv, SubscribedIsPromised, PromisedChannels
<1>6. PromisedChannels' \in SUBSET Channels
  BY DEF PromisedChannels
<1>7. \E others \in SUBSET Channels : PromisedChannels' = Subs!Wanted \cup others
  BY <1>5, <1>6
<1>8. QED
  BY <1>1, <1>2, <1>7 DEF Subs!ComesUp, PromisedChannels, WantedPairs

LEMMA OfflineGoesDown ==
  ASSUME ChatInv, Disconnect \/ Quit
  PROVE  Subs!GoesDown
<1>1. ~Registered'
  BY DEF Disconnect, Quit, Registered
<1>2. PromisedChannels' = {}
  BY DEF Disconnect, Quit, PromisedChannels, Promised, NoCommands
<1>3. WantedPairs' = WantedPairs
  BY DEF Disconnect, Quit, WantedPairs, SubscribersOf
<1>4. QED
  BY <1>1, <1>2, <1>3 DEF Subs!GoesDown, PromisedChannels, WantedPairs

LEMMA EndRestarts ==
  ASSUME ChatEnds
  PROVE  Subs!Restarts
<1>1. ~Registered'
  BY DEF ChatEnds, Registered
<1>2. PromisedChannels' = {}
  BY DEF ChatEnds, PromisedChannels, Promised, NoCommands
<1>3. WantedPairs' = {}
  BY DEF ChatEnds, WantedPairs, SubscribersOf
<1>4. QED
  BY <1>1, <1>2, <1>3 DEF Subs!Restarts, PromisedChannels, WantedPairs

LEMMA StepRefines ==
  ChatInv /\ ChatInv' /\ [ChatNext]_chatVars => [Subs!Next]_(Subs!subscriptionVars)
<1> SUFFICES ASSUME ChatInv, ChatInv', [ChatNext]_chatVars
             PROVE  [Subs!Next]_(Subs!subscriptionVars)
  OBVIOUS
<1>1. ASSUME NEW cs \in SUBSET Channels, NEW m \in ModuleIds, Join(cs, m) PROVE Subs!Next
  BY <1>1, JoinSubscribes DEF Subs!Next
<1>2. ASSUME NEW c \in Channels, NEW m \in ModuleIds, Part(c, m) PROVE Subs!Next
  BY <1>2, PartUnsubscribes DEF Subs!Next
<1>3. ASSUME NEW c \in Channels, Answers(c) \/ Refuses(c)
      PROVE  UNCHANGED Subs!subscriptionVars
  BY <1>3, AnswerStutters
<1>4. CASE Register
  BY <1>4, RegisterComesUp DEF Subs!Next
<1>5. CASE Disconnect \/ Quit
  BY <1>5, OfflineGoesDown DEF Subs!Next
<1>6. CASE ChatEnds
  BY <1>6, EndRestarts DEF Subs!Next
<1>7. CASE UNCHANGED chatVars
  BY <1>7 DEF chatVars, Subs!subscriptionVars, SubscribersOf, Promised, Registered
<1>8. QED
  BY <1>1, <1>2, <1>3, <1>4, <1>5, <1>6, <1>7 DEF ChatNext

\* TwitchChatService implements Subscriptions: while the client is up it turns
\* its back on a channel only when no module subscribes to it any more, and it
\* comes up with all the channels that are wanted.
THEOREM ClientImplementsSubscriptions == ChatSpec => ImplementsSubscriptions
<1>1. ChatInit => Subs!Init
  BY DEF ChatInit, Subs!Init, SubscribersOf, Promised, NoCommands, Registered
<1>2. QED
  BY <1>1, InitInv, NextInv, StepRefines, PTL
     DEF ChatSpec, ImplementsSubscriptions, Subs!Spec
=============================================================================
