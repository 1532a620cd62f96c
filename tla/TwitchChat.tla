----------------------------- MODULE TwitchChat -----------------------------
(* TwitchChatService: one chat client (@twurple/chat) shared by the modules *)
(* that listen to Twitch channels.  It counts, per channel, the modules     *)
(* that listen, joins a channel for the first and parts it for the last,    *)
(* and joins all of them again when the connection comes back.              *)
(*                                                                         *)
(* The client is external.  It is modelled from what the service relies on: *)
(* commands of one channel are answered in the order they were given, a     *)
(* JOIN may be refused (the service logs that), and a lost connection       *)
(* takes the commands and the channels with it.                             *)
EXTENDS Sequences, Naturals

CONSTANTS
  Channels,     \* channels; a channel stands for its broadcaster, too
  ModuleIds,    \* the names modules join and part with
  MaxCommands   \* bound: unanswered commands of one channel

VARIABLES
  channels,     \* Map<channel, Set<module>>: a function on the known channels
  connection,   \* "idle" (connecting), "registered" or "quit"
  commands,     \* commands[c]: the JOINs and PARTs given and not answered
  joined,       \* the channels the server has the client in
  refused       \* history variable: channels whose last answered JOIN failed

chatVars == <<channels, connection, commands, joined, refused>>

Command == {"JOIN", "PART"}

Registered == connection = "registered"

NoCommands == [c \in Channels |-> <<>>]

SubscribersOf(c) == IF c \in DOMAIN channels THEN channels[c] ELSE {}

\* A message of channel c reaches the listeners of the client.
Heard(c) == Registered /\ c \in joined

ChatInit ==
  /\ channels = [c \in {} |-> {}]
  /\ connection = "idle"
  /\ commands = NoCommands
  /\ joined = {}
  /\ refused = {}

\* The process of the client is gone, and all of its state.
ChatEnds ==
  /\ channels' = [c \in {} |-> {}]
  /\ connection' = "idle"
  /\ commands' = NoCommands
  /\ joined' = {}
  /\ refused' = {}

----------------------------------------------------------------------------
(* What modules call                                                        *)

Send(cs, command) ==
  commands' = [c \in Channels |->
                 IF c \in cs THEN Append(commands[c], command) ELSE commands[c]]

RoomFor(cs) == \A c \in cs : Len(commands[c]) < MaxCommands

\* join, once for each channel of cs: recorded now, asked for now or on "register".
Join(cs, m) ==
  /\ channels' = [c \in DOMAIN channels \cup cs |->
                    IF c \in cs THEN SubscribersOf(c) \cup {m} ELSE channels[c]]
  /\ IF Registered THEN RoomFor(cs) /\ Send(cs, "JOIN") ELSE UNCHANGED commands
  /\ UNCHANGED <<connection, joined, refused>>

\* Mutant: a part that does not look whether another module still listens.
PartAlways(c, m) ==
  /\ channels' = [x \in DOMAIN channels \cup {c} |->
                    IF x = c THEN SubscribersOf(c) \ {m} ELSE channels[x]]
  /\ IF Registered THEN RoomFor({c}) /\ Send({c}, "PART") ELSE UNCHANGED commands
  /\ UNCHANGED <<connection, joined, refused>>

\* part: the channel is left when no module is subscribed any more.
Part(c, m) ==
  /\ channels' = [x \in DOMAIN channels \cup {c} |->
                    IF x = c THEN SubscribersOf(c) \ {m} ELSE channels[x]]
  /\ IF Registered /\ SubscribersOf(c) \ {m} = {}
     THEN RoomFor({c}) /\ Send({c}, "PART") ELSE UNCHANGED commands
  /\ UNCHANGED <<connection, joined, refused>>

\* onModuleDestroy
Quit ==
  /\ connection' = "quit"
  /\ commands' = NoCommands
  /\ joined' = {}
  /\ refused' = {}
  /\ UNCHANGED channels

----------------------------------------------------------------------------
(* What the connection does                                                 *)

\* Mutant: after a reconnection nothing is joined again.
RegisterForgets ==
  /\ connection = "idle"
  /\ connection' = "registered"
  /\ UNCHANGED <<channels, commands, joined, refused>>

\* The "register" event: every key of the map is joined, those left empty too.
Register ==
  /\ connection = "idle"
  /\ connection' = "registered"
  /\ Send(DOMAIN channels, "JOIN")
  /\ UNCHANGED <<channels, joined, refused>>

Disconnect ==
  /\ Registered
  /\ connection' = "idle"
  /\ commands' = NoCommands
  /\ joined' = {}
  /\ refused' = {}
  /\ UNCHANGED channels

\* The server does what the oldest command of a channel says.
Answers(c) ==
  /\ commands[c] # <<>>
  /\ commands' = [commands EXCEPT ![c] = Tail(@)]
  /\ joined' = IF Head(commands[c]) = "JOIN" THEN joined \cup {c} ELSE joined \ {c}
  /\ refused' = refused \ {c}
  /\ UNCHANGED <<channels, connection>>

\* A JOIN fails; the service catches that, and leaves it there.
Refuses(c) ==
  /\ commands[c] # <<>>
  /\ Head(commands[c]) = "JOIN"
  /\ commands' = [commands EXCEPT ![c] = Tail(@)]
  /\ refused' = refused \cup {c}
  /\ UNCHANGED <<channels, connection, joined>>

----------------------------------------------------------------------------
(* The client on its own: modules join and part as they like.               *)

ChatNext ==
  \/ \E m \in ModuleIds, cs \in SUBSET Channels : Join(cs, m)
  \/ \E m \in ModuleIds, c \in Channels : Part(c, m)
  \/ \E c \in Channels : Answers(c) \/ Refuses(c)
  \/ Register
  \/ Disconnect
  \/ Quit
  \/ ChatEnds

ChatSpec == ChatInit /\ [][ChatNext]_chatVars

\* The client reconnects by itself for ever, and a server that is reached again
\* and again answers in the end (strong: the connection may drop in between).
ChatFairness ==
  /\ WF_chatVars(Register)
  /\ \A c \in Channels : SF_chatVars(Answers(c))

FairChatSpec == ChatSpec /\ ChatFairness

----------------------------------------------------------------------------
\* The type invariant of the client.
ChatTypeOK ==
  /\ DOMAIN channels \subseteq Channels
  /\ channels \in [DOMAIN channels -> SUBSET ModuleIds]
  /\ connection \in {"idle", "registered", "quit"}
  /\ commands \in [Channels -> Seq(Command)]
  /\ joined \subseteq Channels
  /\ refused \subseteq Channels

\* What the client is in, or will be once its commands are answered; a refused
\* channel counts, the service did ask for it.
Promised(c) ==
  IF commands[c] = <<>> THEN c \in joined \cup refused
  ELSE commands[c][Len(commands[c])] = "JOIN"

\* A channel with a subscriber is heard once its commands are answered, unless
\* Twitch refused it: no interleaving of joins and parts of several modules with
\* disconnections leaves a module deaf.
SubscribedIsHeard ==
  Registered =>
    \A c \in Channels :
      SubscribersOf(c) # {} /\ commands[c] = <<>> => c \in joined \cup refused

\* A subscribed channel is eventually heard (or refused, or not wanted any more,
\* or the client quits).
SubscribedGetsHeard ==
  \A c \in Channels :
    SubscribersOf(c) # {} ~>
      \/ Heard(c)
      \/ c \in refused
      \/ SubscribersOf(c) = {}
      \/ connection = "quit"

\* The service keeps the promise of Subscriptions.
Subs == INSTANCE Subscriptions WITH
  wanted <- {p \in ModuleIds \X Channels : p[1] \in SubscribersOf(p[2])},
  up <- Registered,
  promised <- {c \in Channels : Promised(c)}

ImplementsSubscriptions == Subs!Spec
=============================================================================
