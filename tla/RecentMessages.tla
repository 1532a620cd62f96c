--------------------------- MODULE RecentMessages ---------------------------
(* RecentMessagesService: the last messages of some channels, loaded from   *)
(* the table at start-up, kept in memory as chat goes on, and stored in     *)
(* batches every ten seconds.                                               *)
(*                                                                         *)
(* A message is the number of its time.  The queue and the table hold the   *)
(* messages of all channels; nothing reads them but by channel, and the     *)
(* table in the order of createdAt, so that both are kept by channel here.  *)
EXTENDS Naturals, Sequences

CONSTANTS
  Channels,      \* RECENT_MESSAGES_CHANNELS
  MessagesLimit, \* RECENT_MESSAGES_LIMIT
  MaxMessages,   \* bound: the messages that are said
  NoList         \* no list of messages for a channel yet

Message == 1 .. MaxMessages

ASSUME RecentAssumption ==
  MessagesLimit \in Nat \ {0} /\ MaxMessages \in Nat /\ NoList \notin Seq(Message)

VARIABLES
  recentMessages, \* by channel
  loads,          \* by channel: what the query of start-up has found
  loading,        \* that query has not been waited for yet
  queue,          \* by channel: messages to be stored
  inserting,      \* by channel: the batch that is being stored, while isPending
  chatMessages,   \* by channel: the table
  said            \* the number of messages that have been said

recentVars == <<recentMessages, loads, loading, queue, inserting, chatMessages, said>>

NoLists == [ch \in Channels |-> NoList]
NoMessages == [ch \in Channels |-> <<>>]

RecentInit ==
  /\ recentMessages = NoLists
  /\ loads = NoLists
  /\ loading = TRUE
  /\ queue = NoMessages
  /\ inserting = NoMessages
  /\ chatMessages = NoMessages
  /\ said = 0

\* The last limit elements.
Last(seq, limit) ==
  IF Len(seq) <= limit THEN seq ELSE SubSeq(seq, Len(seq) - limit + 1, Len(seq))

\* find({ take, order: { createdAt: 'DESC' } }), reversed.
LoadAnswered(ch) ==
  /\ loading /\ loads[ch] = NoList
  /\ loads' = [loads EXCEPT ![ch] = Last(chatMessages[ch], MessagesLimit)]
  /\ UNCHANGED <<recentMessages, loading, queue, inserting, chatMessages, said>>

\* Mutant: what was found is put before the messages that have arrived.
LoadsBefore ==
  /\ loading /\ \A ch \in Channels : loads[ch] # NoList
  /\ recentMessages' = [ch \in Channels |->
       IF recentMessages[ch] = NoList THEN loads[ch] ELSE loads[ch] \o recentMessages[ch]]
  /\ loading' = FALSE
  /\ UNCHANGED <<loads, queue, inserting, chatMessages, said>>

\* Promise.all: what was found replaces the messages that have arrived.
Loads ==
  /\ loading /\ \A ch \in Channels : loads[ch] # NoList
  /\ recentMessages' = loads
  /\ loading' = FALSE
  /\ UNCHANGED <<loads, queue, inserting, chatMessages, said>>

\* The list of a channel after a message: it drops its first one when it is full.
Pushed(list, message) ==
  Append(IF Len(list) >= MessagesLimit THEN Tail(list) ELSE list, message)

Listed(ch) == IF recentMessages[ch] = NoList THEN <<>> ELSE recentMessages[ch]

\* Mutant: tmi-sent-ts is not read.
HandleMessageUntimed(ch) ==
  /\ said < MaxMessages
  /\ said' = said + 1
  /\ recentMessages' = [recentMessages EXCEPT ![ch] = Pushed(Listed(ch), 0)]
  /\ queue' = [queue EXCEPT ![ch] = Append(@, 0)]
  /\ UNCHANGED <<loads, loading, inserting, chatMessages>>

HandleMessage(ch) ==
  /\ said < MaxMessages
  /\ said' = said + 1
  /\ recentMessages' = [recentMessages EXCEPT ![ch] = Pushed(Listed(ch), said + 1)]
  /\ queue' = [queue EXCEPT ![ch] = Append(@, said + 1)]
  /\ UNCHANGED <<loads, loading, inserting, chatMessages>>

StoreMessages ==
  /\ inserting = NoMessages /\ queue # NoMessages
  /\ inserting' = queue
  /\ queue' = NoMessages
  /\ UNCHANGED <<recentMessages, loads, loading, chatMessages, said>>

\* The INSERT stores the batch; or it fails, and the batch is gone.
MessagesStored ==
  /\ inserting # NoMessages
  /\ \/ chatMessages' = [ch \in Channels |-> chatMessages[ch] \o inserting[ch]]
     \/ UNCHANGED chatMessages
  /\ inserting' = NoMessages
  /\ UNCHANGED <<recentMessages, loads, loading, queue, said>>

RecentRestart ==
  /\ recentMessages' = NoLists
  /\ loads' = NoLists
  /\ loading' = TRUE
  /\ queue' = NoMessages
  /\ inserting' = NoMessages
  /\ UNCHANGED <<chatMessages, said>>

RecentNext ==
  \/ \E ch \in Channels : LoadAnswered(ch) \/ HandleMessage(ch)
  \/ Loads
  \/ StoreMessages
  \/ MessagesStored
  \/ RecentRestart

RecentSpec == RecentInit /\ [][RecentNext]_recentVars

----------------------------------------------------------------------------
(* Properties                                                               *)

Lists == [Channels -> Seq(Message) \cup {NoList}]
Stores == [Channels -> Seq(Message)]

RecentTypeOK ==
  /\ recentMessages \in Lists
  /\ loads \in Lists
  /\ loading \in BOOLEAN
  /\ queue \in Stores
  /\ inserting \in Stores
  /\ chatMessages \in Stores
  /\ said \in 0 .. MaxMessages

InOrder(messages) ==
  \A i, j \in 1 .. Len(messages) : i < j => messages[i] < messages[j]

\* The list of a channel shows no message twice and none out of order, across the load
\* that replaces it: messages are stored while the load is under way, and loaded again.
\* Nor is it longer than the limit; and the table gets each message once, in order.
RecentInOrder ==
  \A ch \in Channels :
    /\ recentMessages[ch] # NoList =>
         InOrder(recentMessages[ch]) /\ Len(recentMessages[ch]) <= MessagesLimit
    /\ InOrder(chatMessages[ch] \o inserting[ch] \o queue[ch])
=============================================================================
