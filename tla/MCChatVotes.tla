---------------------------- MODULE MCChatVotes ----------------------------
(* Values for the constants of ChatVotes: one voting, one subscriber, the   *)
(* default commands and permissions, and commands that are rejected.        *)
EXTENDS ChatVotes, TLC

CONSTANT subscriber

\* A subscriber of tier 2 for two months, who is nothing else.
MCViewers == {subscriber}
MCChatUserOf ==
  [u \in MCViewers |-> [isMod |-> FALSE, isVip |-> FALSE, months |-> 2, tier |-> 2]]

MCPermissionsDefault ==
  [viewer |-> FALSE, sub |-> TRUE, mod |-> TRUE, vip |-> TRUE,
   subMonthsRequired |-> 0, subTierRequired |-> 1]
MCPermissions == {MCPermissionsDefault}

MCCommandsDefault == [vote |-> "%", clearVotes |-> "!clearvotes"]
SameCommands == [vote |-> "%", clearVotes |-> "%"]
MCCommands == {MCCommandsDefault, SameCommands}

Text(whole, extends) == [whole |-> whole, extends |-> extends]
MCMessages == {Text("%%", {"%"}), Text("%a", {"%"}), Text("!clearvotes", {})}

Listening(b) == [listening |-> b]
Everything ==
  [permissions |-> MCPermissionsDefault, commands |-> MCCommandsDefault, listening |-> TRUE]
MCCreateInputs == {Listening(TRUE), Everything}
Switches == {Listening(TRUE), Listening(FALSE)}
MCUpdateInputs == Switches \cup {[commands |-> SameCommands]}
=============================================================================
