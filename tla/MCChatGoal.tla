----------------------------- MODULE MCChatGoal -----------------------------
(* Values for the constants of ChatGoal that a configuration cannot spell.  *)
EXTENDS ChatGoal, FiniteSets, TLC

CONSTANTS
  g1, \* the broadcaster
  u1  \* the chatter: a moderator

MCGoalIds == {g1}
MCUsers == {u1}
MCBadges == [u \in MCUsers |-> {"mod"}]
NoBadges == [u \in MCUsers |-> {}]

Permission(up, down, amount) ==
  [canUpvote |-> up, canDownvote |-> down, votesAmount |-> amount]

\* A cut-down CHAT_GOAL_PERMISSIONS_DEFAULT: viewers only upvote, moderators do
\* both and have more votes.
MCPermissionsDefault ==
  [r \in Role |-> CASE r = "mod"    -> Permission(TRUE, TRUE, 2)
                    [] r = "viewer" -> Permission(TRUE, FALSE, 1)
                    [] OTHER        -> Permission(FALSE, FALSE, 0)]
MCPermissions == {MCPermissionsDefault}

NoInputs == {}

\* Bodies of requests: with a countdown or without, a target, a switch of either.
OneTimed == {[timerDuration |-> 1, maxVotesValue |-> 1]}
TwoTimed == OneTimed \cup {[timerDuration |-> 2, maxVotesValue |-> 1]}
OneUntimed == {[maxVotesValue |-> 2]}
ListenAndTarget == {[listening |-> TRUE, maxVotesValue |-> 1]}
ListenSwitches == {[listening |-> TRUE], [listening |-> FALSE]}

Interchangeable ==
  Permutations(TimerIds) \cup Permutations(Connections) \cup Permutations(Requests)
=============================================================================
