------------------------------ MODULE MCVotings ------------------------------
(* Values for the constants of Votings: a broadcaster, an editor of the     *)
(* channel, a moderator and a subscriber.                                   *)
EXTENDS Votings, TLC

CONSTANTS owner, editor, mod, sub, v1, v2, r1, r2

MCUsers == {owner, editor, mod, sub}
MCRolesOf == [u \in MCUsers |->
  CASE u = editor -> {"editor"} [] u = mod -> {"mod"} [] u = sub -> {"sub"}
    [] OTHER -> {}]
MCBroadcaster == [v \in {v1, v2} |-> owner]

\* A film, and a custom option that has its title.
MCCards ==
  {[type |-> "kinopoiskMovie", id |-> "1", title |-> "a"],
   [type |-> "custom", id |-> "", title |-> "a"]}

Everybody == [canVote |-> {"sub", "viewer"}, canAddOptions |-> {"mod", "viewer"}]
SubsAndMods == [canVote |-> {"sub"}, canAddOptions |-> {"mod"}]
Closed == [canManageVotes |-> FALSE, canManageVotingOptions |-> FALSE]
MCBodies ==
  {[permissions |-> Everybody, votingOptionsLimit |-> 2],
   [permissions |-> SubsAndMods, votingOptionsLimit |-> 1], Closed}

\* Two traffics, one per voting: options that come and go while the voting is
\* updated, and votes while options and the voting are deleted.  A behaviour has
\* one of the two votings.
MCActors == [v \in {v1, v2} |->
  IF v = v1
  THEN [createVoting |-> {owner}, updateVoting |-> {editor}, deleteVoting |-> {owner},
        createOption |-> {mod, sub}, deleteOption |-> {},
        createVote |-> {}, deleteVote |-> {}]
  ELSE [createVoting |-> {editor}, updateVoting |-> {}, deleteVoting |-> {owner},
        createOption |-> {mod, owner}, deleteOption |-> {mod, editor},
        createVote |-> {sub}, deleteVote |-> {sub}]]
OneVoting ==
  /\ Cardinality(votingIds) <= 1
  /\ v2 \in votingIds => Cardinality(optionIds) <= 2

Symmetry == Permutations({r1, r2})
=============================================================================
