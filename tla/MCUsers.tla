------------------------------ MODULE MCUsers ------------------------------
(* Values for the constants of UsersService.                                *)
EXTENDS UsersService, TLC

CONSTANTS owner, viewer, first, second

\* Twitch is asked about the viewer in the channel of the owner, and about the owner in
\* that of the viewer: both times with the token of the owner.
MCCallsOf ==
  {[channel |-> owner, user |-> viewer, claims |-> {"mod", "vip"}],
   [channel |-> owner, user |-> viewer, claims |-> {"mod"}],
   [channel |-> owner, user |-> viewer, claims |-> {"editor", "vip"}],
   [channel |-> viewer, user |-> owner, claims |-> {"follower"}]}

ClaimsOf(c) == IF calls[c] = None THEN {} ELSE calls[c].claims
Asked(role) == \E c \in Calls : role \in ClaimsOf(c)

\* Moderators or followers change, answers are under way and in the cache.
RoleTraffic ==
  /\ issued[owner] = 1 /\ live[owner] = {1} /\ refused = {}
  /\ ClaimsOf(first) \in {{}, {"mod", "vip"}}
  /\ ClaimsOf(second) \in {{}, {"mod"}, {"follower"}}
  /\ \A f \in Facts : f[1] \in {"vip", "editor"} => ago[f] = None
  /\ ago[<<"follower", viewer, owner>>] = None \/ ~Asked("mod")
  /\ ago[<<"mod", owner, viewer>>] = None \/ ~Asked("follower")

\* The tokens of the owner change: the first expires, the others when they are revoked.
\* Roles stay as they are, and requests end while the call goes on; the one about the
\* VIPs fails.
TokenTraffic ==
  /\ \A n \in 2 .. issued[owner] : n \in live[owner] \/ <<owner, n>> \in revoked
  /\ ClaimsOf(first) \in {{}, {"editor", "vip"}}
  /\ ClaimsOf(second) \in {{}, {"follower"}}
  /\ \A f \in Facts : ago[f] = IF f[1] = "follower" THEN LongAgo ELSE None
  /\ \A k \in CacheKeys : cache[k] = None
  /\ \A s \in Slots : lookups[s] # None =>
       /\ lookups[s].age = 0 /\ calls[s[1][1]] # None
       /\ s[3] = "vip" => lookups[s].stage = "sent"

\* One traffic or the other; nobody needs the token of the viewer.
OneTraffic ==
  /\ issued[viewer] = 1 /\ live[viewer] = {1}
  /\ RoleTraffic \/ TokenTraffic
=============================================================================
