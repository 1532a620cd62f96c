---------------------------- MODULE MCBackground ----------------------------
(* Three components that share nothing, in one state space: requests to     *)
(* IGDB, the shipping of logs and the recent messages.  A behaviour is one  *)
(* of one component, while the others have not begun.                       *)
EXTENDS IgdbRequests, LogShipping, RecentMessages

vars == <<igdbVars, logVars, recentVars>>

Init == IgdbInit /\ LogInit /\ RecentInit

Next ==
  \/ IgdbNext /\ LogInit /\ RecentInit /\ UNCHANGED <<logVars, recentVars>>
  \/ LogNext /\ IgdbInit /\ RecentInit /\ UNCHANGED <<igdbVars, recentVars>>
  \/ RecentNext /\ IgdbInit /\ LogInit /\ UNCHANGED <<igdbVars, logVars>>

Spec == Init /\ [][Next]_vars /\ IgdbFairness /\ LogFairness

TypeOK == IgdbTypeOK /\ LogTypeOK /\ RecentTypeOK
=============================================================================
