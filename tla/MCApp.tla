--------------------------------- MODULE MCApp ---------------------------------
(***************************************************************************)
(* The app's page of one match, its free games, its lobby, its shop and    *)
(* the statistics it shows, for TLC.  The five share no state: each runs   *)
(* while the others are at rest.                                           *)
(***************************************************************************)
EXTENDS LiveClient, QuickMatch, Lobby, Shop, Indexer

PageAtRest ==
  me = 0 /\ page = Closed /\ match = Created /\ lag = match /\ tx = {} /\ mishaps = 0
QuickAtRest == ~staked /\ \A p \in Friends : sock[p] = 0
LobbyAtRest == \A p \in Stakers : made[p] = 0
ShopAtRest == visit = AwayFromShop /\ tally.presses + tally.edits = 0
LogAtRest == height = 0 /\ log = <<>> /\ scan = NoScan

AppInit ==
  /\ Init /\ QuickInit /\ LobbyInit /\ ShopInit /\ IndexerInit
  /\ PageAtRest \/ QuickAtRest

AppNext ==
  \/ /\ QuickAtRest /\ LobbyAtRest /\ ShopAtRest /\ LogAtRest
     /\ Next /\ UNCHANGED <<quickVars, lobbyVars, shopVars, indexVars>>
  \/ /\ PageAtRest /\ LobbyAtRest /\ ShopAtRest /\ LogAtRest
     /\ QuickNext /\ UNCHANGED <<vars, lobbyVars, shopVars, indexVars>>
  \/ /\ PageAtRest /\ QuickAtRest /\ ShopAtRest /\ LogAtRest
     /\ LobbyNext /\ UNCHANGED <<vars, quickVars, shopVars, indexVars>>
  \/ /\ PageAtRest /\ QuickAtRest /\ LobbyAtRest /\ LogAtRest
     /\ ShopNext /\ UNCHANGED <<vars, quickVars, lobbyVars, indexVars>>
  \/ /\ PageAtRest /\ QuickAtRest /\ LobbyAtRest /\ ShopAtRest
     /\ IndexerNext /\ UNCHANGED <<vars, quickVars, lobbyVars, shopVars>>

AppSpec ==
  /\ AppInit /\ [][AppNext]_<<vars, quickVars, lobbyVars, shopVars, indexVars>>
  /\ PageFair /\ QuickFair /\ LobbyFair /\ ShopFair

\* Nobody is left waiting: a search ends and two friends who want each other
\* meet; two players waiting for the same stake meet, and a stake comes into its
\* owner's list; a press of Buy is answered.
AppAnswers == QuickMeets /\ LobbyMeets /\ PressAnswered
=============================================================================
