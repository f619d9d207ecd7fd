-------------------------------- MODULE Lobby --------------------------------
(***************************************************************************)
(* The open staked matches and how players find each other in them: the    *)
(* server's cached scan (lobby-service.ts, main.ts), the app's list and    *)
(* its joins (lib/lobby.ts, app/matches/page.tsx, MatchActions.tsx), the   *)
(* matches reserved for a friend with the link, and the card that leads    *)
(* two players who wait in two rooms into one (CrossMatchOffer.tsx).       *)
(*                                                                         *)
(* All stakes are equal.  A transaction is mined at any time after it is   *)
(* sent; a page waits for it, gives up, or is closed.                      *)
(***************************************************************************)
EXTENDS Integers, SequencesExt, FiniteSetsExt

CONSTANTS
  Stakers,      \* the players
  Stranger,     \* no player: the empty second seat
  MaxRooms,     \* bound: matches created
  MaxKeys,      \* bound: session keys one player makes
  MaxBreaks     \* bound: pages closed or out of patience, rooms left or expired

ASSUME LobbyAssumption ==
  /\ Stranger \notin Stakers
  /\ MaxRooms \in Nat /\ MaxKeys \in Nat /\ MaxBreaks \in Nat

VARIABLES
  rooms,    \* the matches on chain, by id
  sent,     \* transactions sent and not mined
  screen,   \* each player's page
  known,    \* recordLocalMatch: the ids each player's device lists
  kept,     \* persistSession: the session key a device keeps for each id
  made,     \* how many keys each player made
  again,    \* history: ids a player joined a second time from a list
  cache,    \* the ids of the server's last scan
  breaks    \* how many pages broke off

lobbyVars == <<rooms, sent, screen, known, kept, made, again, cache, breaks>>

NoKeyYet == 0
NoRoom == 0
RoomIds == 1 .. MaxRooms
Home == [at |-> "home", own |-> NoRoom, target |-> NoRoom, key |-> NoKeyYet]

LobbyTypeOK ==
  /\ rooms \in Seq([by : Stakers, guest : Stakers \cup {Stranger}, keys : Seq(0 .. MaxKeys),
                    status : {"open", "active", "gone"}, locked : BOOLEAN,
                    via : {"none", "list", "link", "offer"}])
  /\ Len(rooms) <= MaxRooms
  /\ \A i \in DOMAIN rooms : rooms[i].status = "active" <=> rooms[i].guest # Stranger
  /\ \A t \in sent : t.by \in Stakers /\ t.key \in 0 .. MaxKeys
  /\ screen \in [Stakers -> [at : {"home", "creating", "room", "joining", "game"},
                             own : {NoRoom} \cup RoomIds, target : {NoRoom} \cup RoomIds,
                             key : 0 .. MaxKeys]]
  /\ known \in [Stakers -> SUBSET RoomIds] /\ again \in [Stakers -> SUBSET RoomIds]
  /\ kept \in [Stakers -> [RoomIds -> 0 .. MaxKeys]]
  /\ made \in [Stakers -> 0 .. MaxKeys]
  /\ cache \subseteq RoomIds /\ breaks \in 0 .. MaxBreaks

LobbyInit ==
  /\ rooms = <<>> /\ sent = {} /\ cache = {} /\ breaks = 0
  /\ screen = [p \in Stakers |-> Home]
  /\ known = [p \in Stakers |-> {}] /\ again = [p \in Stakers |-> {}]
  /\ kept = [p \in Stakers |-> [i \in RoomIds |-> NoKeyYet]]
  /\ made = [p \in Stakers |-> 0]

-----------------------------------------------------------------------------
(* The lists *)

\* What a scan finds: open matches whose seat is not reserved.
OpenRooms == {i \in DOMAIN rooms : rooms[i].status = "open" /\ ~rooms[i].locked}

\* The server's interval.
Refresh ==
  /\ cache' = OpenRooms
  /\ UNCHANGED <<rooms, sent, screen, known, kept, made, again, breaks>>

\* The app asks the server, and the chain when the server does not answer.
Lists == {cache, OpenRooms}
MineOf(p, list) == {i \in list : rooms[i].by = p}
OthersOf(p, list) == list \ MineOf(p, list)

\* The player's rows: what the device recorded, and what a list shows as theirs.
Rows(p) == known[p] \cup MineOf(p, cache)

-----------------------------------------------------------------------------
(* Creating and cancelling *)

Put(t) == sent' = sent \cup {t}
Tx(op, p, i, k, locked) == [op |-> op, by |-> p, id |-> i, key |-> k, locked |-> locked]

NewKey(p) == made[p] + 1
MakesKey(p) == made[p] < MaxKeys /\ made' = [made EXCEPT ![p] = NewKey(p)]

\* onCreate and newStakedFriendGame: the key is kept once the id is known.
Create(p, locked) ==
  /\ screen[p].at = "home" /\ MakesKey(p)
  /\ Len(rooms) + Cardinality({t \in sent : t.op = "create"}) < MaxRooms
  /\ Put(Tx("create", p, NoRoom, NewKey(p), locked))
  /\ screen' = [screen EXCEPT ![p] = [Home EXCEPT !.at = "creating", !.key = NewKey(p)]]
  /\ UNCHANGED <<rooms, known, kept, again, cache, breaks>>

\* cancelOpen, from the list of one's matches.
CancelOpen(p) ==
  \E i \in Rows(p) :
    /\ screen[p].at = "home" /\ rooms[i].by = p /\ rooms[i].status = "open"
    /\ Put(Tx("cancel", p, i, NoKeyYet, FALSE))
    /\ UNCHANGED <<rooms, screen, known, kept, made, again, cache, breaks>>

-----------------------------------------------------------------------------
(* Joining *)

\* Slip: the key is kept once the join is mined.
KeepLater(p, i, k) == UNCHANGED <<kept, known>>

\* The key is kept, and the id, before the join is sent.
KeepFirst(p, i, k) ==
  /\ kept' = [kept EXCEPT ![p][i] = k]
  /\ known' = [known EXCEPT ![p] = @ \cup {i}]

Joining(p, i, k) == [screen[p] EXCEPT !.at = "joining", !.target = i, !.key = k]

\* joinOpenMatch: a key of its own each time it is called.
JoinOpenMatch(p, i) ==
  /\ MakesKey(p) /\ KeepFirst(p, i, NewKey(p))
  /\ Put(Tx("join", p, i, NewKey(p), FALSE))
  /\ screen' = [screen EXCEPT ![p] = Joining(p, i, NewKey(p))]
  /\ again' = IF i \in known[p] THEN [again EXCEPT ![p] = @ \cup {i}] ELSE again
  /\ UNCHANGED <<rooms, cache, breaks>>

\* The button of a row of the open matches.
JoinRow(p) ==
  \E list \in Lists : \E i \in OthersOf(p, list) :
    screen[p].at = "home" /\ JoinOpenMatch(p, i)

\* The friend with the link: joinThisMatch keeps the key it has.
JoinByLink(p) ==
  \E i \in DOMAIN rooms :
    LET had == kept[p][i] # NoKeyYet
        k == IF had THEN kept[p][i] ELSE NewKey(p) IN
    /\ screen[p].at = "home" /\ rooms[i].locked /\ rooms[i].by # p /\ rooms[i].status = "open"
    /\ IF had THEN UNCHANGED made ELSE MakesKey(p)
    /\ KeepFirst(p, i, k)
    /\ Put(Tx("join", p, i, k, TRUE))
    /\ screen' = [screen EXCEPT ![p] = Joining(p, i, k)]
    /\ UNCHANGED <<rooms, again, cache, breaks>>

\* Slip: only the newest room of the list is looked at.
NewestIfOlder(p, list) == {i \in OthersOf(p, list) : i < screen[p].own /\ \A j \in list : j <= i}

\* The rooms the card of a waiting room may offer: the newest older one.
Older(p, list) ==
  LET older == {i \in OthersOf(p, list) : i < screen[p].own}
  IN {i \in older : \A j \in older : j <= i}

\* playThem: join theirs first.
PlayThem(p) ==
  /\ screen[p].at = "room"
  /\ \E list \in Lists : \E i \in Older(p, list) : JoinOpenMatch(p, i)

-----------------------------------------------------------------------------
(* Mining *)

Waits(t) ==
  /\ screen[t.by].key = t.key
  /\ screen[t.by].at = IF t.op = "create" THEN "creating" ELSE "joining"

Room(t) == [by |-> t.by, guest |-> Stranger, keys |-> <<t.key, NoKeyYet>>,
            status |-> "open", locked |-> t.locked, via |-> "none"]

\* The creator's page reads the id from the receipt; the reserved match shows
\* its link, any other its waiting room.
MinedCreate(t) ==
  LET id == Len(rooms) + 1 IN
  /\ t.op = "create" /\ sent' = sent \ {t}
  /\ rooms' = Append(rooms, Room(t))
  /\ IF Waits(t)
     THEN /\ KeepFirst(t.by, id, t.key)
          /\ screen' = [screen EXCEPT ![t.by] =
               IF t.locked THEN Home ELSE [Home EXCEPT !.at = "room", !.own = id]]
     ELSE UNCHANGED <<kept, known, screen>>

Via(t) == IF t.locked THEN "link" ELSE IF screen[t.by].own # NoRoom THEN "offer" ELSE "list"

\* Once the other's match is joined, one's own is cancelled.
ComesHome(p, t) ==
  LET own == screen[p].own IN
  (sent \ {t}) \cup IF own # NoRoom THEN {Tx("cancel", p, own, NoKeyYet, FALSE)} ELSE {}

MinedJoin(t) ==
  LET m == rooms[t.id]
      lands == m.status = "open" /\ m.by # t.by /\ m.locked = t.locked IN
  /\ t.op = "join"
  /\ IF lands
     THEN rooms' = [rooms EXCEPT ![t.id] =
            [m EXCEPT !.guest = t.by, !.status = "active", !.keys = <<m.keys[1], t.key>>,
                      !.via = Via(t)]]
     ELSE UNCHANGED rooms
  /\ IF ~Waits(t) THEN sent' = sent \ {t} /\ UNCHANGED screen
     ELSE IF lands
     THEN /\ sent' = ComesHome(t.by, t)
          /\ screen' = [screen EXCEPT ![t.by].at = "game"]
     ELSE /\ sent' = sent \ {t}
          /\ screen' = [screen EXCEPT ![t.by].at = IF screen[t.by].own # NoRoom THEN "room" ELSE "home"]
  /\ UNCHANGED <<kept, known>>

MinedCancel(t) ==
  /\ t.op = "cancel" /\ sent' = sent \ {t}
  /\ rooms' = IF rooms[t.id].status = "open" THEN [rooms EXCEPT ![t.id].status = "gone"] ELSE rooms
  /\ UNCHANGED <<kept, known, screen>>

MineTx ==
  /\ \E t \in sent : MinedCreate(t) \/ MinedJoin(t) \/ MinedCancel(t)
  /\ UNCHANGED <<made, again, cache, breaks>>

-----------------------------------------------------------------------------
(* What breaks off *)

Breaks == breaks < MaxBreaks /\ breaks' = breaks + 1

\* The page is closed or leaves, or the wait for the transaction ends with an
\* error; a transaction that was sent may still be mined.
BreakOff(p) ==
  /\ screen[p].at # "home" /\ Breaks
  /\ \/ screen' = [screen EXCEPT ![p] = Home]
     \/ /\ screen[p].at = "joining" /\ screen[p].own # NoRoom
        /\ screen' = [screen EXCEPT ![p].at = "room"]
  /\ UNCHANGED <<rooms, sent, known, kept, made, again, cache>>

\* voidExpired on a room nobody joined.
ExpireOpen ==
  \E i \in DOMAIN rooms :
    /\ rooms[i].status = "open" /\ Breaks
    /\ rooms' = [rooms EXCEPT ![i].status = "gone"]
    /\ UNCHANGED <<sent, screen, known, kept, made, again, cache>>

LobbyNext ==
  \/ Refresh \/ MineTx \/ ExpireOpen
  \/ \E p \in Stakers :
       \/ \E locked \in BOOLEAN : Create(p, locked)
       \/ CancelOpen(p) \/ JoinRow(p) \/ JoinByLink(p) \/ PlayThem(p) \/ BreakOff(p)

LobbySpec == LobbyInit /\ [][LobbyNext]_lobbyVars

\* The chain mines, the server scans, and whoever is offered a game takes it.
LobbyFair ==
  /\ WF_lobbyVars(Refresh) /\ WF_lobbyVars(MineTx)
  /\ \A p \in Stakers : WF_lobbyVars(PlayThem(p))

-----------------------------------------------------------------------------
(* Properties *)

GuestOf(p, i) == rooms[i].status = "active" /\ rooms[i].guest = p

\* A player whose join is mined holds the key the contract knows for that seat,
\* even if the page gave up on the transaction or was closed before it was
\* mined, unless the player pressed Join on that match again.
GuestKeyed ==
  \A p \in Stakers, i \in DOMAIN rooms :
    GuestOf(p, i) /\ i \notin again[p] => kept[p][i] = rooms[i].keys[2]

\* The same without exception ("NEVER overwrite an existing session key: if this
\* match was already joined from this device", LiveMatch.tsx).
GuestKeyNeverLost ==
  \A p \in Stakers, i \in DOMAIN rooms : GuestOf(p, i) => kept[p][i] = rooms[i].keys[2]

\* Two players who follow the card never sit in each other's matches ("both
\* sides always converge on the same match, never cross"), unless one of them
\* left an older room open behind the one it waits in.
NeverCross ==
  breaks = 0 => ~ \E i, j \in DOMAIN rooms :
      /\ i # j /\ rooms[i].via = "offer" /\ rooms[j].via = "offer"
      /\ rooms[i].by = rooms[j].guest /\ rooms[j].by = rooms[i].guest

\* A player the card leads to another room keeps a seat throughout and does not
\* leave a second stake behind unnoticed: one's own room stands until the
\* other is joined, and is then cancelled, being cancelled, or joined.
StakeMovesOnce ==
  breaks = 0 => \A p \in Stakers :
    LET s == screen[p] IN
    /\ s.at = "joining" /\ s.own # NoRoom => rooms[s.own].status # "gone"
    /\ s.at = "game" /\ s.own # NoRoom =>
         \/ rooms[s.own].status # "open"
         \/ \E t \in sent : t.op = "cancel" /\ t.id = s.own

\* Two players who wait in two rooms for the same stake do not both wait on
\* ("The two waiting rooms that never meet fix").
RoomsMeet ==
  []<>~ \E p, q \in Stakers :
    p # q /\ \A r \in {p, q} : /\ screen[r].at = "room" /\ made[r] < MaxKeys
                               /\ rooms[screen[r].own].status = "open"

\* A stake in an open match that anyone may join comes into its owner's list,
\* though the page was closed before the id was known ("so the stake is always
\* visible & cancellable", app/matches/page.tsx).
StakeSeen ==
  []<>~ \E i \in DOMAIN rooms :
    rooms[i].status = "open" /\ ~rooms[i].locked /\ i \notin Rows(rooms[i].by)

\* A guest holds the key of the seat, and two players led to each other's rooms neither
\* cross nor leave a second stake behind.
LobbyInv ==
  /\ LobbyTypeOK
  /\ GuestKeyed
  /\ NeverCross
  /\ StakeMovesOnce

\* Two players waiting for the same stake meet, and a stake comes into its owner's list.
LobbyMeets ==
  /\ RoomsMeet
  /\ StakeSeen
=============================================================================
