----------------------------- MODULE App_proofs -----------------------------
(***************************************************************************)
(* The safety of three parts of the app, for any number of rooms, keys,    *)
(* tables, connections, requests under way and broken-off pages.           *)
(*                                                                         *)
(* The lobby.  That the card never crosses two players rests on an order:  *)
(* a player it leads elsewhere goes to a room older than the one that      *)
(* player waits in.                                                        *)
(*                                                                         *)
(* The shop.  A node is never ahead of the chain, and a budget is kept:    *)
(* what has been bought, is on its way or still pressed stays within what  *)
(* was pressed and what slipped; while nothing slips the page knows of     *)
(* everything it has posted.                                               *)
(*                                                                         *)
(* The free games.  That players hold the keys of their seats rests on     *)
(* naming a key by the connection and the offer it was made for: requests  *)
(* and offers of a player's last connection say what the page says, those  *)
(* of earlier ones seat nobody.                                            *)
(***************************************************************************)
EXTENDS Lobby, Shop, QuickMatch, SequenceTheorems, FiniteSetTheorems, TLAPS

-----------------------------------------------------------------------------
(* The lobby.                                                              *)

Rec == [by : Stakers, guest : Stakers \cup {Stranger}, keys : Seq(0 .. MaxKeys),
        status : {"open", "active", "gone"}, locked : BOOLEAN,
        via : {"none", "list", "link", "offer"}]
Sends == [op : {"create", "join", "cancel"}, by : Stakers, id : {NoRoom} \cup RoomIds,
          key : 0 .. MaxKeys, locked : BOOLEAN]
Screens == [at : {"home", "creating", "room", "joining", "game"},
            own : {NoRoom} \cup RoomIds, target : {NoRoom} \cup RoomIds, key : 0 .. MaxKeys]

Creates == {t \in sent : t.op = "create"}
Own(p) == screen[p].own

\* There is room for every match being created.
RoomsOK ==
  /\ rooms \in Seq(Rec)
  /\ IsFiniteSet(sent) /\ Len(rooms) + Cardinality(Creates) <= MaxRooms
  /\ \A i \in DOMAIN rooms : /\ rooms[i].status = "active" <=> rooms[i].guest # Stranger
                             /\ Len(rooms[i].keys) = 2

\* What is sent to a match is sent to one that exists, a stake with a key.
SentOK ==
  \A t \in sent : /\ t \in Sends
                  /\ t.op # "create" => t.id \in DOMAIN rooms
                  /\ t.op # "cancel" => t.key # NoKeyYet

PagesOK ==
  /\ screen \in [Stakers -> Screens]
  /\ made \in [Stakers -> 0 .. MaxKeys] /\ breaks \in 0 .. MaxBreaks
  /\ known \in [Stakers -> SUBSET RoomIds] /\ again \in [Stakers -> SUBSET RoomIds]
  /\ kept \in [Stakers -> [RoomIds -> 0 .. MaxKeys]]
  /\ cache \subseteq DOMAIN rooms
  /\ \A p \in Stakers : known[p] \subseteq DOMAIN rooms /\ Own(p) \in {NoRoom} \cup DOMAIN rooms

\* The device knows each match its player has joined or is joining, and keeps the
\* key that was sent; the first one, unless it was joined again.
KeysOK ==
  /\ \A p \in Stakers : \A i \in known[p] : kept[p][i] # NoKeyYet
  /\ \A t \in sent : t.op = "join" =>
       t.id \in known[t.by] /\ (t.id \notin again[t.by] => kept[t.by][t.id] = t.key)
  /\ \A i \in DOMAIN rooms : rooms[i].status = "active" =>
       LET p == rooms[i].guest IN
       i \in known[p] /\ (i \notin again[p] => kept[p][i] = rooms[i].keys[2])

\* No page has broken off: the stake a player has on the way is the one the
\* screen waits for.
Awaited ==
  /\ \A t \in sent : t.op # "cancel" => Waits(t)
  /\ \A t, u \in sent : t.op # "cancel" /\ u.op # "cancel" /\ t.by = u.by => t = u

\* An open match is the room its creator waits in, or has left for another's.
Owning ==
  /\ \A p \in Stakers :
       /\ screen[p].at \in {"home", "creating"} => Own(p) = NoRoom
       /\ Own(p) # NoRoom => /\ Own(p) \in DOMAIN rooms
                             /\ rooms[Own(p)].by = p /\ ~rooms[Own(p)].locked
  /\ \A i \in DOMAIN rooms : ~rooms[i].locked => Own(rooms[i].by) = i

\* The card leads to an older room.
Downwards ==
  /\ \A t \in sent : t.op = "join" /\ Own(t.by) # NoRoom => ~t.locked /\ t.id < Own(t.by)
  /\ \A i \in DOMAIN rooms : rooms[i].via = "offer" =>
       ~rooms[i].locked /\ rooms[i].guest \in Stakers /\ i < Own(rooms[i].guest)

\* A room is cancelled once its owner plays elsewhere.
Leaving ==
  /\ \A t \in sent : t.op = "cancel" =>
       rooms[t.id].by = t.by /\ (rooms[t.id].locked \/ screen[t.by].at = "game")
  /\ \A p \in Stakers : Own(p) # NoRoom =>
       /\ screen[p].at \in {"room", "joining"} => rooms[Own(p)].status # "gone"
       /\ screen[p].at = "game" =>
            \/ rooms[Own(p)].status # "open"
            \/ \E t \in sent : t.op = "cancel" /\ t.id = Own(p)

Steady == Awaited /\ Owning /\ Downwards /\ Leaving

LInv == RoomsOK /\ SentOK /\ PagesOK /\ KeysOK /\ (breaks = 0 => Steady)

USE DEF NoRoom, NoKeyYet

-----------------------------------------------------------------------------
(* Facts about the parts.                                                  *)

LEMMA Bounds == MaxRooms \in Nat /\ MaxKeys \in Nat /\ MaxBreaks \in Nat /\ Stranger \notin Stakers
BY LobbyAssumption

LEMMA Rooms ==
  ASSUME RoomsOK
  PROVE  /\ Len(rooms) \in Nat /\ DOMAIN rooms = 1 .. Len(rooms) /\ DOMAIN rooms \subseteq RoomIds
         /\ \A i \in DOMAIN rooms : rooms[i] \in Rec
         /\ IsFiniteSet(Creates) /\ Cardinality(Creates) \in Nat
<1>1. Len(rooms) \in Nat /\ DOMAIN rooms = 1 .. Len(rooms) /\ \A i \in DOMAIN rooms : rooms[i] \in Rec
  BY DEF RoomsOK
<1>2. IsFiniteSet(Creates)
  BY FS_Subset DEF RoomsOK, Creates
<1>3. Cardinality(Creates) \in Nat
  BY <1>2, FS_CardinalityType
<1> QED
  BY <1>1, <1>2, <1>3, Bounds DEF RoomsOK, RoomIds

\* A step that creates nothing and sends no create.
LEMMA SameRooms ==
  ASSUME RoomsOK, UNCHANGED rooms, IsFiniteSet(sent'), Creates' \subseteq Creates
  PROVE  RoomsOK'
<1>1. Cardinality(Creates') <= Cardinality(Creates) /\ Cardinality(Creates') \in Nat
  BY Rooms, FS_Subset, FS_CardinalityType
<1> QED
  BY <1>1, Rooms, Bounds DEF RoomsOK

\* What is sent and shown has its type.
LEMMA TxIs ==
  ASSUME NEW op \in {"create", "join", "cancel"}, NEW p \in Stakers, NEW i \in {NoRoom} \cup RoomIds,
         NEW k \in 0 .. MaxKeys, NEW locked \in BOOLEAN
  PROVE  /\ Tx(op, p, i, k, locked) \in Sends
         /\ Tx(op, p, i, k, locked).op = op /\ Tx(op, p, i, k, locked).by = p
         /\ Tx(op, p, i, k, locked).id = i /\ Tx(op, p, i, k, locked).key = k
         /\ Tx(op, p, i, k, locked).locked = locked
BY DEF Tx, Sends

Screened == {"home", "creating", "room", "joining", "game"}

LEMMA EditScreen ==
  ASSUME NEW A, NEW B, NEW C, NEW a \in A, NEW b \in B, NEW k \in C,
         NEW v \in [at : A, own : B, target : B, key : C]
  PROVE  LET S == [at : A, own : B, target : B, key : C] IN
         /\ [v EXCEPT !.at = a] \in S /\ [v EXCEPT !.at = a, !.key = k] \in S
         /\ [v EXCEPT !.at = a, !.own = b] \in S
         /\ [v EXCEPT !.at = a, !.target = b, !.key = k] \in S
OBVIOUS

LEMMA Second == ASSUME NEW S, NEW q \in Seq(S), Len(q) = 2 PROVE q[1] \in S /\ q[2] \in S
<1>1. 1 \in 1 .. Len(q) /\ 2 \in 1 .. Len(q)
  OBVIOUS
<1> QED
  BY <1>1, ElementOfSeq

LEMMA HomeIs == Home \in Screens /\ Home.at = "home" /\ Home.own = NoRoom /\ Home.key = NoKeyYet
BY Bounds DEF Home, Screens, NoKeyYet

LEMMA ScreenAt ==
  ASSUME NEW v \in Screens, NEW a \in Screened
  PROVE  [v EXCEPT !.at = a] \in Screens
BY DEF Screens, Screened

LEMMA ScreenKey ==
  ASSUME NEW v \in Screens, NEW a \in Screened, NEW k \in 0 .. MaxKeys
  PROVE  [v EXCEPT !.at = a, !.key = k] \in Screens
<1>1. v.own \in {NoRoom} \cup RoomIds
  BY DEF Screens
<1> QED
  BY <1>1, EditScreen DEF Screens, Screened

LEMMA ScreenOwn ==
  ASSUME NEW v \in Screens, NEW a \in Screened, NEW i \in {NoRoom} \cup RoomIds
  PROVE  [v EXCEPT !.at = a, !.own = i] \in Screens
<1>1. v.key \in 0 .. MaxKeys
  BY DEF Screens
<1> QED
  BY <1>1, EditScreen DEF Screens, Screened

LEMMA ScreenJoin ==
  ASSUME NEW v \in Screens, NEW a \in Screened, NEW i \in RoomIds, NEW k \in 0 .. MaxKeys
  PROVE  [v EXCEPT !.at = a, !.target = i, !.key = k] \in Screens
BY EditScreen DEF Screens, Screened

LEMMA LobbyStarts == LobbyInit => LInv
<1> SUFFICES ASSUME LobbyInit PROVE LInv
  OBVIOUS
<1>1. RoomsOK
  <2>1. Creates = {} /\ sent = {} /\ rooms = <<>>
    BY DEF LobbyInit, Creates
  <2> QED
    BY <2>1, FS_EmptySet, Bounds DEF RoomsOK
<1>2. SentOK /\ PagesOK
  <2>1. \A p \in Stakers : Own(p) = NoRoom
    BY DEF LobbyInit, Own, Home
  <2> QED
    BY <2>1, Bounds, HomeIs DEF LobbyInit, SentOK, PagesOK
<1>3. KeysOK
  BY DEF LobbyInit, KeysOK
<1>4. Steady
  BY DEF LobbyInit, Steady, Awaited, Owning, Downwards, Leaving, Own, Home
<1> QED
  BY <1>1, <1>2, <1>3, <1>4 DEF LInv

-----------------------------------------------------------------------------
(* Steps that leave the rooms alone.                                       *)

LEMMA RefreshKeeps == ASSUME LInv, Refresh PROVE LInv'
<1>1. UNCHANGED <<rooms, sent, screen, known, kept, made, again, breaks>> /\ cache' \subseteq DOMAIN rooms
  BY DEF Refresh, OpenRooms
<1>2. RoomsOK' /\ SentOK'
  BY <1>1 DEF LInv, RoomsOK, SentOK, Creates
<1>3. PagesOK' /\ KeysOK'
  BY <1>1 DEF LInv, PagesOK, KeysOK, Own
<1>4. breaks' = 0 => Steady'
  BY <1>1 DEF LInv, Steady, Awaited, Owning, Downwards, Leaving, Own, Waits
<1> QED
  BY <1>2, <1>3, <1>4 DEF LInv

LEMMA BreakKeeps == ASSUME LInv, NEW p \in Stakers, BreakOff(p) PROVE LInv'
<1>1. /\ UNCHANGED <<rooms, sent, known, kept, made, again, cache>>
      /\ breaks < MaxBreaks /\ breaks' = breaks + 1
  BY DEF BreakOff, Breaks
<1>2. /\ screen' \in [Stakers -> Screens]
      /\ \A q \in Stakers : screen'[q].own \in {NoRoom, screen[q].own}
  <2>1. \/ screen' = [screen EXCEPT ![p] = Home]
        \/ screen' = [screen EXCEPT ![p] = [screen[p] EXCEPT !.at = "room"]]
    BY DEF BreakOff, LInv, PagesOK
  <2>2. [screen[p] EXCEPT !.at = "room"] \in Screens
    BY ScreenAt DEF LInv, PagesOK, Screened
  <2>3. [screen[p] EXCEPT !.at = "room"].own = screen[p].own
    BY DEF LInv, PagesOK, Screens
  <2> QED
    BY <2>1, <2>2, <2>3, HomeIs DEF LInv, PagesOK
<1>3. breaks' \in 0 .. MaxBreaks /\ breaks' # 0
  BY <1>1, Bounds DEF LInv, PagesOK
<1>4. RoomsOK' /\ SentOK'
  BY <1>1 DEF LInv, RoomsOK, SentOK, Creates
<1>5. PagesOK' /\ KeysOK'
  BY <1>1, <1>2, <1>3 DEF LInv, PagesOK, KeysOK, Own
<1> QED
  BY <1>3, <1>4, <1>5 DEF LInv

LEMMA CreateKeeps ==
  ASSUME LInv, NEW p \in Stakers, NEW locked \in BOOLEAN, Create(p, locked)
  PROVE  LInv'
<1>0. PICK k : k = NewKey(p)
  OBVIOUS
<1> DEFINE t == Tx("create", p, NoRoom, k, locked)
           v == [Home EXCEPT !.at = "creating", !.key = k]
<1>1. /\ screen[p].at = "home" /\ made[p] < MaxKeys /\ made' = [made EXCEPT ![p] = k]
      /\ Len(rooms) + Cardinality(Creates) < MaxRooms
      /\ sent' = sent \cup {t} /\ screen' = [screen EXCEPT ![p] = v]
      /\ UNCHANGED <<rooms, known, kept, again, cache, breaks>>
  BY <1>0 DEF Create, MakesKey, Put, Creates
<1>2. k \in 1 .. MaxKeys
  BY <1>0, <1>1, Bounds DEF LInv, PagesOK, NewKey
<1>3. /\ t \in Sends /\ t.op = "create" /\ t.by = p /\ t.key = k
      /\ v \in Screens /\ v.at = "creating" /\ v.own = NoRoom /\ v.key = k
  <2>1. t \in Sends /\ t.op = "create" /\ t.by = p /\ t.key = k
    BY <1>2, TxIs DEF RoomIds
  <2>2. v \in Screens
    <3>1. Home \in Screens /\ k \in 0 .. MaxKeys /\ "creating" \in Screened
      BY <1>2, HomeIs DEF Screened
    <3> QED
      BY <3>1, ScreenKey
  <2>3. v.at = "creating" /\ v.own = NoRoom /\ v.key = k
    BY DEF Home
  <2> QED
    BY <2>1, <2>2, <2>3
<1> HIDE DEF t, v
<1>4. /\ screen' \in [Stakers -> Screens] /\ screen'[p] = v
      /\ \A q \in Stakers \ {p} : screen'[q] = screen[q]
  BY <1>1, <1>3 DEF LInv, PagesOK
<1>5. RoomsOK'
  <2>1. Creates' = Creates \cup {t}
    BY <1>1, <1>3 DEF Creates
  <2>2. IsFiniteSet(sent')
    BY <1>1, FS_AddElement DEF LInv, RoomsOK
  <2>3. Cardinality(Creates \cup {t}) \in Nat /\ Cardinality(Creates \cup {t}) <= Cardinality(Creates) + 1
    <3>1. IsFiniteSet(Creates) /\ Cardinality(Creates) \in Nat
      BY Rooms DEF LInv
    <3>2. Cardinality(Creates \cup {t}) = IF t \in Creates THEN Cardinality(Creates) ELSE Cardinality(Creates) + 1
      BY <3>1, FS_AddElement, Zenon
    <3> HIDE DEF Creates
    <3> QED
      BY <3>1, <3>2
  <2>4. Len(rooms) + Cardinality(Creates') <= MaxRooms
    BY <1>1, <2>1, <2>3, Rooms, Bounds DEF LInv
  <2> QED
    BY <1>1, <2>2, <2>4 DEF LInv, RoomsOK
<1>6. SentOK'
  BY <1>1, <1>2, <1>3 DEF LInv, SentOK
<1>7. PagesOK'
  <2>1. \A q \in Stakers : Own(q)' \in {NoRoom} \cup DOMAIN rooms'
    BY <1>1, <1>3, <1>4 DEF LInv, PagesOK, Own
  <2> QED
    BY <1>1, <1>2, <1>4, <2>1 DEF LInv, PagesOK
<1>8. KeysOK'
  BY <1>1, <1>3 DEF LInv, KeysOK
<1>9. ASSUME breaks' = 0 PROVE Steady'
  <2>1. Steady
    BY <1>1, <1>9 DEF LInv
  <2>2. Own(p) = NoRoom /\ Own(p)' = NoRoom /\ \A q \in Stakers \ {p} : Own(q)' = Own(q)
    BY <1>1, <1>3, <1>4, <2>1 DEF Steady, Owning, Own
  <2>3. \A u \in sent : u.by \in Stakers /\ (u.op # "cancel" => u.by # p)
    BY <1>1, <2>1 DEF Steady, Awaited, Waits, LInv, SentOK, Sends
  <2>4. Awaited'
    <3>1. Waits(t)'
      BY <1>3, <1>4 DEF Waits
    <3>2. ASSUME NEW u \in sent, u.op # "cancel" PROVE Waits(u)'
      BY <1>4, <2>1, <2>3, <3>2 DEF Steady, Awaited, Waits
    <3> QED
      BY <1>1, <1>3, <2>1, <2>3, <3>1, <3>2 DEF Steady, Awaited
  <2>5. Owning'
    BY <1>1, <1>3, <1>4, <2>1, <2>2, Rooms DEF Steady, Owning, LInv, Rec
  <2>6. Downwards'
    BY <1>1, <1>3, <2>1, <2>2, <2>3, Rooms DEF Steady, Downwards, LInv, Rec
  <2>7. Leaving'
    BY <1>1, <1>3, <1>4, <2>1, <2>2, <2>3 DEF Steady, Leaving
  <2> QED
    BY <2>4, <2>5, <2>6, <2>7 DEF Steady
<1> QED
  BY <1>5, <1>6, <1>7, <1>8, <1>9 DEF LInv

LEMMA CancelKeeps == ASSUME LInv, NEW p \in Stakers, CancelOpen(p) PROVE LInv'
<1>1. PICK i \in Rows(p) :
        /\ screen[p].at = "home" /\ rooms[i].by = p
        /\ sent' = sent \cup {Tx("cancel", p, i, NoKeyYet, FALSE)}
        /\ UNCHANGED <<rooms, screen, known, kept, made, again, cache, breaks>>
  BY DEF CancelOpen, Put
<1> DEFINE t == Tx("cancel", p, i, NoKeyYet, FALSE)
<1>2. i \in DOMAIN rooms
  BY DEF Rows, MineOf, LInv, PagesOK
<1>3. t \in Sends /\ t.op = "cancel" /\ t.by = p /\ t.id = i
  <2>1. i \in {NoRoom} \cup RoomIds /\ NoKeyYet \in 0 .. MaxKeys
    BY <1>2, Rooms, Bounds DEF LInv, NoKeyYet
  <2>2. "cancel" \in {"create", "join", "cancel"} /\ FALSE \in BOOLEAN
    OBVIOUS
  <2> QED
    BY <2>1, <2>2 DEF Tx, Sends
<1>4. sent' = sent \cup {t}
  BY <1>1
<1> HIDE DEF t
<1>5. RoomsOK'
  <2>1. IsFiniteSet(sent')
    BY <1>4, FS_AddElement DEF LInv, RoomsOK
  <2>2. Creates' \subseteq Creates
    BY <1>3, <1>4 DEF Creates
  <2> QED
    BY <1>1, <2>1, <2>2, SameRooms DEF LInv
<1>6. SentOK'
  BY <1>1, <1>2, <1>3, <1>4 DEF LInv, SentOK
<1>7. PagesOK'
  BY <1>1 DEF LInv, PagesOK, Own
<1>8. KeysOK'
  BY <1>1, <1>3, <1>4 DEF LInv, KeysOK
<1>9. ASSUME breaks' = 0 PROVE Steady'
  <2>1. Steady
    BY <1>1, <1>9 DEF LInv
  <2>2. \A q \in Stakers : Own(q)' = Own(q)
    BY <1>1 DEF Own
  <2>3. Awaited'
    BY <1>1, <1>3, <1>4, <2>1 DEF Steady, Awaited, Waits
  <2>4. Owning'
    BY <1>1, <2>1, <2>2, Rooms DEF Steady, Owning, LInv, Rec
  <2>5. Downwards'
    BY <1>1, <1>3, <1>4, <2>1 DEF Steady, Downwards, Own
  <2>6. rooms[i].locked
    BY <1>1, <1>2, <2>1, Rooms DEF Steady, Owning, LInv
  <2>7. Leaving'
    <3>1. ASSUME NEW u \in sent', u.op = "cancel"
          PROVE  rooms'[u.id].by = u.by /\ (rooms'[u.id].locked \/ screen'[u.by].at = "game")
      BY <1>1, <1>3, <1>4, <2>1, <2>6, <3>1 DEF Steady, Leaving
    <3>2. ASSUME NEW q \in Stakers, Own(q) # NoRoom
          PROVE  /\ screen'[q].at \in {"room", "joining"} => rooms'[Own(q)].status # "gone"
                 /\ screen'[q].at = "game" =>
                      \/ rooms'[Own(q)].status # "open"
                      \/ \E u \in sent' : u.op = "cancel" /\ u.id = Own(q)
      BY <1>1, <1>4, <2>1, <3>2 DEF Steady, Leaving
    <3>3. \A q \in Stakers : Own(q) = Own(q)' /\ rooms' = rooms /\ screen' = screen
      BY <1>1 DEF Own
    <3> QED
      BY <3>1, <3>2, <3>3 DEF Leaving
  <2> QED
    BY <2>3, <2>4, <2>5, <2>7 DEF Steady
<1> QED
  BY <1>5, <1>6, <1>7, <1>8, <1>9 DEF LInv

\* What every way to join has in common: the key is kept and the join is sent, from
\* the list with no room of one's own, or from one's own room to an older one.
LEMMA JoinKeeps ==
  ASSUME LInv, NEW p \in Stakers, NEW i \in DOMAIN rooms, NEW k \in 1 .. MaxKeys,
         NEW locked \in BOOLEAN,
         screen[p].at \in {"home", "room"},
         sent' = sent \cup {Tx("join", p, i, k, locked)},
         screen' = [screen EXCEPT ![p] = Joining(p, i, k)],
         KeepFirst(p, i, k),
         made' \in [Stakers -> 0 .. MaxKeys],
         again' \in [Stakers -> SUBSET RoomIds], \A q \in Stakers : again[q] \subseteq again'[q],
         i \in known[p] => i \in again'[p] \/ kept[p][i] = k,
         screen[p].at = "room" /\ Own(p) # NoRoom => ~locked /\ i < Own(p),
         UNCHANGED <<rooms, cache, breaks>>
  PROVE  LInv'
<1> DEFINE t == Tx("join", p, i, k, locked)
<1>0. PICK v : v = Joining(p, i, k)
  OBVIOUS
<1>1. i \in RoomIds /\ k \in 0 .. MaxKeys /\ k # NoKeyYet
  BY Rooms DEF LInv
<1>2. t \in Sends /\ t.op = "join" /\ t.by = p /\ t.id = i /\ t.key = k /\ t.locked = locked
  <2>1. "join" \in {"create", "join", "cancel"} /\ i \in {NoRoom} \cup RoomIds
    BY <1>1
  <2> QED
    BY <1>1, <2>1 DEF Tx, Sends
<1>3. v \in Screens /\ v.at = "joining" /\ v.own = Own(p) /\ v.key = k
  <2>1. screen[p] \in Screens /\ "joining" \in Screened
    BY DEF LInv, PagesOK, Screened
  <2>2. v \in Screens
    BY <1>0, <1>1, <2>1, ScreenJoin DEF Joining
  <2>3. v.at = "joining" /\ v.own = Own(p) /\ v.key = k
    BY <1>0, <2>1 DEF Joining, Screens, Own
  <2> QED
    BY <2>2, <2>3
<1>4. sent' = sent \cup {t} /\ screen' = [screen EXCEPT ![p] = v]
  BY <1>0
<1> HIDE DEF t
<1>5. /\ screen' \in [Stakers -> Screens] /\ screen'[p] = v
      /\ \A q \in Stakers \ {p} : screen'[q] = screen[q]
  BY <1>3, <1>4 DEF LInv, PagesOK
<1>6. /\ kept' \in [Stakers -> [RoomIds -> 0 .. MaxKeys]]
      /\ kept'[p][i] = k
      /\ \A q \in Stakers, j \in RoomIds : q # p \/ j # i => kept'[q][j] = kept[q][j]
  BY <1>1 DEF KeepFirst, LInv, PagesOK
<1>7. /\ known' \in [Stakers -> SUBSET RoomIds]
      /\ known'[p] = known[p] \cup {i} /\ \A q \in Stakers \ {p} : known'[q] = known[q]
  BY <1>1 DEF KeepFirst, LInv, PagesOK
<1>8. RoomsOK'
  <2>1. IsFiniteSet(sent')
    <3>1. IsFiniteSet(sent)
      BY DEF LInv, RoomsOK
    <3>2. IsFiniteSet(sent \cup {t})
      BY <3>1, FS_AddElement, Zenon
    <3> QED
      BY <1>4, <3>2
  <2>2. Creates' \subseteq Creates
    BY <1>2, <1>4 DEF Creates
  <2> QED
    BY <2>1, <2>2, SameRooms DEF LInv
<1>9. SentOK'
  BY <1>1, <1>2, <1>4 DEF LInv, SentOK
<1>10. PagesOK'
  <2>1. cache' \subseteq DOMAIN rooms' /\ breaks' \in 0 .. MaxBreaks
    BY DEF LInv, PagesOK
  <2>2. ASSUME NEW q \in Stakers PROVE known'[q] \subseteq DOMAIN rooms'
    BY <1>7 DEF LInv, PagesOK
  <2>3. \A q \in Stakers : Own(q)' \in {NoRoom} \cup DOMAIN rooms'
    BY <1>3, <1>5 DEF LInv, PagesOK, Own
  <2> QED
    BY <1>5, <1>6, <1>7, <2>1, <2>2, <2>3 DEF PagesOK
<1>11. KeysOK'
  <2>1. ASSUME NEW q \in Stakers, NEW j \in known'[q] PROVE kept'[q][j] # NoKeyYet
    <3>1. j \in RoomIds
      BY <1>7
    <3> QED
      BY <1>1, <1>6, <1>7, <3>1 DEF LInv, KeysOK
  <2>2. ASSUME NEW q \in Stakers, NEW j \in known[q], NEW c \in 0 .. MaxKeys,
               j \notin again[q] => kept[q][j] = c
        PROVE  j \in known'[q] /\ (j \notin again'[q] => kept'[q][j] = c)
    <3>1. j \in RoomIds
      BY DEF LInv, PagesOK
    <3>2. CASE q = p /\ j = i
      BY <2>2, <3>2, <1>6, <1>7
    <3>3. CASE ~(q = p /\ j = i)
      BY <2>2, <3>1, <3>3, <1>6, <1>7
    <3> QED
      BY <3>2, <3>3
  <2>3. ASSUME NEW u \in sent', u.op = "join"
        PROVE  u.id \in known'[u.by] /\ (u.id \notin again'[u.by] => kept'[u.by][u.id] = u.key)
    <3>1. CASE u = t
      BY <3>1, <1>2, <1>6, <1>7
    <3>2. CASE u \in sent
      <4>1. u.by \in Stakers /\ u.key \in 0 .. MaxKeys
        BY <3>2 DEF LInv, SentOK, Sends
      <4>2. u.id \in known[u.by] /\ (u.id \notin again[u.by] => kept[u.by][u.id] = u.key)
        BY <2>3, <3>2 DEF LInv, KeysOK
      <4> QED
        BY <2>2, <4>1, <4>2
    <3> QED
      BY <1>4, <3>1, <3>2
  <2>4. ASSUME NEW j \in DOMAIN rooms, rooms[j].status = "active", NEW q, q = rooms[j].guest
        PROVE  j \in known'[q] /\ (j \notin again'[q] => kept'[q][j] = rooms[j].keys[2])
    <3>1. q \in Stakers
      BY <2>4, Rooms DEF LInv, RoomsOK, Rec
    <3>2. rooms[j].keys[2] \in 0 .. MaxKeys
      <4> DEFINE ks == rooms[j].keys
      <4>1. ks \in Seq(0 .. MaxKeys) /\ Len(ks) = 2
        BY Rooms DEF LInv, RoomsOK, Rec
      <4> HIDE DEF ks
      <4>2. ks[2] \in 0 .. MaxKeys
        BY <4>1, Second
      <4> QED
        BY <4>2 DEF ks
    <3>3. j \in known[q] /\ (j \notin again[q] => kept[q][j] = rooms[j].keys[2])
      BY <2>4 DEF LInv, KeysOK
    <3> QED
      BY <2>2, <3>1, <3>2, <3>3
  <2> QED
    BY <2>1, <2>3, <2>4 DEF KeysOK
<1>12. ASSUME breaks' = 0 PROVE Steady'
  <2>1. Steady
    BY <1>12 DEF LInv
  <2>2. \A q \in Stakers : Own(q)' = Own(q)
    BY <1>3, <1>5 DEF Own
  <2>3. \A u \in sent : u.by \in Stakers /\ (u.op # "cancel" => u.by # p)
    BY <2>1 DEF Steady, Awaited, Waits, LInv, SentOK, Sends
  <2>4. Awaited'
    <3>1. Waits(t)'
      BY <1>2, <1>3, <1>5 DEF Waits
    <3>2. ASSUME NEW u \in sent, u.op # "cancel" PROVE Waits(u)'
      BY <1>5, <2>1, <2>3, <3>2 DEF Steady, Awaited, Waits
    <3> QED
      BY <1>2, <1>4, <2>1, <2>3, <3>1, <3>2 DEF Steady, Awaited
  <2>5. Owning'
    BY <1>3, <1>5, <2>1, <2>2, Rooms DEF Steady, Owning, LInv, Rec
  <2>6. Downwards'
    <3>1. Own(p) # NoRoom => ~locked /\ i < Own(p)
      BY <2>1 DEF Steady, Owning
    <3> QED
      BY <1>2, <1>4, <2>1, <2>2, <2>3, <3>1, Rooms DEF Steady, Downwards, LInv, Rec
  <2>7. Leaving'
    <3>1. ASSUME NEW u \in sent', u.op = "cancel"
          PROVE  rooms[u.id].by = u.by /\ (rooms[u.id].locked \/ screen'[u.by].at = "game")
      <4>1. u \in sent /\ u.by \in Stakers
        BY <1>2, <1>4, <2>3, <3>1
      <4>2. rooms[u.id].by = u.by /\ (rooms[u.id].locked \/ screen[u.by].at = "game")
        BY <2>1, <3>1, <4>1 DEF Steady, Leaving
      <4>3. screen[u.by].at = "game" => screen'[u.by].at = "game"
        BY <1>5, <4>1
      <4> QED
        BY <4>2, <4>3
    <3>2. ASSUME NEW q \in Stakers, Own(q) # NoRoom
          PROVE  /\ screen'[q].at \in {"room", "joining"} => rooms[Own(q)].status # "gone"
                 /\ screen'[q].at = "game" =>
                      \/ rooms[Own(q)].status # "open"
                      \/ \E u \in sent' : u.op = "cancel" /\ u.id = Own(q)
      <4>1. CASE q = p
        <5>1. screen[p].at = "room"
          BY <3>2, <4>1, <2>1 DEF Steady, Owning
        <5>2. rooms[Own(p)].status # "gone"
          BY <5>1, <3>2, <4>1, <2>1 DEF Steady, Leaving
        <5> QED
          BY <4>1, <5>2, <1>3, <1>5
      <4>2. CASE q # p
        BY <1>4, <1>5, <2>1, <3>2, <4>2 DEF Steady, Leaving
      <4> QED
        BY <4>1, <4>2
    <3> QED
      BY <2>2, <3>1, <3>2 DEF Leaving
  <2> QED
    BY <2>4, <2>5, <2>6, <2>7 DEF Steady
<1> QED
  BY <1>8, <1>9, <1>10, <1>11, <1>12 DEF LInv

-----------------------------------------------------------------------------
(* What is mined, and what expires.                                        *)

LEMMA GoneKeeps ==
  ASSUME LInv, NEW i \in DOMAIN rooms, rooms[i].status = "open",
         rooms' = [rooms EXCEPT ![i].status = "gone"], sent' \subseteq sent,
         UNCHANGED <<screen, known, kept, made, again, cache>>, breaks' \in 0 .. MaxBreaks
  PROVE  /\ RoomsOK' /\ SentOK' /\ PagesOK' /\ KeysOK'
         /\ DOMAIN rooms' = DOMAIN rooms /\ rooms'[i].status = "gone"
         /\ \A j \in DOMAIN rooms :
              /\ j # i => rooms'[j] = rooms[j]
              /\ rooms'[j].by = rooms[j].by /\ rooms'[j].locked = rooms[j].locked
              /\ rooms'[j].via = rooms[j].via /\ rooms'[j].guest = rooms[j].guest
<1>0. PICK r : r = [rooms[i] EXCEPT !.status = "gone"]
  OBVIOUS
<1>1. /\ rooms[i] \in Rec /\ DOMAIN rooms = 1 .. Len(rooms) /\ Len(rooms) \in Nat
      /\ rooms[i].guest = Stranger /\ Len(rooms[i].keys) = 2
  BY Rooms DEF LInv, RoomsOK
<1>2. /\ r \in Rec /\ r.status = "gone" /\ r.by = rooms[i].by /\ r.locked = rooms[i].locked
      /\ r.via = rooms[i].via /\ r.guest = rooms[i].guest /\ r.keys = rooms[i].keys
  BY <1>0, <1>1 DEF Rec
<1>3. rooms' = [rooms EXCEPT ![i] = r]
  BY <1>0, <1>1
<1>4. /\ DOMAIN rooms' = DOMAIN rooms /\ Len(rooms') = Len(rooms) /\ rooms' \in Seq(Rec)
      /\ rooms'[i] = r /\ \A j \in DOMAIN rooms : j # i => rooms'[j] = rooms[j]
  BY <1>1, <1>2, <1>3, ExceptSeq DEF LInv, RoomsOK
<1>5. RoomsOK'
  <2>1. IsFiniteSet(sent')
    BY FS_Subset DEF LInv, RoomsOK
  <2>2. /\ IsFiniteSet(Creates) /\ Cardinality(Creates) \in Nat /\ Creates' \subseteq Creates
    BY Rooms DEF LInv, Creates
  <2>3. Cardinality(Creates') <= Cardinality(Creates) /\ Cardinality(Creates') \in Nat
    BY <2>2, FS_Subset, FS_CardinalityType
  <2>4. Len(rooms') + Cardinality(Creates') <= MaxRooms
    BY <1>1, <1>4, <2>2, <2>3, Bounds DEF LInv, RoomsOK
  <2>5. \A j \in DOMAIN rooms' : /\ rooms'[j].status = "active" <=> rooms'[j].guest # Stranger
                                 /\ Len(rooms'[j].keys) = 2
    BY <1>1, <1>2, <1>4 DEF LInv, RoomsOK
  <2> QED
    BY <1>4, <2>1, <2>4, <2>5 DEF RoomsOK
<1>6. SentOK'
  BY <1>4 DEF LInv, SentOK
<1>7. PagesOK'
  BY <1>4 DEF LInv, PagesOK, Own
<1>8. KeysOK'
  <2>1. ASSUME NEW j \in DOMAIN rooms, rooms'[j].status = "active"
        PROVE  j # i /\ rooms'[j] = rooms[j]
    BY <1>2, <1>4, <2>1
  <2>2. \A t \in sent' : t.op = "join" =>
          t.id \in known'[t.by] /\ (t.id \notin again'[t.by] => kept'[t.by][t.id] = t.key)
    BY DEF LInv, KeysOK
  <2>3. \A p \in Stakers : \A j \in known'[p] : kept'[p][j] # NoKeyYet
    BY DEF LInv, KeysOK
  <2> QED
    BY <1>4, <2>1, <2>2, <2>3 DEF LInv, KeysOK
<1> QED
  BY <1>2, <1>4, <1>5, <1>6, <1>7, <1>8

LEMMA ExpireKeeps == ASSUME LInv, ExpireOpen PROVE LInv'
<1>1. PICK i \in DOMAIN rooms :
        /\ rooms[i].status = "open" /\ breaks < MaxBreaks /\ breaks' = breaks + 1
        /\ rooms' = [rooms EXCEPT ![i].status = "gone"]
        /\ UNCHANGED <<sent, screen, known, kept, made, again, cache>>
  BY DEF ExpireOpen, Breaks
<1>2. breaks' \in 0 .. MaxBreaks /\ breaks' # 0
  BY <1>1, Bounds DEF LInv, PagesOK
<1> QED
  BY <1>1, <1>2, GoneKeeps DEF LInv

LEMMA MinedCancelKeeps ==
  ASSUME LInv, NEW t \in sent, MinedCancel(t), UNCHANGED <<made, again, cache, breaks>>
  PROVE  LInv'
<1>1. /\ t.op = "cancel" /\ sent' = sent \ {t} /\ UNCHANGED <<screen, known, kept>>
      /\ t.id \in DOMAIN rooms /\ breaks' \in 0 .. MaxBreaks
  BY DEF MinedCancel, LInv, SentOK, PagesOK
<1>2. CASE rooms[t.id].status # "open"
  <2>1. UNCHANGED rooms
    BY <1>2 DEF MinedCancel
  <2>2. RoomsOK'
    <3>1. IsFiniteSet(sent') /\ Creates' \subseteq Creates
      BY <1>1, FS_Subset DEF LInv, RoomsOK, Creates
    <3> QED
      BY <2>1, <3>1, SameRooms DEF LInv
  <2>3. SentOK' /\ PagesOK' /\ KeysOK'
    BY <1>1, <2>1 DEF LInv, SentOK, PagesOK, KeysOK, Own
  <2>4. ASSUME breaks' = 0 PROVE Steady'
    <3>1. Steady /\ screen' = screen /\ \A q \in Stakers : Own(q)' = Own(q)
      BY <1>1, <2>4 DEF LInv, Own
    <3>2. Awaited'
      BY <1>1, <3>1 DEF Steady, Awaited, Waits
    <3>3. Owning' /\ Downwards'
      BY <1>1, <2>1, <3>1 DEF Steady, Owning, Downwards, Own
    <3>4. Leaving'
      BY <1>1, <1>2, <2>1, <3>1 DEF Steady, Leaving, Own
    <3> QED
      BY <3>2, <3>3, <3>4 DEF Steady
  <2> QED
    BY <2>2, <2>3, <2>4 DEF LInv
<1>3. CASE rooms[t.id].status = "open"
  <2>1. rooms' = [rooms EXCEPT ![t.id].status = "gone"] /\ sent' \subseteq sent
    BY <1>1, <1>3 DEF MinedCancel
  <2>2. /\ RoomsOK' /\ SentOK' /\ PagesOK' /\ KeysOK'
        /\ DOMAIN rooms' = DOMAIN rooms /\ rooms'[t.id].status = "gone"
        /\ \A j \in DOMAIN rooms :
             /\ j # t.id => rooms'[j] = rooms[j]
             /\ rooms'[j].by = rooms[j].by /\ rooms'[j].locked = rooms[j].locked
             /\ rooms'[j].via = rooms[j].via /\ rooms'[j].guest = rooms[j].guest
    BY <1>1, <1>3, <2>1, GoneKeeps
  <2>3. ASSUME breaks' = 0 PROVE Steady'
    <3>1. Steady /\ screen' = screen /\ \A q \in Stakers : Own(q)' = Own(q)
      BY <1>1, <2>3 DEF LInv, Own
    <3>2. Awaited'
      BY <1>1, <3>1 DEF Steady, Awaited, Waits
    <3>3. Owning'
      BY <1>1, <2>2, <3>1, Rooms DEF Steady, Owning, LInv, Rec, Own
    <3>4. Downwards'
      BY <1>1, <2>2, <3>1 DEF Steady, Downwards, Own
    <3>5. ASSUME NEW u \in sent', u.op = "cancel"
          PROVE  rooms'[u.id].by = u.by /\ (rooms'[u.id].locked \/ screen'[u.by].at = "game")
      <4>1. u \in sent /\ u.id \in DOMAIN rooms
        BY <1>1, <3>5 DEF LInv, SentOK
      <4>2. rooms[u.id].by = u.by /\ (rooms[u.id].locked \/ screen[u.by].at = "game")
        BY <3>1, <3>5, <4>1 DEF Steady, Leaving
      <4> QED
        BY <2>2, <3>1, <4>1, <4>2
    <3>6. ASSUME NEW q \in Stakers, Own(q) # NoRoom
          PROVE  /\ screen'[q].at \in {"room", "joining"} => rooms'[Own(q)].status # "gone"
                 /\ screen'[q].at = "game" =>
                      \/ rooms'[Own(q)].status # "open"
                      \/ \E u \in sent' : u.op = "cancel" /\ u.id = Own(q)
      <4>1. Own(q) \in DOMAIN rooms /\ rooms[Own(q)].by = q /\ ~rooms[Own(q)].locked
        BY <3>1, <3>6 DEF Steady, Owning
      <4>2. /\ screen[q].at \in {"room", "joining"} => rooms[Own(q)].status # "gone"
            /\ screen[q].at = "game" =>
                 \/ rooms[Own(q)].status # "open"
                 \/ \E u \in sent : u.op = "cancel" /\ u.id = Own(q)
        BY <3>1, <3>6 DEF Steady, Leaving
      <4>3. CASE Own(q) = t.id
        <5>1. screen[q].at = "game"
          BY <1>1, <3>1, <4>1, <4>3 DEF Steady, Leaving
        <5> QED
          BY <2>2, <3>1, <4>3, <5>1
      <4>4. CASE Own(q) # t.id
        BY <1>1, <2>2, <3>1, <4>1, <4>2, <4>4
      <4> QED
        BY <4>3, <4>4
    <3>7. Leaving'
      BY <3>1, <3>5, <3>6 DEF Leaving
    <3> QED
      BY <3>2, <3>3, <3>4, <3>7 DEF Steady
  <2> QED
    BY <2>2, <2>3 DEF LInv
<1> QED
  BY <1>2, <1>3

LEMMA MinedCreateKeeps ==
  ASSUME LInv, NEW t \in sent, MinedCreate(t), UNCHANGED <<made, again, cache, breaks>>
  PROVE  LInv'
<1>0. PICK id, p, r, v :
        /\ id = Len(rooms) + 1 /\ p = t.by /\ r = Room(t)
        /\ v = IF t.locked THEN Home ELSE [Home EXCEPT !.at = "room", !.own = id]
  OBVIOUS
<1>1. /\ t.op = "create" /\ sent' = sent \ {t} /\ rooms' = Append(rooms, r)
      /\ p \in Stakers /\ t.key \in 0 .. MaxKeys /\ t.key # NoKeyYet /\ t.locked \in BOOLEAN
  BY <1>0 DEF MinedCreate, LInv, SentOK, Sends
<1>2. \/ Waits(t) /\ KeepFirst(p, id, t.key) /\ screen' = [screen EXCEPT ![p] = v]
      \/ ~Waits(t) /\ UNCHANGED <<kept, known, screen>>
  BY <1>0 DEF MinedCreate
<1>3. /\ r \in Rec /\ r.by = p /\ r.guest = Stranger /\ r.status = "open"
      /\ r.locked = t.locked /\ r.via = "none" /\ Len(r.keys) = 2
  <2>1. <<t.key, NoKeyYet>> \in Seq(0 .. MaxKeys) /\ Len(<<t.key, NoKeyYet>>) = 2
    BY <1>1, Bounds
  <2> QED
    BY <1>0, <1>1, <2>1 DEF Room, Rec
<1>4. RoomsOK' /\ id \in RoomIds
  <2>1. /\ IsFiniteSet(Creates) /\ Cardinality(Creates) \in Nat /\ t \in Creates
        /\ Len(rooms) \in Nat
    BY <1>1, Rooms DEF LInv, Creates
  <2>2. Creates' = Creates \ {t}
    BY <1>1 DEF Creates
  <2>3. Cardinality(Creates \ {t}) = Cardinality(Creates) - 1 /\ IsFiniteSet(Creates \ {t})
    <3>1. Cardinality(Creates \ {t}) = IF t \in Creates THEN Cardinality(Creates) - 1 ELSE Cardinality(Creates)
      BY <2>1, FS_RemoveElement, Zenon
    <3>2. IsFiniteSet(Creates \ {t})
      BY <2>1, FS_RemoveElement, Zenon
    <3> QED
      BY <2>1, <3>1, <3>2
  <2>4. Cardinality(Creates \ {t}) \in Nat
    BY <2>3, FS_CardinalityType
  <2>5. IsFiniteSet(sent')
    BY <1>1, FS_Subset DEF LInv, RoomsOK
  <2>6. rooms' \in Seq(Rec) /\ Len(rooms') = Len(rooms) + 1
    BY <1>1, <1>3, AppendProperties DEF LInv, RoomsOK
  <2>7. Len(rooms') + Cardinality(Creates') <= MaxRooms
    BY <2>1, <2>2, <2>3, <2>4, <2>6, Bounds DEF LInv, RoomsOK
  <2>8. \A i \in DOMAIN rooms' : \/ i = id /\ rooms'[i] = r
                                 \/ i \in DOMAIN rooms /\ rooms'[i] = rooms[i]
    BY <1>0, <1>1, <1>3, <2>1, <2>6, AppendProperties DEF LInv, RoomsOK
  <2>9. \A i \in DOMAIN rooms' : /\ rooms'[i].status = "active" <=> rooms'[i].guest # Stranger
                                 /\ Len(rooms'[i].keys) = 2
    BY <1>3, <2>8 DEF LInv, RoomsOK
  <2>10. id \in RoomIds
    BY <1>0, <2>1, <2>2, <2>4, <2>6, <2>7, Bounds DEF RoomIds
  <2> QED
    BY <2>5, <2>6, <2>7, <2>9, <2>10 DEF RoomsOK
<1>5. /\ DOMAIN rooms' = DOMAIN rooms \cup {id} /\ id \notin DOMAIN rooms /\ rooms'[id] = r
      /\ \A i \in DOMAIN rooms : rooms'[i] = rooms[i]
  BY <1>0, <1>1, <1>3, Rooms, AppendProperties DEF LInv, RoomsOK
<1>6. v \in Screens /\ v.own = (IF t.locked THEN NoRoom ELSE id) /\ v.at = (IF t.locked THEN "home" ELSE "room")
  <2>1. [Home EXCEPT !.at = "room", !.own = id] \in Screens
    BY <1>4, HomeIs, ScreenOwn DEF Screened
  <2> QED
    BY <1>0, <2>1, HomeIs DEF Home
<1>7. /\ screen' \in [Stakers -> Screens]
      /\ Waits(t) => screen'[p] = v /\ \A q \in Stakers \ {p} : screen'[q] = screen[q]
      /\ \A q \in Stakers : Own(q)' \in {NoRoom} \cup DOMAIN rooms'
  <2>1. screen' \in [Stakers -> Screens]
        /\ (Waits(t) => screen'[p] = v /\ \A q \in Stakers \ {p} : screen'[q] = screen[q])
    BY <1>1, <1>2, <1>6 DEF LInv, PagesOK
  <2>2. ASSUME NEW q \in Stakers PROVE screen'[q].own \in {NoRoom} \cup DOMAIN rooms'
    <3>1. screen[q].own \in {NoRoom} \cup DOMAIN rooms
      BY DEF LInv, PagesOK, Own
    <3> QED
      BY <3>1, <2>1, <1>2, <1>5, <1>6
  <2> QED
    BY <2>1, <2>2 DEF Own
<1>8. /\ kept' \in [Stakers -> [RoomIds -> 0 .. MaxKeys]] /\ known' \in [Stakers -> SUBSET RoomIds]
      /\ \A q \in Stakers :
           /\ known[q] \subseteq known'[q] /\ known'[q] \subseteq known[q] \cup {id}
           /\ id \in known'[q] => kept'[q][id] # NoKeyYet
           /\ \A i \in RoomIds \ {id} : kept'[q][i] = kept[q][i]
  <2>1. \A q \in Stakers : id \notin known[q]
    BY <1>5 DEF LInv, PagesOK
  <2>2. CASE Waits(t)
    <3>1. /\ kept' = [kept EXCEPT ![p][id] = t.key] /\ known' = [known EXCEPT ![p] = @ \cup {id}]
          /\ kept \in [Stakers -> [RoomIds -> 0 .. MaxKeys]] /\ known \in [Stakers -> SUBSET RoomIds]
      BY <1>2, <2>2 DEF KeepFirst, LInv, PagesOK
    <3>2. /\ kept' \in [Stakers -> [RoomIds -> 0 .. MaxKeys]] /\ kept'[p][id] = t.key
          /\ \A q \in Stakers : \A i \in RoomIds \ {id} : kept'[q][i] = kept[q][i]
      BY <1>1, <1>4, <3>1
    <3>3. /\ known' \in [Stakers -> SUBSET RoomIds] /\ known'[p] = known[p] \cup {id}
          /\ \A q \in Stakers \ {p} : known'[q] = known[q]
      BY <1>1, <1>4, <3>1
    <3>4. ASSUME NEW q \in Stakers
          PROVE  /\ known[q] \subseteq known'[q] /\ known'[q] \subseteq known[q] \cup {id}
                 /\ id \in known'[q] => kept'[q][id] # NoKeyYet
      <4>1. CASE q = p
        BY <1>1, <3>2, <3>3, <4>1
      <4>2. CASE q # p
        BY <2>1, <3>3, <4>2
      <4> QED
        BY <4>1, <4>2
    <3> QED
      BY <3>2, <3>3, <3>4
  <2>3. CASE ~Waits(t)
    BY <1>2, <2>1, <2>3 DEF LInv, PagesOK
  <2> QED
    BY <2>2, <2>3
<1>9. SentOK'
  BY <1>1, <1>5 DEF LInv, SentOK
<1>10. PagesOK'
  <2>1. cache' \subseteq DOMAIN rooms' /\ \A q \in Stakers : known'[q] \subseteq DOMAIN rooms'
    BY <1>5, <1>8 DEF LInv, PagesOK
  <2> QED
    BY <1>7, <1>8, <2>1 DEF LInv, PagesOK
<1>11. KeysOK'
  <2>1. \A q \in Stakers : \A i \in known'[q] : kept'[q][i] # NoKeyYet
    BY <1>8 DEF LInv, KeysOK, PagesOK
  <2>2. ASSUME NEW q \in Stakers, NEW i \in known[q], NEW c, i \notin again[q] => kept[q][i] = c
        PROVE  i \in known'[q] /\ (i \notin again'[q] => kept'[q][i] = c)
    <3>1. i \in RoomIds \ {id}
      BY <1>5 DEF LInv, PagesOK
    <3> QED
      BY <2>2, <3>1, <1>8
  <2>3. ASSUME NEW u \in sent', u.op = "join"
        PROVE  u.id \in known'[u.by] /\ (u.id \notin again'[u.by] => kept'[u.by][u.id] = u.key)
    <3>1. u \in sent /\ u.by \in Stakers
      BY <1>1 DEF LInv, SentOK, Sends
    <3>2. u.id \in known[u.by] /\ (u.id \notin again[u.by] => kept[u.by][u.id] = u.key)
      BY <2>3, <3>1 DEF LInv, KeysOK
    <3> QED
      BY <2>2, <3>1, <3>2
  <2>4. ASSUME NEW i \in DOMAIN rooms', rooms'[i].status = "active", NEW q, q = rooms'[i].guest
        PROVE  i \in known'[q] /\ (i \notin again'[q] => kept'[q][i] = rooms'[i].keys[2])
    <3>1. i \in DOMAIN rooms /\ rooms'[i] = rooms[i]
      BY <1>3, <1>5, <2>4
    <3>2. q \in Stakers
      BY <2>4, <3>1, Rooms DEF LInv, RoomsOK, Rec
    <3>3. i \in known[q] /\ (i \notin again[q] => kept[q][i] = rooms[i].keys[2])
      BY <2>4, <3>1 DEF LInv, KeysOK
    <3> QED
      BY <2>2, <3>1, <3>2, <3>3
  <2> QED
    BY <2>1, <2>3, <2>4 DEF KeysOK
<1>12. ASSUME breaks' = 0 PROVE Steady'
  <2>1. Steady
    BY <1>12 DEF LInv
  <2>2. Waits(t) /\ screen[p].at = "creating" /\ Own(p) = NoRoom
    BY <1>0, <1>1, <2>1 DEF Steady, Awaited, Owning, Waits
  <2>3. /\ Own(p)' = (IF t.locked THEN NoRoom ELSE id)
        /\ \A q \in Stakers \ {p} : Own(q)' = Own(q) /\ screen'[q] = screen[q]
        /\ screen'[p].at \in {"home", "room"} /\ (screen'[p].at = "home" <=> t.locked)
    BY <1>1, <1>6, <1>7, <2>2 DEF Own
  <2>4. \A u \in sent' : u \in sent /\ u.by \in Stakers /\ (u.op # "cancel" => u.by # p)
    BY <1>0, <1>1, <2>1 DEF Steady, Awaited, LInv, SentOK, Sends
  <2>5. \A i \in DOMAIN rooms : i \in RoomIds /\ i # NoRoom /\ (rooms[i].by = p => rooms[i].locked)
    BY <2>1, <2>2, Rooms DEF Steady, Owning, LInv, RoomIds
  <2>6. Awaited'
    BY <2>1, <2>3, <2>4 DEF Steady, Awaited, Waits
  <2>7. Owning'
    <3>1. ASSUME NEW q \in Stakers
          PROVE  /\ screen'[q].at \in {"home", "creating"} => Own(q)' = NoRoom
                 /\ Own(q)' # NoRoom => /\ Own(q)' \in DOMAIN rooms'
                                        /\ rooms'[Own(q)'].by = q /\ ~rooms'[Own(q)'].locked
      <4>1. CASE q = p
        BY <1>3, <1>5, <2>3, <4>1
      <4>2. CASE q # p
        BY <1>5, <2>1, <2>3, <4>2 DEF Steady, Owning
      <4> QED
        BY <4>1, <4>2
    <3>2. ASSUME NEW i \in DOMAIN rooms', ~rooms'[i].locked PROVE screen'[rooms'[i].by].own = i
      <4>1. CASE i = id
        BY <1>3, <1>5, <2>3, <3>2, <4>1 DEF Own
      <4>2. CASE i # id
        <5>1. i \in DOMAIN rooms /\ rooms'[i] = rooms[i] /\ rooms[i].by \in Stakers \ {p}
          BY <1>5, <2>5, <3>2, <4>2, Rooms DEF LInv, Rec
        <5> QED
          BY <5>1, <2>1, <2>3, <3>2 DEF Steady, Owning, Own
      <4> QED
        BY <4>1, <4>2
    <3> QED
      BY <3>1, <3>2 DEF Owning, Own
  <2>8. Downwards'
    <3>1. ASSUME NEW u \in sent', u.op = "join", screen'[u.by].own # NoRoom
          PROVE  ~u.locked /\ u.id < screen'[u.by].own
      BY <2>1, <2>3, <2>4, <3>1 DEF Steady, Downwards, Own
    <3>2. ASSUME NEW i \in DOMAIN rooms', rooms'[i].via = "offer"
          PROVE  /\ ~rooms'[i].locked /\ rooms'[i].guest \in Stakers
                 /\ i < screen'[rooms'[i].guest].own
      <4>1. i \in DOMAIN rooms /\ rooms'[i] = rooms[i]
        BY <1>3, <1>5, <3>2
      <4>2. ~rooms[i].locked /\ rooms[i].guest \in Stakers /\ i < Own(rooms[i].guest)
        BY <2>1, <3>2, <4>1 DEF Steady, Downwards
      <4>3. rooms[i].guest # p
        BY <2>2, <2>5, <4>1, <4>2 DEF RoomIds
      <4> QED
        BY <2>3, <4>1, <4>2, <4>3 DEF Own
    <3> QED
      BY <3>1, <3>2 DEF Downwards, Own
  <2>9. Leaving'
    <3>1. ASSUME NEW u \in sent', u.op = "cancel"
          PROVE  rooms'[u.id].by = u.by /\ (rooms'[u.id].locked \/ screen'[u.by].at = "game")
      <4>1. u \in sent /\ u.id \in DOMAIN rooms /\ u.by \in Stakers
        BY <2>4, <3>1 DEF LInv, SentOK
      <4>2. rooms[u.id].by = u.by /\ (rooms[u.id].locked \/ screen[u.by].at = "game")
        BY <2>1, <3>1, <4>1 DEF Steady, Leaving
      <4> QED
        BY <1>5, <2>2, <2>3, <4>1, <4>2
    <3>2. ASSUME NEW q \in Stakers, screen'[q].own # NoRoom
          PROVE  /\ screen'[q].at \in {"room", "joining"} => rooms'[screen'[q].own].status # "gone"
                 /\ screen'[q].at = "game" =>
                      \/ rooms'[screen'[q].own].status # "open"
                      \/ \E u \in sent' : u.op = "cancel" /\ u.id = screen'[q].own
      <4>1. CASE q = p
        BY <1>3, <1>5, <2>3, <3>2, <4>1 DEF Own
      <4>2. CASE q # p
        <5>1. /\ screen'[q] = screen[q] /\ Own(q) # NoRoom /\ screen[q].own = Own(q)
              /\ Own(q) \in DOMAIN rooms /\ rooms'[Own(q)] = rooms[Own(q)]
          BY <1>5, <2>1, <2>3, <3>2, <4>2 DEF Own, Steady, Owning
        <5>2. /\ screen[q].at \in {"room", "joining"} => rooms[Own(q)].status # "gone"
              /\ screen[q].at = "game" =>
                   \/ rooms[Own(q)].status # "open"
                   \/ \E u \in sent : u.op = "cancel" /\ u.id = Own(q)
          BY <2>1, <5>1 DEF Steady, Leaving
        <5>3. \A u \in sent : u.op = "cancel" => u \in sent'
          BY <1>1
        <5> QED
          BY <5>1, <5>2, <5>3
      <4> QED
        BY <4>1, <4>2
    <3> QED
      BY <3>1, <3>2 DEF Leaving, Own
  <2> QED
    BY <2>6, <2>7, <2>8, <2>9 DEF Steady
<1> QED
  BY <1>4, <1>9, <1>10, <1>11, <1>12 DEF LInv

\* A join that is mined: where the room and the screen of its sender end up.
RoomJoined(t, p, i) ==
  /\ t.op = "join" /\ p \in Stakers /\ i \in DOMAIN rooms /\ t.key \in 0 .. MaxKeys
  /\ rooms' \in Seq(Rec) /\ Len(rooms') = Len(rooms) /\ DOMAIN rooms' = DOMAIN rooms
  /\ \A j \in DOMAIN rooms :
       /\ rooms'[j].by = rooms[j].by /\ rooms'[j].locked = rooms[j].locked
       /\ \/ rooms'[j] = rooms[j]
          \/ /\ j = i /\ rooms'[j].status = "active" /\ rooms'[j].guest = p
             /\ rooms'[j].via = Via(t) /\ rooms[j].locked = t.locked
             /\ Len(rooms'[j].keys) = 2 /\ rooms'[j].keys[2] = t.key
\* Its sender's page, if still waiting, goes to the game or back where it belongs.
PageJoined(t, p) ==
  /\ screen' \in [Stakers -> Screens]
  /\ \A q \in Stakers : Own(q)' = Own(q) /\ (q # p => screen'[q] = screen[q])
  /\ \/ UNCHANGED screen /\ sent' = sent \ {t} /\ ~Waits(t)
     \/ /\ Waits(t) /\ screen'[p].at = "game"
        /\ \/ Own(p) = NoRoom /\ sent' = sent \ {t}
           \/ /\ Own(p) # NoRoom
              /\ sent' = (sent \ {t}) \cup {Tx("cancel", p, Own(p), NoKeyYet, FALSE)}
     \/ /\ Waits(t) /\ sent' = sent \ {t}
        /\ screen'[p].at = IF Own(p) # NoRoom THEN "room" ELSE "home"
\* A join that is mined disturbs no room but its own, and no screen but its sender's.
LEMMA JoinMined ==
  ASSUME LInv, NEW t \in sent, MinedJoin(t)
  PROVE  RoomJoined(t, t.by, t.id) /\ PageJoined(t, t.by)
<1> PICK p, i : p = t.by /\ i = t.id
  OBVIOUS
<1> SUFFICES RoomJoined(t, p, i) /\ PageJoined(t, p)
  OBVIOUS
<1> DEFINE m == rooms[i]
           lands == m.status = "open" /\ m.by # p /\ m.locked = t.locked
<1>0. PICK r, a : /\ r = [m EXCEPT !.guest = p, !.status = "active",
                                   !.keys = <<m.keys[1], t.key>>, !.via = Via(t)]
                 /\ a = IF Own(p) # NoRoom THEN "room" ELSE "home"
  OBVIOUS
<1>1. /\ t.op = "join" /\ p \in Stakers /\ i \in DOMAIN rooms /\ t.key \in 0 .. MaxKeys
      /\ t.locked \in BOOLEAN
  BY DEF MinedJoin, LInv, SentOK, Sends
<1>2. /\ m \in Rec /\ Len(m.keys) = 2 /\ DOMAIN rooms = 1 .. Len(rooms) /\ Len(rooms) \in Nat
      /\ rooms \in Seq(Rec)
  BY <1>1, Rooms DEF LInv, RoomsOK
<1>3. /\ r \in Rec /\ r.by = m.by /\ r.locked = m.locked /\ r.status = "active" /\ r.guest = p
      /\ r.via = Via(t) /\ Len(r.keys) = 2 /\ r.keys[2] = t.key
  <2>1. m.keys[1] \in 0 .. MaxKeys
    <3>1. m.keys \in Seq(0 .. MaxKeys)
      BY <1>2 DEF Rec
    <3> HIDE DEF m
    <3> QED
      BY <1>2, <3>1, Second
  <2>2. PICK ks : ks = <<m.keys[1], t.key>>
    OBVIOUS
  <2>3. ks \in Seq(0 .. MaxKeys) /\ Len(ks) = 2 /\ ks[2] = t.key
    BY <1>1, <2>1, <2>2
  <2>4. Via(t) \in {"none", "list", "link", "offer"}
    BY DEF Via
  <2>5. r = [m EXCEPT !.guest = p, !.status = "active", !.keys = ks, !.via = Via(t)]
    BY <1>0, <2>2
  <2> HIDE DEF m
  <2> QED
    BY <1>1, <1>2, <2>3, <2>4, <2>5 DEF Rec
<1>4. /\ lands => rooms' = [rooms EXCEPT ![i] = r]
      /\ ~lands => rooms' = rooms
  <2>1. CASE lands
    <3>1. rooms' = [rooms EXCEPT ![i] = [m EXCEPT !.guest = p, !.status = "active",
                      !.keys = <<m.keys[1], t.key>>, !.via = Via(t)]]
      BY <2>1, Zenon DEF MinedJoin
    <3>2. rooms' = [rooms EXCEPT ![i] = r]
      BY <1>0, <3>1, Zenon
    <3> HIDE DEF lands
    <3> QED
      BY <2>1, <3>2
  <2>2. CASE ~lands
    BY <2>2, Zenon DEF MinedJoin
  <2> QED
    BY <2>1, <2>2
<1>5. /\ rooms' \in Seq(Rec) /\ Len(rooms') = Len(rooms) /\ DOMAIN rooms' = DOMAIN rooms
      /\ lands => rooms'[i] = r
      /\ \A j \in DOMAIN rooms : j # i => rooms'[j] = rooms[j]
      /\ ~lands => rooms' = rooms
  <2>1. CASE lands
    <3> HIDE DEF lands
    <3> QED
      BY <1>1, <1>2, <1>3, <1>4, <2>1, ExceptSeq
  <2>2. CASE ~lands
    <3> HIDE DEF lands
    <3> QED
      BY <1>2, <1>4, <2>2
  <2> QED
    BY <2>1, <2>2
<1>6. ASSUME NEW j \in DOMAIN rooms
      PROVE  /\ rooms'[j].by = rooms[j].by /\ rooms'[j].locked = rooms[j].locked
             /\ \/ rooms'[j] = rooms[j]
                \/ /\ j = i /\ rooms'[j].status = "active" /\ rooms'[j].guest = p
                   /\ rooms'[j].via = Via(t) /\ rooms[j].locked = t.locked
                   /\ Len(rooms'[j].keys) = 2 /\ rooms'[j].keys[2] = t.key
  <2>1. CASE lands /\ j = i
    BY <2>1, <1>3, <1>5
  <2>2. CASE ~(lands /\ j = i)
    <3> HIDE DEF lands
    <3> QED
      BY <2>2, <1>5
  <2> QED
    BY <2>1, <2>2
<1>7. screen[p] \in Screens /\ a \in Screened /\ "game" \in Screened
  BY <1>0, <1>1 DEF LInv, PagesOK, Screened
<1>8. ASSUME NEW b \in Screened, screen' = [screen EXCEPT ![p].at = b]
      PROVE  /\ screen' \in [Stakers -> Screens] /\ screen'[p].at = b
             /\ \A q \in Stakers : Own(q)' = Own(q) /\ (q # p => screen'[q] = screen[q])
  <2>1. PICK v : v = [screen[p] EXCEPT !.at = b]
    OBVIOUS
  <2>2. v \in Screens /\ v.at = b /\ v.own = screen[p].own
    <3>1. v \in Screens
      BY <1>7, <2>1, ScreenAt
    <3>2. v.at = b /\ v.own = screen[p].own
      BY <1>7, <2>1 DEF Screens
    <3> QED
      BY <3>1, <3>2
  <2>3. screen' = [screen EXCEPT ![p] = v]
    BY <1>8, <2>1
  <2> QED
    BY <1>1, <2>2, <2>3 DEF LInv, PagesOK, Own
<1>9. CASE ~Waits(t)
  <2>1. UNCHANGED screen /\ sent' = sent \ {t}
    BY <1>9 DEF MinedJoin
  <2>2. screen' \in [Stakers -> Screens] /\ \A q \in Stakers : Own(q)' = Own(q)
    BY <2>1 DEF LInv, PagesOK, Own
  <2> QED
    BY <1>1, <1>5, <1>6, <1>9, <2>1, <2>2 DEF RoomJoined, PageJoined
<1>10. CASE Waits(t) /\ lands
  <2>1. screen' = [screen EXCEPT ![p].at = "game"] /\ sent' = ComesHome(p, t)
    BY <1>10 DEF MinedJoin
  <2>2. \/ Own(p) = NoRoom /\ sent' = sent \ {t}
        \/ /\ Own(p) # NoRoom
           /\ sent' = (sent \ {t}) \cup {Tx("cancel", p, Own(p), NoKeyYet, FALSE)}
    BY <2>1 DEF ComesHome, Own
  <2>3. /\ screen' \in [Stakers -> Screens] /\ screen'[p].at = "game"
        /\ \A q \in Stakers : Own(q)' = Own(q) /\ (q # p => screen'[q] = screen[q])
    BY <1>7, <1>8, <2>1
  <2> QED
    BY <1>1, <1>5, <1>6, <1>10, <2>2, <2>3 DEF RoomJoined, PageJoined
<1>11. CASE Waits(t) /\ ~lands
  <2>1. screen' = [screen EXCEPT ![p].at = a] /\ sent' = sent \ {t}
    BY <1>0, <1>11 DEF MinedJoin, Own
  <2>2. /\ screen' \in [Stakers -> Screens] /\ screen'[p].at = a
        /\ \A q \in Stakers : Own(q)' = Own(q) /\ (q # p => screen'[q] = screen[q])
    BY <1>7, <1>8, <2>1
  <2> QED
    BY <1>0, <1>1, <1>5, <1>6, <1>11, <2>1, <2>2 DEF RoomJoined, PageJoined
<1> QED
  BY <1>9, <1>10, <1>11

LEMMA MinedJoinKeeps ==
  ASSUME LInv, NEW t \in sent, MinedJoin(t), UNCHANGED <<made, again, cache, breaks>>
  PROVE  LInv'
<1>0. PICK p, i, c : /\ p = t.by /\ i = t.id
                     /\ c = Tx("cancel", p, Own(p), NoKeyYet, FALSE)
  OBVIOUS
<1>1. /\ t.op = "join" /\ p \in Stakers /\ i \in DOMAIN rooms /\ t.key \in 0 .. MaxKeys
      /\ rooms' \in Seq(Rec) /\ Len(rooms') = Len(rooms) /\ DOMAIN rooms' = DOMAIN rooms
      /\ \A j \in DOMAIN rooms :
           /\ rooms'[j].by = rooms[j].by /\ rooms'[j].locked = rooms[j].locked
           /\ \/ rooms'[j] = rooms[j]
              \/ /\ j = i /\ rooms'[j].status = "active" /\ rooms'[j].guest = p
                 /\ rooms'[j].via = Via(t) /\ rooms[j].locked = t.locked
                 /\ Len(rooms'[j].keys) = 2 /\ rooms'[j].keys[2] = t.key
  <2>1. RoomJoined(t, p, i)
    BY <1>0, JoinMined
  <2> QED
    BY <2>1 DEF RoomJoined
<1>2. /\ screen' \in [Stakers -> Screens]
      /\ \A q \in Stakers : Own(q)' = Own(q) /\ (q # p => screen'[q] = screen[q])
      /\ \/ UNCHANGED screen /\ sent' = sent \ {t} /\ ~Waits(t)
         \/ /\ Waits(t) /\ screen'[p].at = "game"
            /\ \/ Own(p) = NoRoom /\ sent' = sent \ {t}
               \/ Own(p) # NoRoom /\ sent' = (sent \ {t}) \cup {c}
         \/ /\ Waits(t) /\ sent' = sent \ {t}
            /\ screen'[p].at = IF Own(p) # NoRoom THEN "room" ELSE "home"
  <2>1. PageJoined(t, p)
    BY <1>0, JoinMined
  <2> QED
    BY <1>0, <2>1 DEF PageJoined
<1>3. UNCHANGED <<kept, known>>
  BY DEF MinedJoin
<1>4. Own(p) # NoRoom => c \in Sends /\ c.op = "cancel" /\ c.by = p /\ c.id = Own(p) /\ Own(p) \in DOMAIN rooms
  <2>1. Own(p) # NoRoom => Own(p) \in DOMAIN rooms /\ Own(p) \in {NoRoom} \cup RoomIds
    BY <1>1, Rooms DEF LInv, PagesOK
  <2>2. NoKeyYet \in 0 .. MaxKeys /\ FALSE \in BOOLEAN /\ "cancel" \in {"create", "join", "cancel"}
    BY Bounds
  <2> QED
    BY <1>0, <1>1, <2>1, <2>2 DEF Tx, Sends
<1>5. \A u \in sent' : \/ u \in sent /\ u # t
                       \/ /\ u \in Sends /\ u.op = "cancel" /\ u.by = p /\ u.id = Own(p)
                          /\ Own(p) \in DOMAIN rooms /\ screen'[p].at = "game"
  BY <1>2, <1>4
<1>6. RoomsOK'
  <2>1. IsFiniteSet(sent')
    <3>1. IsFiniteSet(sent \ {t})
      BY FS_Subset DEF LInv, RoomsOK
    <3>2. IsFiniteSet((sent \ {t}) \cup {c})
      BY <3>1, FS_AddElement, Zenon
    <3> QED
      BY <1>2, <3>1, <3>2
  <2>2. IsFiniteSet(Creates) /\ Cardinality(Creates) \in Nat /\ Creates' \subseteq Creates
    BY <1>5, Rooms DEF LInv, Creates
  <2>3. Cardinality(Creates') <= Cardinality(Creates) /\ Cardinality(Creates') \in Nat
    BY <2>2, FS_Subset, FS_CardinalityType
  <2>4. Len(rooms') + Cardinality(Creates') <= MaxRooms
    BY <1>1, <2>2, <2>3, Rooms, Bounds DEF LInv, RoomsOK
  <2>5. ASSUME NEW j \in DOMAIN rooms'
        PROVE  (rooms'[j].status = "active" <=> rooms'[j].guest # Stranger) /\ Len(rooms'[j].keys) = 2
    <3>1. (rooms[j].status = "active" <=> rooms[j].guest # Stranger) /\ Len(rooms[j].keys) = 2
      BY <1>1 DEF LInv, RoomsOK
    <3> QED
      BY <1>1, <3>1, Bounds
  <2> QED
    BY <1>1, <2>1, <2>4, <2>5 DEF RoomsOK
<1>7. SentOK'
  <2> SUFFICES ASSUME NEW u \in sent'
               PROVE  /\ u \in Sends
                      /\ u.op # "create" => u.id \in DOMAIN rooms'
                      /\ u.op # "cancel" => u.key # NoKeyYet
    BY DEF SentOK
  <2> QED
    BY <1>1, <1>5 DEF LInv, SentOK
<1>8. PagesOK'
  BY <1>1, <1>2, <1>3 DEF LInv, PagesOK
<1>9. KeysOK'
  <2>1. ASSUME NEW u \in sent', u.op = "join"
        PROVE  u.id \in known[u.by] /\ (u.id \notin again[u.by] => kept[u.by][u.id] = u.key)
    BY <1>5, <2>1 DEF LInv, KeysOK
  <2>2. ASSUME NEW j \in DOMAIN rooms', rooms'[j].status = "active", NEW q, q = rooms'[j].guest
        PROVE  j \in known[q] /\ (j \notin again[q] => kept[q][j] = rooms'[j].keys[2])
    <3>1. CASE rooms'[j] = rooms[j]
      BY <1>1, <2>2, <3>1 DEF LInv, KeysOK
    <3>2. CASE rooms'[j] # rooms[j]
      <4>1. j = i /\ q = p /\ rooms'[j].keys[2] = t.key
        BY <1>1, <2>2, <3>2
      <4>2. i \in known[p] /\ (i \notin again[p] => kept[p][i] = t.key)
        BY <1>0, <1>1 DEF LInv, KeysOK
      <4> QED
        BY <4>1, <4>2
    <3> QED
      BY <3>1, <3>2
  <2>3. \A q \in Stakers : \A j \in known[q] : kept[q][j] # NoKeyYet
    BY DEF LInv, KeysOK
  <2> QED
    BY <1>3, <2>1, <2>2, <2>3 DEF KeysOK
<1>10. ASSUME breaks' = 0 PROVE Steady'
  <2>1. Steady
    BY <1>10 DEF LInv
  <2>2. Waits(t) /\ screen[p].at = "joining"
    BY <1>0, <1>1, <2>1 DEF Steady, Awaited, Waits
  <2>3. \/ /\ screen'[p].at = "game"
           /\ Own(p) # NoRoom => \E u \in sent' : u.op = "cancel" /\ u.id = Own(p)
        \/ screen'[p].at = IF Own(p) # NoRoom THEN "room" ELSE "home"
    BY <1>2, <1>4, <2>2
  <2>4. \A u \in sent' : u.op # "cancel" => u \in sent /\ u.by \in Stakers \ {p}
    BY <1>0, <1>1, <1>5, <2>1 DEF Steady, Awaited, LInv, SentOK, Sends
  <2>5. Awaited'
    BY <1>2, <2>1, <2>4 DEF Steady, Awaited, Waits
  <2>6. Owning'
    <3>1. ASSUME NEW q \in Stakers
          PROVE  /\ screen'[q].at \in {"home", "creating"} => Own(q) = NoRoom
                 /\ Own(q) # NoRoom => /\ Own(q) \in DOMAIN rooms'
                                       /\ rooms'[Own(q)].by = q /\ ~rooms'[Own(q)].locked
      <4>1. /\ screen[q].at \in {"home", "creating"} => Own(q) = NoRoom
            /\ Own(q) # NoRoom => /\ Own(q) \in DOMAIN rooms
                                  /\ rooms[Own(q)].by = q /\ ~rooms[Own(q)].locked
        BY <2>1 DEF Steady, Owning
      <4>2. screen'[q].at \in {"home", "creating"} => Own(q) = NoRoom
        BY <1>2, <2>3, <4>1
      <4> QED
        BY <1>1, <4>1, <4>2
    <3>2. ASSUME NEW j \in DOMAIN rooms', ~rooms'[j].locked PROVE screen'[rooms'[j].by].own = j
      <4>1. j \in DOMAIN rooms /\ rooms'[j].by = rooms[j].by /\ ~rooms[j].locked /\ rooms[j].by \in Stakers
        BY <1>1, <3>2, Rooms DEF LInv, Rec
      <4>2. Own(rooms[j].by) = j
        BY <2>1, <4>1 DEF Steady, Owning
      <4> QED
        BY <1>2, <4>1, <4>2 DEF Own
    <3>3. \A q \in Stakers : screen'[q].own = Own(q)
      BY <1>2 DEF Own
    <3> QED
      BY <3>1, <3>2, <3>3 DEF Owning, Own
  <2>7. Downwards'
    <3>1. ASSUME NEW u \in sent', u.op = "join", screen'[u.by].own # NoRoom
          PROVE  ~u.locked /\ u.id < screen'[u.by].own
      BY <1>2, <2>1, <2>4, <3>1 DEF Steady, Downwards, Own
    <3>2. ASSUME NEW j \in DOMAIN rooms', rooms'[j].via = "offer"
          PROVE  /\ ~rooms'[j].locked /\ rooms'[j].guest \in Stakers
                 /\ j < screen'[rooms'[j].guest].own
      <4>1. CASE rooms'[j] = rooms[j]
        BY <1>1, <1>2, <2>1, <3>2, <4>1 DEF Steady, Downwards, Own
      <4>2. CASE rooms'[j] # rooms[j]
        <5>1. /\ j = i /\ rooms'[j].guest = p /\ Via(t) = "offer"
              /\ rooms'[j].locked = rooms[j].locked /\ rooms[j].locked = t.locked
          BY <1>1, <3>2, <4>2
        <5>2. Own(p) # NoRoom
          BY <1>0, <5>1 DEF Via, Own
        <5>3. ~t.locked /\ i < Own(p)
          BY <1>0, <1>1, <2>1, <5>2 DEF Steady, Downwards
        <5> QED
          BY <1>1, <1>2, <5>1, <5>3 DEF Own
      <4> QED
        BY <4>1, <4>2
    <3> QED
      BY <3>1, <3>2 DEF Downwards, Own
  <2>8. Leaving'
    <3>1. ASSUME NEW u \in sent', u.op = "cancel"
          PROVE  rooms'[u.id].by = u.by /\ (rooms'[u.id].locked \/ screen'[u.by].at = "game")
      <4>1. CASE u \in sent
        <5>1. u.id \in DOMAIN rooms /\ u.by \in Stakers
          BY <3>1, <4>1 DEF LInv, SentOK, Sends
        <5>2. rooms[u.id].by = u.by /\ (rooms[u.id].locked \/ screen[u.by].at = "game")
          BY <2>1, <3>1, <4>1 DEF Steady, Leaving
        <5>3. screen[u.by].at = "game" => screen'[u.by].at = "game"
          BY <1>2, <2>2, <5>1
        <5> QED
          BY <1>1, <5>1, <5>2, <5>3
      <4>2. CASE u \notin sent
        <5>1. u.by = p /\ u.id = Own(p) /\ Own(p) \in DOMAIN rooms /\ screen'[p].at = "game"
          BY <1>5, <4>2
        <5>2. rooms[Own(p)].by = p
          BY <1>1, <2>1, <5>1, Rooms DEF Steady, Owning, LInv, RoomIds
        <5> QED
          BY <1>1, <5>1, <5>2
      <4> QED
        BY <4>1, <4>2
    <3>2. ASSUME NEW q \in Stakers, Own(q) # NoRoom
          PROVE  /\ screen'[q].at \in {"room", "joining"} => rooms'[Own(q)].status # "gone"
                 /\ screen'[q].at = "game" =>
                      \/ rooms'[Own(q)].status # "open"
                      \/ \E u \in sent' : u.op = "cancel" /\ u.id = Own(q)
      <4>1. Own(q) \in DOMAIN rooms
        BY <2>1, <3>2 DEF Steady, Owning
      <4>2. /\ screen[q].at \in {"room", "joining"} => rooms[Own(q)].status # "gone"
            /\ screen[q].at = "game" =>
                 \/ rooms[Own(q)].status # "open"
                 \/ \E u \in sent : u.op = "cancel" /\ u.id = Own(q)
        BY <2>1, <3>2 DEF Steady, Leaving
      <4>3. \/ rooms'[Own(q)] = rooms[Own(q)]
            \/ rooms'[Own(q)].status = "active"
        BY <1>1, <4>1
      <4>4. \A u \in sent : u.op = "cancel" => u \in sent'
        BY <1>1, <1>2
      <4>5. CASE q = p
        BY <2>2, <2>3, <3>2, <4>2, <4>3, <4>5
      <4>6. CASE q # p
        BY <1>2, <4>2, <4>3, <4>4, <4>6
      <4> QED
        BY <4>5, <4>6
    <3>3. \A q \in Stakers : screen'[q].own = Own(q)
      BY <1>2 DEF Own
    <3> QED
      BY <3>1, <3>2, <3>3 DEF Leaving, Own
  <2> QED
    BY <2>5, <2>6, <2>7, <2>8 DEF Steady
<1> QED
  BY <1>6, <1>7, <1>8, <1>9, <1>10 DEF LInv

-----------------------------------------------------------------------------
(* The theorem.                                                            *)

\* joinOpenMatch, from the list or from one's own waiting room.
LEMMA JoinOpenKeeps ==
  ASSUME LInv, NEW p \in Stakers, NEW i \in DOMAIN rooms, JoinOpenMatch(p, i),
         screen[p].at \in {"home", "room"},
         screen[p].at = "room" /\ Own(p) # NoRoom => i < Own(p)
  PROVE  LInv'
<1>0. PICK k : k = NewKey(p)
  OBVIOUS
<1>1. /\ made[p] < MaxKeys /\ made' = [made EXCEPT ![p] = k] /\ KeepFirst(p, i, k)
      /\ sent' = sent \cup {Tx("join", p, i, k, FALSE)}
      /\ screen' = [screen EXCEPT ![p] = Joining(p, i, k)]
      /\ again' = IF i \in known[p] THEN [again EXCEPT ![p] = @ \cup {i}] ELSE again
      /\ UNCHANGED <<rooms, cache, breaks>>
  BY <1>0 DEF JoinOpenMatch, MakesKey, Put
<1>2. k \in 1 .. MaxKeys /\ made' \in [Stakers -> 0 .. MaxKeys]
  BY <1>0, <1>1, Bounds DEF NewKey, LInv, PagesOK
<1>3. /\ again' \in [Stakers -> SUBSET RoomIds] /\ \A q \in Stakers : again[q] \subseteq again'[q]
      /\ i \in known[p] => i \in again'[p]
  <2>1. i \in RoomIds
    BY Rooms DEF LInv
  <2> QED
    BY <1>1, <2>1 DEF LInv, PagesOK
<1>4. FALSE \in BOOLEAN
  OBVIOUS
<1> QED
  BY <1>1, <1>2, <1>3, <1>4, JoinKeeps

LEMMA JoinByLinkKeeps == ASSUME LInv, NEW p \in Stakers, JoinByLink(p) PROVE LInv'
<1>0. PICK i \in DOMAIN rooms :
        LET k == IF kept[p][i] # NoKeyYet THEN kept[p][i] ELSE NewKey(p) IN
        /\ screen[p].at = "home"
        /\ IF kept[p][i] # NoKeyYet THEN UNCHANGED made ELSE MakesKey(p)
        /\ KeepFirst(p, i, k) /\ sent' = sent \cup {Tx("join", p, i, k, TRUE)}
        /\ screen' = [screen EXCEPT ![p] = Joining(p, i, k)]
        /\ UNCHANGED <<rooms, again, cache, breaks>>
  BY DEF JoinByLink, Put
<1>1. PICK k :
        /\ k = IF kept[p][i] # NoKeyYet THEN kept[p][i] ELSE NewKey(p)
        /\ screen[p].at = "home"
        /\ IF kept[p][i] # NoKeyYet THEN UNCHANGED made ELSE MakesKey(p)
        /\ KeepFirst(p, i, k) /\ sent' = sent \cup {Tx("join", p, i, k, TRUE)}
        /\ screen' = [screen EXCEPT ![p] = Joining(p, i, k)]
        /\ UNCHANGED <<rooms, again, cache, breaks>>
  BY <1>0
<1>2. i \in RoomIds
  BY Rooms DEF LInv
<1>3. k \in 1 .. MaxKeys /\ made' \in [Stakers -> 0 .. MaxKeys]
  BY <1>1, <1>2, Bounds DEF MakesKey, NewKey, LInv, PagesOK
<1>4. i \in known[p] => kept[p][i] = k
  BY <1>1 DEF LInv, KeysOK
<1>5. again' \in [Stakers -> SUBSET RoomIds] /\ \A q \in Stakers : again[q] \subseteq again'[q]
  BY <1>1 DEF LInv, PagesOK
<1>6. TRUE \in BOOLEAN /\ screen[p].at # "room"
  BY <1>1
<1> QED
  BY <1>1, <1>3, <1>4, <1>5, <1>6, JoinKeeps

LEMMA LobbyStepKeeps == LInv /\ [LobbyNext]_lobbyVars => LInv'
<1> SUFFICES ASSUME LInv, [LobbyNext]_lobbyVars PROVE LInv'
  OBVIOUS
<1>1. cache \subseteq DOMAIN rooms /\ OpenRooms \subseteq DOMAIN rooms
  BY DEF LInv, PagesOK, OpenRooms
<1>2. ASSUME MineTx PROVE LInv'
  <2>1. PICK t \in sent : MinedCreate(t) \/ MinedJoin(t) \/ MinedCancel(t)
    BY <1>2 DEF MineTx
  <2>2. UNCHANGED <<made, again, cache, breaks>>
    BY <1>2 DEF MineTx
  <2> QED
    BY <2>1, <2>2, MinedCreateKeeps, MinedJoinKeeps, MinedCancelKeeps
<1>3. ASSUME NEW p \in Stakers, JoinRow(p) PROVE LInv'
  <2>1. PICK i \in DOMAIN rooms : screen[p].at = "home" /\ JoinOpenMatch(p, i)
    BY <1>1, <1>3 DEF JoinRow, Lists, OthersOf
  <2> QED
    BY <2>1, JoinOpenKeeps
<1>4. ASSUME NEW p \in Stakers, PlayThem(p) PROVE LInv'
  <2>1. PICK i \in DOMAIN rooms : screen[p].at = "room" /\ i < Own(p) /\ JoinOpenMatch(p, i)
    BY <1>1, <1>4 DEF PlayThem, Lists, Older, OthersOf, Own
  <2> QED
    BY <2>1, JoinOpenKeeps
<1>5. CASE UNCHANGED lobbyVars
  <2>1. UNCHANGED <<rooms, sent, screen, known, kept, made, again, cache, breaks>>
    BY <1>5 DEF lobbyVars
  <2>2. RoomsOK' /\ SentOK' /\ PagesOK' /\ KeysOK'
    BY <2>1 DEF LInv, RoomsOK, SentOK, PagesOK, KeysOK, Creates, Own
  <2>3. Steady => Steady'
    BY <2>1 DEF Steady, Awaited, Owning, Downwards, Leaving, Own, Waits
  <2> QED
    BY <2>1, <2>2, <2>3 DEF LInv
<1> QED
  BY <1>2, <1>3, <1>4, <1>5, RefreshKeeps, ExpireKeeps, CreateKeeps, CancelKeeps,
     JoinByLinkKeeps, BreakKeeps DEF LobbyNext

\* Two rooms joined over the card would each be older than the other.
LEMMA OrderSays == LInv => NeverCross
<1> SUFFICES ASSUME LInv, breaks = 0, NEW i \in DOMAIN rooms, NEW j \in DOMAIN rooms,
                    rooms[i].via = "offer", rooms[j].via = "offer",
                    rooms[i].by = rooms[j].guest, rooms[j].by = rooms[i].guest
             PROVE  FALSE
  BY DEF NeverCross
<1>1. Steady /\ i \in Nat /\ j \in Nat
  BY Rooms DEF LInv
<1>2. i < Own(rooms[i].guest) /\ j < Own(rooms[j].guest) /\ ~rooms[i].locked /\ ~rooms[j].locked
  BY <1>1 DEF Steady, Downwards
<1>3. Own(rooms[i].by) = i /\ Own(rooms[j].by) = j
  BY <1>1, <1>2 DEF Steady, Owning
<1>4. i < j /\ j < i
  BY <1>2, <1>3
<1> QED
  BY <1>1, <1>4

LEMMA LobbySays == LInv => LobbyInv
<1> SUFFICES ASSUME LInv PROVE LobbyInv
  OBVIOUS
<1>1. LobbyTypeOK
  <2>1. Len(rooms) <= MaxRooms
    BY Rooms, Bounds DEF LInv, RoomsOK
  <2>2. DOMAIN rooms \subseteq RoomIds
    BY Rooms DEF LInv
  <2>3. rooms \in Seq(Rec) /\ \A i \in DOMAIN rooms : rooms[i].status = "active" <=> rooms[i].guest # Stranger
    BY DEF LInv, RoomsOK
  <2>4. \A t \in sent : t.by \in Stakers /\ t.key \in 0 .. MaxKeys
    BY DEF LInv, SentOK, Sends
  <2> QED
    BY <2>1, <2>2, <2>3, <2>4 DEF LobbyTypeOK, LInv, PagesOK, Rec, Screens
<1>2. GuestKeyed
  BY DEF GuestKeyed, GuestOf, LInv, KeysOK
<1>3. StakeMovesOnce
  BY DEF StakeMovesOnce, LInv, Steady, Leaving, Own
<1> QED
  BY <1>1, <1>2, <1>3, OrderSays DEF LobbyInv

\* Whoever joins, waits, breaks off or is slow, a guest keeps the key of the seat; and
\* when nobody breaks off, the card (CrossMatchOffer.tsx) never crosses two players
\* and never leaves a stake behind.
THEOREM LobbyHolds == LobbySpec => []LobbyInv
<1>1. LobbySpec => []LInv
  BY LobbyStarts, LobbyStepKeeps, PTL DEF LobbySpec
<1> QED
  BY <1>1, LobbySays, PTL

-----------------------------------------------------------------------------
(* The shop.                                                               *)

\* What the page believes of the chain.
ShopTold ==
  /\ SaleBalances
  /\ behind.holds["shopper"] <= shop.holds["shopper"]
  /\ visit.card.owned => shop.holds["shopper"] > 0
  /\ visit.at = "paying" /\ posted = <<>> /\ visit.landed => shop.holds["shopper"] > 0

\* The page waits for the last of what it has posted.
Latest ==
  posted # <<>> =>
    /\ visit.at = "paying" => posted[Len(posted)].kind = "buy"
    /\ visit.at = "approving" => posted[Len(posted)].kind = "approve"

\* A press still to be charged; an approval that is on the way.
Pressed == IF visit.at \in {"checking", "approve", "approving", "pay"} THEN 1 ELSE 0
Approval == IF visit.at = "approving" /\ posted # <<>> THEN 1 ELSE 0

Charged == tally.bought + Len(posted) + Pressed <= tally.presses + tally.slips + Approval

\* Nothing has slipped: the page knows of everything it has posted.
Exact ==
  /\ visit.at \notin {"approving", "paying"} => posted = <<>> /\ tally.bought = tally.won
  /\ visit.at = "approving" => Len(posted) <= 1 /\ tally.bought = tally.won
  /\ visit.at = "paying" =>
       /\ Len(posted) <= 1
       /\ tally.bought = tally.won + (IF posted = <<>> /\ visit.landed THEN 1 ELSE 0)

SInv == ShopTypeOK /\ ShopTold /\ Latest /\ Charged /\ (tally.slips = 0 => Exact)

Ats == {"away", "rest", "checking", "approve", "approving", "pay", "paying"}
Cards == [known : BOOLEAN, price : Prices, left : 0 .. MaxSupply, owned : BOOLEAN]
Visits == [at : Ats, card : Cards, tries : 0 .. MaxTries, landed : BOOLEAN,
           told : {"nothing", "done", "failed"}, reading : BOOLEAN]
Posts == [kind : {"approve", "buy"}, amount : 0 .. Headroom * MaxPrice]
Tallies == [presses : Nat, won : Nat, bought : Nat, edits : Nat, slips : Nat]

Books(s) ==
  /\ s.minted = s.holds["shopper"] + s.holds["other"]
  /\ s.minted <= MaxSupply
  /\ s.till = 2 * Purse - (s.purse["shopper"] + s.purse["other"])

LEMMA Sets ==
  /\ ShopTypeOK <=> /\ shop \in Shops /\ behind \in Shops /\ visit \in Visits
                    /\ posted \in Seq(Posts) /\ tally \in Tallies
  /\ SaleBalances <=> Books(shop)
  /\ ShopTypeOK' <=> /\ shop' \in Shops /\ behind' \in Shops /\ visit' \in Visits
                     /\ posted' \in Seq(Posts) /\ tally' \in Tallies
  /\ SaleBalances' <=> Books(shop')
BY DEF ShopTypeOK, Visits, Ats, Cards, Posts, Tallies, SaleBalances, Books

\* What one purchase makes of the item.
LEMMA BuyIs ==
  ASSUME NEW s \in Shops, NEW c \in Buyers, Sells(s, c), c = "shopper" => s.allowed >= s.price,
         Books(s)
  PROVE  /\ Buy(s, c) \in Shops /\ Books(Buy(s, c))
         /\ Buy(s, c).holds["shopper"] >= s.holds["shopper"]
         /\ c = "shopper" => Buy(s, c).holds["shopper"] > 0
<1> DEFINE n == Buy(s, c)
<1>1. MaxSupply \in Nat
  BY ShopAssumption
<1>2. /\ s.price \in 0 .. 2 /\ s.minted \in 0 .. MaxSupply /\ s.till \in Nat
      /\ s.holds \in [Buyers -> Nat] /\ s.purse \in [Buyers -> 0 .. 3] /\ s.allowed \in 0 .. 4
  BY DEF Shops, Prices, MaxPrice, Purse, Headroom
<1>3. s.minted + 1 <= MaxSupply /\ s.purse[c] >= s.price
  BY <1>1, <1>2 DEF Sells, SoldOut
<1>4. /\ s.minted + 1 \in 0 .. MaxSupply /\ s.till + s.price \in Nat
      /\ [s.holds EXCEPT ![c] = @ + 1] \in [Buyers -> Nat]
      /\ [s.purse EXCEPT ![c] = @ - s.price] \in [Buyers -> 0 .. Purse]
      /\ (IF c = "shopper" THEN s.allowed - s.price ELSE s.allowed) \in 0 .. Headroom * MaxPrice
  BY <1>1, <1>2, <1>3 DEF Purse, Headroom, MaxPrice
<1>5. n = [s EXCEPT !.minted = s.minted + 1, !.holds = [s.holds EXCEPT ![c] = @ + 1],
                    !.purse = [s.purse EXCEPT ![c] = @ - s.price], !.till = s.till + s.price,
                    !.allowed = IF c = "shopper" THEN s.allowed - s.price ELSE s.allowed]
  BY DEF Buy, Shops
<1>6. /\ n \in Shops /\ n.minted = s.minted + 1 /\ n.till = s.till + s.price
      /\ n.holds = [s.holds EXCEPT ![c] = @ + 1] /\ n.purse = [s.purse EXCEPT ![c] = @ - s.price]
  <2> HIDE DEF n
  <2>1. PICK m, h, u, t, a :
          /\ m = s.minted + 1 /\ t = s.till + s.price
          /\ h = [s.holds EXCEPT ![c] = @ + 1] /\ u = [s.purse EXCEPT ![c] = @ - s.price]
          /\ a = IF c = "shopper" THEN s.allowed - s.price ELSE s.allowed
    OBVIOUS
  <2>2. n = [s EXCEPT !.minted = m, !.holds = h, !.purse = u, !.till = t, !.allowed = a]
    BY <1>5, <2>1
  <2>3. /\ m \in 0 .. MaxSupply /\ t \in Nat /\ h \in [Buyers -> Nat]
        /\ u \in [Buyers -> 0 .. Purse] /\ a \in 0 .. Headroom * MaxPrice
    BY <1>4, <2>1
  <2>4. n \in Shops /\ n.minted = m /\ n.holds = h /\ n.purse = u /\ n.till = t
    BY <2>2, <2>3 DEF Shops
  <2> QED
    BY <2>1, <2>4
<1> HIDE DEF n
<1>8. /\ c = "shopper" \/ c = "other"
      /\ s.purse["shopper"] \in Nat /\ s.purse["other"] \in Nat
      /\ s.holds["shopper"] \in Nat /\ s.holds["other"] \in Nat
  BY <1>2 DEF Buyers
<1>9. Books(n) /\ n.holds["shopper"] >= s.holds["shopper"]
      /\ (c = "shopper" => n.holds["shopper"] > 0)
  <2>1. CASE c = "shopper"
    <3>1. /\ n.holds["shopper"] = s.holds["shopper"] + 1 /\ n.holds["other"] = s.holds["other"]
          /\ n.purse["shopper"] = s.purse["shopper"] - s.price /\ n.purse["other"] = s.purse["other"]
      BY <2>1, <1>2, <1>6 DEF Buyers
    <3> QED
      BY <2>1, <3>1, <1>1, <1>2, <1>3, <1>6, <1>8 DEF Books, Purse
  <2>2. CASE c = "other"
    BY <2>2, <1>1, <1>2, <1>3, <1>6, <1>8 DEF Books, Buyers, Purse
  <2> QED
    BY <2>1, <2>2, <1>8
<1> QED
  BY <1>6, <1>9 DEF n

LEMMA ShopStarts == ShopInit => SInv
<1> SUFFICES ASSUME ShopInit PROVE SInv
  OBVIOUS
<1>1. MaxSupply \in Nat
  BY ShopAssumption
<1>2. shop \in Shops /\ Books(shop) /\ shop.holds["shopper"] = 0
  BY <1>1 DEF ShopInit, CreateItem, Shops, Books, Prices, MaxPrice, Purse, Headroom, Buyers, Fallback
<1>3. visit \in Visits
  BY <1>1 DEF ShopInit, AwayFromShop, NoCard, Visits, Cards, Ats, Prices, MaxPrice, MaxTries
<1>4. posted \in Seq(Posts) /\ tally \in Tallies
  BY DEF ShopInit, Tallies
<1> QED
  BY <1>2, <1>3, <1>4, Sets DEF ShopInit, SInv, ShopTold, Latest, Charged, Pressed, Approval, Exact,
     AwayFromShop, NoCard

\* A change of the item that takes nothing from the shopper.
LEMMA ChainKeeps ==
  ASSUME SInv, NEW s \in Shops, Books(s), s.holds["shopper"] >= shop.holds["shopper"],
         Edit, Change(s), UNCHANGED <<visit, posted>>
  PROVE  SInv'
<1>1. shop' = s /\ behind' = shop /\ visit' = visit /\ posted' = posted
  BY DEF Change
<1>2. /\ tally' \in Tallies /\ tally'.bought = tally.bought /\ tally'.won = tally.won
      /\ tally'.presses = tally.presses /\ tally'.slips = tally.slips
  BY Sets DEF Edit, SInv, Tallies
<1>3. shop.holds["shopper"] \in Nat /\ s.holds["shopper"] \in Nat
  BY Sets DEF SInv, Shops, Buyers
<1>4. ShopTypeOK'
  BY <1>1, <1>2, Sets DEF SInv
<1>5. ShopTold'
  BY <1>1, <1>3, Sets DEF SInv, ShopTold
<1> QED
  BY <1>1, <1>2, <1>4, <1>5 DEF SInv, Latest, Charged, Pressed, Approval, Exact

\* A step of the page.
LEMMA PageKeeps ==
  ASSUME SInv, UNCHANGED <<shop, behind>>, visit' \in Visits, posted' \in Seq(Posts), tally' \in Tallies,
         visit'.card.owned => shop.holds["shopper"] > 0,
         visit'.at = "paying" /\ posted' = <<>> /\ visit'.landed => shop.holds["shopper"] > 0,
         Latest', Charged', tally'.slips = 0 => Exact'
  PROVE  SInv'
BY Sets DEF SInv, ShopTold

LEMMA Typed ==
  ASSUME SInv
  PROVE  /\ shop \in Shops /\ behind \in Shops /\ visit \in Visits
         /\ posted \in Seq(Posts) /\ tally \in Tallies
         /\ Len(posted) \in Nat /\ (posted = <<>> <=> Len(posted) = 0)
         /\ MaxSupply \in Nat /\ MaxTries \in Nat \ {0}
BY Sets, ShopAssumption, EmptySeq DEF SInv, MaxTries

LEMMA Vis ==
  ASSUME SInv
  PROVE  /\ visit \in Visits
         /\ 0 \in 0 .. MaxTries /\ MaxTries \in 0 .. MaxTries
         /\ \A n \in 0 .. MaxTries : n > 0 => n - 1 \in 0 .. MaxTries
         /\ {"away", "rest", "checking", "approve", "approving", "pay", "paying"} = Ats
BY Typed DEF MaxTries, Ats

\* What was sent is the last of what is under way.
LEMMA Posting ==
  ASSUME SInv, visit.at \in {"approve", "pay"}, Submitted
  PROVE  /\ posted' \in Seq(Posts) /\ posted' # <<>> /\ Len(posted') = Len(posted) + 1
         /\ posted'[Len(posted')].kind = IF visit.at = "approve" THEN "approve" ELSE "buy"
<1>1. TxOf \in Posts /\ TxOf.kind = IF visit.at = "approve" THEN "approve" ELSE "buy"
  <2>1. PurchaseCost(visit.card) \in 0 .. 2
    BY Typed DEF PurchaseCost, Visits, Cards, Prices, MaxPrice, Fallback
  <2>2. 2 * PurchaseCost(visit.card) \in 0 .. 4
    BY <2>1
  <2> QED
    BY <2>2 DEF TxOf, Posts, Headroom, MaxPrice
<1>2. posted' = Append(posted, TxOf) /\ posted \in Seq(Posts)
  BY Typed DEF Submitted
<1>3. /\ Append(posted, TxOf) \in Seq(Posts) /\ Append(posted, TxOf) # <<>>
      /\ Len(Append(posted, TxOf)) = Len(posted) + 1
      /\ Append(posted, TxOf)[Len(posted) + 1] = TxOf
  BY <1>1, <1>2, AppendProperties
<1> QED
  BY <1>1, <1>2, <1>3

LEMMA SlipIs ==
  ASSUME SInv, Slip
  PROVE  /\ tally' \in Tallies /\ tally'.slips = tally.slips + 1 /\ tally'.slips # 0
         /\ tally'.bought = tally.bought /\ tally'.presses = tally.presses
BY Typed DEF Slip, Tallies

LEMMA MineKeeps == ASSUME SInv, MineNext PROVE SInv'
<1>1. PICK t, n : t = posted[1] /\ n = Len(posted) /\ n \in Nat \ {0} /\ posted' = Tail(posted)
  BY Typed DEF MineNext
<1>2. /\ t \in Posts /\ posted' \in Seq(Posts) /\ Len(posted') = n - 1
      /\ (posted' # <<>> => posted'[Len(posted')] = posted[n]) /\ (posted' = <<>> <=> n = 1)
  <2>1. posted \in Seq(Posts) /\ posted # <<>>
    BY <1>1, Typed
  <2>2. /\ Tail(posted) \in Seq(Posts) /\ Len(Tail(posted)) = n - 1
        /\ \A i \in 1 .. Len(Tail(posted)) : Tail(posted)[i] = posted[i + 1]
    BY <1>1, <2>1, HeadTailProperties
  <2>3. 1 \in 1 .. n /\ n - 1 \in Nat
    BY <1>1
  <2>4. t \in Posts
    BY <1>1, <2>1, <2>3
  <2>5. Tail(posted) = <<>> <=> n - 1 = 0
    BY <2>2, <2>3, EmptySeq
  <2>6. n - 1 # 0 => Tail(posted)[n - 1] = posted[n]
    <3> SUFFICES ASSUME n - 1 # 0 PROVE Tail(posted)[n - 1] = posted[n]
      OBVIOUS
    <3>1. n - 1 \in 1 .. Len(Tail(posted)) /\ (n - 1) + 1 = n
      BY <1>1, <2>2, <2>3
    <3> QED
      BY <2>2, <3>1
  <2> QED
    BY <1>1, <2>2, <2>3, <2>4, <2>5, <2>6
<1>3. Head(posted) = t
  BY <1>1
<1>4. PICK fits \in BOOLEAN : fits = (t.kind = "approve" \/ Buyable(shop))
  OBVIOUS
<1>5. /\ IF ~fits THEN UNCHANGED <<shop, behind>>
         ELSE Change(IF t.kind = "buy" THEN Buy(shop, "shopper") ELSE [shop EXCEPT !.allowed = t.amount])
      /\ visit' = [visit EXCEPT !.landed = fits /\ visit.at \in {"approving", "paying"}]
      /\ tally' = IF t.kind = "buy" /\ fits THEN [tally EXCEPT !.bought = @ + 1] ELSE tally
  BY <1>3, <1>4 DEF MineNext
<1>6. t.kind \in {"approve", "buy"} /\ t.amount \in 0 .. Headroom * MaxPrice
  BY <1>2 DEF Posts
<1>7. /\ visit' \in Visits /\ visit'.at = visit.at /\ visit'.card = visit.card
      /\ (visit.at \in {"approving", "paying"} => visit'.landed = fits)
  BY <1>4, <1>5, Typed DEF Visits
<1>8. PICK b \in {0, 1} : /\ b = IF t.kind = "buy" /\ fits THEN 1 ELSE 0
                          /\ tally' \in Tallies /\ tally'.bought = tally.bought + b
                          /\ tally'.won = tally.won /\ tally'.presses = tally.presses
                          /\ tally'.slips = tally.slips
  <2>1. CASE t.kind = "buy" /\ fits
    BY <2>1, <1>5, Typed DEF Tallies
  <2>2. CASE ~(t.kind = "buy" /\ fits)
    BY <2>2, <1>5, Typed DEF Tallies
  <2> QED
    BY <2>1, <2>2
<1>9. /\ shop' \in Shops /\ behind' \in Shops /\ Books(shop')
      /\ behind'.holds["shopper"] <= shop'.holds["shopper"]
      /\ shop'.holds["shopper"] >= shop.holds["shopper"]
      /\ (b = 1 => shop'.holds["shopper"] > 0)
  <2>1. shop.holds["shopper"] \in Nat /\ behind.holds["shopper"] \in Nat /\ Books(shop)
    BY Typed, Sets DEF Shops, Buyers, SInv, ShopTold
  <2>2. CASE ~fits
    BY <2>1, <2>2, <1>5, <1>8, Typed DEF SInv, ShopTold
  <2>3. CASE fits /\ t.kind = "buy"
    <3>1. Sells(shop, "shopper") /\ shop.allowed >= shop.price
      BY <2>3, <1>4 DEF Buyable
    <3>2. shop' = Buy(shop, "shopper") /\ behind' = shop
      BY <2>3, <1>5 DEF Change
    <3> QED
      BY <2>1, <3>1, <3>2, BuyIs, Typed DEF Buyers
  <2>4. CASE fits /\ t.kind # "buy"
    <3>1. shop' = [shop EXCEPT !.allowed = t.amount] /\ behind' = shop
      BY <2>4, <1>5 DEF Change
    <3>2. /\ shop' \in Shops /\ shop'.holds = shop.holds /\ shop'.minted = shop.minted
          /\ shop'.till = shop.till /\ shop'.purse = shop.purse
      BY <3>1, <1>6, Typed DEF Shops
    <3> QED
      BY <2>1, <2>4, <3>1, <3>2, <1>8, Typed DEF Books
  <2> QED
    BY <2>2, <2>3, <2>4
<1>10. n = 1 => t = posted[n]
  BY <1>1
<1>11. ShopTold'
  <2>1. visit'.at = "paying" /\ posted' = <<>> /\ visit'.landed => b = 1
    BY <1>1, <1>2, <1>7, <1>8, <1>10 DEF SInv, Latest
  <2>2. shop.holds["shopper"] \in Nat /\ shop'.holds["shopper"] \in Nat
    BY <1>9, Typed DEF Shops, Buyers
  <2> QED
    BY <1>7, <1>9, <2>1, <2>2, Sets DEF SInv, ShopTold
<1>12. Latest'
  BY <1>1, <1>2, <1>7 DEF SInv, Latest
<1>13. Charged'
  <2>1. tally.bought + n + Pressed <= tally.presses + tally.slips + Approval
    BY <1>1 DEF SInv, Charged
  <2>2. Pressed' = Pressed /\ Pressed \in Nat
    BY <1>7 DEF Pressed
  <2>3. Approval' = Approval \/ (Approval = 1 /\ Approval' = 0 /\ b = 0)
    BY <1>1, <1>2, <1>6, <1>7, <1>8, <1>10 DEF Approval, SInv, Latest
  <2>4. /\ tally.bought \in Nat /\ tally.presses \in Nat /\ tally.slips \in Nat
        /\ Approval \in Nat /\ Approval' \in Nat
    BY Typed DEF Tallies, Approval
  <2>5. PICK p, a, x, w, z : /\ p = Pressed /\ a = Approval /\ x = Approval' /\ w = tally.bought
                             /\ z = tally.presses + tally.slips
    OBVIOUS
  <2>6. w + b + (n - 1) + p <= z + x
    <3>1. b \in {0, 1} /\ p \in Nat /\ a \in Nat /\ x \in Nat /\ w \in Nat /\ z \in Nat /\ n \in Nat
      BY <2>2, <2>4, <2>5, <1>1, <1>8
    <3>2. w + n + p <= z + a /\ (x = a \/ (a = 1 /\ x = 0 /\ b = 0))
      BY <2>1, <2>3, <2>5, <2>4
    <3> QED
      BY <3>1, <3>2
  <2> QED
    BY <2>2, <2>5, <2>6, <1>2, <1>8 DEF Charged
<1>14. tally'.slips = 0 => Exact'
  <2> SUFFICES ASSUME tally.slips = 0 PROVE Exact'
    BY <1>8
  <2>1. Exact /\ tally.bought \in Nat /\ tally.won \in Nat
    BY Typed DEF SInv, Tallies
  <2>2. visit.at \in {"approving", "paying"} /\ n = 1 /\ tally.bought = tally.won
    BY <1>1, <2>1, Typed DEF Exact
  <2>3. posted' = <<>> /\ Len(posted') = 0
    BY <1>1, <1>2, <2>2
  <2>4. t.kind = IF visit.at = "approving" THEN "approve" ELSE "buy"
    BY <1>1, <1>10, <2>2 DEF SInv, Latest
  <2>5. CASE visit.at = "approving"
    BY <2>1, <2>2, <2>3, <2>4, <2>5, <1>7, <1>8 DEF Exact
  <2>6. CASE visit.at = "paying"
    <3>1. b = IF visit'.landed THEN 1 ELSE 0
      BY <2>4, <2>6, <1>7, <1>8, <1>4
    <3> QED
      BY <2>1, <2>2, <2>3, <2>6, <3>1, <1>7, <1>8 DEF Exact
  <2> QED
    BY <2>2, <2>5, <2>6
<1> QED
  BY <1>2, <1>7, <1>8, <1>9, <1>11, <1>12, <1>13, <1>14, Sets DEF SInv

LEMMA Rests ==
  ASSUME SInv, UNCHANGED <<shop, behind, posted>>, visit' \in Visits,
         visit'.at \in {"away", "rest"}, visit'.card.owned => shop.holds["shopper"] > 0,
         tally' \in Tallies, tally'.bought = tally.bought, tally'.presses = tally.presses,
         \/ tally'.slips = tally.slips + 1
         \/ /\ tally'.slips = tally.slips /\ (visit.at = "approving" => posted = <<>>)
            /\ tally.slips = 0 => posted = <<>> /\ tally.bought = tally'.won
  PROVE  SInv'
<1>1. Latest' /\ visit'.at # "paying"
  BY DEF Latest
<1>2. Charged'
  <2>1. tally.bought + Len(posted) + Pressed <= tally.presses + tally.slips + Approval
    BY DEF SInv, Charged
  <2>2. Pressed' = 0 /\ Approval' = 0 /\ Pressed \in Nat /\ Approval \in {0, 1}
        /\ (Approval = 1 => Pressed = 1 /\ visit.at = "approving" /\ posted # <<>>)
    BY DEF Pressed, Approval
  <2>3. tally.bought \in Nat /\ tally.presses \in Nat /\ tally.slips \in Nat /\ Len(posted) \in Nat
    BY Typed DEF Tallies
  <2>4. tally.bought + Len(posted) + 0 <= tally.presses + tally'.slips + 0
    BY <2>1, <2>2, <2>3
  <2> QED
    BY <2>2, <2>4 DEF Charged
<1>3. tally'.slips = 0 => Exact'
  BY Typed DEF Exact, Tallies
<1> QED
  BY <1>1, <1>2, <1>3, PageKeeps, Typed

\* The page starts a step of the purchase, with nothing new under way.
LEMMA Proceeds ==
  ASSUME SInv, UNCHANGED <<shop, behind, posted>>, visit' \in Visits, visit'.card = visit.card,
         visit'.at \in {"checking", "approve", "pay"}, tally' \in Tallies,
         tally'.bought = tally.bought, tally'.won = tally.won, tally'.slips = tally.slips,
         \/ /\ tally'.presses = tally.presses + 1 /\ visit.at = "rest"
         \/ /\ tally'.presses = tally.presses
            /\ \/ visit.at \in {"checking", "approve", "pay"}
               \/ visit.at = "approving" /\ posted = <<>>
  PROVE  SInv'
<1>1. Latest' /\ visit'.at # "paying" /\ (visit'.card.owned => shop.holds["shopper"] > 0)
  BY DEF Latest, SInv, ShopTold
<1>2. Charged'
  <2>1. tally.bought + Len(posted) + Pressed <= tally.presses + tally.slips + Approval
    BY DEF SInv, Charged
  <2>2. Pressed' = 1 /\ Approval' = 0 /\ Approval = 0
        /\ Pressed = IF visit.at = "rest" THEN 0 ELSE 1
    BY DEF Pressed, Approval
  <2>3. tally.bought \in Nat /\ tally.presses \in Nat /\ tally.slips \in Nat /\ Len(posted) \in Nat
    BY Typed DEF Tallies
  <2>4. tally.bought + Len(posted) + 1 <= tally'.presses + tally.slips + 0
    BY <2>1, <2>2, <2>3
  <2> QED
    BY <2>2, <2>4 DEF Charged
<1>3. tally'.slips = 0 => Exact'
  BY Typed DEF SInv, Exact
<1> QED
  BY <1>1, <1>2, <1>3, PageKeeps, Typed

\* Something more is under way: the page waits for it, or has lost its answer.
LEMMA Posts1Keeps ==
  ASSUME SInv, UNCHANGED <<shop, behind>>, visit.at \in {"approve", "pay"}, Submitted,
         visit' \in Visits, visit'.card = visit.card, tally' \in Tallies,
         tally'.bought = tally.bought, tally'.won = tally.won, tally'.presses = tally.presses,
         \/ /\ tally'.slips = tally.slips /\ visit'.landed = FALSE
            /\ visit'.at = IF visit.at = "approve" THEN "approving" ELSE "paying"
         \/ tally'.slips = tally.slips + 1 /\ visit'.at = visit.at
  PROVE  SInv'
<1>1. /\ posted' \in Seq(Posts) /\ posted' # <<>> /\ Len(posted') = Len(posted) + 1
      /\ posted'[Len(posted')].kind = IF visit.at = "approve" THEN "approve" ELSE "buy"
  BY Posting
<1>2. Latest' /\ (visit'.card.owned => shop.holds["shopper"] > 0)
  BY <1>1 DEF Latest, SInv, ShopTold
<1>3. Charged'
  <2>1. tally.bought + Len(posted) + Pressed <= tally.presses + tally.slips + Approval
    BY DEF SInv, Charged
  <2>2. Pressed = 1 /\ Approval = 0 /\ Approval' \in {0, 1} /\ Pressed' \in {0, 1}
        /\ (tally'.slips = tally.slips => Pressed' = Approval')
    BY <1>1, Typed DEF Pressed, Approval, Tallies
  <2>3. tally.bought \in Nat /\ tally.presses \in Nat /\ tally.slips \in Nat /\ Len(posted) \in Nat
    BY Typed DEF Tallies
  <2>4. PICK p, a, z : p = Pressed' /\ a = Approval' /\ z = tally'.slips
    OBVIOUS
  <2>5. tally.bought + (Len(posted) + 1) + p <= tally.presses + z + a
    <3>1. tally.bought + Len(posted) + 1 <= tally.presses + tally.slips + 0
      BY <2>1, <2>2
    <3>2. p \in {0, 1} /\ a \in {0, 1} /\ ((z = tally.slips /\ p = a) \/ z = tally.slips + 1)
      BY <2>2, <2>4
    <3>3. PICK b, l, q, s : /\ b = tally.bought /\ l = Len(posted) /\ q = tally.presses
                            /\ s = tally.slips
      OBVIOUS
    <3>4. b + (l + 1) + p <= q + z + a
      <4>1. b \in Nat /\ l \in Nat /\ q \in Nat /\ s \in Nat /\ b + l + 1 <= q + s + 0
        BY <2>3, <3>1, <3>3
      <4>2. (z = s /\ p = a) \/ z = s + 1
        BY <3>2, <3>3
      <4> QED
        BY <4>1, <4>2, <3>2
    <3> QED
      BY <3>3, <3>4
  <2> QED
    BY <1>1, <2>4, <2>5 DEF Charged
<1>4. tally'.slips = 0 => Exact'
  <2> SUFFICES ASSUME tally'.slips = 0 PROVE Exact'
    OBVIOUS
  <2>1. tally.slips = 0 /\ tally'.slips = tally.slips
    BY Typed DEF Tallies
  <2>2. Len(posted') = 1 /\ tally.bought = tally.won /\ tally.won \in Nat
    BY <1>1, <2>1, Typed DEF SInv, Exact, Tallies
  <2> QED
    BY <1>1, <2>1, <2>2, Typed DEF Exact, Tallies
<1> QED
  BY <1>1, <1>2, <1>3, <1>4, PageKeeps, Typed

LEMMA CardIs ==
  ASSUME SInv, NEW s \in Nodes
  PROVE  CardOf(s) \in Cards /\ (CardOf(s).owned => shop.holds["shopper"] > 0)
<1>1. s \in Shops /\ s.holds["shopper"] <= shop.holds["shopper"]
      /\ s.holds["shopper"] \in Nat /\ shop.holds["shopper"] \in Nat
  BY Typed DEF Nodes, SInv, ShopTold, Shops, Buyers
<1>2. MaxSupply - s.minted \in 0 .. MaxSupply /\ s.price \in Prices
  <2>1. s.minted \in 0 .. MaxSupply /\ s.price \in Prices
    BY <1>1 DEF Shops
  <2> QED
    BY <2>1, Typed
<1>3. s.holds["shopper"] > 0 => shop.holds["shopper"] > 0
  BY <1>1
<1>4. (s.holds["shopper"] > 0) \in BOOLEAN
  OBVIOUS
<1> QED
  BY <1>2, <1>3, <1>4 DEF CardOf, Cards

LEMMA ConfirmKeeps == ASSUME SInv, ConfirmTx PROVE SInv'
<1>1. /\ UNCHANGED <<shop, behind, posted>> /\ posted = <<>>
      /\ visit.at \in {"approving", "paying"}
  BY DEF ConfirmTx, Confirms
<1>2. CASE ~visit.landed /\ Fails /\ UNCHANGED tally
  <2>1. visit' \in Visits /\ visit'.at = "rest" /\ visit'.card = visit.card
    BY <1>2, Vis DEF Fails, ShowPage, Visits
  <2>2. tally.slips = 0 => tally.bought = tally.won
    BY <1>1, <1>2, Typed DEF SInv, Exact, Tallies
  <2> QED
    BY <1>1, <1>2, <2>1, <2>2, Rests, Typed DEF SInv, ShopTold
<1>3. CASE /\ visit.landed /\ visit.at = "approving" /\ UNCHANGED tally
           /\ ShowPage([visit EXCEPT !.at = "pay", !.tries = MaxTries, !.landed = FALSE])
  <2>1. visit' \in Visits /\ visit'.at = "pay" /\ visit'.card = visit.card
    BY <1>3, Vis DEF ShowPage, Visits
  <2> QED
    BY <1>1, <1>3, <2>1, Proceeds, Typed
<1>4. CASE /\ visit.landed /\ visit.at = "paying" /\ ShowPage(Bought(visit))
           /\ tally' = [tally EXCEPT !.won = @ + 1]
  <2>1. shop.holds["shopper"] > 0
    BY <1>1, <1>4 DEF SInv, ShopTold
  <2>2. visit' \in Visits /\ visit'.at = "rest"
    <3>1. [visit.card EXCEPT !.owned = TRUE] \in Cards
      BY Typed DEF Visits, Cards
    <3> QED
      BY <1>4, <3>1, Typed DEF ShowPage, Bought, Visits, Ats
  <2>3. /\ tally' \in Tallies /\ tally'.bought = tally.bought /\ tally'.won = tally.won + 1
        /\ tally'.presses = tally.presses /\ tally'.slips = tally.slips
    BY <1>4, Typed DEF Tallies
  <2>4. tally.slips = 0 => tally.bought = tally'.won
    BY <1>1, <1>4, <2>3 DEF SInv, Exact
  <2> QED
    BY <1>1, <2>1, <2>2, <2>3, <2>4, Rests
<1> QED
  BY <1>2, <1>3, <1>4 DEF ConfirmTx

LEMMA SendKeeps == ASSUME SInv, SendWithStaleRetry PROVE SInv'
<1>1. visit.at \in {"approve", "pay"} /\ UNCHANGED <<shop, behind>>
  BY DEF SendWithStaleRetry
<1>2. CASE /\ Submitted /\ UNCHANGED tally
           /\ ShowPage([visit EXCEPT !.at = IF @ = "approve" THEN "approving" ELSE "paying",
                              !.tries = 0, !.landed = FALSE])
  <2>1. /\ visit' \in Visits /\ visit'.landed = FALSE /\ visit'.card = visit.card
        /\ visit'.at = IF visit.at = "approve" THEN "approving" ELSE "paying"
    BY <1>2, Vis DEF ShowPage, Visits
  <2> QED
    BY <1>1, <1>2, <2>1, Posts1Keeps, Typed
<1>3. CASE /\ visit.tries > 0 /\ visit.at = "pay" /\ UNCHANGED <<posted, tally>>
           /\ ShowPage([visit EXCEPT !.tries = TriedAgain(@)])
  <2>1. visit' \in Visits /\ visit'.at = visit.at /\ visit'.card = visit.card
    BY <1>3, Vis DEF ShowPage, Visits, TriedAgain
  <2> QED
    BY <1>1, <1>3, <2>1, Proceeds, Typed
<1>4. CASE Fails /\ UNCHANGED <<posted, tally>>
  <2>1. visit' \in Visits /\ visit'.at = "rest" /\ visit'.card = visit.card
    BY <1>4, Vis DEF Fails, ShowPage, Visits
  <2>2. tally.slips = 0 => posted = <<>> /\ tally.bought = tally.won
    BY <1>1 DEF SInv, Exact
  <2> QED
    BY <1>1, <1>4, <2>1, <2>2, Rests, Typed DEF SInv, ShopTold
<1> QED
  BY <1>2, <1>3, <1>4 DEF SendWithStaleRetry

LEMMA LostKeeps == ASSUME SInv, AnswerLost PROVE SInv'
<1>1. /\ Slip /\ visit.at \in {"approve", "pay"} /\ visit.tries > 0 /\ Submitted
      /\ UNCHANGED <<shop, behind>>
  BY DEF AnswerLost
<1>2. visit' \in Visits /\ visit'.at = visit.at /\ visit'.card = visit.card
  BY <1>1, Vis DEF AnswerLost, ShowPage, Visits, TriedAgain
<1>3. tally'.won = tally.won
  BY <1>1, Typed DEF Slip, Tallies
<1> QED
  BY <1>1, <1>2, <1>3, SlipIs, Posts1Keeps

LEMMA Away == ASSUME MaxSupply \in Nat
              PROVE  AwayFromShop \in Visits /\ AwayFromShop.at = "away" /\ ~AwayFromShop.card.owned
BY DEF AwayFromShop, NoCard, Visits, Cards, Ats, Prices, MaxPrice, MaxTries

\* The page is opened, closed, refused by the wallet or gives up waiting.
LEMMA LeaveKeeps == ASSUME SInv, OpenShop \/ Declines \/ OutOfPatience \/ CloseShop PROVE SInv'
<1>0. UNCHANGED <<shop, behind, posted>>
  BY DEF OpenShop, Declines, OutOfPatience, CloseShop
<1>1. /\ visit' \in Visits /\ visit'.at \in {"away", "rest"}
      /\ (visit'.card.owned => shop.holds["shopper"] > 0)
  <2>1. CASE OpenShop
    <3>1. visit' = [AwayFromShop EXCEPT !.at = "rest", !.reading = TRUE]
      BY <2>1 DEF OpenShop, ShowPage
    <3> QED
      BY <3>1, Away, Typed DEF Visits, Ats
  <2>2. CASE Fails
    <3>1. visit' \in Visits /\ visit'.at = "rest" /\ visit'.card = visit.card
      BY <2>2, Vis DEF Fails, ShowPage, Visits
    <3> QED
      BY <3>1 DEF SInv, ShopTold
  <2>3. CASE ShowPage(AwayFromShop)
    BY <2>3, Away, Typed DEF ShowPage
  <2> QED
    BY <2>1, <2>2, <2>3 DEF Declines, OutOfPatience, CloseShop
<1>2. CASE OutOfPatience
  <2>1. Slip
    BY <1>2 DEF OutOfPatience
  <2> QED
    BY <1>0, <1>1, <2>1, SlipIs, Rests
<1>3. CASE ~OutOfPatience
  <2>1. UNCHANGED tally /\ visit.at \notin {"approving", "paying"}
    BY <1>3 DEF OpenShop, Declines, CloseShop
  <2>2. tally.slips = 0 => posted = <<>> /\ tally.bought = tally.won
    BY <2>1 DEF SInv, Exact
  <2> QED
    BY <1>0, <1>1, <2>1, <2>2, Rests, Typed
<1> QED
  BY <1>2, <1>3

LEMMA ReadKeeps == ASSUME SInv, Reread PROVE SInv'
<1>1. PICK s \in Nodes : visit' = [visit EXCEPT !.reading = FALSE, !.card = CardOf(s)]
  BY DEF Reread, ShowPage
<1>2. /\ visit' \in Visits /\ visit'.at = visit.at /\ visit'.landed = visit.landed
      /\ (visit'.card.owned => shop.holds["shopper"] > 0)
  <2>1. CardOf(s) \in Cards /\ (CardOf(s).owned => shop.holds["shopper"] > 0)
    BY CardIs
  <2> QED
    BY <1>1, <2>1, Typed DEF Visits
<1>3. UNCHANGED <<shop, behind, posted, tally>>
  BY DEF Reread
<1>4. Latest' /\ Charged' /\ (tally'.slips = 0 => Exact')
  BY <1>2, <1>3 DEF SInv, Latest, Charged, Pressed, Approval, Exact
<1> QED
  BY <1>2, <1>3, <1>4, PageKeeps, Typed DEF SInv, ShopTold

LEMMA StartKeeps == ASSUME SInv, PressBuy \/ CheckAllowance PROVE SInv'
<1>1. CASE PressBuy
  <2>1. visit' \in Visits /\ visit'.at = "checking" /\ visit'.card = visit.card
    BY <1>1, Vis DEF PressBuy, ShowPage, Visits
  <2>2. /\ tally' \in Tallies /\ tally'.presses = tally.presses + 1 /\ tally'.bought = tally.bought
        /\ tally'.won = tally.won /\ tally'.slips = tally.slips
    BY <1>1, Typed DEF PressBuy, Tallies
  <2> QED
    BY <1>1, <2>1, <2>2, Proceeds DEF PressBuy
<1>2. CASE CheckAllowance
  <2>1. visit' \in Visits /\ visit'.at \in {"approve", "pay"} /\ visit'.card = visit.card
    BY <1>2, Vis DEF CheckAllowance, ShowPage, Visits
  <2> QED
    BY <1>2, <2>1, Proceeds, Typed DEF CheckAllowance
<1> QED
  BY <1>1, <1>2

LEMMA SaleKeeps ==
  ASSUME SInv, (\E p \in Prices : SetItemPrice(p)) \/ (\E c \in Buyers : OwnerMint(c)) \/ OtherBuys
  PROVE  SInv'
<1>0. Books(shop) /\ shop \in Shops /\ shop.holds["shopper"] \in Nat
  BY Typed, Sets DEF SInv, ShopTold, Shops, Buyers
<1>1. ASSUME NEW p \in Prices, SetItemPrice(p) PROVE SInv'
  <2>1. PICK n : n = [shop EXCEPT !.price = p]
    OBVIOUS
  <2>2. n \in Shops /\ Books(n) /\ n.holds = shop.holds
    BY <1>0, <1>1, <2>1 DEF Shops, Books
  <2>3. Edit /\ Change(n) /\ UNCHANGED <<visit, posted>>
    BY <1>1, <2>1 DEF SetItemPrice
  <2>4. n.holds["shopper"] >= shop.holds["shopper"]
    BY <1>0, <2>2
  <2> QED
    BY <2>2, <2>3, <2>4, ChainKeeps
<1>2. ASSUME NEW c \in Buyers, OwnerMint(c) PROVE SInv'
  <2>1. PICK n : n = [shop EXCEPT !.minted = @ + 1, !.holds[c] = @ + 1]
    OBVIOUS
  <2>0. shop.minted \in Nat /\ MaxSupply \in Nat
    BY <1>0, Typed DEF Shops
  <2>2. Edit /\ Change(n) /\ UNCHANGED <<visit, posted>> /\ shop.minted + 1 <= MaxSupply
    <3>1. Edit /\ Change(n) /\ UNCHANGED <<visit, posted>> /\ ~SoldOut(shop)
      BY <1>2, <2>1 DEF OwnerMint
    <3> QED
      BY <2>0, <3>1 DEF SoldOut
  <2>3. PICK m, h : m = shop.minted + 1 /\ h = [shop.holds EXCEPT ![c] = @ + 1]
    OBVIOUS
  <2>4. n = [shop EXCEPT !.minted = m, !.holds = h]
    BY <2>1, <2>3, <1>0 DEF Shops
  <2>5. m \in 0 .. MaxSupply /\ h \in [Buyers -> Nat]
    <3>1. shop.holds \in [Buyers -> Nat]
      BY <1>0 DEF Shops
    <3> QED
      BY <2>0, <2>2, <2>3, <1>2, <3>1
  <2>6. /\ n \in Shops /\ n.minted = m /\ n.holds = h /\ n.till = shop.till /\ n.purse = shop.purse
    BY <2>4, <2>5, <1>0 DEF Shops
  <2>7. /\ c = "shopper" \/ c = "other"
        /\ shop.holds["shopper"] \in Nat /\ shop.holds["other"] \in Nat /\ shop.minted \in Nat
    BY <1>0, <1>2, <2>0 DEF Shops, Buyers
  <2>8. h["shopper"] + h["other"] = shop.holds["shopper"] + shop.holds["other"] + 1
        /\ h["shopper"] >= shop.holds["shopper"]
    BY <1>2, <2>3, <2>7, <1>0 DEF Shops, Buyers
  <2>9. Books(n)
    BY <2>2, <2>3, <2>6, <2>7, <2>8, <1>0 DEF Books
  <2> QED
    BY <2>2, <2>6, <2>8, <2>9, ChainKeeps
<1>3. ASSUME OtherBuys PROVE SInv'
  <2>1. Sells(shop, "other") /\ Edit /\ Change(Buy(shop, "other")) /\ UNCHANGED <<visit, posted>>
    BY <1>3 DEF OtherBuys
  <2>2. "other" \in Buyers /\ "other" # "shopper"
    BY DEF Buyers
  <2>3. Buy(shop, "other") \in Shops /\ Books(Buy(shop, "other"))
        /\ Buy(shop, "other").holds["shopper"] >= shop.holds["shopper"]
    BY <1>0, <2>1, <2>2, BuyIs
  <2> QED
    BY <2>1, <2>3, ChainKeeps
<1> QED
  BY <1>1, <1>2, <1>3

LEMMA ShopStepKeeps == SInv /\ [ShopNext]_shopVars => SInv'
<1> SUFFICES ASSUME SInv, [ShopNext]_shopVars PROVE SInv'
  OBVIOUS
<1>1. CASE NodeSettles
  <2>1. behind' = shop /\ UNCHANGED <<shop, visit, posted, tally>>
    BY <1>1 DEF NodeSettles
  <2>2. shop.holds["shopper"] \in Nat
    BY Typed DEF Shops, Buyers
  <2>3. ShopTypeOK' /\ ShopTold'
    BY <2>1, <2>2, Typed, Sets DEF SInv, ShopTold
  <2> QED
    BY <2>1, <2>3 DEF SInv, Latest, Charged, Pressed, Approval, Exact
<1>2. CASE UNCHANGED shopVars
  <2>1. UNCHANGED <<shop, behind, visit, posted, tally>>
    BY <1>2 DEF shopVars
  <2> QED
    BY <2>1, Typed, Sets DEF SInv, ShopTold, Latest, Charged, Pressed, Approval, Exact
<1> QED
  BY <1>1, <1>2, SaleKeeps, MineKeeps, LeaveKeeps, ReadKeeps, StartKeeps, SendKeeps, ConfirmKeeps,
     LostKeeps DEF ShopNext, PageStep

LEMMA SInvSays == SInv => ShopInv
<1> SUFFICES ASSUME SInv PROVE ShopInv
  OBVIOUS
<1>1. tally.bought <= tally.presses + tally.slips
  <2>1. tally.bought + Len(posted) + Pressed <= tally.presses + tally.slips + Approval
    BY DEF SInv, Charged
  <2>2. Pressed \in {0, 1} /\ Approval \in {0, 1} /\ (Approval = 1 => Pressed = 1)
    BY DEF Pressed, Approval
  <2>3. tally.bought \in Nat /\ tally.presses \in Nat /\ tally.slips \in Nat /\ Len(posted) \in Nat
    BY Typed DEF Tallies
  <2> QED
    BY <2>1, <2>2, <2>3
<1>2. tally.slips = 0 /\ ~Busy => posted = <<>> /\ tally.bought = tally.won
  BY DEF SInv, Exact, Busy
<1> QED
  BY <1>1, <1>2 DEF ShopInv, SInv, ShopTold, ShownAsOwned, FailureTakesNothing, PressBuysOnce

\* Whatever the price, the supply, the nodes and the wallet do, and however often a
\* purchase is tried, the sale's books balance, the page's card tells the truth and
\* a shopper pays once for a press, and for each answer lost (tx.ts, Cosmetics.sol).
THEOREM ShopHolds == ShopSpec => []ShopInv
<1>1. ShopSpec => []SInv
  BY ShopStarts, ShopStepKeeps, PTL DEF ShopSpec
<1> QED
  BY <1>1, SInvSays, PTL

-----------------------------------------------------------------------------
(* The free games.                                                         *)

Sitting(a) == a.phase \in {"table", "over"}
Live(a) == a.phase \in {"searching", "table", "over"}
SeatKinds == {"matched", "ready"}

\* A message that seats p names a game of p at which p has no offer, with the
\* key p searched or offered with.
Posted(p, a, m, T, O) ==
  /\ m.table \in DOMAIN T /\ T[m.table].by[m.role + 1] = p
  /\ \A x \in O[m.table] : x.sock[1] # p
  /\ Sitting(a) => a.table # m.table
  /\ (m.kind = "matched" /\ a.phase = "searching") => T[m.table].keys[m.role + 1] = a.key
  /\ (m.kind = "ready" /\ Sitting(a)) =>
       a.asks >= 1 /\ (a.asks = 1 => T[m.table].keys[m.role + 1] = a.next)

\* A page at a table holds its seat's key.
SeatOf(p, a, T) ==
  Sitting(a) => /\ a.table \in DOMAIN T
                /\ (a.key[2] <= 1 => /\ T[a.table].by[a.role + 1] = p
                                     /\ T[a.table].keys[a.role + 1] = a.key)

\* Requests and offers come from connections that were; those of the last one
\* say what the page says.
Asking(p, a, k, R) ==
  \A r \in R : r.sock[1] = p =>
    r.sock[2] <= k /\ ((r.sock[2] = k /\ Live(a)) => a.phase = "searching" /\ r.key = a.key)

Offering(p, a, k, O) ==
  \A t \in DOMAIN O : \A x \in O[t] : x.sock[1] = p =>
    /\ x.sock[2] <= k
    /\ (Sitting(a) /\ a.table = t) => a.asks >= 1
    /\ (x.sock[2] = k /\ Live(a)) => a.phase = "over" /\ a.table = t /\ x.key = a.next

Told(p, a, box, T, O) ==
  \A i \in DOMAIN box : box[i].kind \in SeatKinds => Posted(p, a, box[i], T, O)

\* One player: page a, connections k, inbox box.
PlayerOK(p, a, k, box, T, O, R) ==
  /\ a.next[2] = a.asks /\ (Live(a) => k >= 1) /\ (a.phase = "idle" => box = <<>>)
  /\ SeatOf(p, a, T) /\ Asking(p, a, k, R) /\ Offering(p, a, k, O) /\ Told(p, a, box, T, O)

Asked == rating \cup queue

\* Players who meet for stakes do not search.
NoSearch == staked => Asked = {} /\ \A p \in Friends : app[p].phase # "searching"

QInv ==
  /\ QuickTypeOK /\ TwoPlayers /\ NoSearch
  /\ \A p \in Friends : PlayerOK(p, app[p], sock[p], inbox[p], tables, offers, Asked)

-----------------------------------------------------------------------------
(* What leaves a player's part of the invariant alone.                     *)

\* Games stay; p offers and asks for nothing new.
Grown(T, T2) == /\ DOMAIN T \subseteq DOMAIN T2
                /\ \A t \in DOMAIN T : T2[t].by = T[t].by /\ T2[t].keys = T[t].keys
FewerOffers(p, O, O2) ==
  \A t \in DOMAIN O2 : \A x \in O2[t] : x.sock[1] = p => t \in DOMAIN O /\ x \in O[t]
FewerAsks(p, R, R2) == \A r \in R2 : r.sock[1] = p => r \in R
\* Nothing new in the inbox but seats that are right.
Delivered(p, a, b, b2, T, O) ==
  \A i \in DOMAIN b2 : b2[i].kind \in SeatKinds =>
    Posted(p, a, b2[i], T, O) \/ \E j \in DOMAIN b : b[j] = b2[i]

LEMMA PostedStays ==
  ASSUME NEW p, NEW a, NEW m, NEW T, NEW O, NEW T2, NEW O2, Posted(p, a, m, T, O),
         Grown(T, T2), FewerOffers(p, O, O2), DOMAIN O = DOMAIN T, DOMAIN O2 = DOMAIN T2
  PROVE  Posted(p, a, m, T2, O2)
<1>1. m.table \in DOMAIN T /\ m.table \in DOMAIN T2
  BY DEF Posted, Grown
<1>2. T2[m.table].by = T[m.table].by /\ T2[m.table].keys = T[m.table].keys
  BY <1>1 DEF Grown
<1>3. \A x \in O2[m.table] : x.sock[1] # p
  BY <1>1 DEF Posted, FewerOffers
<1> QED
  BY <1>1, <1>2, <1>3 DEF Posted

LEMMA OthersMove ==
  ASSUME NEW p, NEW a, NEW k, NEW b, NEW T, NEW O, NEW R, PlayerOK(p, a, k, b, T, O, R),
         NEW b2, NEW T2, NEW O2, NEW R2, DOMAIN O = DOMAIN T, DOMAIN O2 = DOMAIN T2,
         Grown(T, T2), FewerOffers(p, O, O2), FewerAsks(p, R, R2),
         a.phase = "idle" => b2 = <<>>, Delivered(p, a, b, b2, T2, O2)
  PROVE  PlayerOK(p, a, k, b2, T2, O2, R2)
<1>1. SeatOf(p, a, T2)
  BY DEF PlayerOK, SeatOf, Grown
<1>2. Asking(p, a, k, R2)
  BY DEF PlayerOK, Asking, FewerAsks
<1>3. Offering(p, a, k, O2)
  BY DEF PlayerOK, Offering, FewerOffers
<1>4. Told(p, a, b2, T2, O2)
  <2> SUFFICES ASSUME NEW i \in DOMAIN b2, b2[i].kind \in SeatKinds, ~Posted(p, a, b2[i], T2, O2)
               PROVE  FALSE
    BY DEF Told
  <2>1. PICK j \in DOMAIN b : b[j] = b2[i]
    BY DEF Delivered
  <2>2. Posted(p, a, b2[i], T, O)
    BY <2>1 DEF PlayerOK, Told
  <2> QED
    BY <2>2, PostedStays
<1> QED
  BY <1>1, <1>2, <1>3, <1>4 DEF PlayerOK

\* A page that closes its connection: nothing seats it.
LEMMA Closes ==
  ASSUME NEW p, NEW a, NEW k, NEW b, NEW T, NEW O, NEW R, PlayerOK(p, a, k, b, T, O, R),
         NEW a2, NEW b2, ~Live(a2), a2.next[2] = a2.asks, a2.phase = "idle" => b2 = <<>>,
         \A i \in DOMAIN b2 : \E j \in DOMAIN b : b[j] = b2[i]
  PROVE  PlayerOK(p, a2, k, b2, T, O, R)
<1>1. ~Sitting(a2) /\ a2.phase # "searching"
  BY DEF Live, Sitting
<1>2. SeatOf(p, a2, T) /\ Asking(p, a2, k, R) /\ Offering(p, a2, k, O)
  BY <1>1 DEF PlayerOK, SeatOf, Asking, Offering
<1>3. Told(p, a2, b2, T, O)
  <2> SUFFICES ASSUME NEW i \in DOMAIN b2, b2[i].kind \in SeatKinds
               PROVE  Posted(p, a2, b2[i], T, O)
    BY DEF Told
  <2>1. PICK j \in DOMAIN b : b[j] = b2[i]
    OBVIOUS
  <2>2. Posted(p, a, b2[i], T, O)
    BY <2>1 DEF PlayerOK, Told
  <2> QED
    BY <2>2, <1>1 DEF Posted
<1> QED
  BY <1>2, <1>3 DEF PlayerOK

\* A page at its table that hears of the game or the rematch.
LEMMA Hears ==
  ASSUME NEW p, NEW a, NEW k, NEW b, NEW T, NEW O, NEW R, PlayerOK(p, a, k, b, T, O, R),
         NEW a2, NEW b2, Sitting(a), Sitting(a2), a.phase = "over" => a2.phase = "over",
         a2.table = a.table, a2.role = a.role, a2.key = a.key, a2.asks = a.asks, a2.next = a.next,
         \A i \in DOMAIN b2 : \E j \in DOMAIN b : b[j] = b2[i]
  PROVE  PlayerOK(p, a2, k, b2, T, O, R)
<1>1. Live(a) /\ Live(a2) /\ a.phase # "searching" /\ a2.phase \notin {"searching", "idle"}
  BY DEF Live, Sitting
<1>2. SeatOf(p, a2, T)
  BY DEF PlayerOK, SeatOf
<1>3. Asking(p, a2, k, R)
  BY <1>1 DEF PlayerOK, Asking
<1>4. Offering(p, a2, k, O)
  BY <1>1 DEF PlayerOK, Offering
<1>5. Told(p, a2, b2, T, O)
  <2> SUFFICES ASSUME NEW i \in DOMAIN b2, b2[i].kind \in SeatKinds
               PROVE  Posted(p, a2, b2[i], T, O)
    BY DEF Told
  <2>1. PICK j \in DOMAIN b : b[j] = b2[i]
    OBVIOUS
  <2>2. Posted(p, a, b2[i], T, O)
    BY <2>1 DEF PlayerOK, Told
  <2> QED
    BY <2>2, <1>1 DEF Posted
<1> QED
  BY <1>1, <1>2, <1>3, <1>4, <1>5 DEF PlayerOK

\* A new connection, with the page a2 it serves.
LEMMA Connects ==
  ASSUME NEW p, NEW a, NEW k \in Nat, NEW b, NEW T, NEW O, NEW R, PlayerOK(p, a, k, b, T, O, R),
         NEW a2, NEW R2, Live(a2), a2.next[2] = a2.asks, SeatOf(p, a2, T),
         \A r \in R : r.sock[2] \in Nat, \A t \in DOMAIN O : \A x \in O[t] : x.sock[2] \in Nat,
         \A t \in DOMAIN O : \A x \in O[t] :
           (x.sock[1] = p /\ Sitting(a2) /\ a2.table = t) => a2.asks >= 1,
         \A r \in R2 : r.sock[1] = p =>
           r \in R \/ (r.sock[2] = k + 1 /\ a2.phase = "searching" /\ r.key = a2.key)
  PROVE  PlayerOK(p, a2, k + 1, <<>>, T, O, R2)
<1>1. Asking(p, a2, k + 1, R2)
  BY DEF PlayerOK, Asking
<1>2. Offering(p, a2, k + 1, O)
  BY DEF PlayerOK, Offering
<1>3. Told(p, a2, <<>>, T, O)
  BY DEF Told
<1> QED
  BY <1>1, <1>2, <1>3 DEF PlayerOK, Live

-----------------------------------------------------------------------------
(* Inboxes.                                                                *)

LEMMA Same ==
  ASSUME NEW p, NEW a, NEW b, NEW T, NEW O
  PROVE  Delivered(p, a, b, b, T, O)
BY DEF Delivered

LEMMA OneArrives ==
  ASSUME NEW p, NEW a, NEW b, NEW b2 \in Seq(Messages), NEW m \in Messages, NEW T, NEW O,
         Delivered(p, a, b, b2, T, O), m.kind \in SeatKinds => Posted(p, a, m, T, O)
  PROVE  Delivered(p, a, b, Append(b2, m), T, O) /\ Append(b2, m) \in Seq(Messages)
<1>1. PICK c : c = Append(b2, m)
  OBVIOUS
<1>2. c \in Seq(Messages) /\ Len(c) = Len(b2) + 1 /\ c[Len(b2) + 1] = m
      /\ \A i \in 1 .. Len(b2) : c[i] = b2[i]
  BY <1>1, AppendProperties
<1>3. Len(b2) \in Nat /\ DOMAIN b2 = 1 .. Len(b2) /\ DOMAIN c = 1 .. (Len(b2) + 1)
  BY <1>2, LenProperties
<1>4. ASSUME NEW i \in DOMAIN c, c[i].kind \in SeatKinds
      PROVE  Posted(p, a, c[i], T, O) \/ \E j \in DOMAIN b : b[j] = c[i]
  <2>1. CASE i = Len(b2) + 1
    BY <1>2, <1>4, <2>1
  <2>2. CASE i # Len(b2) + 1
    <3>1. i \in DOMAIN b2 /\ c[i] = b2[i]
      BY <1>2, <1>3, <2>2
    <3> QED
      BY <1>4, <3>1 DEF Delivered
  <2> QED
    BY <2>1, <2>2
<1> QED
  BY <1>1, <1>2, <1>4 DEF Delivered

LEMMA SentIs ==
  ASSUME NEW box \in [Friends -> Seq(Messages)], NEW s \in Sockets, NEW m \in Messages
  PROVE  /\ Sent(box, s, m) \in [Friends -> Seq(Messages)]
         /\ \A p \in Friends : Sent(box, s, m)[p] = IF p = s[1] /\ Reached(s) THEN Append(box[p], m)
                                                    ELSE box[p]
<1>1. s[1] \in Friends
  BY DEF Sockets
<1>2. \A b \in Seq(Messages) : Append(b, m) \in Seq(Messages)
  BY AppendProperties
<1> QED
  BY <1>1, <1>2 DEF Sent

LEMMA OthersIs ==
  ASSUME NEW box \in [Friends -> Seq(Messages)], NEW t, NEW s, NEW m \in Messages
  PROVE  /\ Others(box, t, s, m) \in [Friends -> Seq(Messages)]
         /\ \A p \in Friends : \/ Others(box, t, s, m)[p] = box[p]
                               \/ Connected(p) /\ Others(box, t, s, m)[p] = Append(box[p], m)
         /\ \A p \in Friends : s = Current(p) => Others(box, t, s, m)[p] = box[p]
<1>1. \A b \in Seq(Messages) : Append(b, m) \in Seq(Messages)
  BY AppendProperties
<1>2. PICK o : o = Others(box, t, s, m)
  OBVIOUS
<1>3. \A p \in Friends : o[p] = IF Current(p) \in room[t] \ {s} /\ Connected(p)
                                THEN Append(box[p], m) ELSE box[p]
  BY <1>2 DEF Others
<1>4. o \in [Friends -> Seq(Messages)]
  BY <1>1, <1>2, <1>3 DEF Others
<1> QED
  BY <1>2, <1>3, <1>4

LEMMA TailIn ==
  ASSUME NEW b \in Seq(Messages), b # <<>>
  PROVE  Tail(b) \in Seq(Messages) /\ \A i \in DOMAIN Tail(b) : \E j \in DOMAIN b : b[j] = Tail(b)[i]
<1>1. PICK c : c = Tail(b)
  OBVIOUS
<1>2. c \in Seq(Messages) /\ Len(c) = Len(b) - 1 /\ \A i \in 1 .. Len(c) : c[i] = b[i + 1]
  BY <1>1, HeadTailProperties
<1>3. DOMAIN b = 1 .. Len(b) /\ DOMAIN c = 1 .. Len(c) /\ Len(b) \in Nat /\ Len(c) \in Nat
  BY <1>2, LenProperties
<1>4. \A i \in DOMAIN c : i + 1 \in DOMAIN b /\ b[i + 1] = c[i]
  BY <1>2, <1>3
<1> QED
  BY <1>1, <1>2, <1>4

-----------------------------------------------------------------------------
(* Types.                                                                  *)

LEMMA QTypes ==
  ASSUME QInv
  PROVE  /\ app \in [Friends -> AppPages] /\ sock \in [Friends -> 0 .. MaxSockets]
         /\ inbox \in [Friends -> Seq(Messages)] /\ tables \in Seq(Games)
         /\ room \in Seq(SUBSET Sockets) /\ offers \in Seq(SUBSET Requests) /\ Asked \subseteq Requests
         /\ Len(room) = Len(tables) /\ Len(offers) = Len(tables) /\ Len(tables) <= MaxTables
         /\ DOMAIN tables = 1 .. Len(tables) /\ DOMAIN offers = DOMAIN tables
         /\ DOMAIN room = DOMAIN tables /\ Len(tables) \in Nat
         /\ MaxSockets \in Nat /\ MaxTables \in Nat
<1>1. tables \in Seq(Games) /\ room \in Seq(SUBSET Sockets) /\ offers \in Seq(SUBSET Requests)
  BY DEF QInv, QuickTypeOK
<1>2. DOMAIN tables = 1 .. Len(tables) /\ DOMAIN offers = 1 .. Len(offers) /\ DOMAIN room = 1 .. Len(room)
      /\ Len(tables) \in Nat
  BY <1>1, LenProperties
<1>3. app \in [Friends -> AppPages] /\ sock \in [Friends -> 0 .. MaxSockets]
      /\ inbox \in [Friends -> Seq(Messages)] /\ Asked \subseteq Requests
      /\ Len(room) = Len(tables) /\ Len(offers) = Len(tables) /\ Len(tables) <= MaxTables
  BY DEF QInv, QuickTypeOK, Asked
<1> QED
  BY <1>1, <1>2, <1>3, QuickAssumption

LEMMA QPlayer ==
  ASSUME QInv, NEW p \in Friends
  PROVE  /\ PlayerOK(p, app[p], sock[p], inbox[p], tables, offers, Asked)
         /\ app[p] \in AppPages /\ sock[p] \in 0 .. MaxSockets /\ sock[p] \in Nat
         /\ inbox[p] \in Seq(Messages)
<1>1. app[p] \in AppPages /\ sock[p] \in 0 .. MaxSockets /\ inbox[p] \in Seq(Messages)
  BY QTypes
<1>2. PlayerOK(p, app[p], sock[p], inbox[p], tables, offers, Asked)
  BY DEF QInv
<1> QED
  BY <1>1, <1>2

LEMMA Numbered ==
  ASSUME QInv
  PROVE  /\ \A r \in Asked : r.sock[2] \in Nat
         /\ \A t \in DOMAIN offers : \A x \in offers[t] : x \in Requests /\ x.sock[2] \in Nat
<1>1. ASSUME NEW r \in Requests PROVE r.sock[2] \in Nat
  <2>1. r.sock \in Friends \X (1 .. MaxSockets)
    BY <1>1 DEF Requests, Sockets
  <2>2. r.sock[2] \in 1 .. MaxSockets
    BY <2>1
  <2>3. MaxSockets \in Nat
    BY QuickAssumption
  <2> QED
    BY <2>2, <2>3
<1>2. \A t \in DOMAIN offers : offers[t] \subseteq Requests
  BY QTypes
<1> QED
  BY <1>1, <1>2, QTypes

LEMMA Unmoved ==
  ASSUME NEW T, NEW O, NEW R, NEW p
  PROVE  Grown(T, T) /\ FewerOffers(p, O, O) /\ FewerAsks(p, R, R)
BY DEF Grown, FewerOffers, FewerAsks

LEMMA SeqTyped ==
  ASSUME NEW S, NEW n \in Nat, NEW f \in [1 .. n -> S]
  PROVE  f \in Seq(S) /\ Len(f) = n
<1>1. f \in Seq(S)
  BY SeqDef
<1> QED
  BY <1>1, LenProperties

LEMMA QNext ==
  ASSUME QuickTypeOK', TwoPlayers', NoSearch',
         \A p \in Friends : PlayerOK(p, app'[p], sock'[p], inbox'[p], tables', offers', Asked')
  PROVE  QInv'
BY DEF QInv

-----------------------------------------------------------------------------
(* The server's steps.                                                     *)

LEMMA NoticeKeeps == ASSUME QInv, NEW s \in Sockets, Notice(s), UNCHANGED staked PROVE QInv'
<1>1. /\ linked' = linked \ {s} /\ queue' \subseteq queue /\ rating' = rating
      /\ offers' = [t \in DOMAIN offers |-> DropOffer(t, s)]
      /\ room' = [t \in DOMAIN room |-> room[t] \ {s}]
      /\ app' = app /\ sock' = sock /\ tables' = tables /\ reserved' = reserved /\ pools' = pools
      /\ inbox' = [p \in Friends |-> IF HearsDecline(p, s)
                     THEN Append(inbox[p], Msg("declined", app[p].table, 0)) ELSE inbox[p]]
  BY DEF Notice
<1>2. DOMAIN offers = 1 .. Len(tables) /\ DOMAIN room = 1 .. Len(tables) /\ DOMAIN tables = 1 .. Len(tables)
      /\ Len(tables) \in Nat
  BY QTypes
<1>3. \A t \in DOMAIN offers : offers[t] \in SUBSET Requests /\ room[t] \in SUBSET Sockets
  BY <1>2, QTypes
<1>4. offers' \in Seq(SUBSET Requests) /\ Len(offers') = Len(tables) /\ DOMAIN offers' = DOMAIN tables
  <2>1. offers' \in [1 .. Len(tables) -> SUBSET Requests]
    BY <1>1, <1>2, <1>3 DEF DropOffer
  <2> QED
    BY <1>2, <2>1, SeqTyped
<1>5. room' \in Seq(SUBSET Sockets) /\ Len(room') = Len(tables)
  <2>1. room' \in [1 .. Len(tables) -> SUBSET Sockets]
    BY <1>1, <1>2, <1>3
  <2> QED
    BY <1>2, <2>1, SeqTyped
<1>6. ASSUME NEW p \in Friends
      PROVE  /\ inbox'[p] \in Seq(Messages)
             /\ PlayerOK(p, app'[p], sock'[p], inbox'[p], tables', offers', Asked')
  <2>1. PICK m : m = Msg("declined", app[p].table, 0)
    OBVIOUS
  <2>2. m \in Messages /\ m.kind = "declined"
    <3>1. app[p].table \in 0 .. MaxTables
      BY QPlayer DEF AppPages
    <3> QED
      BY <2>1, <3>1 DEF Msg, Messages
  <2>3. \/ inbox'[p] = inbox[p]
        \/ app[p].phase # "idle" /\ inbox'[p] = Append(inbox[p], m)
    BY <1>1, <2>1 DEF HearsDecline
  <2>4. Delivered(p, app[p], inbox[p], inbox[p], tables, offers')
    BY Same
  <2>5. Delivered(p, app[p], inbox[p], inbox'[p], tables, offers') /\ inbox'[p] \in Seq(Messages)
    <3>1. m.kind \notin SeatKinds
      BY <2>2 DEF SeatKinds
    <3>2. Delivered(p, app[p], inbox[p], Append(inbox[p], m), tables, offers')
          /\ Append(inbox[p], m) \in Seq(Messages)
      BY <2>2, <2>4, <3>1, QPlayer, OneArrives
    <3> QED
      BY <2>3, <2>4, <3>2, QPlayer
  <2>6. FewerOffers(p, offers, offers')
    BY <1>1 DEF FewerOffers, DropOffer
  <2>7. FewerAsks(p, Asked, Asked')
    BY <1>1 DEF FewerAsks, Asked
  <2>8. app[p].phase = "idle" => inbox'[p] = <<>>
    BY <2>3, QPlayer DEF PlayerOK
  <2>9. PlayerOK(p, app[p], sock[p], inbox'[p], tables, offers', Asked')
    <3>1. PlayerOK(p, app[p], sock[p], inbox[p], tables, offers, Asked) /\ Grown(tables, tables)
          /\ DOMAIN offers = DOMAIN tables /\ DOMAIN offers' = DOMAIN tables
      BY <1>2, <1>4, QPlayer, Unmoved
    <3> QED
      BY <2>5, <2>6, <2>7, <2>8, <3>1, OthersMove
  <2> QED
    BY <1>1, <2>5, <2>9
<1>7. inbox' \in [Friends -> Seq(Messages)]
  BY <1>1, <1>6
<1>8. QuickTypeOK'
  BY <1>1, <1>4, <1>5, <1>7 DEF QInv, QuickTypeOK
<1>9. TwoPlayers' /\ NoSearch'
  BY <1>1 DEF QInv, TwoPlayers, NoSearch, Asked
<1> QED
  BY <1>6, <1>8, <1>9, QNext

\* Two games' players: what seating two of those who search makes of the rest.
LEMMA PairKeeps ==
  ASSUME QInv, NEW v \in Asked, NEW w \in Asked, Meet(v, w), OpenTable(v, w),
         offers' = Append(offers, {}), Seat(inbox, v, w, "matched"),
         rating' \subseteq rating, queue' \subseteq queue, UNCHANGED <<staked, app, sock, linked, reserved, pools>>
  PROVE  QInv'
<1>1. PICK n, g : n = Len(tables) + 1 /\ g = [keys |-> <<v.key, w.key>>, by |-> <<v.sock[1], w.sock[1]>>, over |-> FALSE]
  OBVIOUS
<1>2. v \in Requests /\ w \in Requests /\ v.sock[1] # w.sock[1]
  BY QTypes DEF Meet
<1>3. v.sock \in Sockets /\ w.sock \in Sockets /\ v.key \in Keys /\ w.key \in Keys
      /\ v.sock[1] \in Friends /\ w.sock[1] \in Friends
  BY <1>2 DEF Requests, Sockets
<1>4. g \in Games /\ g.by[1] = v.sock[1] /\ g.by[2] = w.sock[1] /\ g.keys[1] = v.key /\ g.keys[2] = w.key
  BY <1>1, <1>3 DEF Games
<1>5. /\ tables' = Append(tables, g) /\ room' = Append(room, {}) /\ Len(tables) < MaxTables
      /\ inbox' = Sent(Sent(inbox, v.sock, Msg("matched", n, 0)), w.sock, Msg("matched", n, 1))
  BY <1>1 DEF OpenTable, Seat
<1>6. n \in 1 .. MaxTables /\ n \in 0 .. MaxTables /\ n \notin DOMAIN tables
  BY <1>1, <1>5, QTypes
<1>7. /\ tables' \in Seq(Games) /\ Len(tables') = n /\ tables'[n] = g
      /\ DOMAIN tables' = 1 .. n /\ \A t \in DOMAIN tables : tables'[t] = tables[t]
  BY <1>1, <1>4, <1>5, QTypes, AppendProperties, LenProperties
<1>8. /\ offers' \in Seq(SUBSET Requests) /\ Len(offers') = n /\ offers'[n] = {}
      /\ DOMAIN offers' = 1 .. n /\ \A t \in DOMAIN tables : offers'[t] = offers[t]
  <2>1. {} \in SUBSET Requests
    OBVIOUS
  <2> QED
    BY <1>1, <2>1, QTypes, AppendProperties, LenProperties
<1>9. room' \in Seq(SUBSET Sockets) /\ Len(room') = n
  <2>1. {} \in SUBSET Sockets
    OBVIOUS
  <2> QED
    BY <1>1, <1>5, <2>1, QTypes, AppendProperties, LenProperties
<1>10. PICK m0, m1 : m0 = Msg("matched", n, 0) /\ m1 = Msg("matched", n, 1)
  OBVIOUS
<1>11. /\ m0 \in Messages /\ m0.kind = "matched" /\ m0.table = n /\ m0.role = 0
       /\ m1 \in Messages /\ m1.kind = "matched" /\ m1.table = n /\ m1.role = 1
  BY <1>6, <1>10 DEF Msg, Messages
<1>12. PICK b1 : b1 = Sent(inbox, v.sock, m0)
  OBVIOUS
<1>13. /\ b1 \in [Friends -> Seq(Messages)]
       /\ \A p \in Friends : b1[p] = IF p = v.sock[1] /\ Reached(v.sock) THEN Append(inbox[p], m0) ELSE inbox[p]
  BY <1>3, <1>11, <1>12, SentIs, QTypes
<1>14. /\ inbox' \in [Friends -> Seq(Messages)]
       /\ \A p \in Friends : inbox'[p] = IF p = w.sock[1] /\ Reached(w.sock) THEN Append(b1[p], m1) ELSE b1[p]
  <2>1. inbox' = Sent(b1, w.sock, m1)
    BY <1>5, <1>10, <1>12
  <2> QED
    BY <1>3, <1>11, <1>13, <2>1, SentIs
<1>15. ASSUME NEW p \in Friends, NEW r \in Asked, p = r.sock[1], Reached(r.sock), NEW m \in Messages,
              m.kind = "matched", m.table = n, g.by[m.role + 1] = p, g.keys[m.role + 1] = r.key
       PROVE  Posted(p, app[p], m, tables', offers') /\ app[p].phase # "idle"
  <2>1. r.sock = <<p, sock[p]>> /\ app[p].phase \in {"searching", "table", "over"}
    BY <1>15 DEF Reached, Current, Connected
  <2>2. Live(app[p]) /\ r.sock[2] = sock[p]
    BY <2>1 DEF Live
  <2>3. app[p].phase = "searching" /\ r.key = app[p].key
    BY <1>15, <2>2, QPlayer DEF PlayerOK, Asking
  <2>4. m.table \in DOMAIN tables' /\ tables'[m.table] = g /\ offers'[m.table] = {}
    BY <1>6, <1>7, <1>8, <1>15
  <2> QED
    BY <1>15, <2>3, <2>4 DEF Posted, Sitting
<1>16. ASSUME NEW p \in Friends
       PROVE  PlayerOK(p, app[p], sock[p], inbox'[p], tables', offers', Asked')
  <2>1. Delivered(p, app[p], inbox[p], inbox[p], tables', offers')
    BY Same
  <2>2. Delivered(p, app[p], inbox[p], b1[p], tables', offers') /\ b1[p] \in Seq(Messages)
        /\ (app[p].phase = "idle" => b1[p] = <<>>)
    <3>1. CASE p = v.sock[1] /\ Reached(v.sock)
      <4>1. Posted(p, app[p], m0, tables', offers') /\ app[p].phase # "idle"
        BY <1>4, <1>11, <1>15, <3>1
      <4>2. /\ Delivered(p, app[p], inbox[p], Append(inbox[p], m0), tables', offers')
            /\ Append(inbox[p], m0) \in Seq(Messages)
        BY <1>11, <2>1, <4>1, QPlayer, OneArrives
      <4> QED
        BY <1>13, <3>1, <4>1, <4>2
    <3>2. CASE ~(p = v.sock[1] /\ Reached(v.sock))
      BY <1>13, <2>1, <3>2, QPlayer DEF PlayerOK
    <3> QED
      BY <3>1, <3>2
  <2>3. Delivered(p, app[p], inbox[p], inbox'[p], tables', offers')
        /\ (app[p].phase = "idle" => inbox'[p] = <<>>)
    <3>1. CASE p = w.sock[1] /\ Reached(w.sock)
      <4>1. Posted(p, app[p], m1, tables', offers') /\ app[p].phase # "idle"
        BY <1>4, <1>11, <1>15, <3>1
      <4>2. Delivered(p, app[p], inbox[p], Append(b1[p], m1), tables', offers')
        BY <1>11, <2>2, <4>1, OneArrives
      <4> QED
        BY <1>14, <3>1, <4>1, <4>2
    <3>2. CASE ~(p = w.sock[1] /\ Reached(w.sock))
      BY <1>14, <2>2, <3>2
    <3> QED
      BY <3>1, <3>2
  <2>4. Grown(tables, tables') /\ DOMAIN offers = DOMAIN tables /\ DOMAIN offers' = DOMAIN tables'
    BY <1>1, <1>7, <1>8, QTypes DEF Grown
  <2>5. FewerOffers(p, offers, offers')
    <3> SUFFICES ASSUME NEW t \in DOMAIN offers', NEW x \in offers'[t]
                 PROVE  t \in DOMAIN offers /\ x \in offers[t]
      BY DEF FewerOffers
    <3>1. t # n /\ t \in 1 .. n
      BY <1>8
    <3>2. t \in DOMAIN tables
      BY <1>1, <3>1, QTypes
    <3> QED
      BY <1>8, <3>2, QTypes
  <2>6. FewerAsks(p, Asked, Asked')
    BY DEF FewerAsks, Asked
  <2>7. PlayerOK(p, app[p], sock[p], inbox[p], tables, offers, Asked)
    BY QPlayer
  <2> QED
    BY <2>3, <2>4, <2>5, <2>6, <2>7, OthersMove
<1>17. TwoPlayers'
  <2> SUFFICES ASSUME NEW t \in DOMAIN tables', tables'[t].keys[1][2] <= 1, tables'[t].keys[2][2] <= 1
               PROVE  tables'[t].by[1] # tables'[t].by[2]
    BY DEF TwoPlayers
  <2>1. CASE t = n
    BY <1>2, <1>4, <1>7, <2>1
  <2>2. CASE t # n
    <3>1. t \in DOMAIN tables
      BY <1>1, <1>7, <2>2, QTypes
    <3> QED
      BY <1>7, <3>1 DEF QInv, TwoPlayers
  <2> QED
    BY <2>1, <2>2
<1>18. QuickTypeOK'
  BY <1>6, <1>7, <1>8, <1>9, <1>14 DEF QInv, QuickTypeOK
<1>19. NoSearch'
  BY DEF QInv, Asked, NoSearch
<1> QED
  BY <1>16, <1>17, <1>18, <1>19, QNext

LEMMA EnqueueKeeps == ASSUME QInv, Enqueue, UNCHANGED staked PROVE QInv'
<1>1. PICK r \in rating :
        /\ rating' = rating \ {r}
        /\ \/ \E w \in queue :
                /\ Meet(r, w) /\ queue' = queue \ {w}
                /\ OpenTable(r, w) /\ offers' = Append(offers, {}) /\ Seat(inbox, r, w, "matched")
           \/ queue' = queue \cup {r} /\ UNCHANGED <<tables, room, offers, inbox>>
        /\ UNCHANGED <<app, sock, linked, reserved, pools, lapses>>
  BY DEF Enqueue
<1>2. CASE \E w \in queue :
             /\ Meet(r, w) /\ queue' = queue \ {w}
             /\ OpenTable(r, w) /\ offers' = Append(offers, {}) /\ Seat(inbox, r, w, "matched")
  <2>1. PICK w \in queue :
             /\ Meet(r, w) /\ queue' = queue \ {w}
             /\ OpenTable(r, w) /\ offers' = Append(offers, {}) /\ Seat(inbox, r, w, "matched")
    BY <1>2
  <2>2. r \in Asked /\ w \in Asked /\ rating' \subseteq rating /\ queue' \subseteq queue
    BY <1>1, <2>1 DEF Asked
  <2> QED
    BY <1>1, <2>1, <2>2, PairKeeps
<1>3. CASE queue' = queue \cup {r} /\ UNCHANGED <<tables, room, offers, inbox>>
  <2>1. Asked' = Asked
    BY <1>1, <1>3 DEF Asked
  <2>2. QuickTypeOK'
    BY <1>1, <1>3 DEF QInv, QuickTypeOK
  <2>3. TwoPlayers' /\ NoSearch'
    BY <1>1, <1>3, <2>1 DEF QInv, TwoPlayers, NoSearch
  <2>4. \A p \in Friends : PlayerOK(p, app'[p], sock'[p], inbox'[p], tables', offers', Asked')
    BY <1>1, <1>3, <2>1, QPlayer
  <2> QED
    BY <2>2, <2>3, <2>4, QNext
<1> QED
  BY <1>1, <1>2, <1>3

LEMMA SweepKeeps == ASSUME QInv, Sweep, UNCHANGED staked PROVE QInv'
<1>1. PICK v \in queue, w \in queue :
        /\ Meet(v, w) /\ queue' = queue \ {v, w}
        /\ OpenTable(v, w) /\ offers' = Append(offers, {}) /\ Seat(inbox, v, w, "matched")
        /\ UNCHANGED <<app, sock, linked, rating, reserved, pools, lapses>>
  BY DEF Sweep
<1>2. v \in Asked /\ w \in Asked /\ rating' \subseteq rating /\ queue' \subseteq queue
  BY <1>1 DEF Asked
<1> QED
  BY <1>1, <1>2, PairKeeps

LEMMA OverKeeps ==
  ASSUME QInv, NEW t \in DOMAIN tables, GameOver(t), UNCHANGED staked PROVE QInv'
<1>1. /\ tables' = [tables EXCEPT ![t].over = TRUE]
      /\ inbox' = Others(inbox, t, <<>>, Msg("gameover", t, 0))
      /\ UNCHANGED <<app, sock, linked, rating, queue, room, offers, reserved, pools>>
  BY DEF GameOver
<1>2. PICK m : m = Msg("gameover", t, 0)
  OBVIOUS
<1>3. m \in Messages /\ m.kind \notin SeatKinds
  <2>1. t \in 0 .. MaxTables
    BY QTypes
  <2> QED
    BY <1>2, <2>1 DEF Msg, Messages, SeatKinds
<1>4. PICK g : g = [tables[t] EXCEPT !.over = TRUE]
  OBVIOUS
<1>5. g \in Games /\ g.by = tables[t].by /\ g.keys = tables[t].keys
  <2>1. tables[t] \in Games
    BY QTypes
  <2> QED
    BY <1>4, <2>1 DEF Games
<1>6. tables' = [tables EXCEPT ![t] = g]
  BY <1>1, <1>4
<1>7. tables' \in Seq(Games) /\ Len(tables') = Len(tables) /\ DOMAIN tables' = DOMAIN tables
      /\ \A u \in DOMAIN tables : tables'[u].by = tables[u].by /\ tables'[u].keys = tables[u].keys
  <2>1. tables \in Seq(Games) /\ DOMAIN tables = 1 .. Len(tables) /\ Len(tables) \in Nat
    BY QTypes
  <2>2. tables' \in [1 .. Len(tables) -> Games]
    BY <1>5, <1>6, <2>1
  <2>3. tables' \in Seq(Games) /\ Len(tables') = Len(tables) /\ DOMAIN tables' = DOMAIN tables
    BY <2>1, <2>2, SeqTyped
  <2>4. \A u \in DOMAIN tables : tables'[u] = IF u = t THEN g ELSE tables[u]
    BY <1>6
  <2> QED
    BY <1>5, <2>3, <2>4
<1>8. inbox' \in [Friends -> Seq(Messages)]
      /\ \A p \in Friends : \/ inbox'[p] = inbox[p]
                            \/ Connected(p) /\ inbox'[p] = Append(inbox[p], m)
  <2>1. inbox \in [Friends -> Seq(Messages)] /\ inbox' = Others(inbox, t, <<>>, m)
    BY <1>1, <1>2, QTypes
  <2> QED
    BY <1>3, <2>1, OthersIs
<1>9. ASSUME NEW p \in Friends
      PROVE  PlayerOK(p, app[p], sock[p], inbox'[p], tables', offers, Asked)
  <2>1. Delivered(p, app[p], inbox[p], inbox[p], tables', offers)
    BY Same
  <2>2. Delivered(p, app[p], inbox[p], Append(inbox[p], m), tables', offers)
    BY <1>3, <2>1, QPlayer, OneArrives
  <2>3. Delivered(p, app[p], inbox[p], inbox'[p], tables', offers)
    BY <1>8, <2>1, <2>2
  <2>4. app[p].phase = "idle" => inbox'[p] = <<>>
    BY <1>8, QPlayer DEF PlayerOK, Connected
  <2>5. Grown(tables, tables') /\ FewerOffers(p, offers, offers) /\ FewerAsks(p, Asked, Asked)
        /\ DOMAIN offers = DOMAIN tables /\ DOMAIN offers = DOMAIN tables'
    BY <1>7, Unmoved, QTypes DEF Grown
  <2>6. PlayerOK(p, app[p], sock[p], inbox[p], tables, offers, Asked)
    BY QPlayer
  <2> QED
    BY <2>3, <2>4, <2>5, <2>6, OthersMove
<1>10. Asked' = Asked
  BY <1>1 DEF Asked
<1>11. QuickTypeOK'
  BY <1>1, <1>7, <1>8 DEF QInv, QuickTypeOK
<1>12. TwoPlayers' /\ NoSearch'
  BY <1>1, <1>7, <1>10 DEF QInv, TwoPlayers, NoSearch
<1> QED
  BY <1>1, <1>9, <1>10, <1>11, <1>12, QNext

-----------------------------------------------------------------------------
(* The players' steps.                                                     *)

\* Only p's page moves, and what p asks for.
LEMMA OnlyMine ==
  ASSUME QInv, NEW p \in Friends, app' \in [Friends -> AppPages], sock' \in [Friends -> 0 .. MaxSockets],
         inbox' \in [Friends -> Seq(Messages)],
         \A q \in Friends \ {p} : app'[q] = app[q] /\ sock'[q] = sock[q] /\ inbox'[q] = inbox[q],
         tables' = tables, offers' = offers, room' \in Seq(SUBSET Sockets), Len(room') = Len(tables),
         linked' \subseteq Sockets, rating' \subseteq Requests, queue' = queue, staked' = staked,
         \A r \in rating' : r.sock[1] # p => r \in rating, staked => rating' = {} /\ app'[p].phase # "searching",
         reserved' \subseteq Friends, pools' \in [Friends -> {"none", "band", "private"}],
         PlayerOK(p, app'[p], sock'[p], inbox'[p], tables, offers, Asked')
  PROVE  QInv'
<1>1. ASSUME NEW q \in Friends, q # p
      PROVE  PlayerOK(q, app'[q], sock'[q], inbox'[q], tables', offers', Asked')
  <2>1. app'[q] = app[q] /\ sock'[q] = sock[q] /\ inbox'[q] = inbox[q]
    BY <1>1
  <2>2. FewerAsks(q, Asked, Asked')
    BY <1>1 DEF FewerAsks, Asked
  <2>3. Grown(tables, tables) /\ FewerOffers(q, offers, offers) /\ DOMAIN offers = DOMAIN tables
    BY Unmoved, QTypes
  <2>4. Delivered(q, app[q], inbox[q], inbox[q], tables, offers)
    BY Same
  <2>5. PlayerOK(q, app[q], sock[q], inbox[q], tables, offers, Asked)
    BY <1>1, QPlayer
  <2>6. app[q].phase = "idle" => inbox[q] = <<>>
    BY <2>5 DEF PlayerOK
  <2>7. PlayerOK(q, app[q], sock[q], inbox[q], tables, offers, Asked')
    BY <2>2, <2>3, <2>4, <2>5, <2>6, OthersMove
  <2> QED
    BY <2>1, <2>7
<1>2. QuickTypeOK'
  BY DEF QInv, QuickTypeOK
<1>3. TwoPlayers' /\ NoSearch'
  BY DEF QInv, TwoPlayers, NoSearch, Asked
<1>4. \A q \in Friends : PlayerOK(q, app'[q], sock'[q], inbox'[q], tables', offers', Asked')
  BY <1>1
<1> QED
  BY <1>2, <1>3, <1>4, QNext

LEMMA IdleIs ==
  /\ Idle \in AppPages /\ Idle.phase = "idle" /\ Idle.asks = 0 /\ Idle.next = <<0, 0>>
  /\ MaxSockets \in Nat /\ MaxTables \in Nat
<1>1. MaxSockets \in Nat /\ MaxTables \in Nat
  BY QuickAssumption
<1>2. Unkeyed \in Keys
  BY <1>1 DEF Unkeyed, Keys, MaxAsks
<1> QED
  BY <1>1, <1>2 DEF Idle, AppPages, NoTable, MaxAsks, Unkeyed

\* A page that searches, with the key of its search.
Searches(k) == [Idle EXCEPT !.phase = "searching", !.key = k]

LEMMA SearchIs ==
  ASSUME NEW k \in Keys
  PROVE  /\ Searches(k) \in AppPages /\ Searches(k).phase = "searching" /\ Searches(k).key = k
         /\ Searches(k).next[2] = Searches(k).asks
<1>1. PICK a : a = Searches(k)
  OBVIOUS
<1>2. a \in AppPages /\ a.phase = "searching" /\ a.key = k /\ a.asks = 0 /\ a.next = <<0, 0>>
  BY <1>1, IdleIs DEF AppPages, Searches
<1> QED
  BY <1>1, <1>2

LEMMA FindKeeps == ASSUME QInv, NEW p \in Friends, Find(p), UNCHANGED staked PROVE QInv'
<1>1. PICK k, a2, r : /\ k = <<sock[p] + 1, 0>> /\ a2 = Searches(k)
                      /\ r = [sock |-> <<p, sock[p] + 1>>, key |-> k]
  OBVIOUS
<1>2. /\ app[p].phase = "idle" /\ sock[p] < MaxSockets /\ ~staked /\ app' = [app EXCEPT ![p] = a2]
      /\ sock' = [sock EXCEPT ![p] = @ + 1] /\ linked' = linked \cup {<<p, sock[p] + 1>>}
      /\ rating' = rating \cup {r} /\ UNCHANGED <<inbox, queue, tables, room, offers, reserved, pools>>
  BY <1>1 DEF Find, Opens, Searches
<1>3. sock[p] \in Nat /\ MaxSockets \in Nat /\ sock[p] + 1 \in 1 .. MaxSockets /\ inbox[p] = <<>>
  BY <1>2, QPlayer, IdleIs DEF PlayerOK
<1>4. k \in Keys /\ <<p, sock[p] + 1>> \in Sockets
  BY <1>1, <1>3 DEF Keys, Sockets, MaxAsks
<1>5. a2 \in AppPages /\ a2.phase = "searching" /\ a2.key = k /\ a2.next[2] = a2.asks
  BY <1>1, <1>4, SearchIs
<1>6. r \in Requests /\ r.sock[1] = p /\ r.sock[2] = sock[p] + 1 /\ r.key = k
  BY <1>1, <1>4 DEF Requests
<1>7. SeatOf(p, a2, tables) /\ Live(a2) /\ ~Sitting(a2)
  BY <1>5 DEF SeatOf, Sitting, Live
<1>8. Asked' = Asked \cup {r}
  BY <1>2 DEF Asked
<1>9. PlayerOK(p, a2, sock[p] + 1, <<>>, tables, offers, Asked')
  <2>1. \A x \in Asked' : x.sock[1] = p =>
          x \in Asked \/ (x.sock[2] = sock[p] + 1 /\ a2.phase = "searching" /\ x.key = a2.key)
    BY <1>5, <1>6, <1>8
  <2>2. PlayerOK(p, app[p], sock[p], inbox[p], tables, offers, Asked)
    BY QPlayer
  <2> QED
    BY <1>3, <1>5, <1>7, <2>1, <2>2, Numbered, Connects
<1>10. app' \in [Friends -> AppPages] /\ app'[p] = a2 /\ \A q \in Friends \ {p} : app'[q] = app[q]
  BY <1>2, <1>5, QTypes
<1>11. /\ sock' \in [Friends -> 0 .. MaxSockets] /\ sock'[p] = sock[p] + 1
       /\ \A q \in Friends \ {p} : sock'[q] = sock[q]
  <2>1. sock[p] + 1 \in 0 .. MaxSockets
    BY <1>3
  <2> QED
    BY <1>2, <2>1, QTypes
<1>12. linked' \subseteq Sockets /\ rating' \subseteq Requests /\ inbox' = inbox
       /\ \A x \in rating' : x.sock[1] # p => x \in rating
  BY <1>2, <1>4, <1>6 DEF QInv, QuickTypeOK
<1>13. reserved' \subseteq Friends /\ pools' \in [Friends -> {"none", "band", "private"}]
       /\ room' \in Seq(SUBSET Sockets) /\ Len(room') = Len(tables)
  BY <1>2 DEF QInv, QuickTypeOK
<1>14. PlayerOK(p, app'[p], sock'[p], inbox'[p], tables, offers, Asked')
  BY <1>3, <1>9, <1>10, <1>11, <1>12
<1>15. /\ inbox' \in [Friends -> Seq(Messages)] /\ tables' = tables /\ offers' = offers /\ queue' = queue
       /\ \A q \in Friends \ {p} : app'[q] = app[q] /\ sock'[q] = sock[q] /\ inbox'[q] = inbox[q]
       /\ (staked => rating' = {} /\ app'[p].phase # "searching") /\ staked' = staked
  BY <1>2, <1>10, <1>11, <1>12, QTypes
<1> QED
  BY <1>10, <1>11, <1>12, <1>13, <1>14, <1>15, OnlyMine

\* A page of p that closes its connection.
LEMMA CloseKeeps ==
  ASSUME QInv, NEW p \in Friends, NEW a2 \in AppPages, NEW b2 \in Seq(Messages),
         app' = [app EXCEPT ![p] = a2], inbox' = [inbox EXCEPT ![p] = b2],
         ~Live(a2), a2.next[2] = a2.asks, a2.phase = "idle" => b2 = <<>>,
         \A i \in DOMAIN b2 : \E j \in DOMAIN inbox[p] : inbox[p][j] = b2[i],
         UNCHANGED <<staked, sock, linked, rating, queue, tables, room, offers>>,
         reserved' \subseteq Friends, pools' \in [Friends -> {"none", "band", "private"}]
  PROVE  QInv'
<1>1. PlayerOK(p, app[p], sock[p], inbox[p], tables, offers, Asked)
  BY QPlayer
<1>2. PlayerOK(p, a2, sock[p], b2, tables, offers, Asked)
  BY <1>1, Closes
<1>3. /\ app' \in [Friends -> AppPages] /\ app'[p] = a2 /\ inbox'[p] = b2
      /\ inbox' \in [Friends -> Seq(Messages)]
      /\ \A q \in Friends \ {p} : app'[q] = app[q] /\ inbox'[q] = inbox[q]
  BY QTypes
<1>4. Asked' = Asked
  BY DEF Asked
<1>5. /\ linked' \subseteq Sockets /\ rating' \subseteq Requests /\ (staked => rating' = {})
      /\ room' \in Seq(SUBSET Sockets) /\ Len(room') = Len(tables)
  BY DEF QInv, QuickTypeOK, Asked, NoSearch
<1>6. staked => rating' = {} /\ app'[p].phase # "searching"
  BY <1>3, <1>5 DEF Live
<1> QED
  BY <1>2, <1>3, <1>4, <1>5, <1>6, OnlyMine, QTypes

LEMMA Nothing == <<>> \in Seq(Messages) /\ DOMAIN <<>> = {}
OBVIOUS

LEMMA ServerStays ==
  ASSUME UNCHANGED serverSide
  PROVE  UNCHANGED <<linked, rating, queue, tables, room, offers, reserved, pools>>
BY DEF serverSide

LEMMA PoolsAre ==
  ASSUME QInv
  PROVE  reserved \subseteq Friends /\ pools \in [Friends -> {"none", "band", "private"}]
BY DEF QInv, QuickTypeOK

LEMMA GiveUpKeeps == ASSUME QInv, NEW p \in Friends, GiveUp(p), UNCHANGED staked PROVE QInv'
<1>1. PICK a2 : a2 \in {Idle, [Idle EXCEPT !.phase = "bot"]} /\ app' = [app EXCEPT ![p] = a2]
  BY DEF GiveUp
<1>2. a2 \in AppPages /\ ~Live(a2) /\ a2.next[2] = a2.asks
  <2>1. CASE a2 = Idle
    <3>1. a2 \in AppPages /\ a2.phase = "idle" /\ a2.asks = 0 /\ a2.next = <<0, 0>>
      BY <2>1, IdleIs
    <3> QED
      BY <3>1 DEF Live
  <2>2. CASE a2 = [Idle EXCEPT !.phase = "bot"]
    <3>1. a2 \in AppPages /\ a2.phase = "bot" /\ a2.asks = 0 /\ a2.next = <<0, 0>>
      BY <2>2, IdleIs DEF AppPages
    <3> QED
      BY <3>1 DEF Live
  <2> QED
    BY <1>1, <2>1, <2>2
<1>3. inbox' = [inbox EXCEPT ![p] = <<>>] /\ UNCHANGED <<sock, linked, rating, queue, tables, room, offers, reserved, pools>>
  BY ServerStays DEF GiveUp
<1> QED
  BY <1>1, <1>2, <1>3, CloseKeeps, Nothing, PoolsAre

LEMMA LeaveTableKeeps == ASSUME QInv, NEW p \in Friends, LeaveTable(p), UNCHANGED staked PROVE QInv'
<1>1. /\ app' = [app EXCEPT ![p] = Idle] /\ inbox' = [inbox EXCEPT ![p] = <<>>]
      /\ UNCHANGED <<sock, linked, rating, queue, tables, room, offers, reserved, pools>>
  BY ServerStays DEF LeaveTable
<1>2. Idle \in AppPages /\ ~Live(Idle) /\ Idle.next[2] = Idle.asks
  <2>1. Idle.next = <<0, 0>> /\ Idle.asks = 0 /\ Idle.phase = "idle"
    BY IdleIs
  <2> QED
    BY <2>1, IdleIs DEF Live
<1> QED
  BY <1>1, <1>2, CloseKeeps, Nothing, PoolsAre

LEMMA CashCancelKeeps == ASSUME QInv, NEW p \in Friends, CashCancel(p), UNCHANGED staked PROVE QInv'
<1>1. PICK a2 : a2 = [app[p] EXCEPT !.phase = "money"]
  OBVIOUS
<1>2. /\ app' = [app EXCEPT ![p] = a2] /\ pools' = [pools EXCEPT ![p] = "none"]
      /\ UNCHANGED <<sock, inbox, linked, rating, queue, tables, room, offers, reserved>>
  BY <1>1 DEF CashCancel
<1>3. app[p] \in AppPages /\ app[p].next[2] = app[p].asks
  BY QPlayer DEF PlayerOK
<1>4. a2 \in AppPages /\ a2.phase = "money" /\ a2.next = app[p].next /\ a2.asks = app[p].asks
  BY <1>1, <1>3 DEF AppPages
<1>5. ~Live(a2) /\ a2.next[2] = a2.asks
  BY <1>3, <1>4 DEF Live
<1>6. inbox' = [inbox EXCEPT ![p] = inbox[p]] /\ inbox[p] \in Seq(Messages)
  BY <1>2, QTypes
<1>7. reserved' \subseteq Friends /\ pools' \in [Friends -> {"none", "band", "private"}]
  BY <1>2, PoolsAre
<1> QED
  BY <1>2, <1>4, <1>5, <1>6, <1>7, CloseKeeps

LEMMA ReconnectKeeps == ASSUME QInv, NEW p \in Friends, Reconnect(p), UNCHANGED staked PROVE QInv'
<1>1. PICK a, c, r : /\ a = app[p] /\ c = <<p, sock[p] + 1>>
                     /\ r = [sock |-> c, key |-> a.key]
  OBVIOUS
<1>2. /\ a.phase \in {"searching", "table", "over"} /\ sock[p] < MaxSockets
      /\ sock' = [sock EXCEPT ![p] = @ + 1] /\ linked' = linked \cup {c}
      /\ inbox' = [inbox EXCEPT ![p] = <<>>]
      /\ UNCHANGED <<app, queue, tables, offers, reserved, pools>>
      /\ IF a.phase = "searching"
         THEN rating' = rating \cup {r} /\ room' = room
         ELSE room' = [room EXCEPT ![a.table] = @ \cup {c}] /\ rating' = rating
  BY <1>1 DEF Reconnect, Opens
<1>3. sock[p] \in Nat /\ MaxSockets \in Nat /\ sock[p] + 1 \in 1 .. MaxSockets
  BY <1>2, QPlayer, IdleIs
<1>4. a \in AppPages /\ c \in Sockets /\ c[1] = p /\ c[2] = sock[p] + 1
  BY <1>1, <1>3, QPlayer DEF Sockets
<1>5. r \in Requests /\ r.sock[1] = p /\ r.sock[2] = sock[p] + 1 /\ r.key = a.key
  BY <1>1, <1>4 DEF Requests, AppPages
<1>6. PlayerOK(p, a, sock[p], inbox[p], tables, offers, Asked)
  BY <1>1, QPlayer
<1>7. Live(a) /\ a.next[2] = a.asks /\ SeatOf(p, a, tables)
  BY <1>2, <1>6 DEF PlayerOK, Live
<1>8. \A t \in DOMAIN offers : \A x \in offers[t] :
        (x.sock[1] = p /\ Sitting(a) /\ a.table = t) => a.asks >= 1
  BY <1>6 DEF PlayerOK, Offering
<1>9. \A x \in Asked' : x.sock[1] = p =>
        x \in Asked \/ (x.sock[2] = sock[p] + 1 /\ a.phase = "searching" /\ x.key = a.key)
  BY <1>2, <1>5 DEF Asked
<1>10. PlayerOK(p, a, sock[p] + 1, <<>>, tables, offers, Asked')
  BY <1>3, <1>6, <1>7, <1>8, <1>9, Numbered, Connects
<1>11. /\ sock' \in [Friends -> 0 .. MaxSockets] /\ sock'[p] = sock[p] + 1
       /\ \A q \in Friends \ {p} : sock'[q] = sock[q]
  <2>1. sock[p] + 1 \in 0 .. MaxSockets
    BY <1>3
  <2> QED
    BY <1>2, <2>1, QTypes
<1>12. /\ inbox' \in [Friends -> Seq(Messages)] /\ inbox'[p] = <<>>
       /\ \A q \in Friends \ {p} : inbox'[q] = inbox[q]
  BY <1>2, Nothing, QTypes
<1>13. room' \in Seq(SUBSET Sockets) /\ Len(room') = Len(tables)
  <2>1. CASE a.phase = "searching"
    BY <1>2, <2>1, QTypes
  <2>2. CASE a.phase # "searching"
    <3>1. room \in Seq(SUBSET Sockets) /\ Len(room) = Len(tables) /\ DOMAIN room = 1 .. Len(tables)
          /\ Len(tables) \in Nat /\ a.table \in DOMAIN room
      BY <1>2, <1>7, <2>2, QTypes DEF SeatOf, Sitting
    <3>2. room[a.table] \cup {c} \in SUBSET Sockets
      BY <1>4, <3>1
    <3>3. room' \in [1 .. Len(tables) -> SUBSET Sockets]
      BY <1>2, <2>2, <3>1, <3>2
    <3> QED
      BY <3>1, <3>3, SeqTyped
  <2> QED
    BY <2>1, <2>2
<1>14. /\ linked' \subseteq Sockets /\ rating' \subseteq Requests /\ (staked => rating' = {})
       /\ \A x \in rating' : x.sock[1] # p => x \in rating
  <2>1. rating \subseteq Requests /\ linked \subseteq Sockets /\ (staked => rating = {})
    BY DEF QInv, QuickTypeOK, Asked, NoSearch
  <2>2. staked => a.phase # "searching"
    BY <1>1 DEF QInv, NoSearch
  <2> QED
    BY <1>2, <1>4, <1>5, <2>1, <2>2
<1>15. reserved' \subseteq Friends /\ pools' \in [Friends -> {"none", "band", "private"}]
       /\ tables' = tables /\ offers' = offers /\ queue' = queue /\ staked' = staked
       /\ app' \in [Friends -> AppPages] /\ app'[p] = a /\ \A q \in Friends \ {p} : app'[q] = app[q]
  BY <1>1, <1>2, PoolsAre, QTypes
<1>16. PlayerOK(p, app'[p], sock'[p], inbox'[p], tables, offers, Asked')
  BY <1>10, <1>11, <1>12, <1>15
<1>17. \A q \in Friends \ {p} : app'[q] = app[q] /\ sock'[q] = sock[q] /\ inbox'[q] = inbox[q]
  BY <1>11, <1>12, <1>15
<1>18. staked => rating' = {} /\ app'[p].phase # "searching"
  BY <1>1, <1>14, <1>15 DEF QInv, NoSearch
<1> QED
  BY <1>11, <1>12, <1>13, <1>14, <1>15, <1>16, <1>17, <1>18, OnlyMine

\* The page a seat at a game gives.
Takes(m, k) == [Idle EXCEPT !.phase = "table", !.table = m.table, !.role = m.role, !.key = k]

LEMMA TakesIs ==
  ASSUME NEW m \in Messages, NEW k \in Keys
  PROVE  /\ Takes(m, k) \in AppPages /\ Takes(m, k).phase = "table" /\ Takes(m, k).key = k
         /\ Takes(m, k).table = m.table /\ Takes(m, k).role = m.role
         /\ Takes(m, k).next[2] = Takes(m, k).asks
<1>1. PICK a : a = Takes(m, k)
  OBVIOUS
<1>2. m.table \in 0 .. MaxTables /\ m.role \in {0, 1}
  BY DEF Messages
<1>3. /\ a \in AppPages /\ a.phase = "table" /\ a.key = k /\ a.table = m.table /\ a.role = m.role
      /\ a.asks = 0 /\ a.next = <<0, 0>>
  BY <1>1, <1>2, IdleIs DEF AppPages, Takes
<1> QED
  BY <1>1, <1>3

LEMMA FirstOf ==
  ASSUME NEW b \in Seq(Messages), b # <<>>
  PROVE  Head(b) \in Messages /\ 1 \in DOMAIN b /\ Head(b) = b[1]
<1>1. Len(b) \in Nat /\ DOMAIN b = 1 .. Len(b) /\ Head(b) = b[1]
  BY LenProperties, HeadTailProperties
<1>2. Len(b) # 0
  BY EmptySeq
<1> QED
  BY <1>1, <1>2

LEMMA SeatedKeeps == ASSUME QInv, NEW p \in Friends, Seated(p), UNCHANGED staked PROVE QInv'
<1>1. PICK m, a : m = Head(inbox[p]) /\ a = app[p]
  OBVIOUS
<1>2. PICK k : k = IF m.kind = "matched" THEN a.key ELSE a.next
  OBVIOUS
<1>3. PICK a2, c : a2 = Takes(m, k) /\ c = <<p, sock[p] + 1>>
  OBVIOUS
<1>4. /\ inbox[p] # <<>> /\ sock[p] < MaxSockets /\ app' = [app EXCEPT ![p] = a2]
      /\ \/ m.kind = "matched" /\ a.phase = "searching"
         \/ m.kind = "ready" /\ a.phase = "over"
      /\ sock' = [sock EXCEPT ![p] = @ + 1] /\ linked' = linked \cup {c}
      /\ inbox' = [inbox EXCEPT ![p] = <<>>] /\ room' = [room EXCEPT ![m.table] = @ \cup {c}]
      /\ UNCHANGED <<rating, queue, tables, offers, reserved, pools>>
  BY <1>1, <1>2, <1>3 DEF Seated, Sits, Opens, Takes
<1>5. sock[p] \in Nat /\ MaxSockets \in Nat /\ sock[p] + 1 \in 1 .. MaxSockets
  BY <1>4, QPlayer, IdleIs
<1>6. a \in AppPages /\ c \in Sockets /\ k \in Keys
  BY <1>1, <1>2, <1>3, <1>5, QPlayer DEF Sockets, AppPages
<1>7. m \in Messages /\ 1 \in DOMAIN inbox[p] /\ inbox[p][1] = m
  BY <1>1, <1>4, QPlayer, FirstOf
<1>8. /\ a2 \in AppPages /\ a2.phase = "table" /\ a2.key = k /\ a2.table = m.table /\ a2.role = m.role
      /\ a2.next[2] = a2.asks
  BY <1>3, <1>6, <1>7, TakesIs
<1>9. PlayerOK(p, a, sock[p], inbox[p], tables, offers, Asked)
  BY <1>1, QPlayer
<1>10. Posted(p, a, m, tables, offers)
  BY <1>4, <1>7, <1>9 DEF PlayerOK, Told, SeatKinds
<1>11. m.table \in DOMAIN tables /\ tables[m.table].by[m.role + 1] = p
       /\ \A x \in offers[m.table] : x.sock[1] # p
  BY <1>10 DEF Posted
<1>12. k[2] <= 1 => tables[m.table].keys[m.role + 1] = k
  <2>1. CASE m.kind = "matched"
    BY <1>2, <1>4, <1>10, <2>1 DEF Posted
  <2>2. CASE m.kind = "ready"
    <3>1. a.phase = "over" /\ a.asks >= 1 /\ k = a.next /\ k[2] = a.asks
          /\ (a.asks = 1 => tables[m.table].keys[m.role + 1] = a.next)
      BY <1>2, <1>4, <1>9, <1>10, <2>2 DEF Posted, Sitting, PlayerOK
    <3>2. a.asks \in Nat
      BY <1>6 DEF AppPages, MaxAsks
    <3> QED
      BY <3>1, <3>2
  <2> QED
    BY <1>4, <2>1, <2>2
<1>13. SeatOf(p, a2, tables) /\ Live(a2)
  BY <1>8, <1>11, <1>12 DEF SeatOf, Live
<1>14. \A t \in DOMAIN offers : \A x \in offers[t] :
         (x.sock[1] = p /\ Sitting(a2) /\ a2.table = t) => a2.asks >= 1
  BY <1>8, <1>11
<1>15. Asked' = Asked
  BY <1>4 DEF Asked
<1>16. PlayerOK(p, a2, sock[p] + 1, <<>>, tables, offers, Asked)
  <2>1. \A x \in Asked : x.sock[1] = p =>
          x \in Asked \/ (x.sock[2] = sock[p] + 1 /\ a2.phase = "searching" /\ x.key = a2.key)
    OBVIOUS
  <2> QED
    BY <1>5, <1>8, <1>9, <1>13, <1>14, <2>1, Numbered, Connects
<1>17. /\ sock' \in [Friends -> 0 .. MaxSockets] /\ sock'[p] = sock[p] + 1
       /\ \A q \in Friends \ {p} : sock'[q] = sock[q]
  <2>1. sock[p] + 1 \in 0 .. MaxSockets
    BY <1>5
  <2> QED
    BY <1>4, <2>1, QTypes
<1>18. /\ inbox' \in [Friends -> Seq(Messages)] /\ inbox'[p] = <<>>
       /\ \A q \in Friends \ {p} : inbox'[q] = inbox[q]
  BY <1>4, Nothing, QTypes
<1>19. room' \in Seq(SUBSET Sockets) /\ Len(room') = Len(tables)
  <2>1. room \in Seq(SUBSET Sockets) /\ Len(room) = Len(tables) /\ DOMAIN room = 1 .. Len(tables)
        /\ Len(tables) \in Nat /\ m.table \in DOMAIN room
    BY <1>11, QTypes
  <2>2. room[m.table] \cup {c} \in SUBSET Sockets
    BY <1>6, <2>1
  <2>3. room' \in [1 .. Len(tables) -> SUBSET Sockets]
    BY <1>4, <2>1, <2>2
  <2> QED
    BY <2>1, <2>3, SeqTyped
<1>20. /\ app' \in [Friends -> AppPages] /\ app'[p] = a2 /\ \A q \in Friends \ {p} : app'[q] = app[q]
  BY <1>4, <1>8, QTypes
<1>21. /\ linked' \subseteq Sockets /\ rating' \subseteq Requests
       /\ (staked => rating' = {} /\ app'[p].phase # "searching")
       /\ \A x \in rating' : x.sock[1] # p => x \in rating
  BY <1>4, <1>6, <1>8, <1>20 DEF QInv, QuickTypeOK, Asked, NoSearch
<1>22. /\ reserved' \subseteq Friends /\ pools' \in [Friends -> {"none", "band", "private"}]
       /\ tables' = tables /\ offers' = offers /\ queue' = queue /\ staked' = staked
       /\ \A q \in Friends \ {p} : app'[q] = app[q] /\ sock'[q] = sock[q] /\ inbox'[q] = inbox[q]
  BY <1>4, <1>17, <1>18, <1>20, PoolsAre
<1>23. PlayerOK(p, app'[p], sock'[p], inbox'[p], tables, offers, Asked')
  BY <1>15, <1>16, <1>17, <1>18, <1>20
<1> QED
  BY <1>17, <1>18, <1>19, <1>20, <1>21, <1>22, <1>23, OnlyMine

\* What a page makes of a message about its game.
Heard(a, m) ==
  CASE m.kind = "gameover" -> [a EXCEPT !.phase = "over"]
    [] m.kind = "offered" -> [a EXCEPT !.rematch = Incoming(@)]
    [] m.kind = "declined" -> [a EXCEPT !.rematch = "declined"]
    [] m.kind = "go" -> [Idle EXCEPT !.phase = "money"]

LEMMA HearKeeps == ASSUME QInv, NEW p \in Friends, Hear(p), UNCHANGED staked PROVE QInv'
<1>1. PICK m, a, b2 : m = Head(inbox[p]) /\ a = app[p] /\ b2 = Tail(inbox[p])
  OBVIOUS
<1>2. PICK a2 : a2 = Heard(a, m)
  OBVIOUS
<1>3. /\ inbox[p] # <<>> /\ a.phase \in {"table", "over"}
      /\ m.kind \in {"gameover", "offered", "declined", "go"}
      /\ app' = [app EXCEPT ![p] = a2] /\ inbox' = [inbox EXCEPT ![p] = b2]
      /\ UNCHANGED <<sock, linked, rating, queue, tables, room, offers, reserved, pools>>
  BY <1>1, <1>2, ServerStays DEF Hear, Heard
<1>4. a \in AppPages /\ PlayerOK(p, a, sock[p], inbox[p], tables, offers, Asked)
  BY <1>1, QPlayer
<1>5. b2 \in Seq(Messages) /\ \A i \in DOMAIN b2 : \E j \in DOMAIN inbox[p] : inbox[p][j] = b2[i]
  BY <1>1, <1>3, QPlayer, TailIn
<1>6. CASE m.kind = "go"
  <2>1. a2 = [Idle EXCEPT !.phase = "money"]
    BY <1>2, <1>6 DEF Heard
  <2>2. a2 \in AppPages /\ a2.phase = "money" /\ a2.asks = 0 /\ a2.next = <<0, 0>>
    BY <2>1, IdleIs DEF AppPages
  <2>3. ~Live(a2) /\ a2.next[2] = a2.asks /\ a2.phase # "idle"
    BY <2>2 DEF Live
  <2> QED
    BY <1>3, <1>5, <2>2, <2>3, CloseKeeps, PoolsAre
<1>7. CASE m.kind # "go"
  <2>1. a2 \in {[a EXCEPT !.phase = "over"], [a EXCEPT !.rematch = Incoming(a.rematch)],
                [a EXCEPT !.rematch = "declined"]}
    BY <1>2, <1>3, <1>7 DEF Heard
  <2>2. Incoming(a.rematch) \in {"offered", "incoming"}
    BY DEF Incoming
  <2>3. /\ a2 \in AppPages /\ a2.phase \in {a.phase, "over"} /\ a2.table = a.table /\ a2.role = a.role
        /\ a2.key = a.key /\ a2.asks = a.asks /\ a2.next = a.next
    BY <1>4, <2>1, <2>2 DEF AppPages
  <2>4. Sitting(a) /\ Sitting(a2) /\ (a.phase = "over" => a2.phase = "over")
    BY <1>3, <2>3 DEF Sitting
  <2>5. PlayerOK(p, a2, sock[p], b2, tables, offers, Asked)
    BY <1>4, <1>5, <2>3, <2>4, Hears
  <2>6. /\ app' \in [Friends -> AppPages] /\ app'[p] = a2 /\ inbox'[p] = b2
        /\ inbox' \in [Friends -> Seq(Messages)]
        /\ \A q \in Friends \ {p} : app'[q] = app[q] /\ sock'[q] = sock[q] /\ inbox'[q] = inbox[q]
    BY <1>3, <1>5, <2>3, QTypes
  <2>7. Asked' = Asked
    BY <1>3 DEF Asked
  <2>8. /\ linked' \subseteq Sockets /\ rating' \subseteq Requests
        /\ (staked => rating' = {} /\ app'[p].phase # "searching")
        /\ room' \in Seq(SUBSET Sockets) /\ Len(room') = Len(tables)
    BY <1>3, <2>3, <2>6 DEF QInv, QuickTypeOK, Asked, NoSearch
  <2>9. /\ reserved' \subseteq Friends /\ pools' \in [Friends -> {"none", "band", "private"}]
        /\ sock' \in [Friends -> 0 .. MaxSockets] /\ rating' = rating
        /\ tables' = tables /\ offers' = offers /\ queue' = queue /\ staked' = staked
    BY <1>3, PoolsAre, QTypes
  <2>10. PlayerOK(p, app'[p], sock'[p], inbox'[p], tables, offers, Asked')
    BY <1>3, <2>5, <2>6, <2>7
  <2> QED
    BY <2>6, <2>8, <2>9, <2>10, OnlyMine
<1> QED
  BY <1>6, <1>7

\* The other of the two.
LEMMA FoeIs ==
  ASSUME NEW p \in Friends
  PROVE  Foe(p) \in Friends /\ Foe(p) # p /\ \A q \in Friends : q # p => q = Foe(p)
<1>1. PICK q \in Friends : q # p /\ Friends = {p, q}
  BY QuickAssumption
<1>2. Foe(p) \in Friends /\ Foe(p) # p
  BY <1>1 DEF Foe
<1> QED
  BY <1>1, <1>2

LEMMA CashQueueKeeps == ASSUME QInv, NEW p \in Friends, CashQueue(p), UNCHANGED staked PROVE QInv'
<1>1. /\ reserved' = reserved \ {p} /\ Pool(p) \in {"none", "band", "private"}
      /\ UNCHANGED <<sock, inbox, linked, rating, queue, tables, room, offers>>
  BY DEF CashQueue, Pool
<1>2. reserved' \subseteq Friends
  BY <1>1, PoolsAre
<1>3. CASE /\ pools' = [pools EXCEPT ![Foe(p)] = "none"]
           /\ app' = [q \in Friends |-> [Idle EXCEPT !.phase = "paired"]]
  <2>1. PICK a2 : a2 = [Idle EXCEPT !.phase = "paired"]
    OBVIOUS
  <2>2. a2 \in AppPages /\ a2.phase = "paired" /\ a2.asks = 0 /\ a2.next = <<0, 0>>
    BY <2>1, IdleIs DEF AppPages
  <2>3. ~Live(a2) /\ a2.next[2] = a2.asks /\ a2.phase # "idle"
    BY <2>2 DEF Live
  <2>4. app' \in [Friends -> AppPages] /\ \A q \in Friends : app'[q] = a2
    BY <1>3, <2>1, <2>2
  <2>5. ASSUME NEW q \in Friends
        PROVE  PlayerOK(q, app'[q], sock'[q], inbox'[q], tables', offers', Asked')
    <3>1. PlayerOK(q, app[q], sock[q], inbox[q], tables, offers, Asked)
      BY QPlayer
    <3>2. \A i \in DOMAIN inbox[q] : \E j \in DOMAIN inbox[q] : inbox[q][j] = inbox[q][i]
      OBVIOUS
    <3>3. PlayerOK(q, a2, sock[q], inbox[q], tables, offers, Asked)
      BY <2>3, <3>1, <3>2, Closes
    <3>4. Asked' = Asked
      BY <1>1 DEF Asked
    <3> QED
      BY <1>1, <2>4, <3>3, <3>4
  <2>6. pools' \in [Friends -> {"none", "band", "private"}]
    BY <1>3, PoolsAre
  <2>7. QuickTypeOK'
    BY <1>1, <1>2, <2>4, <2>6 DEF QInv, QuickTypeOK
  <2>8. TwoPlayers' /\ NoSearch'
    BY <1>1, <2>2, <2>4 DEF QInv, TwoPlayers, NoSearch, Asked
  <2> QED
    BY <2>5, <2>7, <2>8, QNext
<1>4. CASE /\ pools' = [pools EXCEPT ![p] = Pool(p)]
           /\ app' = [app EXCEPT ![p].phase = "waiting"]
  <2>1. PICK a2 : a2 = [app[p] EXCEPT !.phase = "waiting"]
    OBVIOUS
  <2>2. app' = [app EXCEPT ![p] = a2]
    BY <1>4, <2>1
  <2>3. app[p] \in AppPages /\ app[p].next[2] = app[p].asks
    BY QPlayer DEF PlayerOK
  <2>4. a2 \in AppPages /\ a2.phase = "waiting" /\ a2.next = app[p].next /\ a2.asks = app[p].asks
    BY <2>1, <2>3 DEF AppPages
  <2>5. ~Live(a2) /\ a2.next[2] = a2.asks
    BY <2>3, <2>4 DEF Live
  <2>6. inbox' = [inbox EXCEPT ![p] = inbox[p]] /\ inbox[p] \in Seq(Messages)
    BY <1>1, QTypes
  <2>7. pools' \in [Friends -> {"none", "band", "private"}]
    BY <1>1, <1>4, PoolsAre
  <2> QED
    BY <1>1, <1>2, <2>2, <2>4, <2>5, <2>6, <2>7, CloseKeeps
<1> QED
  BY <1>3, <1>4 DEF CashQueue

\* The pages of two who meet for stakes.
Staked(q, p) == [Idle EXCEPT !.phase = "table", !.table = 1, !.key = <<1, 0>>,
                             !.role = IF q = p THEN 0 ELSE 1]

LEMMA MeetKeeps == ASSUME QInv, MeetForStakes, UNCHANGED staked PROVE QInv'
<1>1. PICK p \in Friends :
        /\ app' = [q \in Friends |-> Staked(q, p)]
        /\ tables' = <<[keys |-> <<<<1, 0>>, <<1, 0>>>>, by |-> <<p, Foe(p)>>, over |-> FALSE]>>
  BY DEF MeetForStakes, Staked
<1>2. PICK g : g = [keys |-> <<<<1, 0>>, <<1, 0>>>>, by |-> <<p, Foe(p)>>, over |-> FALSE]
  OBVIOUS
<1>3. /\ staked /\ tables = <<>> /\ MaxSockets > 0 /\ MaxTables > 0
      /\ sock' = [q \in Friends |-> 1] /\ linked' = {<<q, 1>> : q \in Friends}
      /\ room' = <<linked'>> /\ offers' = <<{}>> /\ tables' = <<g>>
      /\ UNCHANGED <<inbox, rating, queue, reserved, pools>>
  BY <1>1, <1>2 DEF MeetForStakes
<1>4. MaxSockets \in Nat /\ MaxTables \in Nat /\ 1 \in 1 .. MaxSockets /\ 1 \in 0 .. MaxSockets
      /\ 1 \in 0 .. MaxTables
  BY <1>3, IdleIs
<1>5. PICK k : k = <<1, 0>>
  OBVIOUS
<1>6. k \in Keys /\ k[2] = 0
  BY <1>4, <1>5 DEF Keys, MaxAsks
<1>7. /\ g \in Games /\ g.by[1] = p /\ g.by[2] = Foe(p) /\ g.keys[1] = k /\ g.keys[2] = k
      /\ Foe(p) # p
  BY <1>2, <1>5, <1>6, FoeIs DEF Games
<1>8. ASSUME NEW q \in Friends
      PROVE  /\ app'[q] \in AppPages /\ app'[q].phase = "table" /\ app'[q].table = 1 /\ app'[q].key = k
             /\ app'[q].role = (IF q = p THEN 0 ELSE 1) /\ app'[q].asks = 0 /\ app'[q].next = <<0, 0>>
  <2>1. PICK r : r = IF q = p THEN 0 ELSE 1
    OBVIOUS
  <2>2. app'[q] = [Idle EXCEPT !.phase = "table", !.table = 1, !.key = k, !.role = r] /\ r \in {0, 1}
    BY <1>1, <1>5, <2>1 DEF Staked
  <2> QED
    BY <1>4, <1>6, <2>1, <2>2, IdleIs DEF AppPages
<1>9. DOMAIN tables = {} /\ DOMAIN tables' = {1} /\ tables'[1] = g /\ DOMAIN offers' = {1} /\ offers'[1] = {}
  BY <1>3
<1>10. Asked = {} /\ Asked' = {}
  BY <1>3 DEF QInv, NoSearch, Asked
<1>11. ASSUME NEW q \in Friends
       PROVE  PlayerOK(q, app'[q], sock'[q], inbox'[q], tables', offers', Asked')
  <2>1. PICK a, b : a = app'[q] /\ b = inbox[q]
    OBVIOUS
  <2>2. sock'[q] = 1 /\ inbox'[q] = b
    BY <1>3, <2>1
  <2>3. a.phase = "table" /\ a.table = 1 /\ a.key = k /\ a.role = (IF q = p THEN 0 ELSE 1)
        /\ a.next[2] = a.asks
    BY <1>8, <2>1
  <2>4. SeatOf(q, a, tables')
    <3>1. g.by[a.role + 1] = q /\ g.keys[a.role + 1] = k
      BY <1>7, <2>3, FoeIs
    <3> QED
      BY <1>9, <2>3, <3>1 DEF SeatOf
  <2>5. Asking(q, a, 1, Asked') /\ Offering(q, a, 1, offers')
    BY <1>9, <1>10 DEF Asking, Offering
  <2>6. Told(q, a, b, tables', offers')
    <3>1. Told(q, app[q], b, tables, offers)
      BY <2>1, QPlayer DEF PlayerOK
    <3> QED
      BY <1>9, <3>1 DEF Told, Posted
  <2>7. PlayerOK(q, a, 1, b, tables', offers', Asked')
    BY <2>3, <2>4, <2>5, <2>6 DEF PlayerOK
  <2> QED
    BY <2>1, <2>2, <2>7
<1>12. app' \in [Friends -> AppPages]
  BY <1>1, <1>8
<1>13. sock' \in [Friends -> 0 .. MaxSockets] /\ linked' \subseteq Sockets
  BY <1>3, <1>4 DEF Sockets
<1>14. /\ tables' \in Seq(Games) /\ room' \in Seq(SUBSET Sockets) /\ offers' \in Seq(SUBSET Requests)
       /\ Len(tables') = 1 /\ Len(room') = 1 /\ Len(offers') = 1
  BY <1>3, <1>7, <1>13
<1>15. QuickTypeOK'
  BY <1>3, <1>4, <1>12, <1>13, <1>14 DEF QInv, QuickTypeOK
<1>16. TwoPlayers'
  BY <1>7, <1>9 DEF TwoPlayers
<1>17. NoSearch'
  BY <1>8, <1>10 DEF NoSearch
<1> QED
  BY <1>11, <1>15, <1>16, <1>17, QNext

-----------------------------------------------------------------------------
(* The rematch.                                                            *)

\* p has no other offers than before, but at game t the offer o only.
Renewed(p, t, o, O, O2) ==
  \A u \in DOMAIN O2 : \A x \in O2[u] : x.sock[1] = p =>
    (u \in DOMAIN O /\ x \in O[u] /\ u # t) \/ (u = t /\ x = o)

\* p's page once it has offered: its only offer at its table is the last one.
LEMMA Offers ==
  ASSUME NEW p, NEW a, NEW k \in Nat, NEW b, NEW T, NEW O, NEW R, PlayerOK(p, a, k, b, T, O, R),
         NEW a2, NEW o, NEW b2, NEW T2, NEW O2, a.phase = "over", a2.phase = "over", a.asks \in Nat,
         a2.table = a.table, a2.role = a.role, a2.key = a.key, a2.asks = a.asks + 1, a2.next = o.key,
         o.sock[2] = k, o.key[2] = a.asks + 1, Grown(T, T2), DOMAIN O = DOMAIN T, DOMAIN O2 = DOMAIN T2,
         Renewed(p, a.table, o, O, O2),
         Delivered(p, a2, b, b2, T2, O2)
  PROVE  PlayerOK(p, a2, k, b2, T2, O2, R)
<1>1. Live(a) /\ Live(a2) /\ Sitting(a) /\ Sitting(a2) /\ k >= 1
  BY DEF Live, Sitting, PlayerOK
<1>2. SeatOf(p, a2, T2)
  BY <1>1 DEF PlayerOK, SeatOf, Grown
<1>3. Asking(p, a2, k, R)
  BY <1>1 DEF PlayerOK, Asking
<1>4. Offering(p, a2, k, O2)
  <2> SUFFICES ASSUME NEW u \in DOMAIN O2, NEW x \in O2[u], x.sock[1] = p
               PROVE  /\ x.sock[2] <= k
                      /\ (Sitting(a2) /\ a2.table = u) => a2.asks >= 1
                      /\ (x.sock[2] = k /\ Live(a2)) => a2.phase = "over" /\ a2.table = u /\ x.key = a2.next
    BY DEF Offering
  <2>0. (u \in DOMAIN O /\ x \in O[u] /\ u # a.table) \/ (u = a.table /\ x = o)
    BY DEF Renewed
  <2>1. CASE u \in DOMAIN O /\ x \in O[u] /\ u # a.table
    <3>1. x.sock[2] <= k /\ x.sock[2] # k
      BY <1>1, <2>1 DEF PlayerOK, Offering
    <3> QED
      BY <2>1, <3>1
  <2>2. CASE u = a.table /\ x = o
    BY <2>2
  <2> QED
    BY <2>0, <2>1, <2>2
<1>5. Told(p, a2, b2, T2, O2)
  <2> SUFFICES ASSUME NEW i \in DOMAIN b2, b2[i].kind \in SeatKinds, ~Posted(p, a2, b2[i], T2, O2)
               PROVE  FALSE
    BY DEF Told
  <2>1. PICK j \in DOMAIN b : b[j] = b2[i]
    BY DEF Delivered
  <2>2. PICK m : m = b2[i]
    OBVIOUS
  <2>3. Posted(p, a, m, T, O)
    BY <2>1, <2>2 DEF PlayerOK, Told
  <2>4. m.table \in DOMAIN T /\ m.table \in DOMAIN T2 /\ T2[m.table].by = T[m.table].by /\ a.table # m.table
    BY <1>1, <2>3 DEF Posted, Grown
  <2>5. \A x \in O2[m.table] : x.sock[1] # p
    BY <2>3, <2>4 DEF Posted, Renewed
  <2>6. T2[m.table].by[m.role + 1] = p
    BY <2>3, <2>4 DEF Posted
  <2>7. m.kind = "ready" => a2.asks >= 1 /\ a2.asks # 1
    BY <1>1, <2>3 DEF Posted
  <2>8. Posted(p, a2, m, T2, O2)
    BY <2>4, <2>5, <2>6, <2>7 DEF Posted
  <2> QED
    BY <2>2, <2>8
<1> QED
  BY <1>1, <1>2, <1>3, <1>4, <1>5 DEF PlayerOK

\* The offer p makes now.
OfferOf(p) == [sock |-> <<p, sock[p]>>, key |-> <<sock[p], app[p].asks + 1>>]

\* What every offer starts from: the page a, the offer o, the page a2 after it.
LEMMA OfferIs ==
  ASSUME QInv, NEW p \in Friends, RequestRematch(p),
         NEW a, a = app[p], NEW k, k = sock[p],
         NEW o, o = OfferOf(p), NEW a2, a2 = app'[p]
  PROVE  /\ a.phase = "over" /\ a.asks \in Nat /\ k \in Nat /\ a.table \in DOMAIN tables
         /\ PlayerOK(p, a, k, inbox[p], tables, offers, Asked)
         /\ a2.phase = "over" /\ a2.table = a.table /\ a2.role = a.role /\ a2.key = a.key
         /\ a2.asks = a.asks + 1 /\ a2.next = o.key /\ o \in Requests /\ o.sock = <<p, k>>
         /\ o.sock[1] = p /\ o.sock[2] = k /\ o.key[2] = a.asks + 1
         /\ app' \in [Friends -> AppPages] /\ \A q \in Friends \ {p} : app'[q] = app[q]
         /\ RematchOffer(a.table, o) /\ UNCHANGED <<sock, linked, rating, queue, pools>>
<1>1. /\ a.phase = "over" /\ a.asks < MaxAsks /\ RematchOffer(a.table, o)
      /\ app' = [app EXCEPT ![p].rematch = "offered", ![p].asks = @ + 1, ![p].next = o.key]
      /\ UNCHANGED <<sock, linked, rating, queue, pools>>
  BY DEF RequestRematch, Current, OfferOf
<1>2. a \in AppPages /\ k \in 0 .. MaxSockets /\ k \in Nat
      /\ PlayerOK(p, a, k, inbox[p], tables, offers, Asked)
  BY QPlayer
<1>3. a.asks \in Nat /\ a.asks + 1 \in 0 .. MaxAsks
  BY <1>1, <1>2 DEF AppPages, MaxAsks
<1>4. k >= 1 /\ a.table \in DOMAIN tables
  BY <1>1, <1>2 DEF PlayerOK, Live, Sitting, SeatOf
<1>5. MaxSockets \in Nat /\ k \in 1 .. MaxSockets
  BY <1>2, <1>4, IdleIs
<1>6. <<p, k>> \in Sockets /\ <<k, a.asks + 1>> \in Keys
  BY <1>2, <1>3, <1>5 DEF Sockets, Keys
<1>7. o \in Requests /\ o.sock = <<p, k>> /\ o.key = <<k, a.asks + 1>> /\ o.key \in Keys
  BY <1>6 DEF Requests, OfferOf
<1>8. PICK c : c = [a EXCEPT !.rematch = "offered", !.asks = a.asks + 1, !.next = o.key]
  OBVIOUS
<1>9. app' = [app EXCEPT ![p] = c]
  BY <1>1, <1>8
<1>10. /\ c \in AppPages /\ c.phase = a.phase /\ c.table = a.table /\ c.role = a.role /\ c.key = a.key
       /\ c.asks = a.asks + 1 /\ c.next = o.key
  BY <1>2, <1>3, <1>7, <1>8 DEF AppPages
<1>11. app' \in [Friends -> AppPages] /\ a2 = c /\ \A q \in Friends \ {p} : app'[q] = app[q]
  BY <1>9, <1>10, QTypes
<1> QED
  BY <1>1, <1>2, <1>3, <1>4, <1>7, <1>10, <1>11

\* The rest of the invariant after an offer.
LEMMA OfferKeeps ==
  ASSUME QInv, NEW p \in Friends, app'[p].phase = "over", app' \in [Friends -> AppPages],
         \A q \in Friends \ {p} : app'[q] = app[q],
         UNCHANGED <<staked, sock, linked, rating, queue, pools>>,
         inbox' \in [Friends -> Seq(Messages)], tables' \in Seq(Games), room' \in Seq(SUBSET Sockets),
         offers' \in Seq(SUBSET Requests), Len(tables') <= MaxTables, Len(room') = Len(tables'),
         Len(offers') = Len(tables'), reserved' \subseteq Friends, TwoPlayers',
         \A q \in Friends : PlayerOK(q, app'[q], sock[q], inbox'[q], tables', offers', Asked)
  PROVE  QInv'
<1>1. Asked' = Asked
  BY DEF Asked
<1>2. QuickTypeOK'
  BY DEF QInv, QuickTypeOK
<1>3. NoSearch'
  BY <1>1 DEF QInv, NoSearch
<1> QED
  BY <1>1, <1>2, <1>3, QNext

\* The offers with those at game t replaced, and what the room hears of an offer.
Replaced(t, X) == [offers EXCEPT ![t] = X]
Offered(t, s) == Others(inbox, t, s, Msg("offered", t, 0))
\* Nobody is seated by what the inboxes got.
Unseating ==
  \A q \in Friends : /\ \A T, O, c : Delivered(q, c, inbox[q], inbox'[q], T, O)
                     /\ app[q].phase = "idle" => inbox'[q] = <<>>

LEMMA ReplacedIs ==
  ASSUME QInv, NEW t \in DOMAIN tables, NEW X \in SUBSET Requests, NEW f, f = Replaced(t, X)
  PROVE  /\ f \in Seq(SUBSET Requests) /\ Len(f) = Len(tables) /\ DOMAIN f = DOMAIN tables
         /\ \A u \in DOMAIN tables : f[u] = IF u = t THEN X ELSE offers[u]
<1>1. /\ DOMAIN offers = 1 .. Len(tables) /\ DOMAIN tables = 1 .. Len(tables) /\ Len(tables) \in Nat
      /\ offers \in Seq(SUBSET Requests)
  BY QTypes
<1>2. f \in [1 .. Len(tables) -> SUBSET Requests]
      /\ \A u \in DOMAIN tables : f[u] = IF u = t THEN X ELSE offers[u]
  BY <1>1 DEF Replaced
<1>3. f \in Seq(SUBSET Requests) /\ Len(f) = Len(tables)
  BY <1>1, <1>2, SeqTyped
<1> QED
  BY <1>1, <1>2, <1>3

\* The offer pends, or the two go to the money panel.
LEMMA OfferPends ==
  ASSUME QInv, NEW p \in Friends, RequestRematch(p), UNCHANGED staked,
         NEW o, o = OfferOf(p),
         NEW X \in SUBSET {o}, offers' = Replaced(app[p].table, X),
         UNCHANGED <<tables, room>>, reserved' \subseteq Friends, inbox' \in [Friends -> Seq(Messages)],
         Unseating
  PROVE  QInv'
<1>1. PICK a, k, a2, t : a = app[p] /\ k = sock[p] /\ a2 = app'[p] /\ t = app[p].table
  OBVIOUS
<1>2. /\ a.phase = "over" /\ a.asks \in Nat /\ k \in Nat /\ t \in DOMAIN tables /\ t = a.table
      /\ PlayerOK(p, a, k, inbox[p], tables, offers, Asked)
      /\ a2.phase = "over" /\ a2.table = a.table /\ a2.role = a.role /\ a2.key = a.key
      /\ a2.asks = a.asks + 1 /\ a2.next = o.key /\ o \in Requests
      /\ o.sock[1] = p /\ o.sock[2] = k /\ o.key[2] = a.asks + 1
      /\ app' \in [Friends -> AppPages] /\ \A q \in Friends \ {p} : app'[q] = app[q]
      /\ UNCHANGED <<sock, linked, rating, queue, pools>>
  BY <1>1, OfferIs
<1>3. /\ DOMAIN offers = 1 .. Len(tables) /\ DOMAIN offers = DOMAIN tables /\ Len(tables) \in Nat
      /\ \A u \in DOMAIN offers : offers[u] \in SUBSET Requests
      /\ tables \in Seq(Games) /\ room \in Seq(SUBSET Sockets) /\ Len(room) = Len(tables)
      /\ Len(tables) <= MaxTables
  BY QTypes
<1>4. offers' \in Seq(SUBSET Requests) /\ Len(offers') = Len(tables) /\ DOMAIN offers' = DOMAIN tables
      /\ \A u \in DOMAIN offers : offers'[u] = IF u = t THEN X ELSE offers[u]
  <2>1. X \in SUBSET Requests /\ offers' = Replaced(t, X) /\ t \in DOMAIN tables
    BY <1>1, <1>2
  <2> QED
    BY <1>3, <2>1, ReplacedIs
<1>5. PlayerOK(p, a2, k, inbox'[p], tables, offers', Asked)
  <2>1. Renewed(p, a.table, o, offers, offers')
    BY <1>2, <1>3, <1>4 DEF Renewed
  <2>2. Grown(tables, tables) /\ Delivered(p, a2, inbox[p], inbox'[p], tables, offers')
    BY Unmoved DEF Unseating
  <2>3. /\ a.phase = "over" /\ a.asks \in Nat /\ k \in Nat
        /\ PlayerOK(p, a, k, inbox[p], tables, offers, Asked)
        /\ a2.phase = "over" /\ a2.table = a.table /\ a2.role = a.role /\ a2.key = a.key
        /\ a2.asks = a.asks + 1 /\ a2.next = o.key /\ o.sock[2] = k /\ o.key[2] = a.asks + 1
        /\ DOMAIN offers = DOMAIN tables /\ DOMAIN offers' = DOMAIN tables
    BY <1>2, <1>3, <1>4
  <2> QED
    BY <2>1, <2>2, <2>3, Offers
<1>6. ASSUME NEW q \in Friends, q # p
      PROVE  PlayerOK(q, app[q], sock[q], inbox'[q], tables, offers', Asked)
  <2>1. FewerOffers(q, offers, offers')
    <3> SUFFICES ASSUME NEW u \in DOMAIN offers', NEW x \in offers'[u], x.sock[1] = q
                 PROVE  u \in DOMAIN offers /\ x \in offers[u]
      BY DEF FewerOffers
    <3> QED
      BY <1>2, <1>3, <1>4, <1>6
  <2>2. Grown(tables, tables) /\ FewerAsks(q, Asked, Asked)
        /\ Delivered(q, app[q], inbox[q], inbox'[q], tables, offers')
    BY Unmoved DEF Unseating
  <2>3. PlayerOK(q, app[q], sock[q], inbox[q], tables, offers, Asked)
    BY QPlayer
  <2>4. app[q].phase = "idle" => inbox'[q] = <<>>
    BY DEF Unseating
  <2> QED
    BY <1>3, <1>4, <2>1, <2>2, <2>3, <2>4, OthersMove
<1>7. \A q \in Friends : PlayerOK(q, app'[q], sock[q], inbox'[q], tables', offers', Asked)
  BY <1>1, <1>2, <1>5, <1>6
<1>8. TwoPlayers'
  BY DEF QInv, TwoPlayers
<1>9. tables' \in Seq(Games) /\ room' \in Seq(SUBSET Sockets) /\ Len(tables') <= MaxTables
      /\ Len(room') = Len(tables') /\ Len(offers') = Len(tables') /\ app'[p].phase = "over"
  BY <1>1, <1>2, <1>3, <1>4
<1> QED
  BY <1>2, <1>4, <1>7, <1>8, <1>9, OfferKeeps

\* A free game of the earlier offer x and this one: p's seat is the second.
LEMMA OfferCompletes ==
  ASSUME QInv, NEW p \in Friends, RequestRematch(p), UNCHANGED staked,
         NEW o, o = OfferOf(p),
         NEW t, t = app[p].table, NEW x \in offers[t], x.sock # o.sock,
         NEW box, box = Offered(t, o.sock),
         CompleteCasual(t, box, x, o), UNCHANGED reserved
  PROVE  QInv'
<1>1. PICK a, k, a2, n, g :
        /\ a = app[p] /\ k = sock[p] /\ a2 = app'[p] /\ n = Len(tables) + 1
        /\ g = [keys |-> <<x.key, o.key>>, by |-> <<x.sock[1], o.sock[1]>>, over |-> FALSE]
  OBVIOUS
<1>2. /\ a.phase = "over" /\ a.asks \in Nat /\ k \in Nat /\ t \in DOMAIN tables /\ t = a.table
      /\ PlayerOK(p, a, k, inbox[p], tables, offers, Asked)
      /\ a2.phase = "over" /\ a2.table = a.table /\ a2.role = a.role /\ a2.key = a.key
      /\ a2.asks = a.asks + 1 /\ a2.next = o.key /\ o \in Requests /\ o.sock = <<p, k>>
      /\ o.sock[1] = p /\ o.sock[2] = k /\ o.key[2] = a.asks + 1
      /\ app' \in [Friends -> AppPages] /\ \A q \in Friends \ {p} : app'[q] = app[q]
      /\ UNCHANGED <<sock, linked, rating, queue, pools>>
  BY <1>1, OfferIs
<1>3. /\ DOMAIN offers = 1 .. Len(tables) /\ DOMAIN offers = DOMAIN tables /\ Len(tables) \in Nat
      /\ DOMAIN tables = 1 .. Len(tables)
      /\ \A u \in DOMAIN offers : offers[u] \in SUBSET Requests
      /\ tables \in Seq(Games) /\ room \in Seq(SUBSET Sockets) /\ Len(room) = Len(tables)
      /\ offers \in Seq(SUBSET Requests) /\ Len(offers) = Len(tables) /\ inbox \in [Friends -> Seq(Messages)]
  <2>1. /\ DOMAIN offers = 1 .. Len(tables) /\ DOMAIN offers = DOMAIN tables /\ Len(tables) \in Nat
        /\ DOMAIN tables = 1 .. Len(tables)
        /\ tables \in Seq(Games) /\ room \in Seq(SUBSET Sockets) /\ Len(room) = Len(tables)
        /\ offers \in Seq(SUBSET Requests) /\ Len(offers) = Len(tables) /\ inbox \in [Friends -> Seq(Messages)]
    BY QTypes
  <2>2. \A u \in DOMAIN offers : offers[u] \in SUBSET Requests
    BY <2>1
  <2> QED
    BY <2>1, <2>2
<1>4. /\ tables' = Append(tables, g) /\ room' = Append(room, {}) /\ Len(tables) < MaxTables
      /\ offers' = Append(Replaced(t, {}), {})
      /\ inbox' = Sent(Sent(box, x.sock, Msg("ready", n, 0)), o.sock, Msg("ready", n, 1))
  BY <1>1 DEF CompleteCasual, OpenTable, Seat, Replaced
<1>5. x \in Requests /\ x.sock \in Sockets /\ x.key \in Keys /\ x.sock[1] \in Friends
      /\ o.sock \in Sockets /\ o.key \in Keys
  BY <1>2, <1>3 DEF Requests, Sockets
<1>6. g \in Games /\ g.by[1] = x.sock[1] /\ g.by[2] = p /\ g.keys[1] = x.key /\ g.keys[2] = o.key
  BY <1>1, <1>2, <1>5 DEF Games
<1>7. n \in 0 .. MaxTables /\ n \notin DOMAIN tables /\ MaxTables \in Nat /\ t # n
  <2>1. MaxTables \in Nat /\ Len(tables) \in Nat /\ n = Len(tables) + 1 /\ Len(tables) < MaxTables
    BY <1>1, <1>3, <1>4, IdleIs
  <2>2. t \in 1 .. Len(tables) /\ DOMAIN tables = 1 .. Len(tables)
    BY <1>2, <1>3
  <2> QED
    BY <2>1, <2>2
<1>8. /\ tables' \in Seq(Games) /\ Len(tables') = n /\ tables'[n] = g
      /\ DOMAIN tables' = 1 .. n /\ \A u \in DOMAIN tables : tables'[u] = tables[u]
  BY <1>1, <1>3, <1>4, <1>6, AppendProperties, LenProperties
<1>9. /\ offers' \in Seq(SUBSET Requests) /\ Len(offers') = n /\ offers'[n] = {} /\ DOMAIN offers' = 1 .. n
      /\ \A u \in DOMAIN tables : offers'[u] = IF u = t THEN {} ELSE offers[u]
  <2>1. {} \in SUBSET Requests
    OBVIOUS
  <2>2. PICK f : f = Replaced(t, {})
    OBVIOUS
  <2>3. f \in Seq(SUBSET Requests) /\ Len(f) = Len(tables) /\ DOMAIN f = DOMAIN tables
        /\ \A u \in DOMAIN tables : f[u] = IF u = t THEN {} ELSE offers[u]
    BY <1>2, <2>1, <2>2, ReplacedIs
  <2>4. f \in Seq(SUBSET Requests) /\ Len(f) = Len(tables) /\ offers' = Append(f, {})
    BY <1>4, <2>2, <2>3
  <2>5. /\ offers' \in Seq(SUBSET Requests) /\ Len(offers') = n /\ offers'[n] = {}
        /\ \A u \in 1 .. Len(tables) : offers'[u] = f[u]
    BY <1>1, <2>1, <2>4, AppendProperties
  <2>6. DOMAIN offers' = 1 .. n
    BY <2>5, LenProperties
  <2> QED
    BY <1>3, <2>3, <2>5, <2>6
<1>10. room' \in Seq(SUBSET Sockets) /\ Len(room') = n
  <2>1. {} \in SUBSET Sockets
    OBVIOUS
  <2> QED
    BY <1>1, <1>3, <1>4, <2>1, AppendProperties, LenProperties
<1>11. PICK mo, m0, m1 : mo = Msg("offered", t, 0) /\ m0 = Msg("ready", n, 0) /\ m1 = Msg("ready", n, 1)
  OBVIOUS
<1>12. t \in 0 .. MaxTables
  BY <1>2, <1>3, <1>4, <1>7
<1>13. /\ mo \in Messages /\ mo.kind = "offered"
       /\ m0 \in Messages /\ m0.kind = "ready" /\ m0.table = n /\ m0.role = 0
       /\ m1 \in Messages /\ m1.kind = "ready" /\ m1.table = n /\ m1.role = 1
  BY <1>7, <1>11, <1>12 DEF Msg, Messages
<1>14. /\ box \in [Friends -> Seq(Messages)]
       /\ \A q \in Friends : box[q] = inbox[q] \/ (Connected(q) /\ box[q] = Append(inbox[q], mo))
       /\ box[p] = inbox[p]
  <2>1. box = Others(inbox, t, o.sock, mo)
    BY <1>11 DEF Offered
  <2>2. o.sock = Current(p)
    BY <1>1, <1>2 DEF Current
  <2>3. inbox \in [Friends -> Seq(Messages)] /\ mo \in Messages
    BY <1>3, <1>13
  <2>4. /\ box \in [Friends -> Seq(Messages)]
        /\ \A q \in Friends : box[q] = inbox[q] \/ (Connected(q) /\ box[q] = Append(inbox[q], mo))
        /\ \A q \in Friends : o.sock = Current(q) => box[q] = inbox[q]
    BY <2>1, <2>3, OthersIs
  <2> QED
    BY <2>2, <2>4
<1>15. PICK b1 : b1 = Sent(box, x.sock, m0)
  OBVIOUS
<1>16. /\ b1 \in [Friends -> Seq(Messages)]
       /\ \A q \in Friends : b1[q] = IF q = x.sock[1] /\ Reached(x.sock) THEN Append(box[q], m0) ELSE box[q]
  <2>1. x.sock \in Sockets /\ m0 \in Messages /\ box \in [Friends -> Seq(Messages)]
    BY <1>5, <1>13, <1>14
  <2> QED
    BY <1>15, <2>1, SentIs
<1>17. /\ inbox' \in [Friends -> Seq(Messages)]
       /\ \A q \in Friends : inbox'[q] = IF q = o.sock[1] /\ Reached(o.sock) THEN Append(b1[q], m1) ELSE b1[q]
  <2>1. inbox' = Sent(b1, o.sock, m1)
    BY <1>4, <1>11, <1>15
  <2>2. o.sock \in Sockets /\ m1 \in Messages /\ b1 \in [Friends -> Seq(Messages)]
    BY <1>5, <1>13, <1>16
  <2> QED
    BY <2>1, <2>2, SentIs
<1>18. Grown(tables, tables') /\ DOMAIN offers' = DOMAIN tables'
  BY <1>1, <1>3, <1>8, <1>9 DEF Grown
<1>19. \A u \in DOMAIN offers' : \A y \in offers'[u] : u \in DOMAIN offers /\ y \in offers[u] /\ u # t
  <2> SUFFICES ASSUME NEW u \in DOMAIN offers', NEW y \in offers'[u]
               PROVE  u \in DOMAIN offers /\ y \in offers[u] /\ u # t
    OBVIOUS
  <2>1. u # n /\ u \in 1 .. n
    BY <1>9
  <2>2. u \in DOMAIN tables
    BY <1>1, <1>3, <2>1
  <2> QED
    BY <1>3, <1>9, <2>2
<1>20. n \in DOMAIN tables' /\ tables'[n] = g /\ offers'[n] = {}
  BY <1>1, <1>3, <1>8, <1>9
<1>21. PlayerOK(p, a2, k, inbox'[p], tables', offers', Asked)
  <2>1. Posted(p, a2, m1, tables', offers')
    <3>1. a2.table # n /\ a2.phase = "over" /\ a2.asks >= 1
      BY <1>2, <1>7
    <3> QED
      BY <1>2, <1>6, <1>13, <1>20, <3>1 DEF Posted
  <2>2. ~(p = x.sock[1] /\ Reached(x.sock))
    BY <1>1, <1>2 DEF Reached, Current
  <2>3. b1[p] = inbox[p]
    BY <1>14, <1>16, <2>2
  <2>4. inbox'[p] \in {inbox[p], Append(inbox[p], m1)}
    BY <1>17, <2>3
  <2>5. Delivered(p, a2, inbox[p], inbox[p], tables', offers') /\ inbox[p] \in Seq(Messages)
    BY <1>3, Same
  <2>6. Delivered(p, a2, inbox[p], Append(inbox[p], m1), tables', offers')
    BY <1>13, <2>1, <2>5, OneArrives
  <2>7. Delivered(p, a2, inbox[p], inbox'[p], tables', offers')
    BY <2>4, <2>5, <2>6
  <2>8. Renewed(p, a.table, o, offers, offers')
    BY <1>2, <1>19 DEF Renewed
  <2>9. /\ a.phase = "over" /\ a.asks \in Nat /\ k \in Nat
        /\ PlayerOK(p, a, k, inbox[p], tables, offers, Asked)
        /\ a2.phase = "over" /\ a2.table = a.table /\ a2.role = a.role /\ a2.key = a.key
        /\ a2.asks = a.asks + 1 /\ a2.next = o.key /\ o.sock[2] = k /\ o.key[2] = a.asks + 1
        /\ DOMAIN offers = DOMAIN tables /\ DOMAIN offers' = DOMAIN tables' /\ Grown(tables, tables')
    BY <1>2, <1>3, <1>18
  <2> QED
    BY <2>7, <2>8, <2>9, Offers
<1>22. ASSUME NEW q \in Friends, q # p
       PROVE  PlayerOK(q, app[q], sock[q], inbox'[q], tables', offers', Asked)
  <2>1. PlayerOK(q, app[q], sock[q], inbox[q], tables, offers, Asked) /\ inbox[q] \in Seq(Messages)
    BY QPlayer
  <2>2. FewerOffers(q, offers, offers') /\ FewerAsks(q, Asked, Asked)
    BY <1>19 DEF FewerOffers, FewerAsks
  <2>3. Delivered(q, app[q], inbox[q], inbox[q], tables', offers')
    BY Same
  <2>4. Delivered(q, app[q], inbox[q], Append(inbox[q], mo), tables', offers')
    BY <1>13, <2>1, <2>3, OneArrives DEF SeatKinds
  <2>5. Delivered(q, app[q], inbox[q], box[q], tables', offers') /\ box[q] \in Seq(Messages)
        /\ (app[q].phase = "idle" => box[q] = <<>>)
    BY <1>14, <2>1, <2>3, <2>4 DEF Connected, PlayerOK
  <2>6. inbox'[q] = b1[q]
    BY <1>2, <1>17, <1>22
  <2>7. CASE q = x.sock[1] /\ Reached(x.sock)
    <3>1. x.sock[2] = sock[q] /\ app[q].phase \in {"searching", "table", "over"}
      BY <2>7 DEF Reached, Current, Connected
    <3>2. app[q].phase = "over" /\ app[q].table = t /\ x.key = app[q].next /\ app[q].asks >= 1
      BY <1>2, <1>3, <2>1, <2>7, <3>1 DEF PlayerOK, Offering, Live, Sitting
    <3>3. Posted(q, app[q], m0, tables', offers')
      BY <1>6, <1>7, <1>13, <1>20, <2>7, <3>2 DEF Posted
    <3>4. Delivered(q, app[q], inbox[q], Append(box[q], m0), tables', offers')
      BY <1>13, <2>5, <3>3, OneArrives
    <3>5. Delivered(q, app[q], inbox[q], inbox'[q], tables', offers') /\ app[q].phase # "idle"
      BY <1>16, <2>6, <2>7, <3>2, <3>4
    <3> QED
      BY <1>3, <1>18, <2>1, <2>2, <3>5, OthersMove
  <2>8. CASE ~(q = x.sock[1] /\ Reached(x.sock))
    <3>1. inbox'[q] = box[q]
      BY <1>16, <2>6, <2>8
    <3>2. Delivered(q, app[q], inbox[q], inbox'[q], tables', offers')
          /\ (app[q].phase = "idle" => inbox'[q] = <<>>)
      BY <2>5, <3>1
    <3> QED
      BY <1>3, <1>18, <2>1, <2>2, <3>2, OthersMove
  <2> QED
    BY <2>7, <2>8
<1>23. \A q \in Friends : PlayerOK(q, app'[q], sock[q], inbox'[q], tables', offers', Asked)
  BY <1>1, <1>2, <1>21, <1>22
<1>24. TwoPlayers'
  <2> SUFFICES ASSUME NEW u \in DOMAIN tables', tables'[u].keys[1][2] <= 1, tables'[u].keys[2][2] <= 1
               PROVE  tables'[u].by[1] # tables'[u].by[2]
    BY DEF TwoPlayers
  <2>1. CASE u = n
    <3>1. o.key[2] <= 1
      BY <1>6, <1>8, <2>1
    <3>2. a.asks = 0
      BY <1>2, <3>1
    <3>3. x.sock[1] # p
      BY <1>2, <1>3, <3>2 DEF PlayerOK, Offering, Sitting
    <3> QED
      BY <1>6, <1>8, <2>1, <3>3
  <2>2. CASE u # n
    <3>1. u \in DOMAIN tables
      BY <1>1, <1>3, <1>8, <2>2
    <3> QED
      BY <1>8, <3>1 DEF QInv, TwoPlayers
  <2> QED
    BY <2>1, <2>2
<1>25. Len(tables') <= MaxTables /\ Len(room') = Len(tables') /\ Len(offers') = Len(tables')
       /\ app'[p].phase = "over" /\ reserved' \subseteq Friends
  BY <1>1, <1>2, <1>7, <1>8, <1>9, <1>10, PoolsAre
<1> QED
  BY <1>2, <1>8, <1>9, <1>10, <1>17, <1>23, <1>24, <1>25, OfferKeeps

LEMMA RematchKeeps == ASSUME QInv, NEW p \in Friends, RequestRematch(p), UNCHANGED staked PROVE QInv'
<1>1. PICK t, o : t = app[p].table /\ o = OfferOf(p)
  OBVIOUS
<1>2. RematchOffer(t, o) /\ t \in DOMAIN tables /\ o \in Requests /\ o.sock = <<p, sock[p]>>
      /\ o.sock = Current(p) /\ o.sock \in Sockets /\ UNCHANGED <<sock, linked, rating, queue, pools>>
  <2>1. RematchOffer(t, o) /\ t \in DOMAIN tables /\ o \in Requests /\ o.sock = <<p, sock[p]>>
        /\ UNCHANGED <<sock, linked, rating, queue, pools>>
    BY <1>1, OfferIs
  <2> QED
    BY <2>1 DEF Current, Requests
<1>3. PICK told, first : /\ told = Offered(t, o.sock)
                         /\ first = {x \in offers[t] : x.sock # o.sock}
  OBVIOUS
<1>4. t \in 0 .. MaxTables
  BY <1>2, QTypes
<1>5. PICK mo, m0, m1 : mo = Msg("offered", t, 0) /\ m0 = Msg("go", t, 0) /\ m1 = Msg("go", t, 1)
  OBVIOUS
<1>6. /\ mo \in Messages /\ mo.kind \notin SeatKinds /\ m0 \in Messages /\ m0.kind \notin SeatKinds
      /\ m1 \in Messages /\ m1.kind \notin SeatKinds
  BY <1>4, <1>5 DEF Msg, Messages, SeatKinds
<1>7. /\ told \in [Friends -> Seq(Messages)]
      /\ \A q \in Friends : told[q] = inbox[q] \/ (Connected(q) /\ told[q] = Append(inbox[q], mo))
  <2>1. told = Others(inbox, t, o.sock, mo)
    BY <1>3, <1>5 DEF Offered
  <2>2. inbox \in [Friends -> Seq(Messages)] /\ mo \in Messages
    BY <1>6, QTypes
  <2>3. /\ Others(inbox, t, o.sock, mo) \in [Friends -> Seq(Messages)]
        /\ \A q \in Friends : \/ Others(inbox, t, o.sock, mo)[q] = inbox[q]
                              \/ Connected(q) /\ Others(inbox, t, o.sock, mo)[q] = Append(inbox[q], mo)
    BY <2>2, OthersIs
  <2> QED
    BY <2>1, <2>3
<1>8. ASSUME NEW q \in Friends
      PROVE  /\ \A T, O, c : Delivered(q, c, inbox[q], told[q], T, O)
             /\ app[q].phase = "idle" => told[q] = <<>>
  <2>1. PlayerOK(q, app[q], sock[q], inbox[q], tables, offers, Asked) /\ inbox[q] \in Seq(Messages)
    BY QPlayer
  <2>2. ASSUME NEW T, NEW O, NEW c PROVE Delivered(q, c, inbox[q], told[q], T, O)
    <3>1. Delivered(q, c, inbox[q], inbox[q], T, O)
      BY Same
    <3>2. Delivered(q, c, inbox[q], Append(inbox[q], mo), T, O)
      BY <1>6, <2>1, <3>1, OneArrives
    <3> QED
      BY <1>7, <3>1, <3>2
  <2>3. app[q].phase = "idle" => told[q] = <<>>
    BY <1>7, <2>1 DEF Connected, PlayerOK
  <2> QED
    BY <2>2, <2>3
<1>9. CASE first = {}
  <2>1. offers' = Replaced(t, {o}) /\ inbox' = told /\ UNCHANGED <<tables, room, reserved>>
    BY <1>2, <1>3, <1>9 DEF RematchOffer, Offered, Replaced
  <2>2. {o} \in SUBSET {o} /\ reserved' \subseteq Friends
    BY <2>1, PoolsAre
  <2>3. Unseating
    BY <1>8, <2>1 DEF Unseating
  <2>4. /\ o = OfferOf(p) /\ {o} \in SUBSET {o} /\ offers' = Replaced(app[p].table, {o})
        /\ UNCHANGED <<tables, room>> /\ reserved' \subseteq Friends
        /\ inbox' \in [Friends -> Seq(Messages)] /\ Unseating
    BY <1>1, <1>7, <2>1, <2>2, <2>3
  <2> QED
    BY <2>4, OfferPends
<1>10. ASSUME NEW x \in first, staked,
              offers' = Replaced(t, {}), reserved' = reserved \cup Reserve(x, o),
              inbox' = Sent(Sent(told, x.sock, m0), o.sock, m1), UNCHANGED <<tables, room>>
       PROVE  QInv'
  <2>1. x \in Requests
    BY <1>2, <1>3, <1>10, QTypes
  <2>2. x.sock \in Sockets /\ x.sock[1] \in Friends /\ o.sock[1] \in Friends
    BY <1>2, <2>1 DEF Requests, Sockets
  <2>3. reserved' \subseteq Friends
    BY <1>10, <2>2, PoolsAre DEF Reserve
  <2>4. PICK b1 : b1 = Sent(told, x.sock, m0)
    OBVIOUS
  <2>5. /\ b1 \in [Friends -> Seq(Messages)]
        /\ \A q \in Friends : b1[q] = IF q = x.sock[1] /\ Reached(x.sock) THEN Append(told[q], m0) ELSE told[q]
    BY <1>6, <1>7, <2>2, <2>4, SentIs
  <2>6. /\ inbox' \in [Friends -> Seq(Messages)]
        /\ \A q \in Friends : inbox'[q] = IF q = o.sock[1] /\ Reached(o.sock) THEN Append(b1[q], m1) ELSE b1[q]
    <3>1. inbox' = Sent(b1, o.sock, m1)
      BY <1>10, <2>4
    <3> QED
      BY <1>2, <1>6, <2>5, <3>1, SentIs
  <2>7. ASSUME NEW q \in Friends
        PROVE  /\ \A T, O, c : Delivered(q, c, inbox[q], inbox'[q], T, O)
               /\ app[q].phase = "idle" => inbox'[q] = <<>>
    <3>1. told[q] \in Seq(Messages) /\ b1[q] \in Seq(Messages)
      BY <1>7, <2>5
    <3>2. ASSUME NEW T, NEW O, NEW c PROVE Delivered(q, c, inbox[q], inbox'[q], T, O)
      <4>1. Delivered(q, c, inbox[q], told[q], T, O)
        BY <1>8
      <4>2. Delivered(q, c, inbox[q], Append(told[q], m0), T, O)
        BY <1>6, <3>1, <4>1, OneArrives
      <4>3. Delivered(q, c, inbox[q], b1[q], T, O)
        BY <2>5, <4>1, <4>2
      <4>4. Delivered(q, c, inbox[q], Append(b1[q], m1), T, O)
        BY <1>6, <3>1, <4>3, OneArrives
      <4> QED
        BY <2>6, <4>3, <4>4
    <3>3. ASSUME app[q].phase = "idle" PROVE inbox'[q] = <<>>
      <4>1. ~(q = x.sock[1] /\ Reached(x.sock)) /\ ~(q = o.sock[1] /\ Reached(o.sock))
        BY <3>3 DEF Reached, Connected
      <4> QED
        BY <1>8, <2>5, <2>6, <3>3, <4>1
    <3> QED
      BY <3>2, <3>3
  <2>8. Unseating
    BY <2>7 DEF Unseating
  <2>9. /\ o = OfferOf(p) /\ {} \in SUBSET {o} /\ offers' = Replaced(app[p].table, {})
        /\ UNCHANGED <<tables, room>> /\ reserved' \subseteq Friends
        /\ inbox' \in [Friends -> Seq(Messages)] /\ Unseating
    BY <1>1, <1>10, <2>3, <2>6, <2>8
  <2> QED
    BY <2>9, OfferPends
<1>11. ASSUME NEW x \in first, CompleteCasual(t, told, x, o), UNCHANGED reserved
       PROVE  QInv'
  <2>1. x \in offers[t] /\ x.sock # o.sock
    BY <1>3, <1>11
  <2> QED
    BY <1>1, <1>3, <1>11, <2>1, OfferCompletes
<1>12. CASE first # {}
  <2>1. PICK x \in first :
          IF staked
          THEN /\ offers' = Replaced(t, {})
               /\ reserved' = reserved \cup Reserve(x, o)
               /\ inbox' = Sent(Sent(told, x.sock, m0), o.sock, m1)
               /\ UNCHANGED <<tables, room>>
          ELSE CompleteCasual(t, told, x, o) /\ UNCHANGED reserved
    BY <1>2, <1>3, <1>5, <1>12 DEF RematchOffer, Offered, Replaced
  <2> QED
    BY <1>10, <1>11, <2>1
<1> QED
  BY <1>9, <1>12

-----------------------------------------------------------------------------
(* The theorem.                                                            *)

LEMMA QuickStarts == QuickInit => QInv
<1> SUFFICES ASSUME QuickInit PROVE QInv
  OBVIOUS
<1>1. MaxSockets \in Nat /\ MaxTables \in Nat /\ 0 \in 0 .. MaxSockets
  BY IdleIs
<1>2. QuickTypeOK
  BY <1>1, IdleIs DEF QuickInit, QuickTypeOK
<1>3. TwoPlayers /\ NoSearch
  BY IdleIs DEF QuickInit, TwoPlayers, NoSearch, Asked
<1>4. ASSUME NEW p \in Friends
      PROVE  PlayerOK(p, app[p], sock[p], inbox[p], tables, offers, Asked)
  <2>1. app[p].phase = "idle" /\ app[p].asks = 0 /\ app[p].next = <<0, 0>> /\ inbox[p] = <<>>
    BY IdleIs DEF QuickInit
  <2>2. SeatOf(p, app[p], tables) /\ ~Live(app[p])
    BY <2>1 DEF SeatOf, Sitting, Live
  <2>3. Asking(p, app[p], sock[p], Asked) /\ Offering(p, app[p], sock[p], offers)
    BY DEF QuickInit, Asking, Offering, Asked
  <2>4. Told(p, app[p], inbox[p], tables, offers)
    BY <2>1 DEF Told
  <2> QED
    BY <2>1, <2>2, <2>3, <2>4 DEF PlayerOK
<1> QED
  BY <1>2, <1>3, <1>4 DEF QInv

LEMMA QuickStays == ASSUME QInv, UNCHANGED quickVars PROVE QInv'
<1>1. UNCHANGED <<staked, app, sock, inbox, linked, rating, queue, tables, room, offers, reserved, pools>>
  BY DEF quickVars, serverSide
<1>2. Asked' = Asked
  BY <1>1 DEF Asked
<1>3. QuickTypeOK' /\ TwoPlayers' /\ NoSearch'
  BY <1>1, <1>2 DEF QInv, QuickTypeOK, TwoPlayers, NoSearch
<1>4. \A p \in Friends : PlayerOK(p, app'[p], sock'[p], inbox'[p], tables', offers', Asked')
  BY <1>1, <1>2, QPlayer
<1> QED
  BY <1>3, <1>4, QNext

LEMMA QuickStepKeeps == QInv /\ [QuickNext]_quickVars => QInv'
<1> SUFFICES ASSUME QInv, [QuickNext]_quickVars PROVE QInv'
  OBVIOUS
<1>1. CASE UNCHANGED quickVars
  BY <1>1, QuickStays
<1>2. CASE QuickNext
  <2>1. UNCHANGED staked
    BY <1>2 DEF QuickNext
  <2>2. ASSUME NEW p \in Friends, Moves(p) PROVE QInv'
    BY <2>1, <2>2, FindKeeps, GiveUpKeeps, ReconnectKeeps, SeatedKeeps, HearKeeps, LeaveTableKeeps,
       RematchKeeps, CashQueueKeeps, CashCancelKeeps DEF Moves
  <2>3. ASSUME NEW s \in Sockets, Notice(s) PROVE QInv'
    BY <2>1, <2>3, NoticeKeeps
  <2>4. ASSUME NEW t \in DOMAIN tables, GameOver(t) PROVE QInv'
    BY <2>1, <2>4, OverKeeps
  <2>5. CASE Enqueue
    BY <2>1, <2>5, EnqueueKeeps
  <2>6. CASE Sweep
    BY <2>1, <2>6, SweepKeeps
  <2>7. CASE MeetForStakes
    BY <2>1, <2>7, MeetKeeps
  <2> QED
    BY <1>2, <2>2, <2>3, <2>4, <2>5, <2>6, <2>7 DEF QuickNext
<1> QED
  BY <1>1, <1>2

LEMMA QuickSays == QInv => QuickInv
<1> SUFFICES ASSUME QInv PROVE SeatKeyed
  BY DEF QInv, QuickInv
<1> QED
  BY QPlayer DEF SeatKeyed, PlayerOK, SeatOf, Sitting

\* Two different players sit at a table, each with the key the server registered
\* for the seat, whatever connections drop and whichever requests, sweeps and
\* rematches cross.
THEOREM QuickHolds == QuickSpec => []QuickInv
<1>1. QuickSpec => []QInv
  BY QuickStarts, QuickStepKeeps, PTL DEF QuickSpec
<1> QED
  BY <1>1, QuickSays, PTL

=============================================================================
