------------------------------ MODULE QuickMatch ------------------------------
(***************************************************************************)
(* A free game with whoever is there, and the rematch after it: the search *)
(* (app/src/components/QuickMatch.tsx), the casual queue, its tables and   *)
(* the rematch handshake of the game server (server.ts, matchmaking.ts),   *)
(* the page's half of the handshake (LiveMatch.tsx, GameOverlay.tsx), and  *)
(* the private pool two players come back to for a rematch with stakes.    *)
(*                                                                         *)
(* A connection is a socket id: an app that reconnects gets another.  The  *)
(* server's messages to a connection arrive in order or are lost with it;  *)
(* it may notice late that a connection is gone.  Ratings and waiting      *)
(* times are left out: a newcomer may be paired or wait, a sweep may pair  *)
(* two who wait, and either of them may have come first.                   *)
(***************************************************************************)
EXTENDS Integers, Sequences

CONSTANTS
  Friends,     \* the two players
  MaxSockets,  \* bound: connections of one player
  MaxTables,   \* bound: games opened
  MaxLapses    \* bound: connections lost, searches and games given up

ASSUME QuickAssumption ==
  /\ \A p \in Friends : \E q \in Friends : q # p /\ Friends = {p, q}
  /\ MaxSockets \in Nat /\ MaxTables \in Nat /\ MaxLapses \in Nat

VARIABLES
  staked,    \* whether the players' games have stakes: a rematch re-stakes
  app,       \* each player's page
  sock,      \* the number of each player's last connection
  inbox,     \* messages on the way to each player's connection
  linked,    \* connections the server believes in
  rating,    \* queue requests that await the player's rating
  queue,     \* the casual queue
  tables,    \* the games opened: the keys and players of their seats, over or not
  room,      \* the connections in each game's room
  offers,    \* rematchOffers: the offer that pends at each game, the second completes it
  reserved,  \* rematchReservations: who is expected with whom
  pools,     \* the cash pool each player waits in
  lapses     \* what happened within the bounds

serverSide == <<linked, rating, queue, tables, room, offers, reserved, pools>>
quickVars == <<staked, app, sock, inbox, serverSide, lapses>>

NoTable == 0
MaxAsks == 2   \* bound: rematch offers of a player at one table
Foe(p) == CHOOSE q \in Friends : q # p

\* A session key, by the connection it was made on and, for a rematch, the offer.
Unkeyed == <<0, 0>>
Keys == (0 .. MaxSockets) \X (0 .. MaxAsks)

Idle == [phase |-> "idle", table |-> NoTable, role |-> 0, key |-> Unkeyed, rematch |-> "idle",
         asks |-> 0, next |-> Unkeyed]

Sockets == Friends \X (1 .. MaxSockets)
Current(p) == <<p, sock[p]>>

\* A player's page, the seats of a game, what a search or an offer says, and
\* what the server answers.
AppPages == [phase : {"idle", "searching", "bot", "table", "over", "money", "waiting", "paired"},
          table : 0 .. MaxTables, role : {0, 1}, key : Keys,
          rematch : {"idle", "offered", "incoming", "declined"}, asks : 0 .. MaxAsks, next : Keys]
Games == [keys : Keys \X Keys, by : Friends \X Friends, over : BOOLEAN]
Requests == [sock : Sockets, key : Keys]
Messages == [kind : {"matched", "ready", "gameover", "offered", "declined", "go"},
             table : 0 .. MaxTables, role : {0, 1}]

QuickTypeOK ==
  /\ staked \in BOOLEAN
  /\ app \in [Friends -> AppPages] /\ sock \in [Friends -> 0 .. MaxSockets]
  /\ inbox \in [Friends -> Seq(Messages)]
  /\ linked \subseteq Sockets /\ rating \subseteq Requests /\ queue \subseteq Requests
  /\ tables \in Seq(Games) /\ room \in Seq(SUBSET Sockets) /\ offers \in Seq(SUBSET Requests)
  /\ Len(tables) <= MaxTables /\ Len(room) = Len(tables) /\ Len(offers) = Len(tables)
  /\ reserved \subseteq Friends
  /\ pools \in [Friends -> {"none", "band", "private"}]

QuickInit ==
  /\ staked \in BOOLEAN
  /\ app = [p \in Friends |-> Idle] /\ sock = [p \in Friends |-> 0]
  /\ inbox = [p \in Friends |-> <<>>]
  /\ linked = {} /\ rating = {} /\ queue = {}
  /\ tables = <<>> /\ room = <<>> /\ offers = <<>>
  /\ reserved = {} /\ pools = [p \in Friends |-> "none"]
  /\ lapses = [count |-> 0, blinked |-> FALSE]

-----------------------------------------------------------------------------
(* Connections *)

Lapse == lapses.count < MaxLapses /\ lapses' = [lapses EXCEPT !.count = @ + 1]

\* A new connection; what was on its way to the old one is lost.
Opens(p) ==
  /\ sock[p] < MaxSockets
  /\ sock' = [sock EXCEPT ![p] = @ + 1]
  /\ linked' = linked \cup {<<p, sock[p] + 1>>}

\* A message for a connection the player still has.
Connected(p) == app[p].phase \in {"searching", "table", "over"}
Reached(s) == s = Current(s[1]) /\ Connected(s[1])

Sent(box, s, m) == IF Reached(s) THEN [box EXCEPT ![s[1]] = Append(@, m)] ELSE box

\* To everyone in the room but the connection it comes from.
Others(box, t, s, m) ==
  [p \in Friends |-> IF Current(p) \in room[t] \ {s} /\ Connected(p)
                     THEN Append(box[p], m) ELSE box[p]]

Msg(kind, t, role) == [kind |-> kind, table |-> t, role |-> role]

DropOffer(t, s) == {o \in offers[t] : o.sock # s}

\* Whether the page of p hears that s took its offer with it.
HearsDecline(p, s) ==
  /\ app[p].phase \in {"table", "over"} /\ Current(p) # s
  /\ Current(p) \in room[app[p].table]
  /\ DropOffer(app[p].table, s) # offers[app[p].table]

\* disconnect, whenever the server notices.
Notice(s) ==
  /\ s \in linked /\ ~Reached(s)
  /\ linked' = linked \ {s}
  /\ queue' = {w \in queue : w.sock # s}
  /\ offers' = [t \in DOMAIN offers |-> DropOffer(t, s)]
  /\ inbox' = [p \in Friends |->
       IF HearsDecline(p, s) THEN Append(inbox[p], Msg("declined", app[p].table, 0)) ELSE inbox[p]]
  /\ room' = [t \in DOMAIN room |-> room[t] \ {s}]
  /\ UNCHANGED <<app, sock, rating, tables, reserved, pools, lapses>>

-----------------------------------------------------------------------------
(* The search *)

\* find: a key of this search, a connection, and the request once connected.
Find(p) ==
  /\ app[p].phase = "idle" /\ Opens(p) /\ ~staked
  /\ app' = [app EXCEPT ![p] = [Idle EXCEPT !.phase = "searching", !.key = <<sock[p] + 1, 0>>]]
  /\ rating' = rating \cup {[sock |-> <<p, sock[p] + 1>>, key |-> <<sock[p] + 1, 0>>]}
  /\ UNCHANGED <<inbox, queue, tables, room, offers, reserved, pools, lapses>>

\* The casual game of a pairing: the newcomer, or the earlier of two who wait,
\* has seat 0.
OpenTable(x, y) ==
  /\ Len(tables) < MaxTables
  /\ tables' = Append(tables, [keys |-> <<x.key, y.key>>,
                               by |-> <<x.sock[1], y.sock[1]>>, over |-> FALSE])
  /\ room' = Append(room, {})

Seat(box, x, y, kind) ==
  LET t == Len(tables) + 1 IN
  inbox' = Sent(Sent(box, x.sock, Msg(kind, t, 0)), y.sock, Msg(kind, t, 1))

Meet(x, y) == x.sock[1] # y.sock[1]

\* The request resumes with the rating: the player is paired, or waits, though
\* the connection may be gone by now.
Enqueue ==
  \E r \in rating :
    /\ rating' = rating \ {r}
    /\ \/ \E w \in queue :
            /\ Meet(r, w) /\ queue' = queue \ {w}
            /\ OpenTable(r, w) /\ offers' = Append(offers, {}) /\ Seat(inbox, r, w, "matched")
       \/ queue' = queue \cup {r} /\ UNCHANGED <<tables, room, offers, inbox>>
    /\ UNCHANGED <<app, sock, linked, reserved, pools, lapses>>

\* The periodic sweep.
Sweep ==
  \E v, w \in queue :
    /\ Meet(v, w) /\ queue' = queue \ {v, w}
    /\ OpenTable(v, w) /\ offers' = Append(offers, {}) /\ Seat(inbox, v, w, "matched")
    /\ UNCHANGED <<app, sock, linked, rating, reserved, pools, lapses>>

\* The player cancels, or nobody came in time and a game against the program
\* begins.
GiveUp(p) ==
  /\ app[p].phase = "searching"
  /\ \/ app' = [app EXCEPT ![p] = Idle] /\ Lapse
     \/ app' = [app EXCEPT ![p] = [Idle EXCEPT !.phase = "bot"]] /\ UNCHANGED lapses
  /\ inbox' = [inbox EXCEPT ![p] = <<>>]
  /\ UNCHANGED <<sock, serverSide>>

\* A connection that drops: the search asks again on the new one, the page
\* watches its game again.
Reconnect(p) ==
  /\ app[p].phase \in {"searching", "table", "over"} /\ Opens(p)
  /\ lapses.count < MaxLapses
  /\ lapses' = [count |-> lapses.count + 1, blinked |-> TRUE]
  /\ inbox' = [inbox EXCEPT ![p] = <<>>]
  /\ IF app[p].phase = "searching"
     THEN /\ rating' = rating \cup {[sock |-> <<p, sock[p] + 1>>, key |-> app[p].key]}
          /\ UNCHANGED room
     ELSE /\ room' = [room EXCEPT ![app[p].table] = @ \cup {<<p, sock[p] + 1>>}]
          /\ UNCHANGED rating
  /\ UNCHANGED <<app, queue, tables, offers, reserved, pools>>

-----------------------------------------------------------------------------
(* The table *)

\* The page of a game: its key is stored, its own connection joins the room.
Sits(p, t, role, key) ==
  /\ Opens(p)
  /\ app' = [app EXCEPT ![p] = [Idle EXCEPT !.phase = "table", !.table = t, !.role = role,
                                            !.key = key]]
  /\ room' = [room EXCEPT ![t] = @ \cup {<<p, sock[p] + 1>>}]
  /\ inbox' = [inbox EXCEPT ![p] = <<>>]

\* matched, or rematch-ready.
Seated(p) ==
  /\ inbox[p] # <<>>
  /\ LET m == Head(inbox[p]) IN
     \/ /\ m.kind = "matched" /\ app[p].phase = "searching"
        /\ Sits(p, m.table, m.role, app[p].key)
     \/ /\ m.kind = "ready" /\ app[p].phase = "over"
        /\ Sits(p, m.table, m.role, app[p].next)
  /\ UNCHANGED <<rating, queue, tables, offers, reserved, pools, lapses>>

\* Two friends meet at a staked table some other way.
MeetForStakes ==
  /\ staked /\ tables = <<>>
  /\ MaxSockets > 0 /\ MaxTables > 0
  /\ sock' = [p \in Friends |-> 1] /\ linked' = {<<p, 1>> : p \in Friends}
  /\ \E p \in Friends :
       /\ app' = [q \in Friends |-> [Idle EXCEPT !.phase = "table", !.table = 1, !.key = <<1, 0>>,
                                                 !.role = IF q = p THEN 0 ELSE 1]]
       /\ tables' = <<[keys |-> <<<<1, 0>>, <<1, 0>>>>, by |-> <<p, Foe(p)>>, over |-> FALSE]>>
  /\ room' = <<linked'>> /\ offers' = <<{}>>
  /\ UNCHANGED <<inbox, rating, queue, reserved, pools, lapses>>

\* The game ends, by whoever is there; the room hears.
GameOver(t) ==
  /\ ~tables[t].over /\ room[t] # {}
  /\ tables' = [tables EXCEPT ![t].over = TRUE]
  /\ inbox' = Others(inbox, t, <<>>, Msg("gameover", t, 0))
  /\ UNCHANGED <<app, sock, linked, rating, queue, room, offers, reserved, pools, lapses>>

Incoming(state) == IF state = "offered" THEN "offered" ELSE "incoming"

\* What the page makes of the other messages.
Hear(p) ==
  /\ inbox[p] # <<>> /\ app[p].phase \in {"table", "over"}
  /\ LET m == Head(inbox[p]) IN
     /\ m.kind \in {"gameover", "offered", "declined", "go"}
     /\ app' = [app EXCEPT ![p] =
          CASE m.kind = "gameover" -> [@ EXCEPT !.phase = "over"]
            [] m.kind = "offered" -> [@ EXCEPT !.rematch = Incoming(@)]
            [] m.kind = "declined" -> [@ EXCEPT !.rematch = "declined"]
            [] m.kind = "go" -> [Idle EXCEPT !.phase = "money"]]
  /\ inbox' = [inbox EXCEPT ![p] = Tail(@)]
  /\ UNCHANGED <<sock, serverSide, lapses>>

\* The player leaves the page.
LeaveTable(p) ==
  /\ app[p].phase \in {"table", "over"} /\ Lapse
  /\ app' = [app EXCEPT ![p] = Idle]
  /\ inbox' = [inbox EXCEPT ![p] = <<>>]
  /\ UNCHANGED <<sock, serverSide>>

-----------------------------------------------------------------------------
(* The rematch *)

\* Slip: the second player gets the first one's key.
CompleteSwapped(t, box, x, y) ==
  /\ OpenTable(x, [y EXCEPT !.key = x.key]) /\ Seat(box, x, y, "ready")
  /\ offers' = Append([offers EXCEPT ![t] = {}], {})

\* completeRematch of a free game: a new one, at once; the offers are done with.
CompleteCasual(t, box, x, y) ==
  /\ OpenTable(x, y) /\ Seat(box, x, y, "ready")
  /\ offers' = Append([offers EXCEPT ![t] = {}], {})

Reserve(x, y) == {x.sock[1], y.sock[1]}

\* rematch-offer at the server: an offer from a second connection completes the
\* rematch, one from the same connection replaces the first.
RematchOffer(t, o) ==
  LET told == Others(inbox, t, o.sock, Msg("offered", t, 0))
      first == {x \in offers[t] : x.sock # o.sock}
  IN
  IF first = {}
  THEN /\ offers' = [offers EXCEPT ![t] = {o}] /\ inbox' = told
       /\ UNCHANGED <<tables, room, reserved>>
  ELSE \E x \in first :
         IF staked
         THEN /\ offers' = [offers EXCEPT ![t] = {}]
              /\ reserved' = reserved \cup Reserve(x, o)
              /\ inbox' = Sent(Sent(told, x.sock, Msg("go", t, 0)), o.sock, Msg("go", t, 1))
              /\ UNCHANGED <<tables, room>>
         ELSE CompleteCasual(t, told, x, o) /\ UNCHANGED reserved

\* requestRematch: a fresh key, offered.  The button is there unless one's offer
\* is out.
RequestRematch(p) ==
  LET o == [sock |-> Current(p), key |-> <<sock[p], app[p].asks + 1>>] IN
  /\ app[p].phase = "over" /\ app[p].rematch # "offered" /\ app[p].asks < MaxAsks
  /\ app' = [app EXCEPT ![p].rematch = "offered", ![p].asks = @ + 1, ![p].next = o.key]
  /\ RematchOffer(app[p].table, o)
  /\ UNCHANGED <<sock, linked, rating, queue, pools, lapses>>

\* cash-queue of a player the money panel starts to search for: the private
\* pool if a rematch is expected of them, once, else the pool of the stake.
Pool(p) == IF p \in reserved THEN "private" ELSE "band"

CashQueue(p) ==
  /\ app[p].phase = "money"
  /\ reserved' = reserved \ {p}
  /\ IF pools[Foe(p)] = Pool(p)
     THEN /\ pools' = [pools EXCEPT ![Foe(p)] = "none"]
          /\ app' = [q \in Friends |-> [Idle EXCEPT !.phase = "paired"]]
     ELSE /\ pools' = [pools EXCEPT ![p] = Pool(p)]
          /\ app' = [app EXCEPT ![p].phase = "waiting"]
  /\ UNCHANGED <<sock, inbox, linked, rating, queue, tables, room, offers, lapses>>

\* The player stops the search, and may start another.
CashCancel(p) ==
  /\ app[p].phase = "waiting" /\ Lapse
  /\ pools' = [pools EXCEPT ![p] = "none"]
  /\ app' = [app EXCEPT ![p].phase = "money"]
  /\ UNCHANGED <<sock, inbox, linked, rating, queue, tables, room, offers, reserved>>

-----------------------------------------------------------------------------
Moves(p) ==
  \/ Find(p) \/ GiveUp(p) \/ Reconnect(p) \/ Seated(p) \/ Hear(p) \/ LeaveTable(p)
  \/ RequestRematch(p) \/ CashQueue(p) \/ CashCancel(p)

QuickNext ==
  /\ \/ \E p \in Friends : Moves(p)
     \/ \E s \in Sockets : Notice(s)
     \/ Enqueue \/ Sweep \/ MeetForStakes
     \/ \E t \in DOMAIN tables : GameOver(t)
  /\ UNCHANGED staked

QuickSpec == QuickInit /\ [][QuickNext]_quickVars

\* The apps' messages and timers, and players who answer; the server's rounds.
QuickFair ==
  /\ \A p \in Friends :
       WF_quickVars((GiveUp(p) \/ Seated(p) \/ Hear(p)) /\ UNCHANGED staked)
  /\ \A p \in Friends : WF_quickVars(CashQueue(p) /\ UNCHANGED staked)

-----------------------------------------------------------------------------
(* Properties *)

\* A player who sits at a table holds the key the server registered for that
\* seat of that game, after a search that reconnected and after a rematch: every
\* move verifies (QuickMatch find, requestRematch).  Not so for a player who
\* asked for the rematch again while the answer to the first offer was coming.
SeatKeyed ==
  \A p \in Friends : app[p].phase \in {"table", "over"} /\ app[p].key[2] <= 1 =>
    LET t == tables[app[p].table] IN
    /\ t.by[app[p].role + 1] = p
    /\ t.keys[app[p].role + 1] = app[p].key

\* A game is between two players, and a rematch is between the two of the game
\* before it (matchmaking, completeRematch).  Not so for a player whose first
\* offer is still pending on a connection the server believes in: asking again
\* on a new connection completes a rematch with oneself.
TwoPlayers ==
  \A t \in DOMAIN tables : LET k == tables[t].keys IN
    k[1][2] <= 1 /\ k[2][2] <= 1 => tables[t].by[1] # tables[t].by[2]

\* A search ends: with a table, with the program, or because it was cancelled
\* ("the primary CTA always yields a game").
SearchEnds == \A p \in Friends : []<>(app[p].phase # "searching")

\* Two players who both pressed rematch at the end of one game are not both left
\* waiting, when no connection dropped and nobody left (the handshake).
OffersMeet ==
  []<>~(/\ lapses.count = 0
        /\ \A p \in Friends : app[p].phase = "over" /\ app[p].rematch = "offered")

\* Two players reserved for each other who both search, without stopping, are
\* paired (rematchReservations, cash-queue).
ReservedMeet ==
  []<>~(lapses.count = 0 /\ \A p \in Friends : app[p].phase = "waiting")

\* Two different players sit at a table, each with the key the server knows.
QuickInv ==
  /\ QuickTypeOK
  /\ SeatKeyed
  /\ TwoPlayers

\* A search ends, and two players who want each other meet.
QuickMeets ==
  /\ SearchEnds
  /\ OffersMeet
  /\ ReservedMeet
=============================================================================
