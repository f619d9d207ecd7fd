------------------------------- MODULE LiveMatch -------------------------------
(***************************************************************************)
(* One staked match while it is played on the game server: Match           *)
(* (game-server/src/match.ts), its entry in the hub and its snapshot       *)
(* (hub.ts), the turn clock and the socket handlers that drive them        *)
(* (server.ts), and its recovery after a restart (main.ts).                *)
(*                                                                         *)
(* A request that carries a signature is checked, then awaits              *)
(* recoverAddress, then takes effect: Send* and Finish* are the two halves *)
(* of one handler, and any other handler may run in between.  A request    *)
(* whose signature is not of its claimed seat over the digest of the ply   *)
(* seen before the await changes nothing and is left out.                  *)
(*                                                                         *)
(* The board is reduced to what the server does with it: a move either is  *)
(* illegal, or leaves the game running, or ends it for some winner, by a   *)
(* rule of applyMove or by the repetition rule that only adjudicate sees.  *)
(***************************************************************************)
EXTENDS Integers, Sequences, SequencesExt

CONSTANTS
  Requests,    \* bound: requests awaiting recoverAddress at a time
  MaxPly,      \* bound: moves in a game
  MaxCrashes,  \* bound: crashes and deploys
  StartTurn,   \* who moves first
  LoadsFail,   \* whether reading the snapshot store may fail
  Absent,      \* no entry in the hub, no snapshot in the store
  Idle         \* no request

ASSUME LiveAssumption ==
  /\ MaxPly \in Nat /\ MaxCrashes \in Nat
  /\ StartTurn \in {0, 1}
  /\ LoadsFail \in BOOLEAN

Seats == {0, 1}
DRAW == 2
Winners == {0, 1, DRAW}
Playing == 3
NoOffer == 4

VARIABLES
  room,     \* the hub's Match
  calls,    \* the requests awaiting recoverAddress
  clock,    \* the turn clock of the seat to move: running, late or flag fallen
  timer,    \* whether turnClockTimers holds a timer for the match
  store,    \* the snapshot in the live match store
  said,     \* history: seats that signed a resignation or a draw, or ran late
  hasty,    \* history: a client sent a request before its last one was answered
  crashes

vars == <<room, calls, clock, timer, store, said, hasty, crashes>>

\* A move as the transcript keeps it: the seat and ply its signature is for,
\* how the game stands after it, and whether only adjudicate knows.
Move == [by : Seats, ply : Nat, end : Winners \cup {Playing}, cycle : BOOLEAN]

Match == [
  moves : Seq(Move), over : BOOLEAN, winner : Winners \cup {Playing},
  drawOffer : Seats \cup {NoOffer}, blitz : BOOLEAN ]

MatchSnapshot == [moves : Seq(Move), terminal : Winners \cup {Playing}]

Call == [op : {"move", "resign", "offer", "accept"}, by : Seats, ply : Nat]

\* The markers of an empty slot are no record of the program.
ASSUME NamesAssumption ==
  /\ Absent \notin Match \cup MatchSnapshot
  /\ Idle \notin Call

TypeOK ==
  /\ room \in Match \cup {Absent}
  /\ calls \in [Requests -> Call \cup {Idle}]
  /\ clock \in {"running", "late", "fallen"}
  /\ timer \in BOOLEAN
  /\ store \in MatchSnapshot \cup {Absent}
  /\ said \subseteq {"resign", "draw", "late"} \X Seats
  /\ hasty \in BOOLEAN
  /\ crashes \in 0 .. MaxCrashes

-----------------------------------------------------------------------------
(* Match *)

New == [moves |-> <<>>, over |-> FALSE, winner |-> Playing,
        drawOffer |-> NoOffer, blitz |-> TRUE]

Ply(m) == Len(m.moves)
Turn(m) == (StartTurn + Ply(m)) % 2

Opponent(seat) == 1 - seat

Ended(m, w) == [m EXCEPT !.over = TRUE, !.winner = w]

\* submitMove after its await: the move joins the transcript, adjudicated.
Accept(m, move) ==
  LET n == [m EXCEPT !.moves = Append(@, move)]
  IN IF move.end = Playing THEN n ELSE Ended(n, move.end)

\* What replaying the moves through applyMove alone shows.
Replayed(moves) ==
  IF moves = <<>> \/ Last(moves).cycle THEN Playing ELSE Last(moves).end

Snapshot(m) ==
  [moves |-> m.moves, terminal |-> IF m.over THEN m.winner ELSE Playing]

Rebuilt(moves) ==
  LET m == [New EXCEPT !.moves = moves, !.blitz = FALSE]
  IN IF Replayed(moves) = Playing THEN m ELSE Ended(m, Replayed(moves))

\* Slip: the replay loop stops one move early.
RehydrateShort(snap) ==
  LET m == Rebuilt(IF snap.moves = <<>> THEN <<>> ELSE Front(snap.moves))
  IN IF snap.terminal # Playing /\ ~m.over THEN Ended(m, snap.terminal) ELSE m

\* Replay, then the recorded outcome of an ending that is not a move.  The
\* blitz clock and a pending draw offer are not in the snapshot.
Rehydrate(snap) ==
  LET m == Rebuilt(snap.moves)
  IN IF snap.terminal # Playing /\ ~m.over THEN Ended(m, snap.terminal) ELSE m

-----------------------------------------------------------------------------
(* Hub *)

InPlay == room # Absent /\ ~room.over

\* Fire and forget: the save lands, or it fails or the process dies first.
Persist(m) == store' \in {store, Snapshot(m)}

\* A finished match drops its timer, a new turn gets a fresh one.
Settled(m) ==
  /\ room' = m
  /\ timer' = ~m.over
  /\ clock' = "running"
  /\ Persist(m)

Init ==
  /\ room = Absent /\ store = Absent
  /\ calls = [c \in Requests |-> Idle]
  /\ clock = "running" /\ timer = FALSE
  /\ said = {} /\ hasty = FALSE /\ crashes = 0

\* openMatchFromChain, on StartFinalized or on a watch of a match that is in
\* neither the hub nor, as far as the store can be read, a snapshot.
Open ==
  /\ room = Absent
  /\ store = Absent \/ LoadsFail
  /\ room' = New
  /\ clock' = "running"
  /\ Persist(New)
  /\ UNCHANGED <<calls, timer, said, hasty, crashes>>

\* hub.restore, at boot or on a watch.
Restore ==
  /\ room = Absent /\ store # Absent
  /\ room' = Rehydrate(store)
  /\ clock' = "running"
  /\ UNCHANGED <<calls, timer, store, said, hasty, crashes>>

-----------------------------------------------------------------------------
(* Socket handlers up to recoverAddress *)

Await(c, op, seat) ==
  /\ calls[c] = Idle
  /\ InPlay
  /\ hasty' = (hasty \/ \E d \in Requests : calls[d] # Idle /\ calls[d].by = seat)
  /\ calls' = [calls EXCEPT ![c] = [op |-> op, by |-> seat, ply |-> Ply(room)]]
  /\ UNCHANGED <<room, clock, timer, store, crashes>>

\* Slip: whose turn it is goes unchecked.
SendMoveAnyTurn(c, seat) ==
  /\ Await(c, "move", seat) /\ clock # "fallen" /\ UNCHANGED said

SendMove(c, seat) ==
  /\ Await(c, "move", seat)
  /\ seat = Turn(room)
  /\ clock # "fallen"
  /\ UNCHANGED said

SendResign(c, seat) ==
  /\ Await(c, "resign", seat)
  /\ said' = said \cup {<<"resign", seat>>}

SendOffer(c, seat) ==
  /\ Await(c, "offer", seat)
  /\ said' = said \cup {<<"draw", seat>>}

\* Slip: the offer accepted may be one's own.
SendAcceptOwn(c, seat) ==
  /\ Await(c, "accept", seat) /\ room.drawOffer # NoOffer
  /\ said' = said \cup {<<"draw", seat>>}

SendAccept(c, seat) ==
  /\ Await(c, "accept", seat)
  /\ room.drawOffer \notin {NoOffer, seat}
  /\ said' = said \cup {<<"draw", seat>>}

-----------------------------------------------------------------------------
(* Socket handlers after recoverAddress *)

Take(c, op) ==
  /\ calls[c] # Idle /\ calls[c].op = op
  /\ calls' = [calls EXCEPT ![c] = Idle]
  /\ UNCHANGED <<said, hasty, crashes>>

\* applyMove refuses a finished game and an illegal house; it plays the house
\* for whoever is then to move.
FinishMove(c) ==
  /\ Take(c, "move")
  /\ \/ UNCHANGED <<room, clock, timer, store>>
     \/ /\ ~room.over /\ Ply(room) < MaxPly
        /\ \E end \in Winners \cup {Playing}, cycle \in BOOLEAN :
             /\ cycle => end # Playing
             /\ Settled(Accept(room, [by |-> calls[c].by, ply |-> calls[c].ply,
                                      end |-> end, cycle |-> cycle]))

FinishResign(c) ==
  /\ Take(c, "resign")
  /\ Settled(Ended(room, Opponent(calls[c].by)))

FinishOffer(c) ==
  /\ Take(c, "offer")
  /\ room' = [room EXCEPT !.drawOffer = calls[c].by]
  /\ UNCHANGED <<clock, timer, store>>

FinishAccept(c) ==
  /\ Take(c, "accept")
  /\ Settled(Ended([room EXCEPT !.drawOffer = NoOffer], DRAW))

-----------------------------------------------------------------------------
(* The turn clock and restarts *)

\* The seat to move outlives its turn window, or, until a restart forgets the
\* blitz clocks, its total thinking time.
Lapse ==
  /\ InPlay
  /\ \/ clock = "running" /\ clock' = "late"
     \/ clock # "fallen" /\ room.blitz /\ clock' = "fallen"
  /\ said' = said \cup {<<"late", Turn(room)>>}
  /\ UNCHANGED <<room, calls, timer, store, hasty, crashes>>

\* Slip: only a match opened by this process gets a timer.
WatchNever ==
  /\ InPlay /\ ~timer /\ crashes = 0
  /\ timer' = TRUE
  /\ UNCHANGED <<room, calls, clock, store, said, hasty, crashes>>

\* armTurnClockIfNeeded, on every watch.
Watch ==
  /\ InPlay /\ ~timer
  /\ timer' = TRUE
  /\ UNCHANGED <<room, calls, clock, store, said, hasty, crashes>>

\* onTurnClockExpired: forfeit and announce the end.
TurnClockExpired ==
  /\ timer /\ InPlay
  /\ clock # "running"
  /\ Settled(Ended(room, Opponent(Turn(room))))
  /\ UNCHANGED <<calls, said, hasty, crashes>>

Crash ==
  /\ crashes < MaxCrashes
  /\ crashes' = crashes + 1
  /\ room' = Absent /\ timer' = FALSE /\ clock' = "running"
  /\ calls' = [c \in Requests |-> Idle]
  /\ UNCHANGED <<store, said, hasty>>

Finish(c) ==
  FinishMove(c) \/ FinishResign(c) \/ FinishOffer(c) \/ FinishAccept(c)

Next ==
  \/ Open \/ Restore
  \/ \E c \in Requests, seat \in Seats :
       \/ SendMove(c, seat) \/ SendResign(c, seat)
       \/ SendOffer(c, seat) \/ SendAccept(c, seat)
  \/ \E c \in Requests : Finish(c)
  \/ Lapse \/ Watch \/ TurnClockExpired
  \/ Crash

Spec == Init /\ [][Next]_vars

\* A client that has a match re-watches it every few seconds, which reopens
\* and re-arms it; time passes; Node runs the timers that are due.
FairSpec ==
  /\ Spec
  /\ WF_vars(Open) /\ WF_vars(Restore) /\ WF_vars(Watch)
  /\ WF_vars(Lapse) /\ WF_vars(TurnClockExpired)

-----------------------------------------------------------------------------
(* Properties *)

\* What the seats agreed to or let happen: the moves ended the game for w, the
\* other seat resigned or ran out of time, or both asked for a draw.
Warranted(m, w) ==
  \/ m.moves # <<>> /\ Last(m.moves).end = w
  \/ w \in Seats /\ {<<"resign", 1 - w>>, <<"late", 1 - w>>} \cap said # {}
  \/ w = DRAW /\ {<<"draw", seat>> : seat \in Seats} \subseteq said

\* Nobody loses a game he neither lost on the board, resigned, nor let run
\* out, and no draw comes from one seat: through any interleaving of requests
\* and timers, and through any restart (match.ts:160-215, 252-271).
EndWarranted == room # Absent /\ room.over => Warranted(room, room.winner)

\* A finished game stays finished and its transcript closed, whatever was
\* awaiting recoverAddress when it ended (match.ts:134-158).
NoMoveAfterEnd ==
  [][room # Absent /\ room.over /\ room' # Absent
       => room'.over /\ room'.moves = room.moves]_vars

\* The snapshot never runs ahead of the hub's match, and an ending it recorded
\* is not taken back by a restart (hub.ts:48-55, match.ts:234-271).
SnapshotTrails ==
  room # Absent /\ store # Absent =>
    /\ IsPrefix(store.moves, room.moves)
    /\ store.terminal # Playing => room.over /\ room.moves = store.moves

\* main.ts:1055-1057 and hub.ts:48-49: a persisted transcript is where the
\* match resumes; what has been persisted is never rolled back.
TranscriptKept ==
  [][store # Absent
       => store' # Absent /\ IsPrefix(store.moves, store'.moves)]_vars

\* match.ts:9-11: what the server accepts is what ReplayVerifier would accept:
\* move i is signed for ply i by the seat whose turn it is.  It holds, restarts
\* included, as long as no client sends a second request before the first is
\* answered.
TranscriptVerifies ==
  room # Absent /\ ~hasty =>
    \A i \in DOMAIN room.moves :
      /\ room.moves[i].ply = i - 1
      /\ room.moves[i].by = (StartTurn + i - 1) % 2

\* match.ts:229: result() is final once over, for as long as the match is held.
ResultFinal ==
  [][room # Absent /\ room.over /\ room' # Absent
       => room'.winner = room.winner]_vars

\* A game nobody finishes still ends, restarts included: some seat's clock
\* runs out and the match is forfeited (server.ts:357-434).
EveryGameEnds == room # Absent ~> room # Absent /\ room.over

\* Whatever requests, timers and restarts interleave: an ending is the board's or has
\* its cause, and the snapshot in the store is a prefix of the match.
MatchInv ==
  /\ TypeOK
  /\ EndWarranted
  /\ SnapshotTrails

\* Nothing that happened is taken back: not the end of a match, not its moves, and not
\* what was persisted.
HistoryKept ==
  /\ NoMoveAfterEnd
  /\ TranscriptKept
=============================================================================
