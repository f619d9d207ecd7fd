--------------------------- MODULE LiveMatch_proofs ---------------------------
(***************************************************************************)
(* What one match keeps on the game server for any number of requests      *)
(* under way, moves and crashes.                                           *)
(***************************************************************************)
EXTENDS LiveMatch, SequenceTheorems, TLAPS

\* A request under way belongs to the match in the hub, and a signature that
\* ends a game was given.
CallsMeant ==
  \A c \in Requests : calls[c] # Idle =>
    /\ room # Absent
    /\ calls[c].op = "resign" => <<"resign", calls[c].by>> \in said
    /\ calls[c].op = "offer" => <<"draw", calls[c].by>> \in said
    /\ calls[c].op = "accept" => \A seat \in Seats : <<"draw", seat>> \in said

\* A draw on offer was offered; a clock that ran late is the mover's.
OfferMeant == room # Absent /\ room.drawOffer # NoOffer => <<"draw", room.drawOffer>> \in said
LateMeant == InPlay /\ clock # "running" => <<"late", Turn(room)>> \in said

\* The ending in the snapshot has its cause, so a restart finds it warranted.
StoreWarranted ==
  store # Absent /\ store.terminal # Playing => Warranted(store, store.terminal)

Verifies(moves) ==
  \A i \in DOMAIN moves :
    /\ moves[i].ply = i - 1
    /\ moves[i].by = (StartTurn + i - 1) % 2

\* Clients that await each answer: a seat has one request under way, and a move
\* under way is signed for the ply the match is at, by the seat to move.
InTurn ==
  ~hasty =>
    /\ \A c, d \in Requests : calls[c] # Idle /\ calls[d] # Idle /\ c # d => calls[c].by # calls[d].by
    /\ \A c \in Requests : calls[c] # Idle /\ calls[c].op = "move" =>
         calls[c].ply = Ply(room) /\ calls[c].by = Turn(room)
    /\ store # Absent => Verifies(store.moves)

LiveInv ==
  /\ MatchInv /\ TranscriptVerifies
  /\ CallsMeant /\ OfferMeant /\ LateMeant /\ StoreWarranted /\ InTurn

-----------------------------------------------------------------------------
(* Prefixes *)

LEMMA PrefixSelf ==
  ASSUME NEW S, NEW s \in Seq(S)
  PROVE  IsPrefix(s, s)
BY DEF IsPrefix

LEMMA PrefixGrows ==
  ASSUME NEW S, NEW s \in Seq(S), NEW t \in Seq(S), NEW e \in S, IsPrefix(s, t)
  PROVE  IsPrefix(s, Append(t, e))
<1>1. Len(s) \in Nat /\ Len(t) \in Nat /\ Len(s) <= Len(t) /\ Len(Append(t, e)) = Len(t) + 1
  BY DEF IsPrefix
<1>2. SubSeq(s, 1, Len(s)) = SubSeq(t, 1, Len(s))
  BY DEF IsPrefix
<1>3. SubSeq(Append(t, e), 1, Len(s)) = SubSeq(t, 1, Len(s))
  <2> DEFINE u == Append(t, e)  n == Len(s)
  <2>1. n \in Nat /\ n <= Len(t) /\ Len(u) = Len(t) + 1 /\ u \in Seq(S)
    BY <1>1
  <2>2. \A i \in 1 .. n : u[i] = t[i] /\ u[i] \in S /\ t[i] \in S
    BY <2>1
  <2> HIDE DEF u, n
  <2>3. /\ SubSeq(u, 1, n) \in Seq(S) /\ Len(SubSeq(u, 1, n)) = n
        /\ \A i \in 1 .. n : SubSeq(u, 1, n)[i] = u[i]
    <3>1. \A i \in 1 .. n : u[i] \in S
      BY <2>2
    <3> QED BY <2>1, <3>1
  <2>4. /\ SubSeq(t, 1, n) \in Seq(S) /\ Len(SubSeq(t, 1, n)) = n
        /\ \A i \in 1 .. n : SubSeq(t, 1, n)[i] = t[i]
    <3>1. \A i \in 1 .. n : t[i] \in S
      BY <2>2
    <3> QED BY <2>1, <3>1
  <2>5. \A i \in 1 .. Len(SubSeq(u, 1, n)) : SubSeq(u, 1, n)[i] = SubSeq(t, 1, n)[i]
    BY <2>2, <2>3, <2>4
  <2>6. SubSeq(u, 1, n) = SubSeq(t, 1, n)
    BY <2>3, <2>4, <2>5, SeqEqual
  <2> QED BY <2>6 DEF u, n
<1> QED BY <1>1, <1>2, <1>3 DEF IsPrefix

-----------------------------------------------------------------------------
(* Steps *)

LEMMA InitLiveInv == Init => LiveInv
<1> SUFFICES ASSUME Init PROVE LiveInv
  OBVIOUS
<1>1. TypeOK
  <2>1. calls \in [Requests -> Call \cup {Idle}]
    BY DEF Init
  <2>2. 0 \in 0 .. MaxCrashes
    BY LiveAssumption
  <2> QED BY <2>1, <2>2 DEF Init, TypeOK
<1>2. room = Absent /\ store = Absent /\ \A c \in Requests : calls[c] = Idle
  BY DEF Init
<1> QED
  BY <1>1, <1>2 DEF LiveInv, MatchInv, EndWarranted, SnapshotTrails, TranscriptVerifies,
                    CallsMeant, OfferMeant, LateMeant, StoreWarranted, InTurn, InPlay

\* What a snapshot of a match says of it.
LEMMA SnapshotType ==
  ASSUME NEW m \in Match
  PROVE  /\ Snapshot(m) \in MatchSnapshot
         /\ Snapshot(m).moves = m.moves
         /\ Snapshot(m).terminal = (IF m.over THEN m.winner ELSE Playing)
BY DEF Match, MatchSnapshot, Snapshot

\* What settles a match keeps the invariant when it adds nothing to a finished
\* one, its end has a cause, and the moves still under way stay in turn.
LEMMA SettledKeeps ==
  ASSUME LiveInv, room # Absent, NEW m \in Match, Settled(m),
         UNCHANGED <<said, hasty, crashes>>,
         calls' \in [Requests -> Call \cup {Idle}],
         \A c \in Requests : calls'[c] # Idle => calls'[c] = calls[c],
         IsPrefix(room.moves, m.moves),
         \A t \in Seq(Move) : IsPrefix(t, room.moves) => IsPrefix(t, m.moves),
         room.over => m.over /\ m.moves = room.moves,
         m.over => Warranted(m, m.winner),
         m.drawOffer \in {NoOffer, room.drawOffer},
         ~hasty => /\ Verifies(m.moves)
                   /\ \A c \in Requests : calls'[c] # Idle /\ calls'[c].op = "move" =>
                        calls'[c].ply = Ply(m) /\ calls'[c].by = Turn(m)
  PROVE  LiveInv'
<1> USE DEF LiveInv, MatchInv
<1>1. /\ room' = m /\ timer' = ~m.over /\ clock' = "running"
      /\ store' = store \/ store' = Snapshot(m)
  BY DEF Settled, Persist
<1>2. m # Absent /\ Snapshot(m) # Absent
  BY SnapshotType, NamesAssumption
<1>3. TypeOK'
  BY <1>1, SnapshotType DEF TypeOK, Match
<1>4. EndWarranted'
  BY <1>1 DEF EndWarranted, Warranted
<1>5. SnapshotTrails'
  <2>1. CASE store' = Snapshot(m)
    <3>1. IsPrefix(m.moves, m.moves)
      BY PrefixSelf DEF Match
    <3> QED BY <1>1, <2>1, <3>1, SnapshotType DEF SnapshotTrails
  <2>2. CASE store' = store /\ store # Absent
    <3>1. store.moves \in Seq(Move)
      BY <2>2 DEF TypeOK, MatchSnapshot
    <3> QED BY <1>1, <2>2, <3>1 DEF SnapshotTrails
  <2>3. CASE store' = store /\ store = Absent
    BY <2>3 DEF SnapshotTrails
  <2> QED BY <1>1, <2>1, <2>2, <2>3
<1>6. TranscriptVerifies'
  BY <1>1 DEF TranscriptVerifies, Verifies
<1>7. CallsMeant'
  BY <1>1, <1>2 DEF CallsMeant
<1>8. OfferMeant'
  BY <1>1 DEF OfferMeant
<1>9. LateMeant'
  BY <1>1 DEF LateMeant
<1>10. StoreWarranted'
  <2>1. CASE store' = Snapshot(m)
    BY <1>1, <2>1, SnapshotType DEF StoreWarranted, Warranted
  <2>2. CASE store' = store
    BY <2>2 DEF StoreWarranted, Warranted
  <2> QED BY <1>1, <2>1, <2>2
<1>11. InTurn'
  <2>1. CASE store' = Snapshot(m)
    BY <1>1, <2>1, SnapshotType DEF InTurn
  <2>2. CASE store' = store
    BY <1>1, <2>2 DEF InTurn
  <2> QED BY <1>1, <2>1, <2>2
<1> QED BY <1>3, <1>4, <1>5, <1>6, <1>7, <1>8, <1>9, <1>10, <1>11

\* A fresh match: opened because there is neither an entry nor a snapshot.
LEMMA OpenKeeps == ~LoadsFail /\ LiveInv /\ Open => LiveInv'
<1> SUFFICES ASSUME ~LoadsFail, LiveInv, Open PROVE LiveInv'
  OBVIOUS
<1> USE DEF LiveInv, MatchInv
<1>1. /\ room = Absent /\ store = Absent /\ room' = New /\ clock' = "running"
      /\ store' = Absent \/ store' = Snapshot(New)
      /\ UNCHANGED <<calls, timer, said, hasty, crashes>>
  BY DEF Open, Persist
<1>2. New \in Match /\ New # Absent /\ Snapshot(New) # Absent
      /\ Snapshot(New).moves = <<>> /\ Snapshot(New).terminal = Playing
  <2>1. New \in Match
    BY DEF New, Match
  <2>2. Snapshot(New) \in MatchSnapshot /\ Snapshot(New).moves = <<>>
        /\ Snapshot(New).terminal = Playing
    BY <2>1, SnapshotType DEF New
  <2> QED BY <2>1, <2>2, NamesAssumption
<1>3. \A c \in Requests : calls[c] = Idle
  BY <1>1 DEF CallsMeant
<1>4. TypeOK'
  BY <1>1, <1>2, SnapshotType DEF TypeOK
<1>5. SnapshotTrails'
  BY <1>1, <1>2, PrefixSelf DEF SnapshotTrails, New, Match
<1> QED
  BY <1>1, <1>2, <1>3, <1>4, <1>5
  DEF New, EndWarranted, TranscriptVerifies, CallsMeant, OfferMeant, LateMeant,
      StoreWarranted, InTurn, Verifies

LEMMA RehydrateType ==
  ASSUME NEW snap \in MatchSnapshot
  PROVE  /\ Rehydrate(snap) \in Match
         /\ Rehydrate(snap).moves = snap.moves /\ Rehydrate(snap).drawOffer = NoOffer
         /\ snap.terminal # Playing => Rehydrate(snap).over
         /\ Rehydrate(snap).over =>
              \/ snap.moves # <<>> /\ Last(snap.moves).end = Rehydrate(snap).winner
              \/ snap.terminal # Playing /\ Rehydrate(snap).winner = snap.terminal
<1> DEFINE r == Replayed(snap.moves)
<1>1. snap.moves \in Seq(Move) /\ snap.terminal \in Winners \cup {Playing}
  BY DEF MatchSnapshot
<1>2. r \in Winners \cup {Playing} /\ (r # Playing => snap.moves # <<>> /\ Last(snap.moves).end = r)
  <2>1. CASE snap.moves = <<>>
    BY <2>1 DEF Replayed
  <2>2. CASE snap.moves # <<>>
    <3>1. Last(snap.moves) \in Move
      BY <1>1, <2>2 DEF Last
    <3> QED BY <2>2, <3>1 DEF Replayed, Move
  <2> QED BY <2>1, <2>2
<1> HIDE DEF r
<1> DEFINE m == [New EXCEPT !.moves = snap.moves, !.blitz = FALSE]
<1>3. /\ m \in Match /\ m.moves = snap.moves /\ m.drawOffer = NoOffer /\ ~m.over
      /\ \A w \in Winners : Ended(m, w) \in Match /\ Ended(m, w).moves = snap.moves
           /\ Ended(m, w).drawOffer = NoOffer /\ Ended(m, w).over /\ Ended(m, w).winner = w
  BY <1>1 DEF New, Match, Seats, Ended
<1> HIDE DEF m
<1>4. Rebuilt(snap.moves) = IF r = Playing THEN m ELSE Ended(m, r)
  BY DEF Rebuilt, r, m
<1>5. CASE r # Playing
  <2>1. Rehydrate(snap) = Ended(m, r) /\ r \in Winners
    BY <1>2, <1>3, <1>4, <1>5 DEF Rehydrate
  <2> QED BY <1>2, <1>3, <1>5, <2>1
<1>6. CASE r = Playing /\ snap.terminal # Playing
  <2>1. Rehydrate(snap) = Ended(m, snap.terminal) /\ snap.terminal \in Winners
    BY <1>1, <1>3, <1>4, <1>6 DEF Rehydrate
  <2> QED BY <1>3, <1>6, <2>1
<1>7. CASE r = Playing /\ snap.terminal = Playing
  BY <1>3, <1>4, <1>7 DEF Rehydrate
<1> QED BY <1>5, <1>6, <1>7

LEMMA RestoreKeeps == LiveInv /\ Restore => LiveInv'
<1> SUFFICES ASSUME LiveInv, Restore PROVE LiveInv'
  OBVIOUS
<1> USE DEF LiveInv, MatchInv
<1> DEFINE m == Rehydrate(store)
<1>1. /\ room = Absent /\ store # Absent /\ room' = m /\ clock' = "running"
      /\ UNCHANGED <<calls, timer, store, said, hasty, crashes>>
  BY DEF Restore
<1>2. store \in MatchSnapshot /\ store.moves \in Seq(Move)
  BY <1>1 DEF TypeOK, MatchSnapshot
<1>3. /\ m \in Match /\ m # Absent /\ m.moves = store.moves /\ m.drawOffer = NoOffer
      /\ store.terminal # Playing => m.over
      /\ m.over => \/ store.moves # <<>> /\ Last(store.moves).end = m.winner
                   \/ store.terminal # Playing /\ m.winner = store.terminal
  BY <1>2, RehydrateType, NamesAssumption
<1> HIDE DEF m
<1>4. \A c \in Requests : calls[c] = Idle
  BY <1>1 DEF CallsMeant
<1>5. TypeOK'
  BY <1>1, <1>3 DEF TypeOK
<1>6. EndWarranted'
  <2>1. m.over => Warranted(m, m.winner)
    BY <1>1, <1>3 DEF StoreWarranted, Warranted
  <2> QED BY <1>1, <2>1 DEF EndWarranted, Warranted
<1>7. SnapshotTrails'
  BY <1>1, <1>2, <1>3, PrefixSelf DEF SnapshotTrails
<1>8. TranscriptVerifies' /\ InTurn'
  BY <1>1, <1>3, <1>4 DEF TranscriptVerifies, InTurn, Verifies
<1>9. CallsMeant' /\ OfferMeant' /\ LateMeant' /\ StoreWarranted'
  BY <1>1, <1>3, <1>4 DEF CallsMeant, OfferMeant, LateMeant, StoreWarranted, Warranted
<1> QED BY <1>5, <1>6, <1>7, <1>8, <1>9

\* A request that starts to wait changes no match.  Its ply and seat are those of
\* the moment, and a second one of a seat is the client's haste.
LEMMA AwaitKeeps ==
  ASSUME LiveInv, NEW c \in Requests, NEW seat \in Seats,
         NEW op \in {"move", "resign", "offer", "accept"}, Await(c, op, seat),
         op = "move" => seat = Turn(room),
         op = "resign" => <<"resign", seat>> \in said',
         op \in {"offer", "accept"} => <<"draw", seat>> \in said',
         op = "accept" => room.drawOffer \notin {NoOffer, seat},
         said \subseteq said', said' \subseteq {"resign", "draw", "late"} \X Seats
  PROVE  LiveInv'
<1> USE DEF LiveInv, MatchInv
<1> DEFINE call == [op |-> op, by |-> seat, ply |-> Ply(room)]
<1>1. /\ calls[c] = Idle /\ InPlay /\ calls' = [calls EXCEPT ![c] = call]
      /\ UNCHANGED <<room, clock, timer, store, crashes>>
      /\ hasty' = (hasty \/ \E d \in Requests : calls[d] # Idle /\ calls[d].by = seat)
  BY DEF Await
<1>2. room \in Match /\ room # Absent /\ Ply(room) \in Nat /\ hasty \in BOOLEAN
  BY <1>1 DEF InPlay, TypeOK, Match, Ply
<1>3. call \in Call /\ call # Idle /\ call.op = op /\ call.by = seat /\ call.ply = Ply(room)
  BY <1>2, NamesAssumption DEF Call
<1> HIDE DEF call
<1>4. /\ calls'[c] = call
      /\ \A d \in Requests : d # c => calls'[d] = calls[d]
  BY <1>1 DEF TypeOK
<1>5. TypeOK'
  BY <1>1, <1>2, <1>3 DEF TypeOK
<1>6. EndWarranted' /\ SnapshotTrails' /\ TranscriptVerifies'
  BY <1>1, <1>2 DEF InPlay, EndWarranted, SnapshotTrails, TranscriptVerifies
<1>7. CallsMeant'
  <2>1. op = "accept" => \A x \in Seats : <<"draw", x>> \in said'
    <3> SUFFICES ASSUME op = "accept", NEW x \in Seats PROVE <<"draw", x>> \in said'
      OBVIOUS
    <3>1. room.drawOffer \in Seats /\ room.drawOffer # seat /\ <<"draw", room.drawOffer>> \in said
      BY <1>2 DEF OfferMeant, Match
    <3> QED BY <3>1 DEF Seats
  <2>2. \A d \in Requests : d # c /\ calls[d] # Idle =>
          /\ calls[d].op = "resign" => <<"resign", calls[d].by>> \in said'
          /\ calls[d].op = "offer" => <<"draw", calls[d].by>> \in said'
          /\ calls[d].op = "accept" => \A x \in Seats : <<"draw", x>> \in said'
    BY DEF CallsMeant
  <2> QED BY <1>1, <1>2, <1>3, <1>4, <2>1, <2>2 DEF CallsMeant
<1>8. OfferMeant' /\ LateMeant'
  BY <1>1 DEF OfferMeant, LateMeant, InPlay, Turn, Ply
<1>9. StoreWarranted'
  BY <1>1 DEF StoreWarranted, Warranted
<1>10. InTurn'
  <2> SUFFICES ASSUME ~hasty' PROVE
        /\ \A d, e \in Requests : calls'[d] # Idle /\ calls'[e] # Idle /\ d # e => calls'[d].by # calls'[e].by
        /\ \A d \in Requests : calls'[d] # Idle /\ calls'[d].op = "move" =>
             calls'[d].ply = Ply(room') /\ calls'[d].by = Turn(room')
        /\ store' # Absent => Verifies(store'.moves)
    BY DEF InTurn
  <2>1. ~hasty /\ \A d \in Requests : calls[d] # Idle => calls[d].by # seat
    BY <1>1, <1>2
  <2>2. \A d, e \in Requests : calls'[d] # Idle /\ calls'[e] # Idle /\ d # e => calls'[d].by # calls'[e].by
    BY <1>3, <1>4, <2>1 DEF InTurn
  <2>3. \A d \in Requests : calls'[d] # Idle /\ calls'[d].op = "move" =>
          calls'[d].ply = Ply(room') /\ calls'[d].by = Turn(room')
    BY <1>1, <1>3, <1>4, <2>1 DEF InTurn
  <2> QED BY <1>1, <2>1, <2>2, <2>3 DEF InTurn
<1> QED BY <1>5, <1>6, <1>7, <1>8, <1>9, <1>10

LEMMA SendKeeps ==
  ASSUME LiveInv, NEW c \in Requests, NEW seat \in Seats,
         SendMove(c, seat) \/ SendResign(c, seat) \/ SendOffer(c, seat) \/ SendAccept(c, seat)
  PROVE  LiveInv'
<1>1. said \subseteq {"resign", "draw", "late"} \X Seats
  BY DEF LiveInv, MatchInv, TypeOK
<1>2. CASE SendMove(c, seat)
  BY <1>1, <1>2, AwaitKeeps DEF SendMove
<1>3. CASE SendResign(c, seat)
  <2>1. /\ Await(c, "resign", seat) /\ <<"resign", seat>> \in said' /\ said \subseteq said'
        /\ said' \subseteq {"resign", "draw", "late"} \X Seats
    BY <1>1, <1>3 DEF SendResign
  <2> QED BY <2>1, AwaitKeeps
<1>4. CASE SendOffer(c, seat)
  <2>1. /\ Await(c, "offer", seat) /\ <<"draw", seat>> \in said' /\ said \subseteq said'
        /\ said' \subseteq {"resign", "draw", "late"} \X Seats
    BY <1>1, <1>4 DEF SendOffer
  <2> QED BY <2>1, AwaitKeeps
<1>5. CASE SendAccept(c, seat)
  <2>1. /\ Await(c, "accept", seat) /\ <<"draw", seat>> \in said' /\ said \subseteq said'
        /\ said' \subseteq {"resign", "draw", "late"} \X Seats
        /\ room.drawOffer \notin {NoOffer, seat}
    BY <1>1, <1>5 DEF SendAccept
  <2> QED BY <2>1, AwaitKeeps
<1> QED BY <1>2, <1>3, <1>4, <1>5

\* An answered request leaves the others as they were.
LEMMA TakeLeaves ==
  ASSUME LiveInv, NEW c \in Requests, NEW op, Take(c, op)
  PROVE  /\ room \in Match /\ room # Absent /\ room.moves \in Seq(Move)
         /\ calls[c] \in Call /\ calls[c] # Idle /\ calls[c].op = op
         /\ calls' \in [Requests -> Call \cup {Idle}]
         /\ calls'[c] = Idle
         /\ \A d \in Requests : calls'[d] # Idle => calls'[d] = calls[d]
         /\ UNCHANGED <<said, hasty, crashes>>
BY DEF Take, LiveInv, MatchInv, TypeOK, CallsMeant, Match

\* An ending that is not a move: the transcript stays, and the cause is on record.
LEMMA EndedKeeps ==
  ASSUME LiveInv, room # Absent, NEW w \in Winners, NEW offer \in {NoOffer, room.drawOffer},
         Settled(Ended([room EXCEPT !.drawOffer = offer], w)),
         Warranted(room, w),
         UNCHANGED <<said, hasty, crashes>>,
         calls' \in [Requests -> Call \cup {Idle}],
         \A c \in Requests : calls'[c] # Idle => calls'[c] = calls[c]
  PROVE  LiveInv'
<1> DEFINE m == Ended([room EXCEPT !.drawOffer = offer], w)
<1>1. room \in Match /\ room.moves \in Seq(Move)
  BY DEF LiveInv, MatchInv, TypeOK, Match
<1>2. m \in Match /\ m.moves = room.moves /\ m.over /\ m.winner = w /\ m.drawOffer = offer
  BY <1>1 DEF Match, Ended
<1> HIDE DEF m
<1>3. IsPrefix(room.moves, m.moves) /\ \A t \in Seq(Move) : IsPrefix(t, room.moves) => IsPrefix(t, m.moves)
  BY <1>1, <1>2, PrefixSelf
<1>4. Warranted(m, m.winner)
  BY <1>2 DEF Warranted
<1>5. ~hasty => /\ Verifies(m.moves)
                /\ \A c \in Requests : calls'[c] # Idle /\ calls'[c].op = "move" =>
                     calls'[c].ply = Ply(m) /\ calls'[c].by = Turn(m)
  BY <1>2 DEF LiveInv, TranscriptVerifies, Verifies, InTurn, Ply, Turn
<1>6. Settled(m)
  BY DEF m
<1> QED BY <1>1, <1>2, <1>3, <1>4, <1>5, <1>6, SettledKeeps

LEMMA FinishEndKeeps ==
  ASSUME LiveInv, NEW c \in Requests, FinishResign(c) \/ FinishAccept(c)
  PROVE  LiveInv'
<1>1. CASE FinishResign(c)
  <2>1. Take(c, "resign") /\ Settled(Ended(room, Opponent(calls[c].by)))
    BY <1>1 DEF FinishResign
  <2>2. calls[c].by \in Seats /\ <<"resign", calls[c].by>> \in said /\ room \in Match
    BY <2>1, TakeLeaves DEF CallsMeant, LiveInv, Call
  <2> DEFINE w == Opponent(calls[c].by)
  <2>3. w \in Winners /\ w \in Seats /\ 1 - w = calls[c].by
    BY <2>2 DEF Opponent, Winners, Seats
  <2>4. Warranted(room, w)
    BY <2>2, <2>3 DEF Warranted
  <2>5. [room EXCEPT !.drawOffer = room.drawOffer] = room
    BY <2>2 DEF Match
  <2> HIDE DEF w
  <2> QED BY <2>1, <2>3, <2>4, <2>5, TakeLeaves, EndedKeeps DEF w
<1>2. CASE FinishAccept(c)
  <2>1. Take(c, "accept") /\ Settled(Ended([room EXCEPT !.drawOffer = NoOffer], DRAW))
    BY <1>2 DEF FinishAccept
  <2>2. Warranted(room, DRAW)
    BY <2>1, TakeLeaves DEF Warranted, CallsMeant, LiveInv
  <2> QED BY <2>1, <2>2, TakeLeaves, EndedKeeps DEF Winners
<1> QED BY <1>1, <1>2

\* What a match is after a move has been accepted.
LEMMA AcceptType ==
  ASSUME NEW m \in Match, NEW move \in Move
  PROVE  LET n == Accept(m, move) IN
         /\ n \in Match /\ n.moves = Append(m.moves, move) /\ n.drawOffer = m.drawOffer
         /\ n.over /\ ~m.over => move.end # Playing /\ n.winner = move.end
<1> DEFINE n == [m EXCEPT !.moves = Append(@, move)]
<1>1. n \in Match /\ n.moves = Append(m.moves, move) /\ n.drawOffer = m.drawOffer /\ n.over = m.over
  BY DEF Match
<1> HIDE DEF n
<1>2. move.end # Playing =>
        /\ Ended(n, move.end) \in Match /\ Ended(n, move.end).moves = n.moves
        /\ Ended(n, move.end).drawOffer = n.drawOffer /\ Ended(n, move.end).winner = move.end
  BY <1>1 DEF Match, Ended, Move
<1>3. Accept(m, move) = IF move.end = Playing THEN n ELSE Ended(n, move.end)
  BY DEF Accept, n
<1> QED BY <1>1, <1>2, <1>3

\* A move is refused, or joins the transcript: signed for this ply by the seat to
\* move unless a client was hasty, and then no other move is under way.
LEMMA FinishMoveKeeps ==
  ASSUME LiveInv, NEW c \in Requests, FinishMove(c)
  PROVE  LiveInv'
<1>1. /\ Take(c, "move")
      /\ room \in Match /\ room # Absent /\ room.moves \in Seq(Move)
      /\ calls[c] \in Call /\ calls[c] # Idle /\ calls[c].op = "move"
      /\ calls' \in [Requests -> Call \cup {Idle}]
      /\ calls'[c] = Idle
      /\ \A d \in Requests : calls'[d] # Idle => calls'[d] = calls[d]
      /\ UNCHANGED <<said, hasty, crashes>>
  BY TakeLeaves DEF FinishMove
<1>2. CASE UNCHANGED <<room, clock, timer, store>>
  <2>1. TypeOK'
    BY <1>1, <1>2 DEF LiveInv, MatchInv, TypeOK
  <2>2. EndWarranted' /\ SnapshotTrails' /\ TranscriptVerifies'
    BY <1>1, <1>2 DEF LiveInv, MatchInv, EndWarranted, SnapshotTrails, TranscriptVerifies, Warranted
  <2>3. CallsMeant' /\ OfferMeant' /\ LateMeant' /\ StoreWarranted'
    BY <1>1, <1>2 DEF LiveInv, CallsMeant, OfferMeant, LateMeant, InPlay, Turn, Ply, StoreWarranted, Warranted
  <2>4. InTurn'
    BY <1>1, <1>2 DEF LiveInv, InTurn, Ply, Turn
  <2> QED BY <2>1, <2>2, <2>3, <2>4 DEF LiveInv, MatchInv
<1>3. ASSUME ~room.over, NEW end \in Winners \cup {Playing}, NEW cycle \in BOOLEAN,
             Settled(Accept(room, [by |-> calls[c].by, ply |-> calls[c].ply,
                                   end |-> end, cycle |-> cycle]))
      PROVE  LiveInv'
  <2> DEFINE move == [by |-> calls[c].by, ply |-> calls[c].ply, end |-> end, cycle |-> cycle]
             m == Accept(room, move)
  <2>1. move \in Move /\ move.by = calls[c].by /\ move.ply = calls[c].ply /\ move.end = end
    BY <1>1 DEF Call, Move
  <2> HIDE DEF move
  <2>2. /\ m \in Match /\ m.moves = Append(room.moves, move) /\ m.drawOffer = room.drawOffer
        /\ m.over => end # Playing /\ m.winner = end
    BY <1>1, <1>3, <2>1, AcceptType
  <2> HIDE DEF m
  <2>3. /\ m.moves \in Seq(Move) /\ m.moves # <<>> /\ Last(m.moves) = move
        /\ Len(m.moves) = Len(room.moves) + 1 /\ Len(room.moves) \in Nat
        /\ \A i \in 1 .. Len(room.moves) : m.moves[i] = room.moves[i]
        /\ m.moves[Len(m.moves)] = move
        /\ DOMAIN m.moves = 1 .. Len(m.moves) /\ DOMAIN room.moves = 1 .. Len(room.moves)
    BY <1>1, <2>1, <2>2 DEF Last
  <2>4. /\ IsPrefix(room.moves, m.moves)
        /\ \A t \in Seq(Move) : IsPrefix(t, room.moves) => IsPrefix(t, m.moves)
    BY <1>1, <2>1, <2>2, PrefixSelf, PrefixGrows
  <2>5. m.over => Warranted(m, m.winner)
    BY <2>1, <2>2, <2>3 DEF Warranted
  <2>6. ASSUME ~hasty
        PROVE  /\ Verifies(m.moves)
               /\ \A d \in Requests : calls'[d] # Idle /\ calls'[d].op = "move" =>
                    calls'[d].ply = Ply(m) /\ calls'[d].by = Turn(m)
    <3>1. /\ calls[c].ply = Len(room.moves)
          /\ calls[c].by = (StartTurn + Len(room.moves)) % 2
      BY <1>1, <2>6 DEF LiveInv, InTurn, Ply, Turn
    <3>2. Verifies(room.moves)
      BY <1>1, <2>6 DEF LiveInv, TranscriptVerifies, Verifies
    <3>3. Verifies(m.moves)
      <4> SUFFICES ASSUME NEW i \in 1 .. Len(m.moves)
                   PROVE  m.moves[i].ply = i - 1 /\ m.moves[i].by = (StartTurn + i - 1) % 2
        BY <2>3 DEF Verifies
      <4>1. CASE i \in 1 .. Len(room.moves)
        BY <2>3, <3>2, <4>1 DEF Verifies
      <4>2. CASE i = Len(m.moves)
        <5>1. i = Len(room.moves) + 1 /\ m.moves[i] = move
          BY <2>3, <4>2
        <5>2. StartTurn + i - 1 = StartTurn + Len(room.moves) /\ i - 1 = Len(room.moves)
          BY <2>3, <5>1, LiveAssumption
        <5> QED BY <2>1, <3>1, <5>1, <5>2
      <4> QED BY <2>3, <4>1, <4>2
    <3>4. \A d \in Requests : ~(calls'[d] # Idle /\ calls'[d].op = "move")
      BY <1>1, <2>6 DEF LiveInv, InTurn
    <3> QED BY <3>3, <3>4
  <2>7. Settled(m)
    BY <1>3 DEF m, move
  <2> QED BY <1>1, <1>3, <2>2, <2>4, <2>5, <2>6, <2>7, SettledKeeps
<1> QED BY <1>2, <1>3 DEF FinishMove

\* An offer changes nothing but the offer; it replaces the other seat's.
LEMMA FinishOfferKeeps ==
  ASSUME LiveInv, NEW c \in Requests, FinishOffer(c)
  PROVE  LiveInv'
<1> DEFINE m == [room EXCEPT !.drawOffer = calls[c].by]
<1>1. /\ room \in Match /\ room # Absent
      /\ calls[c] \in Call /\ calls[c] # Idle /\ calls[c].op = "offer"
      /\ calls' \in [Requests -> Call \cup {Idle}]
      /\ \A d \in Requests : calls'[d] # Idle => calls'[d] = calls[d]
      /\ UNCHANGED <<said, hasty, crashes, clock, timer, store>>
      /\ room' = m
  BY TakeLeaves DEF FinishOffer
<1>2. /\ m \in Match /\ m # Absent /\ m.moves = room.moves /\ m.over = room.over
      /\ m.winner = room.winner /\ m.drawOffer = calls[c].by
  BY <1>1, NamesAssumption DEF Match, Call
<1> HIDE DEF m
<1>3. TypeOK'
  BY <1>1, <1>2 DEF LiveInv, MatchInv, TypeOK
<1>4. EndWarranted' /\ SnapshotTrails' /\ TranscriptVerifies'
  BY <1>1, <1>2 DEF LiveInv, MatchInv, EndWarranted, SnapshotTrails, TranscriptVerifies, Warranted
<1>5. CallsMeant' /\ OfferMeant' /\ LateMeant' /\ StoreWarranted'
  BY <1>1, <1>2 DEF LiveInv, CallsMeant, OfferMeant, LateMeant, InPlay, Turn, Ply, StoreWarranted, Warranted
<1>6. InTurn'
  BY <1>1, <1>2 DEF LiveInv, InTurn, Ply, Turn
<1> QED BY <1>3, <1>4, <1>5, <1>6 DEF LiveInv, MatchInv

\* A flag falls, a timer is armed, or the timer forfeits the seat that ran late.
LEMMA ClockKeeps ==
  ASSUME LiveInv, Lapse \/ Watch \/ TurnClockExpired
  PROVE  LiveInv'
<1>1. CASE Lapse
  <2>1. /\ InPlay /\ said' = said \cup {<<"late", Turn(room)>>}
        /\ clock' \in {"late", "fallen"}
        /\ UNCHANGED <<room, calls, timer, store, hasty, crashes>>
    BY <1>1 DEF Lapse
  <2>2. Turn(room) \in Seats
    <3>1. Ply(room) \in Nat
      BY <2>1 DEF InPlay, Ply, LiveInv, MatchInv, TypeOK, Match
    <3> QED BY <3>1, LiveAssumption DEF Turn, Seats
  <2>3. TypeOK'
    BY <2>1, <2>2 DEF LiveInv, MatchInv, TypeOK
  <2>4. EndWarranted' /\ SnapshotTrails' /\ TranscriptVerifies'
    BY <2>1 DEF LiveInv, MatchInv, InPlay, EndWarranted, SnapshotTrails, TranscriptVerifies
  <2>5. CallsMeant' /\ OfferMeant' /\ LateMeant'
    BY <2>1 DEF LiveInv, CallsMeant, OfferMeant, LateMeant, InPlay, Turn, Ply
  <2>6. StoreWarranted'
    BY <2>1 DEF LiveInv, StoreWarranted, Warranted
  <2>7. InTurn'
    BY <2>1 DEF LiveInv, InTurn, Ply, Turn
  <2> QED BY <2>3, <2>4, <2>5, <2>6, <2>7 DEF LiveInv, MatchInv
<1>2. CASE Watch
  <2>1. InPlay /\ timer' = TRUE /\ UNCHANGED <<room, calls, clock, store, said, hasty, crashes>>
    BY <1>2 DEF Watch
  <2> QED
    BY <2>1 DEF LiveInv, MatchInv, TypeOK, InPlay, EndWarranted, SnapshotTrails, TranscriptVerifies,
                CallsMeant, OfferMeant, LateMeant, StoreWarranted, InTurn, Warranted, Turn, Ply
<1>3. CASE TurnClockExpired
  <2> DEFINE w == Opponent(Turn(room))
  <2>1. /\ InPlay /\ room # Absent /\ clock # "running" /\ Settled(Ended(room, w))
        /\ UNCHANGED <<calls, said, hasty, crashes>>
    BY <1>3 DEF TurnClockExpired, InPlay
  <2>2. room \in Match /\ calls \in [Requests -> Call \cup {Idle}]
    BY <2>1 DEF LiveInv, MatchInv, TypeOK
  <2>3. Turn(room) \in Seats
    <3>1. Ply(room) \in Nat
      BY <2>2 DEF Ply, Match
    <3> QED BY <3>1, LiveAssumption DEF Turn, Seats
  <2>4. w \in Winners /\ w \in Seats /\ 1 - w = Turn(room)
    BY <2>3 DEF Opponent, Winners, Seats
  <2>5. Warranted(room, w)
    BY <2>1, <2>4 DEF Warranted, LiveInv, LateMeant
  <2>6. [room EXCEPT !.drawOffer = room.drawOffer] = room
    BY <2>2 DEF Match
  <2> HIDE DEF w
  <2> QED BY <2>1, <2>2, <2>4, <2>5, <2>6, EndedKeeps
<1> QED BY <1>1, <1>2, <1>3

LEMMA CrashKeeps == LiveInv /\ Crash => LiveInv'
<1> SUFFICES ASSUME LiveInv, Crash PROVE LiveInv'
  OBVIOUS
<1>1. /\ crashes < MaxCrashes /\ crashes' = crashes + 1
      /\ room' = Absent /\ timer' = FALSE /\ clock' = "running"
      /\ calls' = [c \in Requests |-> Idle]
      /\ UNCHANGED <<store, said, hasty>>
  BY DEF Crash
<1>2. TypeOK'
  <2>1. calls' \in [Requests -> Call \cup {Idle}]
    BY <1>1
  <2>2. crashes' \in 0 .. MaxCrashes
    BY <1>1, LiveAssumption DEF LiveInv, MatchInv, TypeOK
  <2> QED BY <1>1, <2>1, <2>2 DEF LiveInv, MatchInv, TypeOK
<1>3. \A c \in Requests : calls'[c] = Idle
  BY <1>1
<1> QED
  BY <1>1, <1>2, <1>3
  DEF LiveInv, MatchInv, EndWarranted, SnapshotTrails, TranscriptVerifies,
      CallsMeant, OfferMeant, LateMeant, InPlay, StoreWarranted, InTurn, Warranted

LEMMA StepLiveInv == ~LoadsFail /\ LiveInv /\ [Next]_vars => LiveInv'
<1> SUFFICES ASSUME ~LoadsFail, LiveInv, [Next]_vars PROVE LiveInv'
  OBVIOUS
<1>1. CASE Open \/ Restore
  BY <1>1, OpenKeeps, RestoreKeeps
<1>2. ASSUME NEW c \in Requests, NEW seat \in Seats,
             SendMove(c, seat) \/ SendResign(c, seat) \/ SendOffer(c, seat) \/ SendAccept(c, seat)
      PROVE  LiveInv'
  BY <1>2, SendKeeps
<1>3. ASSUME NEW c \in Requests, Finish(c) PROVE LiveInv'
  BY <1>3, FinishMoveKeeps, FinishEndKeeps, FinishOfferKeeps DEF Finish
<1>4. CASE Lapse \/ Watch \/ TurnClockExpired
  BY <1>4, ClockKeeps
<1>5. CASE Crash
  BY <1>5, CrashKeeps
<1>6. CASE UNCHANGED vars
  BY <1>6
  DEF vars, LiveInv, MatchInv, TypeOK, EndWarranted, SnapshotTrails, TranscriptVerifies, CallsMeant,
      OfferMeant, LateMeant, InPlay, StoreWarranted, InTurn, Warranted, Turn, Ply
<1> QED BY <1>1, <1>2, <1>3, <1>4, <1>5, <1>6 DEF Next

-----------------------------------------------------------------------------
(* Theorems.  Each needs that a snapshot that is there can be read: a failed  *)
(* read looks like an absent match, and a fresh one would overwrite it.       *)

LEMMA LiveInvariance ==
  ASSUME ~LoadsFail
  PROVE  Spec => []LiveInv
<1>1. LiveInv /\ [Next]_vars => LiveInv'
  BY StepLiveInv
<1> QED BY <1>1, InitLiveInv, PTL DEF Spec

\* Whatever requests, timers, saves and crashes interleave, a match ends only by its
\* moves, a resignation, a lapsed clock or two draw signatures, and its snapshot is a
\* prefix of it whose recorded ending stands (match.ts:134-271, hub.ts:29-55).
THEOREM EndingsWarranted ==
  ASSUME ~LoadsFail
  PROVE  Spec => []MatchInv
BY LiveInvariance, PTL DEF LiveInv

\* As long as clients await each answer, move i of every transcript is signed for ply
\* i by the seat whose turn it is, restarts included: the contract accepts it
\* (match.ts:9-11).
THEOREM TranscriptsVerify ==
  ASSUME ~LoadsFail
  PROVE  Spec => []TranscriptVerifies
BY LiveInvariance, PTL DEF LiveInv

\* The transcript a step leaves in the hub, if the step touches the match.
Kept(m) ==
  /\ m.moves \in Seq(Move)
  /\ room.over => m.over /\ m.moves = room.moves
  /\ \A t \in Seq(Move) : IsPrefix(t, room.moves) => IsPrefix(t, m.moves)

LEMMA StepHistory ==
  ASSUME ~LoadsFail, LiveInv, [Next]_vars
  PROVE  /\ room # Absent /\ room.over /\ room' # Absent => room'.over /\ room'.moves = room.moves
         /\ store # Absent => store' # Absent /\ IsPrefix(store.moves, store'.moves)
<1> DEFINE Goal == /\ room # Absent /\ room.over /\ room' # Absent => room'.over /\ room'.moves = room.moves
                   /\ store # Absent => store' # Absent /\ IsPrefix(store.moves, store'.moves)
<1>1. /\ room # Absent => room \in Match /\ room.moves \in Seq(Move)
      /\ store # Absent => store \in MatchSnapshot /\ store.moves \in Seq(Move)
      /\ room # Absent /\ store # Absent => IsPrefix(store.moves, room.moves)
  BY DEF LiveInv, MatchInv, TypeOK, Match, MatchSnapshot, SnapshotTrails
<1>2. store # Absent => IsPrefix(store.moves, store.moves)
  BY <1>1, PrefixSelf
<1>3. ASSUME room # Absent, NEW m \in Match, Settled(m), Kept(m) PROVE Goal
  <2>1. room' = m /\ store' \in {store, Snapshot(m)}
    BY <1>3 DEF Settled, Persist
  <2>2. Snapshot(m).moves = m.moves /\ Snapshot(m) # Absent
    BY SnapshotType, NamesAssumption
  <2>3. CASE store' = store
    BY <1>2, <1>3, <2>1, <2>3 DEF Kept
  <2>4. CASE store' = Snapshot(m)
    BY <1>1, <1>3, <2>1, <2>2, <2>4 DEF Kept
  <2> QED BY <2>1, <2>3, <2>4
<1>4. CASE Open \/ Restore \/ Crash
  BY <1>2, <1>4 DEF Open, Restore, Crash
<1>5. ASSUME NEW c \in Requests, NEW seat \in Seats,
             SendMove(c, seat) \/ SendResign(c, seat) \/ SendOffer(c, seat) \/ SendAccept(c, seat)
      PROVE  Goal
  BY <1>2, <1>5 DEF SendMove, SendResign, SendOffer, SendAccept, Await
<1>6. ASSUME NEW c \in Requests, FinishMove(c) PROVE Goal
  <2>1. room # Absent /\ room \in Match /\ room.moves \in Seq(Move) /\ calls[c] \in Call
    BY <1>6, TakeLeaves DEF FinishMove
  <2>2. CASE UNCHANGED <<room, store>>
    BY <1>2, <2>2
  <2>3. ASSUME ~room.over, NEW end \in Winners \cup {Playing}, NEW cycle \in BOOLEAN,
               Settled(Accept(room, [by |-> calls[c].by, ply |-> calls[c].ply,
                                     end |-> end, cycle |-> cycle]))
        PROVE  Goal
    <3> DEFINE move == [by |-> calls[c].by, ply |-> calls[c].ply, end |-> end, cycle |-> cycle]
               m == Accept(room, move)
    <3>1. move \in Move
      BY <2>1 DEF Call, Move
    <3> HIDE DEF move
    <3>2. m \in Match /\ m.moves = Append(room.moves, move)
      BY <2>1, <3>1, AcceptType
    <3> HIDE DEF m
    <3>3. Kept(m)
      BY <2>1, <2>3, <3>1, <3>2, PrefixGrows DEF Kept
    <3>4. Settled(m)
      BY <2>3 DEF m, move
    <3> QED BY <1>3, <2>1, <3>2, <3>3, <3>4
  <2> QED BY <1>6, <2>2, <2>3 DEF FinishMove
<1>7. ASSUME room # Absent, NEW w \in Winners, NEW offer \in {NoOffer, room.drawOffer},
             Settled(Ended([room EXCEPT !.drawOffer = offer], w))
      PROVE  Goal
  <2> DEFINE m == Ended([room EXCEPT !.drawOffer = offer], w)
  <2>1. m \in Match /\ m.moves = room.moves /\ m.over
    BY <1>1, <1>7 DEF Match, Ended
  <2>2. Kept(m)
    BY <1>1, <1>7, <2>1 DEF Kept
  <2> HIDE DEF m
  <2>3. Settled(m)
    BY <1>7 DEF m
  <2> QED BY <1>3, <1>7, <2>1, <2>2, <2>3
<1>8. ASSUME NEW c \in Requests, FinishResign(c) PROVE Goal
  <2>1. /\ room # Absent /\ room \in Match /\ calls[c].by \in Seats
        /\ Settled(Ended(room, Opponent(calls[c].by)))
    BY <1>8, TakeLeaves DEF FinishResign, Call
  <2>2. [room EXCEPT !.drawOffer = room.drawOffer] = room /\ Opponent(calls[c].by) \in Winners
    BY <2>1 DEF Match, Opponent, Seats, Winners
  <2> QED BY <1>7, <2>1, <2>2
<1>9. ASSUME NEW c \in Requests, FinishAccept(c) PROVE Goal
  <2>1. room # Absent /\ Settled(Ended([room EXCEPT !.drawOffer = NoOffer], DRAW)) /\ DRAW \in Winners
    BY <1>9, TakeLeaves DEF FinishAccept, Winners
  <2> QED BY <1>7, <2>1
<1>10. ASSUME NEW c \in Requests, FinishOffer(c) PROVE Goal
  <2>1. room # Absent /\ room \in Match /\ store' = store /\ room' = [room EXCEPT !.drawOffer = calls[c].by]
    BY <1>10, TakeLeaves DEF FinishOffer
  <2>2. room'.moves = room.moves /\ room'.over = room.over
    BY <2>1 DEF Match
  <2> QED BY <1>2, <2>1, <2>2
<1>11. CASE Lapse \/ Watch \/ UNCHANGED vars
  BY <1>2, <1>11 DEF Lapse, Watch, vars
<1>12. CASE TurnClockExpired
  <2>1. /\ room # Absent /\ room \in Match /\ Ply(room) \in Nat
        /\ Settled(Ended(room, Opponent(Turn(room))))
    BY <1>1, <1>12 DEF TurnClockExpired, InPlay, Ply
  <2>2. [room EXCEPT !.drawOffer = room.drawOffer] = room /\ Opponent(Turn(room)) \in Winners
    <3>1. Turn(room) \in Seats
      BY <2>1, LiveAssumption DEF Turn, Seats
    <3> QED BY <2>1, <3>1 DEF Match, Opponent, Seats, Winners
  <2> QED BY <1>7, <2>1, <2>2
<1> QED
  BY <1>4, <1>5, <1>6, <1>8, <1>9, <1>10, <1>11, <1>12 DEF Next, Finish

\* Nothing a request that was already waiting, a timer or a restart does takes back
\* the end of a match, a move of it, or what was persisted (match.ts:134-158,
\* main.ts:1055-1057, hub.ts:48-49).
THEOREM HistoryStands ==
  ASSUME ~LoadsFail
  PROVE  Spec => HistoryKept
<1>1. LiveInv /\ [Next]_vars =>
        [room # Absent /\ room.over /\ room' # Absent => room'.over /\ room'.moves = room.moves]_vars
  BY StepHistory
<1>2. LiveInv /\ [Next]_vars =>
        [store # Absent => store' # Absent /\ IsPrefix(store.moves, store'.moves)]_vars
  BY StepHistory
<1> QED BY <1>1, <1>2, LiveInvariance, PTL DEF Spec, HistoryKept, NoMoveAfterEnd, TranscriptKept
=============================================================================
