------------------------------ MODULE LiveClient ------------------------------
(***************************************************************************)
(* The page of a staked match (app/src/components/LiveMatch.tsx) on the    *)
(* device of its creator or of the player it invited: reading the match    *)
(* from a node that may lag, taking the seat, the socket's events, signing *)
(* and claiming a result, disputing, collecting, and the poll that closes  *)
(* the screen.                                                             *)
(*                                                                         *)
(* The chain and the server are what the page meets of them: one match of  *)
(* MatchEscrow.sol, and the game in the hub until it is closed.  The other *)
(* player's page is reduced to what it sends.  A message that is lost is   *)
(* lost with the connection.                                               *)
(***************************************************************************)
EXTENDS Integers, Sequences

CONSTANTS
  MaxMishaps   \* bound: tabs closed, connections dropped, transactions refused,
               \* results claimed by hand

ASSUME LiveClientAssumption == MaxMishaps \in Nat

Seats == {0, 1}
Server == 2
DRAW == 2
Results == {0, 1, DRAW}
Nobody == 3      \* no winner yet, nothing paid yet
Back == 4        \* both stakes returned
NoKey == 0

\* MatchEscrow's Status.
Unseen == 0
Open == 1
Active == 2
Proposed == 3
Resolved == 4
Cancelled == 5
Voided == 6

VARIABLES
  match,    \* the match on chain
  lag,      \* the match as a node that lags shows it
  tx,       \* transactions sent and not mined
  hub,      \* the game in the hub: none, live, over or closed
  game,     \* its winner, and whether its moves alone show the end
  signed,   \* seats whose result signature reached the coordinator
  dog,      \* whether the watchdog of an unsettled game is armed
  me,       \* the seat of the page's player: the creator's or the invited one's
  page,     \* the page
  mail,     \* events on the way to it
  key,      \* the session key its device keeps
  lied,     \* history: a claim was made by hand
  mishaps   \* how many happened

vars == <<match, lag, tx, hub, game, signed, dog, me, page, mail, key, lied, mishaps>>
chainVars == <<match, lag, tx>>
hubVars == <<hub, game, signed, dog>>

Closed == [at |-> "away", room |-> FALSE, seen |-> "none",
           timedOut |-> FALSE, settleWatch |-> FALSE, theirClaim |-> FALSE,
           catchUp |-> FALSE, waiting |-> FALSE, collect |-> "no",
           chainEnded |-> "none", signing |-> FALSE]

Pages == [
  at : {"away", "mount", "sync", "offer", "joining", "table", "end", "dead"},
  room : BOOLEAN, seen : {"none", "playing", "over"},
  timedOut : BOOLEAN, settleWatch : BOOLEAN, theirClaim : BOOLEAN,
  catchUp : BOOLEAN, waiting : BOOLEAN, collect : {"no", "ready", "sent"},
  chainEnded : {"none", "won", "lost", "refunded", "ended"}, signing : BOOLEAN ]

Matches == [
  status : Unseen .. Voided, session1 : Nat, proposed : Results,
  claimed : BOOLEAN, bound : BOOLEAN, closed : BOOLEAN, paid : 0 .. Back ]

Events == {"playing", "over", "gameover", "claim-eligible", "transcript"}

TypeOK ==
  /\ match \in Matches /\ lag \in Matches
  /\ tx \subseteq [op : {"join", "cancel", "propose", "challenge", "finalize", "settle"},
                   by : Seats \cup {Server}, key : Nat]
  /\ hub \in {"none", "live", "over", "closed"}
  /\ game \in [winner : Results \cup {Nobody}, board : BOOLEAN]
  /\ signed \subseteq Seats /\ dog \in BOOLEAN
  /\ me \in Seats /\ page \in Pages /\ mail \in Seq(Events)
  /\ key \in Nat /\ lied \in BOOLEAN
  /\ mishaps \in 0 .. MaxMishaps

Created == [status |-> Open, session1 |-> NoKey, proposed |-> 0, claimed |-> FALSE,
            bound |-> TRUE, closed |-> FALSE, paid |-> Nobody]

\* The creator's transaction is mined and the creator's key is stored; a node may
\* not show the match yet.
Init ==
  /\ match = Created
  /\ lag \in {Created, [Created EXCEPT !.status = Unseen]}
  /\ tx = {} /\ hub = "none" /\ game = [winner |-> Nobody, board |-> FALSE]
  /\ signed = {} /\ dog = FALSE
  /\ me \in Seats /\ page = Closed /\ mail = <<>>
  /\ key = (IF me = 0 THEN 1 ELSE NoKey) /\ lied = FALSE
  /\ mishaps = 0

-----------------------------------------------------------------------------
(* Opening the page *)

Views == {match, lag}
Mishap == mishaps < MaxMishaps /\ mishaps' = mishaps + 1

SeatOf(m) == m.status # Unseen /\ (me = 0 \/ m.session1 # NoKey)
HaveSession == key # NoKey

Visit ==
  /\ page.at = "away"
  /\ page' = [page EXCEPT !.at = "mount"]
  /\ UNCHANGED <<chainVars, hubVars, me, mail, key, lied, mishaps>>

\* Closing the tab, the socket with it.
Leave ==
  /\ page.at # "away" /\ Mishap
  /\ page' = Closed
  /\ mail' = <<>>
  /\ UNCHANGED <<chainVars, hubVars, me, key, lied>>

\* The screen a finished match greets a returning player with.
Greeting(m) ==
  LET won == m.proposed = me
      told == [Closed EXCEPT !.at = "end"]
  IN IF m.status > Resolved THEN [told EXCEPT !.chainEnded = "refunded"]
     ELSE IF ~m.claimed THEN [told EXCEPT !.chainEnded = "ended"]
     ELSE [told EXCEPT !.chainEnded = IF won THEN "won" ELSE "lost"]

Table(m) ==
  [Closed EXCEPT !.at = "table", !.waiting = m.status = Open,
                 !.catchUp = m.status = Proposed /\ m.proposed # me]

\* A visitor the chain shows no seat for.
Visitor(m) == [Closed EXCEPT !.at = IF m.status = Open THEN "offer" ELSE "dead"]

\* One readMatch of the mount flow.  A device that holds the key polls on when
\* it reads no seat, twenty times: it may give up on any later read.
Mount ==
  /\ page.at \in {"mount", "sync"}
  /\ \E m \in Views :
       page' = IF SeatOf(m)
               THEN IF m.status >= Resolved THEN Greeting(m) ELSE Table(m)
               ELSE IF HaveSession /\ page.at = "mount"
                    THEN [Closed EXCEPT !.at = "sync"] ELSE Visitor(m)
  /\ UNCHANGED <<chainVars, hubVars, me, mail, key, lied, mishaps>>

-----------------------------------------------------------------------------
(* Taking the seat, giving it up *)

Send(op, by, k) == tx' = tx \cup {[op |-> op, by |-> by, key |-> k]}

JoinKey == IF key # NoKey THEN key ELSE key + 1

\* The card of a seat on offer, and the card of a room nobody joined.
SeatOffered == page.at = "offer"
RoomOpen == page.at = "table" /\ page.seen = "none" /\ page.waiting

\* The key is stored before anything is sent.
JoinThisMatch ==
  /\ SeatOffered
  /\ key' = JoinKey
  /\ Send("join", me, JoinKey)
  /\ page' = [page EXCEPT !.at = "joining"]
  /\ UNCHANGED <<match, lag, hubVars, me, mail, lied, mishaps>>

\* A join that fails asks the chain whether the seat is ours after all.
AfterFailedJoin(m) == IF SeatOf(m) THEN "mount" ELSE "offer"

\* The wallet refuses, or the link lacks the code of a reserved seat.
JoinRefused ==
  /\ SeatOffered /\ Mishap
  /\ key' = JoinKey
  /\ \E m \in Views : page' = [page EXCEPT !.at = AfterFailedJoin(m)]
  /\ UNCHANGED <<chainVars, hubVars, me, mail, lied>>

\* The page goes home as soon as the cancellation is sent.
CancelOpenMatch ==
  /\ RoomOpen
  /\ Send("cancel", me, NoKey)
  /\ page' = Closed
  /\ mail' = <<>>
  /\ UNCHANGED <<match, lag, hubVars, me, key, lied, mishaps>>

\* The poll of a page without a board.
NoticeJoined ==
  /\ RoomOpen
  /\ \E m \in Views : m.status # Open
  /\ page' = [page EXCEPT !.waiting = FALSE]
  /\ UNCHANGED <<chainVars, hubVars, me, mail, key, lied, mishaps>>

-----------------------------------------------------------------------------
(* The socket *)

Present == page.at = "table" /\ page.room
StateNow == IF hub = "live" THEN <<"playing">> ELSE IF hub = "over" THEN <<"over">> ELSE <<>>

Broadcast(events) ==
  mail' = IF Present THEN mail \o events ELSE mail

\* On connect: watch, and the transcript of a claim made while away.
Connect ==
  /\ page.at = "table" /\ ~page.room
  /\ page' = [page EXCEPT !.room = TRUE]
  /\ mail' = StateNow \o
       IF page.catchUp /\ hub \in {"live", "over"} THEN <<"transcript">> ELSE <<>>
  /\ UNCHANGED <<chainVars, hubVars, me, key, lied, mishaps>>

\* Without a board the page watches again every few seconds.
WatchAgain ==
  /\ Present /\ page.seen = "none" /\ mail = <<>> /\ StateNow # <<>>
  /\ mail' = StateNow
  /\ UNCHANGED <<chainVars, hubVars, me, page, key, lied, mishaps>>

Blink ==
  /\ Present /\ Mishap
  /\ page' = [page EXCEPT !.room = FALSE]
  /\ mail' = <<>>
  /\ UNCHANGED <<chainVars, hubVars, me, key, lied>>

\* Slip: whoever hears that a claim is possible makes one.
ClaimsAnyway == TRUE

ClaimsOwn == game.winner = me

\* What an event does to the page.
Shown(event) ==
  CASE event \in {"playing", "over"} -> [page EXCEPT !.seen = event, !.timedOut = FALSE]
    [] event = "gameover" ->
         [page EXCEPT !.seen = "over", !.timedOut = FALSE, !.signing = TRUE]
    [] event = "transcript" -> [page EXCEPT !.theirClaim = TRUE]
    [] event = "claim-eligible" -> [page EXCEPT !.timedOut = TRUE]

Handle ==
  /\ page.at = "table" /\ mail # <<>>
  /\ Head(mail) # "claim-eligible" \/ ~ClaimsOwn
  /\ page' = Shown(Head(mail))
  /\ mail' = Tail(mail)
  /\ UNCHANGED <<chainVars, hubVars, me, key, lied, mishaps>>

\* selfClaim: the claim is sent and the win is shown, or the wallet refuses.
SelfClaim ==
  /\ page.at = "table" /\ mail # <<>>
  /\ Head(mail) = "claim-eligible" /\ ClaimsOwn
  /\ mail' = Tail(mail)
  /\ \/ /\ Send("propose", me, NoKey)
        /\ page' = [page EXCEPT !.settleWatch = TRUE]
        /\ UNCHANGED mishaps
     \/ /\ Mishap
        /\ UNCHANGED <<tx, page>>
  /\ UNCHANGED <<match, lag, hubVars, me, key, lied>>

-----------------------------------------------------------------------------
(* Claims and payouts *)

ClaimShown == page.at = "table" /\ page.theirClaim

Dispute ==
  /\ ClaimShown
  /\ Send("challenge", me, NoKey)
  /\ page' = [page EXCEPT !.theirClaim = FALSE, !.settleWatch = TRUE]
  /\ UNCHANGED <<match, lag, hubVars, me, mail, key, lied, mishaps>>

Polling ==
  /\ page.at = "table" /\ page.chainEnded = "none"
  /\ page.timedOut \/ page.settleWatch \/ page.theirClaim

PotPaid(m) == m.status = Resolved

\* Slip: the winner waits for the keeper alone.
CollectableNever(m) == FALSE

Collectable(m) == m.status = Proposed /\ m.proposed = me /\ m.claimed /\ match.closed

\* A poll shows the pot paid, a win the keeper has not paid, or a refund.
Poll ==
  /\ Polling
  /\ \E m \in Views :
       LET won == m.proposed = me
           ended == [page EXCEPT !.timedOut = FALSE, !.theirClaim = FALSE]
       IN \/ /\ PotPaid(m)
             /\ page' = [ended EXCEPT !.chainEnded = IF won THEN "won" ELSE "lost",
                                      !.collect = "no"]
          \/ /\ Collectable(m) /\ page.collect = "no"
             /\ page' = [page EXCEPT !.collect = "ready"]
          \/ /\ m.status > Resolved
             /\ page' = [ended EXCEPT !.chainEnded = "refunded"]
  /\ UNCHANGED <<chainVars, hubVars, me, mail, key, lied, mishaps>>

CollectShown == page.at = "table" /\ page.collect = "ready" /\ page.chainEnded = "none"

CollectNow ==
  /\ CollectShown
  /\ Send("finalize", me, NoKey)
  /\ page' = [page EXCEPT !.collect = "sent"]
  /\ UNCHANGED <<match, lag, hubVars, me, mail, key, lied, mishaps>>

-----------------------------------------------------------------------------
(* The server *)

\* The joined match enters the hub.
HubOpens ==
  /\ hub = "none" /\ match.status = Active
  /\ hub' = "live"
  /\ UNCHANGED <<chainVars, game, signed, dog, me, page, mail, key, lied, mishaps>>

\* announceGameOver: by the moves, or by the clock or an agreement of which
\* the moves show nothing.
GameEnds ==
  /\ hub = "live"
  /\ \E w \in Results, b \in BOOLEAN : game' = [winner |-> w, board |-> b]
  /\ hub' = "over" /\ dog' = TRUE
  /\ Broadcast(<<"gameover">>)
  /\ UNCHANGED <<chainVars, signed, me, page, key, lied, mishaps>>

\* A result signature: with both, the server settles, or the chain refuses and
\* the signatures stay.
Submit(p) ==
  /\ signed' = IF hub = "over" THEN signed \cup {p} ELSE signed
  /\ IF hub = "over" /\ signed' = Seats /\ match.status = Active
     THEN hub' = "closed" /\ Send("settle", Server, NoKey)
     ELSE UNCHANGED <<hub, tx>>

\* The page signs the result it was told.
SendResult ==
  /\ Present /\ page.signing
  /\ page' = [page EXCEPT !.signing = FALSE]
  /\ Submit(me)
  /\ UNCHANGED <<match, lag, game, dog, me, mail, key, lied, mishaps>>

Watchdog ==
  /\ dog /\ dog' = FALSE
  /\ IF hub = "over" THEN Broadcast(<<"claim-eligible">>) ELSE UNCHANGED mail
  /\ UNCHANGED <<chainVars, hub, game, signed, me, page, key, lied, mishaps>>

-----------------------------------------------------------------------------
(* The chain *)

Pay(w) == match' = [match EXCEPT !.status = Resolved, !.paid = w]
Refund(s) == match' = [match EXCEPT !.status = s, !.paid = Back]
Join(k) == match' = [match EXCEPT !.status = Active, !.session1 = k]
Reverts == UNCHANGED match

ProposeResult(w, commits) ==
  match' = [match EXCEPT !.status = Proposed, !.proposed = w, !.claimed = TRUE,
                         !.bound = commits]

\* The transcript pays the winner its moves show; one that does not end voids
\* the match, for a player, when the claim was bound to it.
Challenge(by) ==
  IF match.status # Proposed \/ match.closed THEN Reverts
  ELSE IF hub \in {"over", "closed"} /\ game.board THEN Pay(game.winner)
  ELSE IF by \in Seats /\ match.bound THEN Refund(Voided)
  ELSE Reverts

Effect(t) ==
  CASE t.op = "join" /\ match.status = Open -> Join(t.key)
    [] t.op = "cancel" /\ match.status = Open -> Refund(Cancelled)
    [] t.op = "propose" /\ match.status = Active -> ProposeResult(t.by, TRUE)
    [] t.op = "challenge" -> Challenge(t.by)
    [] t.op = "finalize" /\ match.status = Proposed /\ match.closed -> Pay(match.proposed)
    [] t.op = "settle" /\ match.status = Active -> Pay(game.winner)
    [] OTHER -> Reverts

\* A change reaches one node first: the other shows the match before it.
Spreads == lag' = IF match' # match THEN match ELSE lag

Awaited(t) ==
  \/ t.op = "join" /\ page.at = "joining"
  \/ t.op = "finalize" /\ t.by = me /\ page.collect = "sent"

\* A transaction is mined, and a page that awaits it hears: a join reloads the
\* page, a collected payout closes it, a failure frees the button.
Mine ==
  \E t \in tx :
    /\ Effect(t) /\ Spreads /\ tx' = tx \ {t}
    /\ \/ /\ Awaited(t) /\ match' # match
          /\ page' = IF t.op = "join" THEN [page EXCEPT !.at = "mount"]
                     ELSE [page EXCEPT !.collect = "no", !.chainEnded = "won"]
       \/ /\ Awaited(t) /\ match' = match /\ t.op = "join"
          /\ \E m \in Views : page' = [page EXCEPT !.at = AfterFailedJoin(m)]
       \/ /\ Awaited(t) /\ match' = match /\ t.op = "finalize"
          /\ page' = [page EXCEPT !.collect = "ready"]
       \/ ~Awaited(t) /\ UNCHANGED page
    /\ UNCHANGED <<hubVars, me, mail, key, lied, mishaps>>

WindowCloses ==
  /\ match.status = Proposed /\ ~match.closed
  /\ match' = [match EXCEPT !.closed = TRUE]
  /\ UNCHANGED <<lag, tx, hubVars, me, page, mail, key, lied, mishaps>>

\* The lifetime of a match is far longer than anything under way in it.
Expire ==
  /\ match.status = Active /\ tx = {} /\ ~dog /\ mail = <<>> /\ ~page.signing
  /\ Refund(Voided) /\ Spreads
  /\ UNCHANGED <<tx, hubVars, me, page, mail, key, lied, mishaps>>

NodeCatchesUp ==
  /\ lag # match /\ lag' = match
  /\ UNCHANGED <<match, tx, hubVars, me, page, mail, key, lied, mishaps>>

\* The anti-cheat watcher on a claim that the ended game refutes, and the keeper
\* on any other whose window is closed.
ServerActs ==
  /\ match.status = Proposed
  /\ LET refuted == hub = "over" /\ match.proposed # game.winner
     IN \/ refuted /\ Challenge(Server)
        \/ ~refuted /\ match.closed /\ Pay(match.proposed)
  /\ Spreads
  /\ UNCHANGED <<tx, hubVars, me, page, mail, key, lied, mishaps>>

-----------------------------------------------------------------------------
(* The other player *)

Other == 1 - me

\* What the other page sends: its stake or its cancellation, its signature,
\* its claim of a game it won, its dispute of ours.
OtherPlayer ==
  /\ \/ /\ match.status = Open
        /\ IF me = 0 THEN Join(2) ELSE Refund(Cancelled)
        /\ UNCHANGED <<hub, signed, tx>>
     \/ /\ hub = "over" /\ ~dog /\ game.winner = Other /\ match.status = Active
        /\ ProposeResult(Other, TRUE)
        /\ UNCHANGED <<hub, signed, tx>>
     \/ /\ match.status = Proposed /\ match.proposed = me /\ hub \in {"live", "over"}
        /\ Challenge(Other)
        /\ UNCHANGED <<hub, signed, tx>>
     \/ /\ Submit(Other) /\ UNCHANGED match
  /\ Spreads
  /\ UNCHANGED <<game, dog, me, page, mail, key, lied, mishaps>>

\* Either player claims a win by hand, bound to the moves played or to none.
FalseClaim ==
  /\ match.status = Active /\ Mishap
  /\ \E w \in Seats, b \in BOOLEAN : ProposeResult(w, b)
  /\ lied' = TRUE /\ Spreads
  /\ UNCHANGED <<tx, hubVars, me, page, mail, key>>

Next ==
  \/ Visit \/ Leave \/ Mount \/ JoinThisMatch \/ JoinRefused
  \/ CancelOpenMatch \/ NoticeJoined \/ Connect \/ WatchAgain
  \/ Blink \/ Handle \/ SelfClaim \/ Dispute \/ Poll
  \/ CollectNow \/ SendResult
  \/ HubOpens \/ GameEnds \/ Watchdog \/ ServerActs
  \/ Mine \/ WindowCloses \/ Expire \/ NodeCatchesUp
  \/ OtherPlayer \/ FalseClaim

Spec == Init /\ [][Next]_vars

\* What the page does by itself and the player's pressing on, the chain and
\* the server's own timers: not the keeper, nor the other player.
PageFair ==
  /\ WF_vars(Mount \/ JoinThisMatch \/ NoticeJoined \/ Connect \/ WatchAgain)
  /\ WF_vars(Handle \/ SelfClaim \/ SendResult)
  /\ WF_vars(Poll) /\ WF_vars(CollectNow)
  /\ WF_vars(Mine) /\ WF_vars(WindowCloses) /\ WF_vars(NodeCatchesUp)

FairSpec == Spec /\ PageFair

-----------------------------------------------------------------------------
(* Properties *)

\* The device keeps the session key the contract knows for its seat, whatever
\* stale reads offer the seat again and however often it is pressed: every
\* later signature of that player verifies (joinThisMatch).
KeyKept == me = 1 /\ match.session1 # NoKey => key = match.session1

\* The page never closes a match before the chain has, never mistakes a refund
\* for a payout, and after a claim that nobody overturned it shows the winner a
\* win and the loser a loss, even through a node that lags (poll, greeting).
EndShown ==
  LET shown == page.chainEnded IN
  shown # "none" =>
    /\ match.status >= Resolved
    /\ shown = "refunded" <=> match.paid = Back
    /\ match.claimed /\ match.paid = match.proposed
         => shown = IF match.paid = me THEN "won" ELSE "lost"

\* The winner's screen is shown to a player whom the chain has paid, and the
\* loser's when it has paid the opponent.
ShownWinnerIsPaid ==
  /\ page.chainEnded = "won" => match.paid = me
  /\ page.chainEnded = "lost" => match.paid = Other

\* While every claim comes from a page, a claim on its way or on chain names the
\* winner the server announced, and nobody else is paid the pot, whichever of
\* the claim, the dispute and the two-signature settlement is mined first.
OnlyWinnerPaid ==
  ~lied =>
    /\ match.paid \in {Nobody, Back, game.winner}
    /\ match.status = Proposed => match.proposed = game.winner
    /\ \A t \in tx : t.op = "propose" => t.by = game.winner

\* The page offers to settle with the real game only a match that somebody
\* has claimed against its player.
DisputeIsReal == page.theirClaim => match.claimed /\ match.proposed # me

\* A player whose claim is on chain and who stays at the table is paid, or the
\* claim is overturned, though the keeper never acts (the poll, collectNow).
ClaimantPaid ==
  []<>~(page.at = "table" /\ page.settleWatch
        /\ match.status = Proposed /\ match.proposed = me)

\* A page that watches the chain for its money shows the end once the chain
\* has it, unless a reconnection takes the notice back or the player leaves.
ScreenCloses == []<>~(Polling /\ match.status >= Resolved)

\* A player who took the seat is not left at the offer, joining or syncing: the
\* board comes, or the end, or the dead end of nodes that lag for a minute.
JoinerSeated ==
  []<>~(me = 1 /\ match.session1 # NoKey
        /\ page.at \in {"mount", "sync", "offer", "joining"})

\* The page's player keeps the key of the seat, sees the end the chain has, and is asked
\* to dispute only what somebody claimed; only the announced winner is paid.
PageInv ==
  /\ TypeOK
  /\ KeyKept
  /\ EndShown
  /\ OnlyWinnerPaid
  /\ DisputeIsReal

\* The page does not stand still: the claimant is paid, the end is shown, and a player
\* who took the seat gets to the board.
PageMoves ==
  /\ ClaimantPaid
  /\ ScreenCloses
  /\ JoinerSeated
=============================================================================
