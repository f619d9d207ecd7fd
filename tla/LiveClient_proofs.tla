--------------------------- MODULE LiveClient_proofs ---------------------------
(***************************************************************************)
(* The safety of the page of a staked match, for any number of closed      *)
(* tabs, dropped connections, refused transactions and claims by hand.     *)
(*                                                                         *)
(* What makes it inductive is how far a node may lag (Trails): it may show *)
(* a claim the chain has, never one that it has not, and an end only once  *)
(* it is the end.  The page may therefore act on whichever view it reads.  *)
(***************************************************************************)
EXTENDS LiveClient, TLAPS

TxSet == [op : {"join", "cancel", "propose", "challenge", "finalize", "settle"},
          by : Seats \cup {Server}, key : Nat]
Games == [winner : Results \cup {Nobody}, board : BOOLEAN]

\* What the status of a match says about its claim and its money.
Life(m) ==
  /\ m.status >= Open
  /\ m.status < Resolved => m.paid = Nobody
  /\ m.status = Resolved => m.paid \in Results
  /\ m.status > Resolved => m.paid = Back
  /\ m.status = Proposed => m.claimed
  /\ m.status <= Active => ~m.claimed

\* View v of a node on match m.
Trails(v, m) ==
  /\ v.status >= Resolved => v = m
  /\ v.status = Proposed => v.claimed
  /\ v.claimed => m.claimed /\ v.proposed = m.proposed

\* Match m is paid, and claimed, for the winner w.
Rightly(m, w) ==
  /\ m.paid \in {Nobody, Back, w}
  /\ m.status = Proposed => m.proposed = w

\* Somebody has claimed m against seat s.
Against(m, s) == m.claimed /\ m.proposed # s

\* EndShown for page p of seat s and match m.
RightEnd(p, m, s) ==
  p.chainEnded # "none" =>
    /\ m.status >= Resolved
    /\ p.chainEnded = "refunded" <=> m.paid = Back
    /\ m.claimed /\ m.paid = m.proposed
         => p.chainEnded = IF m.paid = s THEN "won" ELSE "lost"

\* Page p of seat s fits match m.
Fits(p, m, s) ==
  /\ p \in Pages
  /\ p.at \in {"offer", "joining"} => s = 1
  /\ p.theirClaim \/ p.catchUp => Against(m, s)
  /\ p.collect # "no" => m.claimed /\ m.proposed = s
  /\ RightEnd(p, m, s)

MailFits(q, m, s) ==
  /\ q \in Seq(Events)
  /\ \A i \in 1 .. Len(q) : q[i] = "transcript" => Against(m, s)

ChainOK ==
  /\ match \in Matches /\ lag \in Matches
  /\ Life(match) /\ Trails(lag, match)
  /\ ~lied => Rightly(match, game.winner)

HubOK ==
  /\ hub \in {"none", "live", "over", "closed"} /\ game \in Games
  /\ hub \in {"none", "live"} => game.winner = Nobody
  /\ hub \in {"over", "closed"} => game.winner \in Results
  /\ signed \subseteq Seats /\ dog \in BOOLEAN

\* A join on its way carries the key the device keeps, a claim the winner, and
\* the server settles what it has closed.
TxOK ==
  /\ tx \subseteq TxSet
  /\ \A t \in tx : t.op = "join" => t.key = key /\ key # NoKey
  /\ \A t \in tx : t.op = "settle" => hub = "closed"
  /\ ~lied => \A t \in tx : t.op = "propose" => t.by = game.winner

DeviceOK ==
  /\ me \in Seats /\ key \in Nat /\ lied \in BOOLEAN
  /\ mishaps \in 0 .. MaxMishaps
  /\ KeyKept

PageOK == Fits(page, match, me)
MailOK == MailFits(mail, match, me)

PInv == ChainOK /\ HubOK /\ TxOK /\ DeviceOK /\ PageOK /\ MailOK

USE DEF Seats, Server, DRAW, Results, Nobody, Back, NoKey, Unseen, Open, Active,
        Proposed, Resolved, Cancelled, Voided

-----------------------------------------------------------------------------
(* Facts about the parts *)

\* A match edited in the ways the contract edits it stays a match.
LEMMA EditType ==
  ASSUME NEW A, NEW B, NEW C, NEW D, NEW E, NEW F, NEW G,
         NEW a \in A, NEW b \in B, NEW c \in C, NEW d \in D, NEW e \in E,
         NEW f \in F, NEW g \in G,
         NEW m \in [status : A, session1 : B, proposed : C, claimed : D, bound : E,
                    closed : F, paid : G]
  PROVE  LET T == [status : A, session1 : B, proposed : C, claimed : D, bound : E,
                   closed : F, paid : G]
         IN /\ [m EXCEPT !.status = a] \in T
            /\ [m EXCEPT !.status = a, !.session1 = b] \in T
            /\ [m EXCEPT !.status = a, !.paid = g] \in T
            /\ [m EXCEPT !.status = a, !.proposed = c, !.claimed = d, !.bound = e] \in T
            /\ [m EXCEPT !.closed = f] \in T
OBVIOUS

LEMMA StatusType ==
  ASSUME NEW m \in Matches, NEW a \in Unseen .. Voided
  PROVE  [m EXCEPT !.status = a] \in Matches
BY EditType DEF Matches

LEMMA JoinType ==
  ASSUME NEW m \in Matches, NEW a \in Unseen .. Voided, NEW b \in Nat
  PROVE  [m EXCEPT !.status = a, !.session1 = b] \in Matches
BY EditType DEF Matches

LEMMA PaidType ==
  ASSUME NEW m \in Matches, NEW a \in Unseen .. Voided, NEW g \in 0 .. Back
  PROVE  [m EXCEPT !.status = a, !.paid = g] \in Matches
BY EditType DEF Matches

LEMMA ClaimType ==
  ASSUME NEW m \in Matches, NEW a \in Unseen .. Voided, NEW c \in Results,
         NEW d \in BOOLEAN, NEW e \in BOOLEAN
  PROVE  [m EXCEPT !.status = a, !.proposed = c, !.claimed = d, !.bound = e] \in Matches
BY EditType DEF Matches

\* The invariant is at least what the run checks.
LEMMA InvIsPageInv == PInv => PageInv
<1> SUFFICES ASSUME PInv PROVE PageInv
  OBVIOUS
<1>1. TypeOK
  BY DEF PInv, ChainOK, HubOK, TxOK, DeviceOK, PageOK, MailOK, Fits, MailFits, TypeOK,
         TxSet, Games
<1>2. KeyKept /\ EndShown /\ DisputeIsReal
  BY DEF PInv, DeviceOK, PageOK, Fits, RightEnd, Against, EndShown, DisputeIsReal
<1>3. OnlyWinnerPaid
  BY DEF PInv, ChainOK, TxOK, Rightly, OnlyWinnerPaid
<1> QED BY <1>1, <1>2, <1>3 DEF PageInv

\* How the contract changes a match: the end is final, a claim stays as made,
\* the seat is taken once, with the key of this device when it is the guest's.
Moves(m, n) ==
  /\ m.status >= Resolved => n = m
  /\ m.claimed => n.claimed /\ n.proposed = m.proposed

Changed ==
  /\ match' \in Matches /\ Life(match') /\ Moves(match, match')
  /\ ~lied => Rightly(match', game.winner)
  /\ me = 1 => match'.session1 \in {match.session1, key}

LEMMA StillMoves == PInv /\ match' = match => Changed
BY DEF PInv, ChainOK, Moves, Changed

LEMMA JoinMoves ==
  ASSUME PInv, NEW k \in Nat, match.status = Open, Join(k), me = 1 => k = key
  PROVE  Changed
<1>1. match \in Matches /\ Life(match) /\ (~lied => Rightly(match, game.winner))
  BY DEF PInv, ChainOK
<1>2. match' \in Matches
  <2>1. Active \in Unseen .. Voided
    OBVIOUS
  <2>2. [match EXCEPT !.status = Active, !.session1 = k] \in Matches
    BY <1>1, <2>1, JoinType, Zenon
  <2> QED BY <2>2 DEF Join
<1>3. /\ match'.status = Active /\ match'.session1 = k /\ match'.paid = match.paid
      /\ match'.claimed = match.claimed /\ match'.proposed = match.proposed
  BY <1>1 DEF Join, Matches
<1> QED BY <1>1, <1>2, <1>3 DEF Changed, Moves, Life, Rightly

LEMMA PayMoves ==
  ASSUME PInv, NEW w \in Results, match.status \in {Active, Proposed}, Pay(w),
         ~lied => w = game.winner
  PROVE  Changed
<1>1. match \in Matches /\ Life(match) /\ (~lied => Rightly(match, game.winner))
  BY DEF PInv, ChainOK
<1>2. match' \in Matches
  <2>1. Resolved \in Unseen .. Voided /\ w \in 0 .. Back
    OBVIOUS
  <2>2. [match EXCEPT !.status = Resolved, !.paid = w] \in Matches
    BY <1>1, <2>1, PaidType, Zenon
  <2> QED BY <2>2 DEF Pay
<1>3. /\ match'.status = Resolved /\ match'.session1 = match.session1
      /\ match'.paid = w
      /\ match'.claimed = match.claimed /\ match'.proposed = match.proposed
  BY <1>1 DEF Pay, Matches
<1> QED BY <1>1, <1>2, <1>3 DEF Changed, Moves, Life, Rightly

LEMMA RefundMoves ==
  ASSUME PInv, NEW s \in {Cancelled, Voided}, match.status < Resolved, Refund(s)
  PROVE  Changed
<1>1. match \in Matches /\ Life(match) /\ (~lied => Rightly(match, game.winner))
  BY DEF PInv, ChainOK
<1>2. match' \in Matches
  <2>1. s \in Unseen .. Voided /\ Back \in 0 .. Back
    OBVIOUS
  <2>2. [match EXCEPT !.status = s, !.paid = Back] \in Matches
    BY <1>1, <2>1, PaidType, Zenon
  <2> QED BY <2>2 DEF Refund
<1>3. /\ match'.status = s /\ match'.session1 = match.session1
      /\ match'.paid = Back
      /\ match'.claimed = match.claimed /\ match'.proposed = match.proposed
  BY <1>1 DEF Refund, Matches
<1> QED BY <1>1, <1>2, <1>3 DEF Changed, Moves, Life, Rightly, Matches

LEMMA ClaimMoves ==
  ASSUME PInv, NEW w \in Results, NEW b \in BOOLEAN, match.status = Active,
         ProposeResult(w, b)
  PROVE  /\ match' \in Matches /\ Life(match') /\ Moves(match, match')
         /\ me = 1 => match'.session1 \in {match.session1, key}
         /\ ~lied /\ w = game.winner => Rightly(match', game.winner)
<1>1. match \in Matches /\ Life(match) /\ (~lied => Rightly(match, game.winner))
  BY DEF PInv, ChainOK
<1>2. match' \in Matches
  <2>1. Proposed \in Unseen .. Voided /\ TRUE \in BOOLEAN
    OBVIOUS
  <2>2. [match EXCEPT !.status = Proposed, !.proposed = w, !.claimed = TRUE, !.bound = b] \in Matches
    BY <1>1, <2>1, ClaimType, Zenon
  <2> QED BY <2>2 DEF ProposeResult
<1>3. /\ match'.status = Proposed /\ match'.session1 = match.session1
      /\ match'.paid = match.paid
      /\ match'.claimed = TRUE /\ match'.proposed = w
  BY <1>1 DEF ProposeResult, Matches
<1> QED BY <1>1, <1>2, <1>3 DEF Moves, Life, Rightly

LEMMA WindowMoves ==
  ASSUME PInv, WindowCloses
  PROVE  Changed
<1>1. match \in Matches /\ Life(match) /\ (~lied => Rightly(match, game.winner))
  BY DEF PInv, ChainOK
<1>2. /\ match' \in Matches /\ match.status = Proposed
      /\ match'.status = match.status /\ match'.session1 = match.session1
      /\ match'.paid = match.paid
      /\ match'.claimed = match.claimed /\ match'.proposed = match.proposed
  BY <1>1 DEF WindowCloses, Matches
<1> QED BY <1>1, <1>2 DEF Changed, Moves, Life, Rightly

LEMMA ChallengeMoves ==
  ASSUME PInv, NEW by, Challenge(by)
  PROVE  Changed
<1>1. HubOK
  BY DEF PInv
<1>2. CASE match' = match
  BY <1>2, StillMoves
<1>3. CASE match.status = Proposed /\ hub \in {"over", "closed"} /\ Pay(game.winner)
  BY <1>1, <1>3, PayMoves DEF HubOK
<1>4. CASE match.status = Proposed /\ Refund(Voided)
  BY <1>4, RefundMoves
<1> QED BY <1>2, <1>3, <1>4 DEF Challenge, Reverts

LEMMA EffectMoves ==
  ASSUME PInv, NEW t \in tx, Effect(t)
  PROVE  Changed
<1>1. t \in TxSet /\ (t.op = "join" => t.key = key) /\ (t.op = "settle" => hub = "closed")
      /\ (~lied /\ t.op = "propose" => t.by = game.winner)
  BY DEF PInv, TxOK
<1>2. match \in Matches /\ (~lied => Rightly(match, game.winner))
  BY DEF PInv, ChainOK
<1>3. CASE t.op = "join" /\ match.status = Open /\ Join(t.key)
  BY <1>1, <1>3, JoinMoves DEF TxSet
<1>4. CASE t.op = "cancel" /\ match.status = Open /\ Refund(Cancelled)
  BY <1>4, RefundMoves
<1>5. CASE t.op = "propose" /\ match.status = Active /\ ProposeResult(t.by, TRUE)
  <2>1. t.by \in Results
    BY <1>1 DEF TxSet
  <2> QED BY <1>1, <1>5, <2>1, ClaimMoves DEF Changed
<1>6. CASE Challenge(t.by)
  BY <1>6, ChallengeMoves
<1>7. CASE match.status = Proposed /\ Pay(match.proposed)
  BY <1>2, <1>7, PayMoves DEF Matches, Rightly
<1>8. CASE t.op = "settle" /\ match.status = Active /\ Pay(game.winner)
  BY <1>1, <1>8, PayMoves DEF PInv, HubOK
<1>9. CASE match' = match
  BY <1>9, StillMoves
<1> QED BY <1>1, <1>3, <1>4, <1>5, <1>6, <1>7, <1>8, <1>9 DEF Effect, Reverts, TxSet

-----------------------------------------------------------------------------
(* What a change of the match leaves true *)

LEMMA LagKept ==
  ASSUME PInv, match' \in Matches, Life(match'), Moves(match, match'),
         \/ Spreads
         \/ lag' = match'
         \/ lag' = lag /\ (match' = match \/ match.status < Resolved)
  PROVE  lag' \in Matches /\ Trails(lag', match')
<1>1. match \in Matches /\ lag \in Matches /\ Life(match) /\ Trails(lag, match)
  BY DEF PInv, ChainOK
<1>2. match.status \in Unseen .. Voided /\ lag.status \in Unseen .. Voided
  BY <1>1 DEF Matches
<1>3. CASE match' = match /\ lag' = lag
  BY <1>1, <1>3
<1>4. CASE match' # match /\ lag' = match
  BY <1>1, <1>2, <1>4 DEF Trails, Life, Moves
<1>5. CASE lag' = lag /\ match.status < Resolved
  BY <1>1, <1>2, <1>5 DEF Trails, Life, Moves
<1>6. CASE lag' = match'
  BY <1>6 DEF Trails, Life
<1> QED BY <1>3, <1>4, <1>5, <1>6 DEF Spreads

LEMMA PageKept ==
  ASSUME NEW p, NEW m, NEW n, NEW s, Fits(p, m, s), Moves(m, n)
  PROVE  Fits(p, n, s)
BY DEF Fits, RightEnd, Against, Moves

LEMMA MailKept ==
  ASSUME NEW q, NEW m, NEW n, NEW s, MailFits(q, m, s), Moves(m, n)
  PROVE  MailFits(q, n, s)
BY DEF MailFits, Against, Moves

LEMMA EndFits ==
  ASSUME PInv, NEW v \in Views, NEW p \in Pages, p.at \notin {"offer", "joining"},
         ~p.theirClaim, ~p.catchUp, p.collect = "no", v.status >= Resolved,
         p.chainEnded = IF v.status > Resolved THEN "refunded"
                        ELSE IF ~v.claimed THEN "ended"
                        ELSE IF v.proposed = me THEN "won" ELSE "lost"
  PROVE  Fits(p, match, me)
<1>1. v = match /\ match \in Matches /\ Life(match)
  BY DEF PInv, ChainOK, Views, Trails
<1> QED BY <1>1 DEF Fits, RightEnd, Life, Matches
-----------------------------------------------------------------------------
(* The three kinds of steps *)

\* A step of the page that sends nothing.
LEMMA PageStep ==
  ASSUME PInv, UNCHANGED <<match, lag, tx, hub, game, signed, dog, me, lied>>,
         Fits(page', match, me), MailFits(mail', match, me),
         key' \in Nat, key # NoKey => key' = key, mishaps' \in 0 .. MaxMishaps
  PROVE  PInv'
<1>1. ChainOK' /\ HubOK'
  BY DEF PInv, ChainOK, HubOK
<1>2. TxOK'
  BY DEF PInv, TxOK
<1>3. DeviceOK'
  BY DEF PInv, DeviceOK, KeyKept
<1>4. PageOK' /\ MailOK'
  BY DEF PageOK, MailOK
<1> QED BY <1>1, <1>2, <1>3, <1>4 DEF PInv

\* A step of the page that sends transaction t.
LEMMA SendStep ==
  ASSUME PInv, UNCHANGED <<match, lag, hub, game, signed, dog, me, lied>>,
         NEW t \in TxSet, tx' = tx \cup {t},
         t.op = "join" => t.key = key' /\ key' # NoKey,
         t.op # "settle", ~lied /\ t.op = "propose" => t.by = game.winner,
         Fits(page', match, me), MailFits(mail', match, me),
         key' \in Nat, key # NoKey => key' = key, mishaps' = mishaps
  PROVE  PInv'
<1>1. ChainOK' /\ HubOK'
  BY DEF PInv, ChainOK, HubOK
<1>2. TxOK'
  BY DEF PInv, TxOK
<1>3. DeviceOK'
  BY DEF PInv, DeviceOK, KeyKept
<1>4. PageOK' /\ MailOK'
  BY DEF PageOK, MailOK
<1> QED BY <1>1, <1>2, <1>3, <1>4 DEF PInv

\* A step of the chain.
LEMMA ChainStep ==
  ASSUME PInv, Changed, UNCHANGED <<hub, game, signed, dog, me, key, lied, mishaps>>,
         tx' \subseteq tx,
         \/ Spreads
         \/ lag' = match'
         \/ lag' = lag /\ (match' = match \/ match.status < Resolved),
         Fits(page', match', me), mail' = mail
  PROVE  PInv'
<1>1. ChainOK'
  <2>1. lag' \in Matches /\ Trails(lag', match')
    BY LagKept DEF Changed
  <2> QED BY <2>1 DEF ChainOK, Changed
<1>2. HubOK' /\ TxOK'
  BY DEF PInv, HubOK, TxOK
<1>3. DeviceOK'
  BY DEF PInv, DeviceOK, KeyKept, Changed
<1>4. PageOK'
  BY DEF PageOK
<1>5. MailOK'
  BY MailKept DEF PInv, MailOK, Changed
<1> QED BY <1>1, <1>2, <1>3, <1>4, <1>5 DEF PInv

-----------------------------------------------------------------------------
(* The page *)

LEMMA ClosedFits == PInv => Fits(Closed, match, me) /\ MailFits(<<>>, match, me)
BY DEF Closed, Fits, Pages, RightEnd, MailFits

\* A page that shows no end, no claim and nothing to collect.
LEMMA FreshFits ==
  ASSUME PInv, NEW p \in Pages, p.at \in {"offer", "joining"} => me = 1,
         ~p.theirClaim, ~p.catchUp, p.collect = "no", p.chainEnded = "none"
  PROVE  Fits(p, match, me)
BY DEF Fits, RightEnd

LEMMA PageFacts ==
  ASSUME PInv
  PROVE  /\ page \in Pages /\ Fits(page, match, me)
         /\ mail \in Seq(Events) /\ MailFits(mail, match, me)
         /\ key \in Nat /\ mishaps \in 0 .. MaxMishaps /\ me \in Seats
         /\ match \in Matches /\ lag \in Matches
         /\ (Mishap => mishaps' \in 0 .. MaxMishaps)
BY LiveClientAssumption DEF PInv, PageOK, MailOK, MailFits, Fits, DeviceOK, ChainOK, Mishap

LEMMA VisitKeeps == PInv /\ Visit => PInv'
<1> SUFFICES ASSUME PInv, Visit PROVE PInv'
  OBVIOUS
<1>1. Fits(page', match, me)
  BY PageFacts DEF Visit, Fits, Pages, RightEnd
<1> QED BY <1>1, PageFacts, PageStep DEF Visit, chainVars, hubVars

LEMMA LeaveKeeps == PInv /\ Leave => PInv'
BY ClosedFits, PageFacts, PageStep DEF Leave, chainVars, hubVars

LEMMA MountKeeps == PInv /\ Mount => PInv'
<1> SUFFICES ASSUME PInv, Mount PROVE PInv'
  OBVIOUS
<1>1. PICK m \in Views :
        page' = IF SeatOf(m)
                THEN IF m.status >= Resolved THEN Greeting(m) ELSE Table(m)
                ELSE IF HaveSession /\ page.at = "mount"
                     THEN [Closed EXCEPT !.at = "sync"] ELSE Visitor(m)
  BY DEF Mount
<1>2. m \in Matches /\ Trails(m, match)
  BY DEF PInv, ChainOK, Views, Trails, Life
<1>3. Fits(page', match, me)
  <2>1. CASE SeatOf(m) /\ m.status >= Resolved
    <3>1. Greeting(m) \in Pages
      BY DEF Greeting, Closed, Pages
    <3>2. Fits(Greeting(m), match, me)
      BY <2>1, <3>1, EndFits DEF Greeting, Closed
    <3> QED BY <1>1, <2>1, <3>2
  <2>2. CASE SeatOf(m) /\ ~(m.status >= Resolved)
    BY <1>1, <1>2, <2>2 DEF Table, Closed, Fits, Pages, RightEnd, Trails, Against
  <2>3. CASE ~SeatOf(m) /\ HaveSession /\ page.at = "mount"
    BY <1>1, <2>3 DEF Closed, Fits, Pages, RightEnd
  <2>4. CASE ~SeatOf(m) /\ ~(HaveSession /\ page.at = "mount")
    <3>1. me \in Seats
      BY PageFacts
    <3> QED BY <1>1, <2>4, <3>1 DEF Visitor, SeatOf, Closed, Fits, Pages, RightEnd
  <2> QED BY <1>1, <2>1, <2>2, <2>3, <2>4
<1> QED BY <1>3, PageFacts, PageStep DEF Mount, chainVars, hubVars

LEMMA JoinThisMatchKeeps == PInv /\ JoinThisMatch => PInv'
<1> SUFFICES ASSUME PInv, JoinThisMatch PROVE PInv'
  OBVIOUS
<1> DEFINE t == [op |-> "join", by |-> me, key |-> JoinKey]
<1>1. JoinKey \in Nat /\ JoinKey # NoKey /\ (key # NoKey => JoinKey = key)
  BY PageFacts DEF JoinKey
<1>2. t \in TxSet
  BY <1>1, PageFacts DEF TxSet
<1>3. tx' = tx \cup {t} /\ t.op = "join" /\ t.key = JoinKey /\ key' = JoinKey
  BY DEF JoinThisMatch, Send
<1>4. Fits(page', match, me)
  BY PageFacts DEF JoinThisMatch, SeatOffered, Fits, Pages, RightEnd
<1> HIDE DEF t
<1> QED BY <1>1, <1>2, <1>3, <1>4, PageFacts, SendStep DEF JoinThisMatch, hubVars

LEMMA JoinRefusedKeeps == PInv /\ JoinRefused => PInv'
<1> SUFFICES ASSUME PInv, JoinRefused PROVE PInv'
  OBVIOUS
<1>1. JoinKey \in Nat /\ (key # NoKey => JoinKey = key)
  BY PageFacts DEF JoinKey
<1>2. Fits(page', match, me)
  BY PageFacts DEF JoinRefused, SeatOffered, AfterFailedJoin, Fits, Pages, RightEnd
<1> QED BY <1>1, <1>2, PageFacts, PageStep DEF JoinRefused, chainVars, hubVars

LEMMA CancelKeeps == PInv /\ CancelOpenMatch => PInv'
<1> SUFFICES ASSUME PInv, CancelOpenMatch PROVE PInv'
  OBVIOUS
<1> DEFINE t == [op |-> "cancel", by |-> me, key |-> NoKey]
<1>1. t \in TxSet /\ t.op = "cancel" /\ tx' = tx \cup {t}
  BY PageFacts DEF TxSet, CancelOpenMatch, Send
<1> HIDE DEF t
<1> QED BY <1>1, ClosedFits, PageFacts, SendStep DEF CancelOpenMatch, hubVars

LEMMA NoticeJoinedKeeps == PInv /\ NoticeJoined => PInv'
<1> SUFFICES ASSUME PInv, NoticeJoined PROVE PInv'
  OBVIOUS
<1>1. Fits(page', match, me)
  BY PageFacts DEF NoticeJoined, Fits, Pages, RightEnd
<1> QED BY <1>1, PageFacts, PageStep DEF NoticeJoined, chainVars, hubVars

-----------------------------------------------------------------------------
(* The socket *)

\* Events that bring no claim can be added to the mail.
LEMMA MailGrows ==
  ASSUME NEW q, NEW m, NEW s, MailFits(q, m, s), NEW e \in Events, e # "transcript"
  PROVE  MailFits(q \o <<e>>, m, s)
BY DEF MailFits, Events

LEMMA StateIsPlain ==
  \A m, s : MailFits(StateNow, m, s) /\ MailFits(StateNow \o <<>>, m, s)
<1> SUFFICES ASSUME NEW m, NEW s
             PROVE  MailFits(StateNow, m, s) /\ MailFits(StateNow \o <<>>, m, s)
  OBVIOUS
<1>1. ASSUME NEW e \in Events \ {"transcript"}
      PROVE  MailFits(<<e>>, m, s) /\ <<e>> \o <<>> = <<e>>
  BY DEF MailFits
<1>2. MailFits(<<>>, m, s) /\ <<>> \o <<>> = <<>>
  BY DEF MailFits
<1>3. StateNow \in {<<>>, <<"playing">>, <<"over">>}
  BY DEF StateNow
<1>4. {"playing", "over"} \subseteq Events \ {"transcript"}
  BY DEF Events
<1>5. CASE StateNow = <<>>
  BY <1>2, <1>5
<1>6. CASE StateNow = <<"playing">>
  BY <1>1, <1>4, <1>6
<1>7. CASE StateNow = <<"over">>
  BY <1>1, <1>4, <1>7
<1> QED BY <1>3, <1>5, <1>6, <1>7

LEMMA ConnectKeeps == PInv /\ Connect => PInv'
<1> SUFFICES ASSUME PInv, Connect PROVE PInv'
  OBVIOUS
<1>1. Fits(page', match, me)
  BY PageFacts DEF Connect, Fits, Pages, RightEnd
<1>2. MailFits(mail', match, me)
  <2>1. CASE page.catchUp /\ hub \in {"live", "over"}
    <3>1. Against(match, me)
      BY <2>1, PageFacts DEF Fits
    <3>2. mail' = StateNow \o <<"transcript">>
      BY <2>1 DEF Connect
    <3> QED BY <3>1, <3>2 DEF StateNow, MailFits, Events
  <2>2. CASE ~(page.catchUp /\ hub \in {"live", "over"})
    <3>1. mail' = StateNow \o <<>>
      BY <2>2 DEF Connect
    <3> QED BY <3>1, StateIsPlain
  <2> QED BY <2>1, <2>2
<1> QED BY <1>1, <1>2, PageFacts, PageStep DEF Connect, chainVars, hubVars

LEMMA WatchAgainKeeps == PInv /\ WatchAgain => PInv'
BY StateIsPlain, PageFacts, PageStep DEF WatchAgain, chainVars, hubVars

LEMMA BlinkKeeps == PInv /\ Blink => PInv'
<1> SUFFICES ASSUME PInv, Blink PROVE PInv'
  OBVIOUS
<1>1. Fits(page', match, me)
  BY PageFacts DEF Blink, Fits, Pages, RightEnd
<1> QED BY <1>1, ClosedFits, PageFacts, PageStep DEF Blink, chainVars, hubVars

LEMMA MailShrinks ==
  ASSUME PInv, mail # <<>>
  PROVE  /\ MailFits(Tail(mail), match, me)
         /\ Head(mail) \in Events
         /\ Head(mail) = "transcript" => Against(match, me)
<1>1. mail \in Seq(Events) /\ Len(mail) \in Nat \ {0} /\ Head(mail) = mail[1]
  BY PageFacts
<1>2. Tail(mail) \in Seq(Events) /\ Len(Tail(mail)) = Len(mail) - 1
  BY <1>1
<1>3. \A i \in 1 .. Len(Tail(mail)) : Tail(mail)[i] = mail[i + 1] /\ i + 1 \in 1 .. Len(mail)
  BY <1>1, <1>2
<1>4. \A i \in 1 .. Len(mail) : mail[i] = "transcript" => Against(match, me)
  BY PageFacts DEF MailFits
<1>5. Head(mail) \in Events /\ (Head(mail) = "transcript" => Against(match, me))
  BY <1>1, <1>4
<1> QED BY <1>2, <1>3, <1>4, <1>5 DEF MailFits

LEMMA HandleKeeps == PInv /\ Handle => PInv'
<1> SUFFICES ASSUME PInv, Handle PROVE PInv'
  OBVIOUS
<1> DEFINE e == Head(mail)
<1>1. e \in Events /\ (e = "transcript" => Against(match, me))
  BY MailShrinks DEF Handle
<1>2. page' = Shown(e)
  BY DEF Handle
<1> HIDE DEF e
<1>3. Fits(page', match, me)
  <2>1. ASSUME e \in {"playing", "over"}
        PROVE  Fits(page', match, me)
    <3>1. page' = [page EXCEPT !.seen = e, !.timedOut = FALSE]
      BY <1>2, <2>1 DEF Shown
    <3>2. /\ page'.at = page.at /\ page'.theirClaim = page.theirClaim
          /\ page'.catchUp = page.catchUp /\ page'.collect = page.collect
          /\ page'.chainEnded = page.chainEnded /\ page' \in Pages
      BY <2>1, <3>1, PageFacts DEF Pages
    <3> QED BY <3>2, PageFacts DEF Fits, RightEnd
  <2>2. ASSUME e = "gameover"
        PROVE  Fits(page', match, me)
    <3>1. page' = [page EXCEPT !.seen = "over", !.timedOut = FALSE, !.signing = TRUE]
      BY <1>2, <2>2 DEF Shown
    <3>2. /\ page'.at = page.at /\ page'.theirClaim = page.theirClaim
          /\ page'.catchUp = page.catchUp /\ page'.collect = page.collect
          /\ page'.chainEnded = page.chainEnded
      BY <3>1, PageFacts DEF Pages
    <3>3. page' \in Pages
      BY <3>1, PageFacts DEF Pages
    <3> QED BY <3>2, <3>3, PageFacts DEF Fits, RightEnd
  <2>3. CASE e = "transcript"
    BY <1>1, <1>2, <2>3, PageFacts DEF Shown, Fits, Pages, RightEnd
  <2>4. CASE e = "claim-eligible"
    BY <1>2, <2>4, PageFacts DEF Shown, Fits, Pages, RightEnd
  <2> QED BY <1>1, <2>1, <2>2, <2>3, <2>4 DEF Events
<1> QED BY <1>3, MailShrinks, PageFacts, PageStep DEF Handle, chainVars, hubVars

LEMMA SelfClaimKeeps == PInv /\ SelfClaim => PInv'
<1> SUFFICES ASSUME PInv, SelfClaim PROVE PInv'
  OBVIOUS
<1>1. MailFits(mail', match, me)
  BY MailShrinks DEF SelfClaim
<1>2. CASE Send("propose", me, NoKey) /\ mishaps' = mishaps
           /\ page' = [page EXCEPT !.settleWatch = TRUE]
  <2> DEFINE t == [op |-> "propose", by |-> me, key |-> NoKey]
  <2>1. t \in TxSet /\ t.op = "propose" /\ tx' = tx \cup {t} /\ t.by = me
    BY <1>2, PageFacts DEF TxSet, Send
  <2>2. me = game.winner
    BY DEF SelfClaim, ClaimsOwn
  <2>3. Fits(page', match, me)
    BY <1>2, PageFacts DEF Fits, Pages, RightEnd
  <2> HIDE DEF t
  <2> QED BY <1>1, <1>2, <2>1, <2>2, <2>3, PageFacts, SendStep DEF SelfClaim, hubVars
<1>3. CASE Mishap /\ UNCHANGED <<tx, page>>
  BY <1>1, <1>3, PageFacts, PageStep DEF SelfClaim, hubVars
<1> QED BY <1>2, <1>3 DEF SelfClaim

-----------------------------------------------------------------------------
(* Claims and payouts *)

LEMMA DisputeKeeps == PInv /\ Dispute => PInv'
<1> SUFFICES ASSUME PInv, Dispute PROVE PInv'
  OBVIOUS
<1> DEFINE t == [op |-> "challenge", by |-> me, key |-> NoKey]
<1>1. t \in TxSet /\ t.op = "challenge" /\ tx' = tx \cup {t}
  BY PageFacts DEF TxSet, Dispute, Send
<1>2. Fits(page', match, me)
  BY PageFacts DEF Dispute, Fits, Pages, RightEnd
<1> HIDE DEF t
<1> QED BY <1>1, <1>2, PageFacts, SendStep DEF Dispute, hubVars

LEMMA PollKeeps == PInv /\ Poll => PInv'
<1> SUFFICES ASSUME PInv, Poll PROVE PInv'
  OBVIOUS
<1> DEFINE ended == [page EXCEPT !.timedOut = FALSE, !.theirClaim = FALSE]
<1>1. PICK m \in Views :
        \/ /\ PotPaid(m)
           /\ page' = [ended EXCEPT !.chainEnded = IF m.proposed = me THEN "won" ELSE "lost",
                                    !.collect = "no"]
        \/ /\ Collectable(m) /\ page.collect = "no"
           /\ page' = [page EXCEPT !.collect = "ready"]
        \/ /\ m.status > Resolved
           /\ page' = [ended EXCEPT !.chainEnded = "refunded"]
  BY DEF Poll
<1>2. m \in Matches /\ Trails(m, match) /\ (m.status >= Resolved => m = match)
      /\ Life(match) /\ match \in Matches
  BY DEF PInv, ChainOK, Views, Trails, Life
<1>3. page \in Pages /\ Fits(page, match, me) /\ page.at = "table"
  BY PageFacts DEF Poll, Polling
<1>4. Fits(page', match, me)
  <2>1. CASE PotPaid(m) /\ page' = [ended EXCEPT
               !.chainEnded = IF m.proposed = me THEN "won" ELSE "lost", !.collect = "no"]
    <3>1. m = match /\ match.status = Resolved /\ match.paid # Back
      BY <1>2, <2>1 DEF PotPaid, Life
    <3> DEFINE end == IF m.proposed = me THEN "won" ELSE "lost"
    <3>2. /\ page' \in Pages /\ page'.at = "table" /\ ~page'.theirClaim
          /\ page'.catchUp = page.catchUp /\ page'.collect = "no" /\ page'.chainEnded = end
      BY <1>3, <2>1 DEF Pages
    <3> QED BY <1>2, <1>3, <3>1, <3>2 DEF Fits, RightEnd
  <2>2. CASE Collectable(m) /\ page' = [page EXCEPT !.collect = "ready"]
    <3>1. match.claimed /\ match.proposed = me
      BY <1>2, <2>2 DEF Collectable, Trails
    <3> QED BY <1>3, <2>2, <3>1 DEF Fits, Pages, RightEnd
  <2>3. CASE m.status > Resolved /\ page' = [ended EXCEPT !.chainEnded = "refunded"]
    <3>1. match.status > Resolved /\ match.paid = Back
      BY <1>2, <2>3 DEF Life, Matches
    <3>2. /\ page' \in Pages /\ page'.at = "table" /\ ~page'.theirClaim
          /\ page'.catchUp = page.catchUp /\ page'.collect = page.collect
          /\ page'.chainEnded = "refunded"
      BY <1>3, <2>3 DEF Pages
    <3>3. match.claimed => match.proposed \in Results
      BY <1>2 DEF Matches
    <3> QED BY <1>2, <1>3, <3>1, <3>2, <3>3 DEF Fits, RightEnd, Matches
  <2> QED BY <1>1, <2>1, <2>2, <2>3
<1> QED BY <1>4, PageFacts, PageStep DEF Poll, chainVars, hubVars

LEMMA CollectNowKeeps == PInv /\ CollectNow => PInv'
<1> SUFFICES ASSUME PInv, CollectNow PROVE PInv'
  OBVIOUS
<1> DEFINE t == [op |-> "finalize", by |-> me, key |-> NoKey]
<1>1. t \in TxSet /\ t.op = "finalize" /\ tx' = tx \cup {t}
  BY PageFacts DEF TxSet, CollectNow, Send
<1>2. Fits(page', match, me)
  BY PageFacts DEF CollectNow, CollectShown, Fits, Pages, RightEnd
<1> HIDE DEF t
<1> QED BY <1>1, <1>2, PageFacts, SendStep DEF CollectNow, hubVars
-----------------------------------------------------------------------------
(* The server *)

LEMMA SubmitKeeps ==
  ASSUME PInv, NEW p \in Seats, Submit(p),
         UNCHANGED <<match, lag, game, dog, me, mail, key, lied, mishaps>>,
         Fits(page', match, me)
  PROVE  PInv'
<1>1. ChainOK' /\ DeviceOK' /\ PageOK' /\ MailOK'
  BY DEF PInv, ChainOK, DeviceOK, KeyKept, PageOK, MailOK
<1>2. CASE hub' = "closed" /\ hub = "over" /\ Send("settle", Server, NoKey)
  <2> DEFINE t == [op |-> "settle", by |-> Server, key |-> NoKey]
  <2>1. t \in TxSet /\ t.op = "settle" /\ tx' = tx \cup {t}
    BY <1>2 DEF TxSet, Send
  <2> HIDE DEF t
  <2>2. TxOK'
    BY <1>2, <2>1 DEF PInv, TxOK
  <2>3. HubOK'
    BY <1>2 DEF PInv, HubOK, Submit
  <2> QED BY <1>1, <2>2, <2>3 DEF PInv
<1>3. CASE UNCHANGED <<hub, tx>>
  BY <1>1, <1>3 DEF PInv, HubOK, TxOK, Submit
<1> QED BY <1>2, <1>3 DEF Submit

LEMMA SendResultKeeps == PInv /\ SendResult => PInv'
<1> SUFFICES ASSUME PInv, SendResult PROVE PInv'
  OBVIOUS
<1>1. Fits(page', match, me)
  BY PageFacts DEF SendResult, Fits, Pages, RightEnd
<1> QED BY <1>1, PageFacts, SubmitKeeps DEF SendResult

LEMMA HubOpensKeeps == PInv /\ HubOpens => PInv'
<1> SUFFICES ASSUME PInv, HubOpens PROVE PInv'
  OBVIOUS
<1>1. ChainOK' /\ DeviceOK' /\ PageOK' /\ MailOK'
  BY DEF PInv, HubOpens, chainVars, ChainOK, DeviceOK, KeyKept, PageOK, MailOK
<1>2. HubOK' /\ TxOK'
  BY DEF PInv, HubOpens, chainVars, HubOK, TxOK
<1> QED BY <1>1, <1>2 DEF PInv

LEMMA BroadcastFits ==
  ASSUME PInv, NEW e \in Events, e # "transcript", Broadcast(<<e>>)
  PROVE  MailFits(mail', match, me)
BY MailGrows, PageFacts DEF Broadcast

\* Before a game has ended nothing is claimed or paid for anybody, so any
\* winner it may have is the winner of every claim.
LEMMA GameEndsKeeps == PInv /\ GameEnds => PInv'
<1> SUFFICES ASSUME PInv, GameEnds PROVE PInv'
  OBVIOUS
<1>1. MailOK'
  <2>1. MailFits(mail', match, me)
    BY BroadcastFits DEF GameEnds, Events
  <2> QED BY <2>1 DEF MailOK, GameEnds, chainVars
<1>2. DeviceOK' /\ PageOK'
  BY DEF PInv, GameEnds, chainVars, DeviceOK, KeyKept, PageOK
<1>3. game.winner = Nobody
  BY DEF PInv, HubOK, GameEnds
<1>4. ChainOK'
  <2>1. ~lied => match.paid \in {Nobody, Back} /\ match.status # Proposed
    BY <1>3 DEF PInv, ChainOK, Rightly, Matches
  <2> QED BY <2>1 DEF PInv, ChainOK, Rightly, GameEnds, chainVars
<1>5. HubOK'
  BY DEF PInv, HubOK, GameEnds, Games
<1>6. TxOK'
  <2>1. ~lied => \A t \in tx : t.op # "propose"
    BY <1>3 DEF PInv, TxOK, TxSet
  <2> QED BY <2>1 DEF PInv, TxOK, GameEnds, chainVars
<1> QED BY <1>1, <1>2, <1>4, <1>5, <1>6 DEF PInv

LEMMA WatchdogKeeps == PInv /\ Watchdog => PInv'
<1> SUFFICES ASSUME PInv, Watchdog PROVE PInv'
  OBVIOUS
<1>1. MailOK'
  <2>1. MailFits(mail', match, me)
    BY BroadcastFits, PageFacts DEF Watchdog, Events
  <2> QED BY <2>1 DEF MailOK, Watchdog, chainVars
<1>2. ChainOK' /\ DeviceOK' /\ PageOK' /\ TxOK'
  BY DEF PInv, Watchdog, chainVars, ChainOK, DeviceOK, KeyKept, PageOK, TxOK
<1>3. HubOK'
  BY DEF PInv, HubOK, Watchdog
<1> QED BY <1>1, <1>2, <1>3 DEF PInv

-----------------------------------------------------------------------------
(* The chain *)

\* A step of the chain the page does not hear of.
LEMMA UnheardStep ==
  ASSUME PInv, Changed,
         UNCHANGED <<hub, game, signed, dog, me, page, mail, key, lied, mishaps>>,
         tx' \subseteq tx,
         \/ Spreads
         \/ lag' = match'
         \/ lag' = lag /\ (match' = match \/ match.status < Resolved)
  PROVE  PInv'
<1>1. Fits(page', match', me)
  BY PageFacts, PageKept DEF Changed
<1> QED BY <1>1, ChainStep

LEMMA ServerActsKeeps == PInv /\ ServerActs => PInv'
<1> SUFFICES ASSUME PInv, ServerActs PROVE PInv'
  OBVIOUS
<1>1. Changed
  <2>1. CASE Challenge(Server)
    BY <2>1, ChallengeMoves
  <2>2. CASE Pay(match.proposed)
    <3>1. match.proposed \in Results /\ (~lied => match.proposed = game.winner)
      BY DEF PInv, ChainOK, Matches, Rightly, ServerActs
    <3> QED BY <2>2, <3>1, PayMoves DEF ServerActs
  <2> QED BY <2>1, <2>2 DEF ServerActs
<1> QED BY <1>1, UnheardStep DEF ServerActs, hubVars

LEMMA WindowClosesKeeps == PInv /\ WindowCloses => PInv'
<1> SUFFICES ASSUME PInv, WindowCloses PROVE PInv'
  OBVIOUS
<1>1. Changed
  BY WindowMoves
<1> QED BY <1>1, UnheardStep DEF WindowCloses, hubVars

LEMMA ExpireKeeps == PInv /\ Expire => PInv'
<1> SUFFICES ASSUME PInv, Expire PROVE PInv'
  OBVIOUS
<1>1. Changed
  BY RefundMoves DEF Expire
<1> QED BY <1>1, UnheardStep DEF Expire, hubVars

LEMMA NodeCatchesUpKeeps == PInv /\ NodeCatchesUp => PInv'
<1> SUFFICES ASSUME PInv, NodeCatchesUp PROVE PInv'
  OBVIOUS
<1>1. Changed /\ lag' = match'
  BY StillMoves DEF NodeCatchesUp
<1> QED BY <1>1, UnheardStep DEF NodeCatchesUp, hubVars

\* The page that awaits its transaction hears what became of it.
LEMMA MineKeeps == PInv /\ Mine => PInv'
<1> SUFFICES ASSUME PInv, Mine PROVE PInv'
  OBVIOUS
<1>1. PICK t \in tx :
        /\ Effect(t) /\ Spreads /\ tx' = tx \ {t}
        /\ \/ /\ Awaited(t) /\ match' # match
              /\ page' = IF t.op = "join" THEN [page EXCEPT !.at = "mount"]
                         ELSE [page EXCEPT !.collect = "no", !.chainEnded = "won"]
           \/ /\ Awaited(t) /\ match' = match /\ t.op = "join"
              /\ \E m \in Views : page' = [page EXCEPT !.at = AfterFailedJoin(m)]
           \/ /\ Awaited(t) /\ match' = match /\ t.op = "finalize"
              /\ page' = [page EXCEPT !.collect = "ready"]
           \/ ~Awaited(t) /\ UNCHANGED page
        /\ UNCHANGED <<hubVars, me, mail, key, lied, mishaps>>
  BY DEF Mine
<1>2. Changed
  BY <1>1, EffectMoves
<1>3. Fits(page, match', me) /\ page \in Pages /\ match' \in Matches
  BY <1>2, PageFacts, PageKept DEF Changed
<1>4. Fits(page', match', me)
  <2>1. ASSUME Awaited(t), t.op = "join",
               \/ page' = [page EXCEPT !.at = "mount"]
               \/ page' = [page EXCEPT !.at = "offer"]
        PROVE  Fits(page', match', me)
    <3>1. me = 1
      BY <1>3, <2>1 DEF Awaited, Fits
    <3>2. page' \in Pages /\ UNCHANGED <<page.theirClaim, page.catchUp, page.collect,
                                         page.chainEnded>>
      BY <1>3, <2>1 DEF Pages
    <3> QED BY <1>3, <3>1, <3>2 DEF Fits, RightEnd
  <2>2. ASSUME Awaited(t), t.op # "join", match' # match,
               page' = [page EXCEPT !.collect = "no", !.chainEnded = "won"]
        PROVE  Fits(page', match', me)
    <3>1. t.op = "finalize" /\ page.collect = "sent"
      BY <2>2 DEF Awaited
    <3>2. Pay(match.proposed)
      BY <1>1, <2>2, <3>1 DEF Effect, Reverts
    <3>3. match.claimed /\ match.proposed = me /\ me \in Seats
      BY <3>1, PageFacts DEF Fits
    <3>4. /\ match'.status = Resolved /\ match'.paid = me
          /\ match'.claimed /\ match'.proposed = me
      BY <3>2, <3>3, PageFacts DEF Pay, Matches
    <3>5. /\ page' \in Pages /\ page'.collect = "no" /\ page'.chainEnded = "won"
          /\ UNCHANGED <<page.at, page.theirClaim, page.catchUp>>
      BY <1>3, <2>2 DEF Pages
    <3> QED BY <1>3, <3>3, <3>4, <3>5 DEF Fits, RightEnd
  <2>3. ASSUME Awaited(t), t.op = "finalize", page' = [page EXCEPT !.collect = "ready"]
        PROVE  Fits(page', match', me)
    <3>1. page.collect = "sent"
      BY <2>3 DEF Awaited
    <3> QED BY <1>3, <2>3, <3>1 DEF Fits, Pages, RightEnd
  <2>4. CASE UNCHANGED page
    BY <1>3, <2>4
  <2> QED BY <1>1, <2>1, <2>2, <2>3, <2>4 DEF AfterFailedJoin
<1> QED BY <1>1, <1>2, <1>4, ChainStep DEF hubVars

-----------------------------------------------------------------------------
(* The other player *)

LEMMA OtherPlayerKeeps == PInv /\ OtherPlayer => PInv'
<1> SUFFICES ASSUME PInv, OtherPlayer PROVE PInv'
  OBVIOUS
<1>1. me \in Seats /\ Other \in Seats
  BY PageFacts DEF Other
<1>2. CASE Submit(Other) /\ UNCHANGED match
  <2>1. lag' = lag
    BY <1>2 DEF OtherPlayer, Spreads
  <2> QED BY <1>1, <1>2, <2>1, PageFacts, SubmitKeeps DEF OtherPlayer
<1>3. CASE Changed /\ UNCHANGED <<hub, signed, tx>>
  BY <1>3, UnheardStep DEF OtherPlayer
<1>4. CASE match.status = Open /\ (IF me = 0 THEN Join(2) ELSE Refund(Cancelled))
           /\ UNCHANGED <<hub, signed, tx>>
  <2>1. Changed
    BY <1>1, <1>4, JoinMoves, RefundMoves
  <2> QED BY <1>3, <1>4, <2>1
<1>5. CASE game.winner = Other /\ match.status = Active /\ ProposeResult(Other, TRUE)
           /\ UNCHANGED <<hub, signed, tx>>
  <2>1. Other \in Results
    BY <1>1
  <2>2. Changed
    BY <1>5, <2>1, ClaimMoves DEF Changed
  <2> QED BY <1>3, <1>5, <2>2
<1>6. CASE Challenge(Other) /\ UNCHANGED <<hub, signed, tx>>
  BY <1>3, <1>6, ChallengeMoves
<1> QED BY <1>2, <1>4, <1>5, <1>6 DEF OtherPlayer

LEMMA FalseClaimKeeps == PInv /\ FalseClaim => PInv'
<1> SUFFICES ASSUME PInv, FalseClaim PROVE PInv'
  OBVIOUS
<1>1. PICK w \in Seats, b \in BOOLEAN : ProposeResult(w, b)
  BY DEF FalseClaim
<1>2. w \in Results
  OBVIOUS
<1>3. /\ match' \in Matches /\ Life(match') /\ Moves(match, match')
      /\ me = 1 => match'.session1 \in {match.session1, key}
  BY <1>1, <1>2, ClaimMoves DEF FalseClaim
<1>4. ChainOK'
  <2>1. lag' \in Matches /\ Trails(lag', match')
    BY <1>3, LagKept DEF FalseClaim
  <2> QED BY <1>3, <2>1 DEF ChainOK, FalseClaim
<1>5. HubOK' /\ TxOK'
  BY DEF PInv, HubOK, TxOK, FalseClaim, hubVars
<1>6. DeviceOK'
  BY <1>3, PageFacts DEF PInv, DeviceOK, KeyKept, FalseClaim
<1>7. PageOK' /\ MailOK'
  BY <1>3, PageKept, MailKept DEF PInv, PageOK, MailOK, FalseClaim
<1> QED BY <1>4, <1>5, <1>6, <1>7 DEF PInv

-----------------------------------------------------------------------------
(* Results *)

LEMMA InitPInv == Init => PInv
<1> SUFFICES ASSUME Init PROVE PInv
  OBVIOUS
<1>1. match = Created /\ (lag = Created \/ lag = [Created EXCEPT !.status = Unseen])
  BY DEF Init
<1>2. Created \in Matches
  <2>1. /\ Open \in Unseen .. Voided /\ NoKey \in Nat /\ 0 \in Results
        /\ Nobody \in 0 .. Back /\ TRUE \in BOOLEAN /\ FALSE \in BOOLEAN
    OBVIOUS
  <2> QED BY <2>1, Zenon DEF Created, Matches
<1>3. ChainOK
  <2> DEFINE v == [Created EXCEPT !.status = Unseen]
  <2>1. v \in Matches
    <3>1. Unseen \in Unseen .. Voided
      OBVIOUS
    <3> QED BY <1>2, <3>1, StatusType, Zenon
  <2>2. v.status = Unseen /\ ~v.claimed
    BY DEF Created
  <2>3. Trails(v, Created) /\ Trails(Created, Created)
    BY <2>2 DEF Trails, Created
  <2>4. Life(Created) /\ Rightly(Created, Nobody)
    BY DEF Life, Rightly, Created
  <2> HIDE DEF v
  <2>5. lag \in {Created, v} /\ game.winner = Nobody
    BY <1>1 DEF Init, v
  <2> QED BY <1>1, <1>2, <2>1, <2>3, <2>4, <2>5 DEF ChainOK
<1>4. HubOK /\ TxOK
  BY DEF Init, HubOK, TxOK, Games
<1>5. DeviceOK
  <2>1. match.session1 = NoKey
    BY <1>1 DEF Created
  <2>2. me \in Seats /\ key \in Nat /\ lied = FALSE /\ mishaps = 0
    BY DEF Init
  <2>3. mishaps \in 0 .. MaxMishaps
    BY <2>2, LiveClientAssumption
  <2>4. KeyKept
    BY <2>1 DEF KeyKept
  <2>5. lied \in BOOLEAN
    BY <2>2
  <2> QED BY <2>2, <2>3, <2>4, <2>5 DEF DeviceOK
<1>6. PageOK /\ MailOK
  BY DEF Init, PageOK, MailOK, MailFits, Closed, Fits, Pages, RightEnd
<1> QED BY <1>3, <1>4, <1>5, <1>6 DEF PInv

LEMMA StepPInv == PInv /\ [Next]_vars => PInv'
<1> SUFFICES ASSUME PInv, [Next]_vars PROVE PInv'
  OBVIOUS
<1>1. CASE UNCHANGED vars
  BY <1>1 DEF vars, PInv, ChainOK, HubOK, TxOK, DeviceOK, KeyKept, PageOK, MailOK
<1>2. CASE Next
  BY <1>2, VisitKeeps, LeaveKeeps, MountKeeps, JoinThisMatchKeeps, JoinRefusedKeeps,
     CancelKeeps, NoticeJoinedKeeps, ConnectKeeps, WatchAgainKeeps, BlinkKeeps,
     HandleKeeps, SelfClaimKeeps, DisputeKeeps, PollKeeps, CollectNowKeeps,
     SendResultKeeps, HubOpensKeeps, GameEndsKeeps, WatchdogKeeps, ServerActsKeeps,
     MineKeeps, WindowClosesKeeps, ExpireKeeps, NodeCatchesUpKeeps, OtherPlayerKeeps,
     FalseClaimKeeps DEF Next
<1> QED BY <1>1, <1>2

\* Whatever a lagging node shows, however often tabs close and calls are refused, the
\* device keeps the key of its seat, the screen ends as the chain did, a dispute is
\* offered only of a claim somebody made, and without a claim by hand only the
\* announced winner is paid (LiveMatch.tsx mount flow, poll, selfClaim, collectNow).
THEOREM PageIsTrue == Spec => []PageInv
<1>1. PInv /\ [Next]_vars => PInv'
  BY StepPInv
<1>2. PInv => PageInv
  BY InvIsPageInv
<1> QED BY <1>1, <1>2, InitPInv, PTL DEF Spec
=============================================================================
