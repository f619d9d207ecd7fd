------------------------------ MODULE CashPairing ------------------------------
(***************************************************************************)
(* Staked quick-match: two apps that each tap "find" once (MatchActions,   *)
(* findOpponent), the game server that pairs them and choreographs create, *)
(* then join (server.ts, matchmaking.ts, pairing-core.ts), the stakes that *)
(* land on chain, and the store that lets a restart abort what was half    *)
(* built (cash-pair-store.ts).                                             *)
(*                                                                         *)
(* A connection is a socket id: it is never reused, and an app that        *)
(* reconnects gets a new one and asks for an opponent again.  What the     *)
(* server sends to a connection arrives in order or not at all; what an    *)
(* app sends is handled as it is sent, or lost when the app is offline.    *)
(* A chain match is reduced to what the choreography can see.              *)
(***************************************************************************)
EXTENDS Integers, SequencesExt, FiniteSetsExt

CONSTANTS
  Players,      \* wallet addresses, one app each
  Ask,          \* the stake each player asks for, by search
  Elo,          \* the profile's rating of each player
  BaseWindow, Growth, Backstop, MaxGap,   \* pairing options of the cash pools
  MaxWait,      \* bound: waiting longer changes nothing
  MaxConns,     \* bound: connections ever opened
  MaxDrops,     \* bound: connections lost without a close
  MaxUnseen,    \* bound: receipts that stay out of sight of their app
  MaxRestarts   \* bound: restarts of the server

ASSUME PairingAssumption ==
  /\ Ask \in [Players -> Seq(Nat \ {0})] /\ Elo \in [Players -> Nat]
  /\ {BaseWindow, Growth, Backstop, MaxGap, MaxWait, MaxConns, MaxDrops, MaxUnseen, MaxRestarts} \subseteq Nat

Conns == 1 .. MaxConns
NoConn == 0
NoMatch == 0

VARIABLES
  app,       \* the money panel of each player
  socks,     \* the connections, in the order they were opened: whose, for what stake
  inbox,     \* what the server sent and the app has not read, by connection
  online,    \* connections the server holds
  asking,    \* cash-queue requests that await the profile's rating
  waiting,   \* the cash pools, with what cashMeta knows of each waiter
  pairs,     \* cashPairs, by the creator's connection
  store,     \* cashPairStore, by the creator's address
  owed,      \* pendingCashAbort
  recovering,  \* stored pairs the boot recovery still has to report
  matches,   \* the matches on chain, in the order they were created
  txs,       \* transactions sent and not yet mined
  events,    \* MatchCreated and MatchJoined the watchers have not delivered
  keys,      \* session keys made so far for a match, by player: the app
             \* keeps only the last one
  faults     \* history: counts for the bounds; the players a blink, a reused
             \* store record or a second restart led astray; how often each match
             \* was announced, and which to a pair it was not made for

appvars == <<app, keys>>
netvars == <<socks, inbox, online>>
queuevars == <<asking, waiting>>
pairvars == <<pairs, store, owed, recovering>>
chainvars == <<matches, txs, events>>
vars == <<appvars, netvars, queuevars, pairvars, chainvars, faults>>

Closed == [open |-> FALSE, conn |-> NoConn, search |-> 0, phase |-> "idle",
           created |-> NoMatch]
MatchIds == 0 .. Len(matches)
Owner(c) == socks[c].by

TypeOK ==
  /\ app \in [Players -> [open : BOOLEAN, conn : {NoConn} \cup Conns,
                          search : Nat, created : MatchIds,
                          phase : {"idle", "searching", "pairing", "committed", "playing"}]]
  /\ Len(socks) <= MaxConns /\ \A c \in DOMAIN socks : Owner(c) \in Players
  /\ online \subseteq DOMAIN socks /\ asking \subseteq DOMAIN socks
  /\ \A w \in waiting : w.conn \in DOMAIN socks /\ w.waited \in 0 .. MaxWait
  /\ \A c \in DOMAIN pairs : {c, pairs[c].joinerConn} \subseteq DOMAIN socks
                             /\ pairs[c].match \in MatchIds
  /\ DOMAIN store \subseteq Players /\ owed \subseteq Players
  /\ \A m \in DOMAIN matches : matches[m].status \in {"Open", "Active", "Cancelled"}

Init ==
  /\ app = [p \in Players |-> Closed]
  /\ socks = <<>> /\ inbox = [c \in Conns |-> <<>>] /\ online = {}
  /\ asking = {} /\ waiting = {}
  /\ pairs = <<>> /\ store = <<>> /\ owed = {} /\ recovering = <<>>
  /\ matches = <<>> /\ txs = {} /\ events = {}
  /\ keys = [p \in Players |-> <<>>]
  /\ faults = [drops |-> 0, restarts |-> 0, astray |-> {}, stray |-> {}, unseen |-> 0, told |-> <<>>]

-----------------------------------------------------------------------------
(* Sending.  A message to a connection that is gone is never read.         *)

Send(box, c, msg) == IF c \in online /\ app[Owner(c)].conn = c
                     THEN [box EXCEPT ![c] = Append(@, msg)] ELSE box

Without(f, k) == [x \in DOMAIN f \ {k} |-> f[x]]
With(f, k, v) == [x \in DOMAIN f \cup {k} |-> IF x = k THEN v ELSE f[x]]

\* The stake a pairing settles at.
ResolveStake(x, y) == IF x < y THEN x ELSE y

Gap(x, y) == IF Elo[x] > Elo[y] THEN Elo[x] - Elo[y] ELSE Elo[y] - Elo[x]
Window(w) == BaseWindow + Growth * w.waited

\* Slip: only the narrow window counts, however long one has waited.
AcceptsInWindow(v, w) ==
  LET gap == Gap(Owner(v.conn), Owner(w.conn)) IN
  Owner(v.conn) # Owner(w.conn) /\ gap <= MaxGap /\ gap <= Window(v) /\ gap <= Window(w)

\* The pairing rule, strict: both windows must cover the gap, the backstop
\* overrides the windows and nothing the ceiling.
Accepts(v, w) ==
  LET gap == Gap(Owner(v.conn), Owner(w.conn)) IN
  /\ Owner(v.conn) # Owner(w.conn)
  /\ gap <= MaxGap
  /\ \/ Backstop > 0 /\ (v.waited >= Backstop \/ w.waited >= Backstop)
     \/ gap <= Window(v) /\ gap <= Window(w)

\* The closest acceptable waiters for a newcomer.
BestMatches(v) ==
  LET near == {w \in waiting : Accepts(v, w)} IN
  {w \in near : \A x \in near : Gap(Owner(v.conn), Owner(w.conn))
                                  <= Gap(Owner(v.conn), Owner(x.conn))}

\* The pairs the sweep may make first: the closest ratings, the one who waited
\* longer as creator.
ClosestPairs ==
  LET near == {vw \in waiting \X waiting : Accepts(vw[1], vw[2])}
      GapOf(vw) == Gap(Owner(vw[1].conn), Owner(vw[2].conn)) IN
  {vw \in near : vw[1].waited >= vw[2].waited /\ \A xy \in near : GapOf(vw) <= GapOf(xy)}

-----------------------------------------------------------------------------
(* The pair: made, and undone.                                             *)

\* A pair is stored under its creator's address when it is made and when its
\* match is known.
Stored(pair) == With(store, pair.creator, [joiner |-> pair.joiner, match |-> pair.match])

StartCashPairing(a, b) ==
  LET stake == ResolveStake(socks[a].stake, socks[b].stake)
      pair == [joinerConn |-> b, creator |-> Owner(a), joiner |-> Owner(b),
               stake |-> stake, match |-> NoMatch] IN
  /\ pairs' = With(pairs, a, pair)
  /\ store' = Stored(pair)
  /\ inbox' = Send(Send(inbox, a, [t |-> "matched", role |-> "create", stake |-> stake]),
                   b, [t |-> "matched", role |-> "join", stake |-> stake])
  /\ faults' = IF Owner(a) \in DOMAIN store
               THEN [faults EXCEPT !.astray = @ \cup {Owner(a)}] ELSE faults
  /\ UNCHANGED <<owed, recovering>>

AbortCashPair(c) ==
  /\ pairs' = Without(pairs, c)
  /\ store' = Without(store, pairs[c].creator)
  /\ inbox' = Send(Send(inbox, c, [t |-> "abort"]), pairs[c].joinerConn, [t |-> "abort"])
  /\ UNCHANGED <<owed, recovering>>

\* The pairs a connection belongs to.
PairsOf(c) == {k \in DOMAIN pairs : k = c \/ pairs[k].joinerConn = c}

\* A walk-away or a failure of either side aborts the pair, if there is one.
AbortPairOf(c) ==
  IF PairsOf(c) = {} THEN UNCHANGED <<pairvars, inbox>>
  ELSE \E k \in PairsOf(c) : AbortCashPair(k)

\* Setup took too long: the timer of a pair.
SetupTimeout(c) ==
  /\ c \in DOMAIN pairs
  /\ AbortCashPair(c)
  /\ UNCHANGED <<appvars, socks, online, queuevars, chainvars, faults>>

-----------------------------------------------------------------------------
(* The queue.                                                              *)

\* An app asks for an opponent.  A player who is owed the news of an aborted
\* pair gets that and does not queue.
CashQueue(p, c) ==
  /\ IF p \in owed
     THEN owed' = owed \ {p} /\ inbox' = [inbox EXCEPT ![c] = <<[t |-> "abort"]>>]
          /\ UNCHANGED asking
     ELSE asking' = asking \cup {c} /\ UNCHANGED <<owed, inbox>>
  /\ faults' = IF p \in UNION {{q, recovering[q].joiner} : q \in DOMAIN recovering}
               THEN [faults EXCEPT !.astray = @ \cup {p}] ELSE faults
  /\ UNCHANGED <<waiting, pairs, store, recovering, chainvars>>

\* The player taps the button; an app that is still searching connects again.
Search(p) ==
  /\ ~app[p].open /\ app[p].phase = "idle" /\ app[p].search < Len(Ask[p])
  /\ app' = [app EXCEPT ![p] = [open |-> TRUE, conn |-> Len(socks) + 1,
               search |-> @.search + 1, phase |-> "searching", created |-> NoMatch]]

Reconnect(p) == app[p].open /\ app' = [app EXCEPT ![p].conn = Len(socks) + 1]

\* Either way the first thing a new connection says is cash-queue.
Connect(p) ==
  LET c == Len(socks) + 1 IN
  /\ c <= MaxConns /\ app[p].conn = NoConn
  /\ Search(p) \/ Reconnect(p)
  /\ socks' = Append(socks, [by |-> p, stake |-> Ask[p][app'[p].search]])
  /\ online' = online \cup {c}
  /\ CashQueue(p, c)
  /\ UNCHANGED keys

\* The rating is back: the request joins the pool, wherever its socket is now.
Enqueue(c) ==
  LET w == [conn |-> c, waited |-> 0] IN
  /\ c \in asking
  /\ asking' = asking \ {c}
  /\ IF BestMatches(w) = {}
     THEN waiting' = waiting \cup {w} /\ UNCHANGED <<pairvars, inbox, faults>>
     ELSE \E b \in BestMatches(w) : waiting' = waiting \ {b} /\ StartCashPairing(c, b.conn)
  /\ UNCHANGED <<appvars, socks, online, chainvars>>

\* One step makes one pair of a sweep.
Sweep ==
  \E vw \in ClosestPairs :
    /\ waiting' = waiting \ {vw[1], vw[2]}
    /\ StartCashPairing(vw[1].conn, vw[2].conn)
    /\ UNCHANGED <<appvars, socks, online, asking, chainvars>>

Tick ==
  /\ \E w \in waiting : w.waited < MaxWait
  /\ waiting' = {[w EXCEPT !.waited = IF @ < MaxWait THEN @ + 1 ELSE @] : w \in waiting}
  /\ UNCHANGED <<appvars, netvars, asking, pairvars, chainvars, faults>>

RemoveFromCash(c) == waiting' = {w \in waiting : w.conn # c}

\* The server learns that a connection is gone.
Disconnect(c) ==
  /\ c \in online /\ app[Owner(c)].conn # c
  /\ online' = online \ {c}
  /\ RemoveFromCash(c)
  /\ AbortPairOf(c)
  /\ UNCHANGED <<appvars, socks, asking, chainvars, faults>>

\* A restart forgets all but the store, the news that was owed too; what was
\* sent is still delivered.
Restart ==
  /\ faults.restarts < MaxRestarts
  /\ faults' = [faults EXCEPT !.restarts = @ + 1, !.astray = @ \cup owed]
  /\ online' = {} /\ asking' = {} /\ waiting' = {} /\ pairs' = <<>> /\ owed' = {}
  /\ recovering' = store
  /\ UNCHANGED <<appvars, socks, inbox, store, chainvars>>

\* Slip: only the joiner is told after a restart.
RecoverJoinerOnly(p) ==
  /\ p \in DOMAIN recovering
  /\ owed' = owed \cup {recovering[p].joiner}
  /\ recovering' = Without(recovering, p)
  /\ store' = Without(store, p)
  /\ UNCHANGED <<appvars, netvars, queuevars, pairs, chainvars, faults>>

\* The boot recovery tells both sides when they next queue.
Recover(p) ==
  /\ p \in DOMAIN recovering
  /\ owed' = owed \cup {p, recovering[p].joiner}
  /\ recovering' = Without(recovering, p)
  /\ store' = Without(store, p)
  /\ UNCHANGED <<appvars, netvars, queuevars, pairs, chainvars, faults>>

-----------------------------------------------------------------------------
(* What an app sends.                                                      *)

\* The server hears of the creator's match, from the app or from the chain,
\* and sends the joiner to it with the stake it is told.
AnnounceMatch(c, m, stake) ==
  /\ pairs' = [pairs EXCEPT ![c].match = m]
  /\ store' = Stored([pairs[c] EXCEPT !.match = m])
  /\ inbox' = Send(inbox, pairs[c].joinerConn, [t |-> "join", match |-> m, stake |-> stake])
  /\ faults' = [faults EXCEPT !.told = With(@, m, IF m \in DOMAIN @ THEN @[m] + 1 ELSE 1),
                   !.stray = IF matches[m].conn # c THEN @ \cup {m} ELSE @]
  /\ UNCHANGED <<owed, recovering>>

\* Both stakes are down: the pair is over and the creator may go and play.
ReleasePair(c) ==
  /\ pairs' = Without(pairs, c)
  /\ store' = Without(store, pairs[c].creator)
  /\ inbox' = Send(inbox, c, [t |-> "ready"])
  /\ UNCHANGED <<owed, recovering>>

\* An app's message reaches the server that holds its connection.
Heard(p) == app[p].conn \in online

CashCreated(p, m) ==
  IF Heard(p) /\ app[p].conn \in DOMAIN pairs
  THEN AnnounceMatch(app[p].conn, m, pairs[app[p].conn].stake)
  ELSE UNCHANGED <<pairvars, inbox, faults>>

CashJoined(p) ==
  LET mine == {c \in DOMAIN pairs : pairs[c].joinerConn = app[p].conn} IN
  IF Heard(p) /\ mine # {} THEN \E c \in mine : ReleasePair(c)
  ELSE UNCHANGED <<pairvars, inbox>>

CashFailed(p) == IF Heard(p) THEN AbortPairOf(app[p].conn) ELSE UNCHANGED <<pairvars, inbox>>

Bail(p, phase) ==
  app' = [app EXCEPT ![p] = [@ EXCEPT !.open = FALSE, !.conn = NoConn, !.phase = phase,
                                      !.created = NoMatch]]

\* The player gives up, or three minutes of search are over.
CashCancel(p) ==
  /\ app[p].open /\ app[p].phase \in {"searching", "pairing"}
  /\ Bail(p, "idle")
  /\ IF Heard(p) THEN RemoveFromCash(app[p].conn) /\ AbortPairOf(app[p].conn)
                 ELSE UNCHANGED <<waiting, pairvars, inbox>>
  /\ UNCHANGED <<socks, online, asking, chainvars, keys, faults>>

-----------------------------------------------------------------------------
(* What an app does with what it reads.                                    *)

\* A transaction is sent, mined or reverted, and then its receipt is read.
Tx(kind, p, m, stake, key) ==
  [kind |-> kind, by |-> p, search |-> app[p].search, conn |-> app[p].conn,
   match |-> m, stake |-> stake, key |-> key, mined |-> "no"]
SendTx(tx) == txs' = txs \cup {tx} /\ UNCHANGED <<matches, events>>

CreateOnChain(p, stake) == SendTx(Tx("create", p, NoMatch, stake, 0))
CancelMatch(p, m) == SendTx(Tx("cancel", p, m, 0, 0))

\* Joining makes a session key for the match, kept in place of an earlier one.
KeysMade(p, m) == IF m \in DOMAIN keys[p] THEN keys[p][m] ELSE 0

\* Slip: the key kept is not the one the join carries.
JoinCashMatchTwoKeys(p, m, stake) ==
  LET k == KeysMade(p, m) + 1 IN
  /\ keys' = [keys EXCEPT ![p] = With(@, m, k + 1)]
  /\ SendTx(Tx("join", p, m, stake, k))

JoinCashMatch(p, m, stake) ==
  LET k == KeysMade(p, m) + 1 IN
  /\ keys' = [keys EXCEPT ![p] = With(@, m, k)]
  /\ SendTx(Tx("join", p, m, stake, k))

OnMatched(p, msg) ==
  IF msg.role = "create"
  THEN app' = [app EXCEPT ![p].phase = "committed"]
       /\ CreateOnChain(p, msg.stake) /\ UNCHANGED keys
  ELSE app' = [app EXCEPT ![p].phase = "pairing"] /\ UNCHANGED <<chainvars, keys>>

OnJoin(p, msg) ==
  /\ app' = [app EXCEPT ![p].phase = "committed"]
  /\ JoinCashMatch(p, msg.match, msg.stake)

\* An app whose stake is on the table takes it back before it gives up.
OnAbort(p) ==
  /\ IF app[p].created # NoMatch
     THEN app' = [app EXCEPT ![p].created = NoMatch]
          /\ CancelMatch(p, app[p].created)
     ELSE Bail(p, "idle") /\ UNCHANGED chainvars
  /\ UNCHANGED keys

Read(p) ==
  LET c == app[p].conn IN
  /\ app[p].open /\ c # NoConn /\ inbox[c] # <<>>
  /\ LET msg == Head(inbox[c]) IN
     \/ msg.t = "matched" /\ OnMatched(p, msg)
     \/ msg.t = "join" /\ OnJoin(p, msg)
     \/ msg.t = "abort" /\ OnAbort(p)
     \/ msg.t = "ready" /\ Bail(p, "playing") /\ UNCHANGED <<chainvars, keys>>
  /\ inbox' = [inbox EXCEPT ![c] = Tail(@)]
  /\ UNCHANGED <<socks, online, queuevars, pairvars, faults>>

\* A mobile blink: the app is offline before the server knows.
Drop(p) ==
  /\ app[p].conn \in online /\ faults.drops < MaxDrops
  /\ app' = [app EXCEPT ![p].conn = NoConn]
  /\ faults' = [faults EXCEPT !.drops = @ + 1, !.astray = @ \cup {p}]
  /\ UNCHANGED <<keys, netvars, queuevars, pairvars, chainvars>>

\* The app has read all that was sent and finds the server gone.
Notice(p) ==
  /\ app[p].conn \notin online \cup {NoConn} /\ inbox[app[p].conn] = <<>>
  /\ app' = [app EXCEPT ![p].conn = NoConn]
  /\ UNCHANGED <<keys, netvars, queuevars, pairvars, chainvars, faults>>

-----------------------------------------------------------------------------
(* The chain, and what follows a transaction in the app that sent it.      *)

\* What a transaction does when it lands.
CreateMatch(tx, m) ==
  /\ matches' = Append(matches, [creator |-> tx.by, joiner |-> tx.by, key |-> 0,
       stake |-> tx.stake, conn |-> tx.conn, status |-> "Open", cap |-> Ask[tx.by][tx.search]])
  /\ events' = events \cup {<<"created", m>>}

JoinMatch(tx, m) ==
  /\ matches[m].status = "Open"
  /\ matches' = [matches EXCEPT ![m] = [@ EXCEPT !.status = "Active", !.joiner = tx.by,
                   !.key = tx.key, !.cap = Min({matches[m].cap, Ask[tx.by][tx.search]})]]
  /\ events' = events \cup {<<"joined", m>>}

CancelOpen(m) ==
  /\ matches[m].status = "Open"
  /\ matches' = [matches EXCEPT ![m].status = "Cancelled"] /\ UNCHANGED events

\* A transaction lands, or reverts: a seat or a table is there no more, or the
\* player refused it, the allowance was short, the network lost it.
Mine(tx) ==
  LET m == IF tx.kind = "create" THEN Len(matches) + 1 ELSE tx.match
      Becomes(res) == txs' = (txs \ {tx}) \cup {[tx EXCEPT !.mined = res, !.match = m]} IN
  /\ tx \in txs /\ tx.mined = "no"
  /\ \/ Becomes("reverted") /\ UNCHANGED <<matches, events>>
     \/ tx.kind = "create" /\ Becomes("yes") /\ CreateMatch(tx, m)
     \/ tx.kind = "join" /\ Becomes("yes") /\ JoinMatch(tx, m)
     \/ tx.kind = "cancel" /\ Becomes("yes") /\ CancelOpen(m)
  /\ UNCHANGED <<appvars, netvars, queuevars, pairvars, faults>>

\* The search a transaction was sent by is still the one that is open.
Current(tx) == app[tx.by].open /\ app[tx.by].search = tx.search

\* The receipt is read.  A reverted stake, or a receipt that stays out of
\* sight, fails the pair; the creator tells its match; a seat that is taken
\* leads the app to the board, whatever it shows by then.
Receipt(tx) ==
  /\ tx \in txs /\ tx.mined # "no"
  /\ txs' = txs \ {tx}
  /\ \/ /\ tx.kind # "cancel" /\ (tx.mined = "reverted" \/ faults.unseen < MaxUnseen)
        /\ faults' = IF tx.mined = "yes" THEN [faults EXCEPT !.unseen = @ + 1] ELSE faults
        /\ IF Current(tx) THEN CashFailed(tx.by) /\ Bail(tx.by, "idle")
                          ELSE UNCHANGED <<pairvars, inbox, app>>
     \/ /\ tx.kind = "create" /\ tx.mined = "yes"
        /\ IF Current(tx)
           THEN app' = [app EXCEPT ![tx.by].created = tx.match] /\ CashCreated(tx.by, tx.match)
           ELSE UNCHANGED <<app, pairvars, inbox, faults>>
     \/ /\ tx.kind = "join" /\ tx.mined = "yes"
        /\ IF Current(tx) THEN CashJoined(tx.by) ELSE UNCHANGED <<pairvars, inbox>>
        /\ Bail(tx.by, "playing") /\ UNCHANGED faults
     \/ /\ tx.kind = "cancel"
        /\ IF Current(tx) THEN Bail(tx.by, "idle") ELSE UNCHANGED app
        /\ UNCHANGED <<pairvars, inbox, faults>>
  /\ UNCHANGED <<keys, matches, events, socks, online, queuevars>>

\* Chain reconciliation: the MatchCreated watcher looks for a pair of that
\* creator that has no match yet, the MatchJoined watcher for the pair of the
\* match.  An event may stay undelivered; one that finds no pair changes nothing.
SeeCreated(m) ==
  /\ <<"created", m>> \in events
  /\ events' = events \ {<<"created", m>>}
  /\ \E c \in DOMAIN pairs :
       /\ pairs[c].creator = matches[m].creator /\ pairs[c].match = NoMatch
       /\ AnnounceMatch(c, m, matches[m].stake)
  /\ UNCHANGED <<appvars, socks, online, queuevars, matches, txs>>

SeeJoined(m) ==
  /\ <<"joined", m>> \in events
  /\ events' = events \ {<<"joined", m>>}
  /\ \E c \in DOMAIN pairs : pairs[c].match = m /\ ReleasePair(c)
  /\ UNCHANGED <<appvars, socks, online, queuevars, matches, txs, faults>>

Next ==
  \/ \E p \in Players : Connect(p) \/ CashCancel(p) \/ Read(p) \/ Drop(p) \/ Notice(p) \/ Recover(p)
  \/ \E c \in Conns : Enqueue(c) \/ Disconnect(c) \/ SetupTimeout(c)
  \/ \E m \in DOMAIN matches : SeeCreated(m) \/ SeeJoined(m)
  \/ \E tx \in txs : Mine(tx) \/ Receipt(tx)
  \/ Sweep \/ Tick \/ Restart

Spec == Init /\ [][Next]_vars

\* Time passes and the sweep runs on its interval.
FairSpec == Spec /\ WF_vars(Tick) /\ WF_vars(Sweep)

-----------------------------------------------------------------------------
(* Properties.                                                             *)

\* A pair whose creator may have a stake on the table can be found after a
\* restart: the store has it, with its match, unless its creator was paired
\* again while the store, keyed by address, still held an earlier pair.
PairPersisted ==
  \A c \in DOMAIN pairs :
    LET p == pairs[c].creator IN
    p \notin faults.astray =>
      p \in DOMAIN store /\ store[p] = [joiner |-> pairs[c].joiner, match |-> pairs[c].match]

\* A creator who waits in the app with a stake on the table always has an
\* answer coming: its pair, whose timer runs; a message it has not read; or,
\* after a restart, the news it is owed when it connects again.  Only a blink
\* of its own connection, a recovery it overtakes, or a second restart that
\* forgets the news can leave it waiting for ever.
CreatorAnswered ==
  \A p \in Players \ faults.astray :
    LET c == app[p].conn IN
    app[p].open /\ app[p].created # NoMatch =>
      \/ c \in DOMAIN pairs
      \/ c # NoConn /\ inbox[c] # <<>>
      \/ c \notin online /\ p \in owed \cup DOMAIN store

\* Nobody stakes more than they asked for, unless the chain watcher handed a
\* pair the match its creator had made for another pair.
NobodyRisksMore ==
  \A m \in DOMAIN matches \ faults.stray : matches[m].stake <= matches[m].cap

\* The session key the joiner's app keeps is the one its seat was taken with,
\* unless the joiner was sent to the match twice (by the creator's app and by
\* the chain watcher) and made a second key.
KeyKept ==
  \A m \in DOMAIN matches :
    matches[m].status = "Active" /\ keys[matches[m].joiner][m] # matches[m].key
      => faults.told[m] > 1

\* The same without the exception: what session.ts says of the key.
KeyAlwaysKept ==
  \A m \in DOMAIN matches :
    matches[m].status = "Active" => keys[matches[m].joiner][m] = matches[m].key

\* No connection is in two pairs, or waits while it is in one.
OnePlaceEach ==
  \A c \in DOMAIN pairs :
    /\ PairsOf(c) = {c} /\ PairsOf(pairs[c].joinerConn) = {c}
    /\ \A w \in waiting : w.conn \notin {c, pairs[c].joinerConn}

\* Two players the ceiling allows to meet do not both wait for ever.
CompatibleMeet ==
  []<>~\E v, w \in waiting : /\ Owner(v.conn) # Owner(w.conn)
                            /\ Gap(Owner(v.conn), Owner(w.conn)) <= MaxGap

\* A connection has one place, a pair survives a restart, and a creator with a stake on
\* the table has an answer coming.
PairingInv ==
  /\ TypeOK
  /\ OnePlaceEach
  /\ PairPersisted
  /\ CreatorAnswered

\* Both sit at a stake they asked for, and the joiner holds the key of the seat.
SeatsMatch ==
  /\ NobodyRisksMore
  /\ KeyKept
=============================================================================
