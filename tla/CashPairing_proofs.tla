-------------------------- MODULE CashPairing_proofs --------------------------
(***************************************************************************)
(* The staked quick-match, for any number of players, connections, drops,  *)
(* late receipts and restarts: a connection has one place, a pair outlives *)
(* a restart, a creator with a stake on the table has an answer coming,    *)
(* nobody stakes more than they asked for, and the joiner's app keeps the  *)
(* key of its seat.                                                        *)
(*                                                                         *)
(* The argument.  A player whose panel is open has at most one thing that  *)
(* puts its stake on the table (the message that asks for a match, the     *)
(* transaction, or the match itself), and as long as it has one it is the  *)
(* creator of a pair, or its box ends with the news of the end, or it is   *)
(* offline and owed that news (Committed).  This needs that an end is the  *)
(* last message of a connection (EndsLast), that the store holds the pairs *)
(* there are (Persisted), and that a player the server has lost is nowhere *)
(* in it (Present).  Stakes and keys follow the messages: what a           *)
(* connection is told, its transactions and the matches they make carry    *)
(* the stake of the pair (Stakes), and a match announced once is joined    *)
(* with one key (Keys).                                                    *)
(***************************************************************************)
EXTENDS CashPairing, TLAPS

-----------------------------------------------------------------------------
(* The inductive invariant.                                                *)

Phases == {"idle", "searching", "pairing", "committed", "playing"}
Apps == [open : BOOLEAN, conn : {NoConn} \cup Conns, search : Nat, created : Nat, phase : Phases]
EndMsgs == [t : {"abort", "ready"}]
Matched == [t : {"matched"}, role : {"create", "join"}, stake : Nat]
Joining == [t : {"join"}, match : Nat, stake : Nat]
Msgs == EndMsgs \cup Matched \cup Joining
Sock == [by : Players, stake : Nat]
Chain == [creator : Players, joiner : Players, key : Nat, stake : Nat, conn : Nat,
          status : {"Open", "Active", "Cancelled"}, cap : Nat]
Txs == [kind : {"create", "join", "cancel"}, by : Players, search : Nat, conn : Nat,
        match : Nat, stake : Nat, key : Nat, mined : {"no", "yes", "reverted"}]
Pair == [joinerConn : Conns, creator : Players, joiner : Players, stake : Nat, match : Nat]
Kept == [joiner : Players, match : Nat]
Waiter == [conn : Conns, waited : 0 .. MaxWait]
Partial(D, R) == UNION {[E -> R] : E \in SUBSET D}
Counts == Partial(Nat, Nat \ {0})
Faults == [drops : Nat, restarts : Nat, astray : SUBSET Players, stray : SUBSET Nat,
           unseen : Nat, told : Counts]

\* Every variable holds what its declaration says, and a pair names the two
\* whose connections it joins.
Types ==
  /\ socks \in Seq(Sock) /\ Len(socks) <= MaxConns
  /\ app \in [Players -> Apps] /\ inbox \in [Conns -> Seq(Msgs)]
  /\ online \subseteq DOMAIN socks /\ asking \subseteq DOMAIN socks
  /\ waiting \subseteq Waiter /\ \A w \in waiting : w.conn \in DOMAIN socks
  /\ pairs \in Partial(Conns, Pair)
  /\ store \in Partial(Players, Kept) /\ recovering \in Partial(Players, Kept)
  /\ owed \subseteq Players
  /\ matches \in Seq(Chain) /\ txs \subseteq Txs
  /\ keys \in [Players -> Counts] /\ faults \in Faults

PairsOK ==
  \A c \in DOMAIN pairs :
    LET pair == pairs[c] IN
    /\ {c, pair.joinerConn} \subseteq DOMAIN socks
    /\ pair.creator = Owner(c) /\ pair.joiner = Owner(pair.joinerConn)
    /\ pair.match <= Len(matches)
    /\ pair.stake <= socks[c].stake /\ pair.stake <= socks[pair.joinerConn].stake

\* Where a connection can be: queued, the creator of a pair, or its joiner.
Waiting == {w.conn : w \in waiting}
Joiners == {pairs[c].joinerConn : c \in DOMAIN pairs}
Queued == asking \cup Waiting
Placed == Queued \cup DOMAIN pairs \cup Joiners

Places ==
  /\ \A v, w \in waiting : v.conn = w.conn => v = w
  /\ asking \cap Waiting = {}
  /\ Queued \cap (DOMAIN pairs \cup Joiners) = {}
  /\ DOMAIN pairs \cap Joiners = {}
  /\ \A c, k \in DOMAIN pairs : pairs[c].joinerConn = pairs[k].joinerConn => c = k

\* An abort or a ready is the last thing a connection hears, and it has no
\* place any more.
Ends(msg) == msg.t \in {"abort", "ready"}
EndsLast ==
  \A c \in Conns : \A i \in DOMAIN inbox[c] :
    Ends(inbox[c][i]) => i = Len(inbox[c]) /\ c \notin Placed

AppOK(p) ==
  LET a == app[p] IN
  /\ a.search <= Len(Ask[p]) /\ a.created <= Len(matches)
  /\ a.open => a.search >= 1
  /\ ~a.open => a.conn = NoConn /\ a.created = NoMatch
  /\ a.conn # NoConn =>
       a.conn \in DOMAIN socks /\ socks[a.conn] = [by |-> p, stake |-> Ask[p][a.search]]

Timely(tx) ==
  /\ tx.search >= 1 /\ tx.search <= app[tx.by].search
  /\ IF tx.kind = "create" THEN tx.mined = "yes" => tx.match \in DOMAIN matches
                           ELSE tx.match \in DOMAIN matches

\* The store holds the pairs there are, and after a restart those there were.
Persisted(p) ==
  /\ p \in DOMAIN recovering =>
       p \in DOMAIN store /\ \A c \in DOMAIN pairs : pairs[c].creator # p
  /\ p \in DOMAIN store =>
       p \in DOMAIN recovering \/ \E c \in DOMAIN pairs : pairs[c].creator = p
  /\ \A c \in DOMAIN pairs : pairs[c].creator = p =>
       /\ p \in DOMAIN store
       /\ store[p] = [joiner |-> pairs[c].joiner, match |-> pairs[c].match]
       /\ \A k \in DOMAIN pairs : pairs[k].creator = p => k = c

\* A player the server has lost has no place.
Present(p) ==
  app[p].open /\ app[p].conn \notin online => \A c \in Placed : Owner(c) # p

\* What may put the player's stake on the table: a match, a transaction, or
\* the message that asks for one.
Creates(msg) == msg.t = "matched" /\ msg.role = "create"
Box(p) == IF app[p].conn = NoConn THEN <<>> ELSE inbox[app[p].conn]
ToCreate(p) == \E i \in DOMAIN Box(p) : Creates(Box(p)[i])
Making(p) == {tx \in txs : tx.kind = "create" /\ tx.by = p /\ tx.search = app[p].search}
Bound(p) == app[p].created # NoMatch \/ Making(p) # {} \/ ToCreate(p)

\* It is one of these, once, and not of a player who is to meet somebody.
Once(p) ==
  /\ app[p].created # NoMatch => Making(p) = {} /\ ~ToCreate(p)
  /\ Making(p) # {} => ~ToCreate(p)
  /\ \A t, u \in Making(p) : t = u
  /\ \A i, j \in DOMAIN Box(p) : Creates(Box(p)[i]) /\ Creates(Box(p)[j]) => i = j
  /\ app[p].conn \in Queued \cup Joiners => ~Bound(p)

Ended(box) == box # <<>> /\ Ends(box[Len(box)])
Answered(p) ==
  \/ app[p].conn \in DOMAIN pairs
  \/ Ended(Box(p))
  \/ app[p].conn \notin online /\ p \in owed \cup DOMAIN store

Committed(p) == app[p].open => Once(p) /\ (Bound(p) => Answered(p))

Told == \A p \in Players \ faults.astray : Persisted(p) /\ Present(p) /\ Committed(p)

\* Stakes: what a queued connection has not caused yet, and the stake that a
\* message, a transaction and a match carry on.
Fresh(c) ==
  /\ \A i \in DOMAIN inbox[c] : inbox[c][i].t # "matched"
  /\ \A tx \in txs : tx.kind = "create" => tx.conn # c
  /\ \A m \in DOMAIN matches : matches[m].conn # c

Within(m, limit) == m \in DOMAIN matches /\ (m \notin faults.stray => matches[m].stake <= limit)

MsgOK(c, msg) ==
  /\ msg.t = "matched" => msg.stake <= socks[c].stake
  /\ Creates(msg) /\ c \in DOMAIN pairs => msg.stake = pairs[c].stake
  /\ msg.t = "join" => Within(msg.match, socks[c].stake)

TxOK(tx) ==
  /\ tx.kind = "create" =>
       /\ tx.conn \in DOMAIN socks /\ tx.stake <= Ask[tx.by][tx.search]
       /\ tx.conn \in DOMAIN pairs => tx.stake = pairs[tx.conn].stake
  /\ tx.kind = "join" => Within(tx.match, Ask[tx.by][tx.search])

MatchOK(m) ==
  /\ matches[m].conn \in DOMAIN socks
  /\ matches[m].conn \in DOMAIN pairs => matches[m].stake = pairs[matches[m].conn].stake
  /\ Within(m, matches[m].cap)

Stakes ==
  /\ \A c \in Queued : Fresh(c)
  /\ \A c \in DOMAIN socks : \A i \in DOMAIN inbox[c] : MsgOK(c, inbox[c][i])
  /\ \A c \in Conns \ DOMAIN socks : inbox[c] = <<>>
  /\ \A tx \in txs : TxOK(tx)
  /\ \A m \in DOMAIN matches : MatchOK(m)

\* Keys: a match announced once is joined with one key.
Sends(m, c, i) == inbox[c][i].t = "join" /\ inbox[c][i].match = m
Holds(p, m, k) == m \in DOMAIN keys[p] /\ k >= 1 /\ k <= keys[p][m]
Unsent(m) == \A c \in Conns : \A i \in DOMAIN inbox[c] : ~Sends(m, c, i)
SentOnce(m) ==
  \A c, d \in Conns : \A i \in DOMAIN inbox[c], j \in DOMAIN inbox[d] :
    Sends(m, c, i) /\ Sends(m, d, j) => c = d /\ i = j
Keyed(m) ==
  /\ m \notin DOMAIN faults.told => Unsent(m) /\ \A p \in Players : m \notin DOMAIN keys[p]
  /\ m \in DOMAIN faults.told /\ faults.told[m] = 1 =>
       /\ SentOnce(m)
       /\ \A p \in Players : m \in DOMAIN keys[p] => keys[p][m] = 1 /\ Unsent(m)
Keys ==
  /\ \A m \in Nat : Keyed(m)
  /\ \A m \in DOMAIN matches :
       matches[m].status = "Active" => Holds(matches[m].joiner, m, matches[m].key)
  /\ \A tx \in txs : tx.kind = "join" => Holds(tx.by, tx.match, tx.key)

IInv ==
  /\ Types /\ PairsOK /\ Places /\ EndsLast
  /\ (\A p \in Players : AppOK(p)) /\ (\A tx \in txs : Timely(tx))
  /\ Told /\ Stakes /\ Keys

-----------------------------------------------------------------------------
(* Partial functions, sequences and what is sent.                          *)

\* A partial function with one more, one other or one less value.
LEMMA PartialIs ==
  ASSUME NEW D, NEW R, NEW f \in Partial(D, R)
  PROVE  /\ DOMAIN f \subseteq D /\ f = [x \in DOMAIN f |-> f[x]]
         /\ \A x \in DOMAIN f : f[x] \in R
BY DEF Partial

LEMMA InPartial ==
  ASSUME NEW D, NEW R, NEW f, NEW E, E \subseteq D, f \in [E -> R]
  PROVE  f \in Partial(D, R)
BY DEF Partial

LEMMA WithIs ==
  ASSUME NEW D, NEW R, NEW f \in Partial(D, R), NEW k \in D, NEW v \in R
  PROVE  With(f, k, v) \in Partial(D, R)
<1>1. DOMAIN f \cup {k} \subseteq D /\ \A x \in DOMAIN f : f[x] \in R
  BY PartialIs
<1>2. With(f, k, v) \in [DOMAIN f \cup {k} -> R]
  BY <1>1 DEF With
<1> QED
  BY <1>1, <1>2, InPartial

LEMMA WithoutIs ==
  ASSUME NEW D, NEW R, NEW f \in Partial(D, R), NEW k
  PROVE  Without(f, k) \in Partial(D, R)
<1>1. DOMAIN f \ {k} \subseteq D /\ \A x \in DOMAIN f : f[x] \in R
  BY PartialIs
<1>2. Without(f, k) \in [DOMAIN f \ {k} -> R]
  BY <1>1 DEF Without
<1> QED
  BY <1>1, <1>2, InPartial

LEMMA WithoutAt ==
  ASSUME NEW f, NEW k
  PROVE  /\ DOMAIN Without(f, k) = DOMAIN f \ {k}
         /\ \A x \in DOMAIN f : x # k => Without(f, k)[x] = f[x]
BY DEF Without

LEMMA EmptyIs ==
  ASSUME NEW D, NEW R
  PROVE  <<>> \in Partial(D, R) /\ DOMAIN <<>> = {} /\ <<>> \in Seq(R) /\ Len(<<>>) = 0
<1>1. <<>> \in [{} -> R]
  OBVIOUS
<1>2. {} \subseteq D
  OBVIOUS
<1>3. <<>> \in Partial(D, R)
  BY <1>1, <1>2, InPartial
<1> QED
  BY <1>3

LEMMA AppendIs ==
  ASSUME NEW S, NEW s \in Seq(S), NEW e \in S
  PROVE  /\ Append(s, e) \in Seq(S) /\ Len(Append(s, e)) = Len(s) + 1 /\ Append(s, e) # <<>>
         /\ DOMAIN Append(s, e) = DOMAIN s \cup {Len(s) + 1}
         /\ Len(s) + 1 \notin DOMAIN s /\ Append(s, e)[Len(s) + 1] = e
         /\ \A i \in DOMAIN s : Append(s, e)[i] = s[i]
OBVIOUS

LEMMA TailIs ==
  ASSUME NEW S, NEW s \in Seq(S), s # <<>>
  PROVE  /\ Tail(s) \in Seq(S) /\ Len(Tail(s)) = Len(s) - 1 /\ Head(s) = s[1] /\ 1 \in DOMAIN s
         /\ \A i \in DOMAIN Tail(s) : i + 1 \in DOMAIN s /\ Tail(s)[i] = s[i + 1]
OBVIOUS

LEMMA SeqIs ==
  ASSUME NEW S, NEW s \in Seq(S)
  PROVE  Len(s) \in Nat /\ DOMAIN s = 1 .. Len(s) /\ \A i \in DOMAIN s : s[i] \in S
OBVIOUS

Reached(c) == c \in online /\ app[Owner(c)].conn = c

\* What a message does to the boxes.
LEMMA SendIs ==
  ASSUME NEW box \in [Conns -> Seq(Msgs)], NEW c \in Conns, NEW msg \in Msgs
  PROVE  /\ Send(box, c, msg) \in [Conns -> Seq(Msgs)]
         /\ \A d \in Conns : d # c => Send(box, c, msg)[d] = box[d]
         /\ Send(box, c, msg)[c] = IF Reached(c) THEN Append(box[c], msg) ELSE box[c]
<1>1. Append(box[c], msg) \in Seq(Msgs)
  OBVIOUS
<1> QED
  BY <1>1 DEF Send, Reached

LEMMA TypesSay ==
  ASSUME Types
  PROVE  /\ socks \in Seq(Sock) /\ Len(socks) \in Nat /\ DOMAIN socks = 1 .. Len(socks)
         /\ DOMAIN socks \subseteq Conns /\ \A c \in DOMAIN socks : socks[c] \in Sock
         /\ matches \in Seq(Chain) /\ Len(matches) \in Nat /\ DOMAIN matches = 1 .. Len(matches)
         /\ \A m \in DOMAIN matches : matches[m] \in Chain
         /\ \A p \in Players : app[p] \in Apps
         /\ \A c \in Conns : inbox[c] \in Seq(Msgs)
         /\ DOMAIN pairs \subseteq Conns /\ \A c \in DOMAIN pairs : pairs[c] \in Pair
         /\ DOMAIN store \subseteq Players /\ \A p \in DOMAIN store : store[p] \in Kept
         /\ DOMAIN recovering \subseteq Players
         /\ \A p \in DOMAIN recovering : recovering[p] \in Kept
         /\ NoConn \notin Conns /\ Conns \subseteq Nat /\ MaxConns \in Nat
<1>1. MaxConns \in Nat
  BY PairingAssumption
<1>2. /\ socks \in Seq(Sock) /\ Len(socks) \in Nat /\ DOMAIN socks = 1 .. Len(socks)
      /\ \A c \in DOMAIN socks : socks[c] \in Sock /\ Len(socks) <= MaxConns
  BY SeqIs DEF Types
<1>3. DOMAIN socks \subseteq Conns /\ NoConn \notin Conns /\ Conns \subseteq Nat
  BY <1>1, <1>2 DEF Conns, NoConn
<1>4. /\ matches \in Seq(Chain) /\ Len(matches) \in Nat /\ DOMAIN matches = 1 .. Len(matches)
      /\ \A m \in DOMAIN matches : matches[m] \in Chain
  BY SeqIs DEF Types
<1>5. DOMAIN pairs \subseteq Conns /\ \A c \in DOMAIN pairs : pairs[c] \in Pair
  BY PartialIs DEF Types
<1>6. /\ DOMAIN store \subseteq Players /\ \A p \in DOMAIN store : store[p] \in Kept
      /\ DOMAIN recovering \subseteq Players
      /\ \A p \in DOMAIN recovering : recovering[p] \in Kept
  BY PartialIs DEF Types
<1> QED
  BY <1>1, <1>2, <1>3, <1>4, <1>5, <1>6 DEF Types

-----------------------------------------------------------------------------
(* A pair ends.                                                            *)

Over(c) ==
  /\ c \in DOMAIN pairs
  /\ pairs' = Without(pairs, c) /\ store' = Without(store, pairs[c].creator)
  /\ UNCHANGED <<owed, recovering>>
  /\ inbox' \in [Conns -> Seq(Msgs)]
  /\ \A d \in Conns : \/ inbox'[d] = inbox[d]
                      \/ /\ d \in {c, pairs[c].joinerConn}
                         /\ \E msg \in EndMsgs : inbox'[d] = Append(inbox[d], msg)
  /\ Reached(c) => \E msg \in EndMsgs : inbox'[c] = Append(inbox[c], msg)

Calm == UNCHANGED <<pairs, store, owed, recovering, inbox>>
Ending == Calm \/ \E c \in DOMAIN pairs : Over(c)

LEMMA PairIs ==
  ASSUME Types, PairsOK, Places, NEW c \in DOMAIN pairs
  PROVE  /\ c \in DOMAIN socks /\ c \in Conns /\ pairs[c] \in Pair
         /\ pairs[c].joinerConn \in DOMAIN socks /\ pairs[c].joinerConn \in Conns
         /\ pairs[c].creator = Owner(c) /\ pairs[c].joiner = Owner(pairs[c].joinerConn)
         /\ pairs[c].joinerConn # c /\ pairs[c].joinerConn \notin DOMAIN pairs
         /\ pairs[c].creator \in Players /\ pairs[c].joiner \in Players
         /\ pairs[c].match \in Nat /\ pairs[c].stake \in Nat
BY TypesSay DEF PairsOK, Places, Joiners, Pair

LEMMA AbortIs ==
  ASSUME Types, PairsOK, Places, NEW c \in DOMAIN pairs, AbortCashPair(c)
  PROVE  Over(c)
<1>1. PICK j : j = pairs[c].joinerConn
  OBVIOUS
<1>2. j \in Conns /\ c \in Conns /\ j # c
  BY <1>1, PairIs
<1>3. PICK end \in EndMsgs : end = [t |-> "abort"]
  BY DEF EndMsgs
<1>4. end \in Msgs
  BY <1>3 DEF Msgs
<1>5. PICK box : box = Send(inbox, c, end)
  OBVIOUS
<1>6. /\ box \in [Conns -> Seq(Msgs)] /\ \A d \in Conns : d # c => box[d] = inbox[d]
      /\ box[c] = IF Reached(c) THEN Append(inbox[c], end) ELSE inbox[c]
  BY <1>2, <1>4, <1>5, SendIs DEF Types
<1>7. inbox' = Send(box, j, end)
  BY <1>1, <1>3, <1>5 DEF AbortCashPair
<1>8. /\ inbox' \in [Conns -> Seq(Msgs)] /\ \A d \in Conns : d # j => inbox'[d] = box[d]
      /\ inbox'[j] = IF Reached(j) THEN Append(box[j], end) ELSE box[j]
  BY <1>2, <1>4, <1>6, <1>7, SendIs
<1>9. \A d \in Conns : \/ inbox'[d] = inbox[d]
                       \/ d \in {c, j} /\ inbox'[d] = Append(inbox[d], end)
  BY <1>2, <1>6, <1>8
<1>10. Reached(c) => inbox'[c] = Append(inbox[c], end)
  BY <1>2, <1>6, <1>8
<1> QED
  BY <1>1, <1>8, <1>9, <1>10 DEF Over, AbortCashPair

LEMMA ReleaseIs ==
  ASSUME Types, PairsOK, Places, NEW c \in DOMAIN pairs, ReleasePair(c)
  PROVE  Over(c)
<1>1. PICK end \in EndMsgs : end = [t |-> "ready"]
  BY DEF EndMsgs
<1>2. end \in Msgs /\ c \in Conns
  BY <1>1, PairIs DEF Msgs
<1>3. inbox' = Send(inbox, c, end)
  BY <1>1 DEF ReleasePair
<1>4. /\ inbox' \in [Conns -> Seq(Msgs)] /\ \A d \in Conns : d # c => inbox'[d] = inbox[d]
      /\ inbox'[c] = IF Reached(c) THEN Append(inbox[c], end) ELSE inbox[c]
  BY <1>2, <1>3, SendIs DEF Types
<1> QED
  BY <1>4 DEF Over, ReleasePair

LEMMA AbortOfIs ==
  ASSUME Types, PairsOK, Places, NEW c, AbortPairOf(c)
  PROVE  Ending
<1>1. CASE PairsOf(c) = {}
  BY <1>1 DEF AbortPairOf, Ending, Calm, pairvars
<1>2. CASE PairsOf(c) # {}
  BY <1>2, AbortIs DEF AbortPairOf, Ending, PairsOf
<1> QED
  BY <1>1, <1>2

\* What a step that ends a pair, or nothing, leaves: fewer pairs, the same
\* places or fewer, and news of the end alone.
LEMMA EndingIs ==
  ASSUME IInv, Ending, waiting' \subseteq waiting, asking' \subseteq asking
  PROVE  /\ pairs' \in Partial(Conns, Pair) /\ store' \in Partial(Players, Kept)
         /\ inbox' \in [Conns -> Seq(Msgs)] /\ UNCHANGED <<owed, recovering>>
         /\ \A c \in DOMAIN pairs' : c \in DOMAIN pairs /\ pairs'[c] = pairs[c]
         /\ Queued' \subseteq Queued /\ Joiners' \subseteq Joiners /\ Placed' \subseteq Placed
         /\ \A d \in Conns : \/ inbox'[d] = inbox[d]
                             \/ /\ d \in Placed \ Placed' /\ d \notin Queued
                                /\ \E msg \in EndMsgs : inbox'[d] = Append(inbox[d], msg)
<1>0. Types /\ PairsOK /\ Places
  BY DEF IInv
<1>1. waiting' \subseteq waiting => Waiting' \subseteq Waiting
  BY DEF Waiting
<1>2. CASE Calm
  <2>1. Joiners' = Joiners
    BY <1>2 DEF Calm, Joiners
  <2> QED
    BY <1>0, <1>1, <1>2, <2>1 DEF Calm, Types, Queued, Placed
<1>3. ASSUME NEW c \in DOMAIN pairs, Over(c)
      PROVE  /\ pairs' \in Partial(Conns, Pair) /\ store' \in Partial(Players, Kept)
             /\ inbox' \in [Conns -> Seq(Msgs)] /\ UNCHANGED <<owed, recovering>>
             /\ \A k \in DOMAIN pairs' : k \in DOMAIN pairs /\ pairs'[k] = pairs[k]
             /\ Queued' \subseteq Queued /\ Joiners' \subseteq Joiners /\ Placed' \subseteq Placed
             /\ \A d \in Conns : \/ inbox'[d] = inbox[d]
                                 \/ /\ d \in Placed \ Placed' /\ d \notin Queued
                                    /\ \E msg \in EndMsgs : inbox'[d] = Append(inbox[d], msg)
  <2>0. /\ pairs \in Partial(Conns, Pair) /\ pairs' = Without(pairs, c)
        /\ store \in Partial(Players, Kept) /\ store' = Without(store, pairs[c].creator)
    BY <1>0, <1>3 DEF Over, Types
  <2>1. /\ pairs' \in Partial(Conns, Pair) /\ DOMAIN pairs' = DOMAIN pairs \ {c}
        /\ \A k \in DOMAIN pairs' : k \in DOMAIN pairs /\ pairs'[k] = pairs[k]
    <3>1. pairs' \in Partial(Conns, Pair)
      BY <2>0, WithoutIs
    <3>2. /\ DOMAIN pairs' = DOMAIN pairs \ {c}
          /\ \A k \in DOMAIN pairs : k # c => pairs'[k] = pairs[k]
      BY <2>0, WithoutAt
    <3> QED
      BY <3>1, <3>2
  <2>2. store' \in Partial(Players, Kept)
    BY <2>0, WithoutIs
  <2>3. Queued' \subseteq Queued /\ Joiners' \subseteq Joiners /\ Placed' \subseteq Placed
    BY <1>1, <2>1 DEF Queued, Joiners, Placed
  <2>4. {c, pairs[c].joinerConn} \subseteq Placed /\ {c, pairs[c].joinerConn} \cap Queued = {}
    BY <1>0 DEF Placed, Joiners, Places
  <2>5. pairs[c].joinerConn \notin Joiners' /\ pairs[c].joinerConn \notin DOMAIN pairs'
    BY <1>0, <2>1 DEF Joiners, Places
  <2>6. c \notin Joiners' /\ c \notin DOMAIN pairs'
    BY <1>0, <2>1, <2>3 DEF Places
  <2>7. {c, pairs[c].joinerConn} \cap Placed' = {}
    BY <2>3, <2>4, <2>5, <2>6 DEF Placed
  <2> QED
    BY <1>3, <2>1, <2>2, <2>3, <2>4, <2>7 DEF Over
<1> QED
  BY <1>2, <1>3 DEF Ending

-----------------------------------------------------------------------------
(* What a step keeps when it does not add to the boxes, the transactions and *)
(* the matches.                                                            *)

\* What is in a box was there before, or is the end.
Older ==
  \A d \in Conns : \A i \in DOMAIN inbox'[d] :
    Ends(inbox'[d][i]) \/ (i \in DOMAIN inbox[d] /\ inbox'[d][i] = inbox[d][i])

LEMMA EndIs ==
  ASSUME NEW msg \in EndMsgs
  PROVE  msg \in Msgs /\ Ends(msg) /\ msg.t # "join" /\ msg.t # "matched" /\ ~Creates(msg)
BY DEF EndMsgs, Msgs, Ends, Creates

LEMMA EndsAre ==
  ASSUME NEW msg, Ends(msg)
  PROVE  msg.t # "join" /\ msg.t # "matched" /\ ~Creates(msg)
BY DEF Ends, Creates

LEMMA OlderIs ==
  ASSUME Types,
         \A d \in Conns : inbox'[d] = inbox[d] \/ \E msg \in EndMsgs : inbox'[d] = Append(inbox[d], msg)
  PROVE  Older
<1> SUFFICES ASSUME NEW d \in Conns, NEW i \in DOMAIN inbox'[d]
             PROVE  Ends(inbox'[d][i]) \/ (i \in DOMAIN inbox[d] /\ inbox'[d][i] = inbox[d][i])
  BY DEF Older
<1>1. CASE inbox'[d] = inbox[d]
  BY <1>1
<1>2. ASSUME NEW msg \in EndMsgs, inbox'[d] = Append(inbox[d], msg)
      PROVE  Ends(inbox'[d][i]) \/ (i \in DOMAIN inbox[d] /\ inbox'[d][i] = inbox[d][i])
  <2>1. inbox[d] \in Seq(Msgs) /\ msg \in Msgs /\ Ends(msg)
    BY TypesSay, EndIs
  <2> QED
    BY <1>2, <2>1, AppendIs
<1> QED
  BY <1>1, <1>2

\* No one is sent to a match.
NoJoins ==
  \A d \in Conns : \A i \in DOMAIN inbox'[d] :
    inbox'[d][i].t = "join" => i \in DOMAIN inbox[d] /\ inbox'[d][i] = inbox[d][i]

LEMMA KeysHold ==
  ASSUME Types, Keys, NoJoins, UNCHANGED <<keys, matches>>, faults'.told = faults.told, txs' \subseteq txs
  PROVE  Keys'
<1>1. ASSUME NEW m, NEW c \in Conns, NEW i \in DOMAIN inbox'[c], Sends(m, c, i)'
      PROVE  i \in DOMAIN inbox[c] /\ Sends(m, c, i)
  BY <1>1 DEF NoJoins, Sends
<1>2. ASSUME NEW m \in Nat PROVE Keyed(m)'
  <2>1. Unsent(m) => Unsent(m)'
    BY <1>1 DEF Unsent
  <2>2. SentOnce(m) => SentOnce(m)'
    BY <1>1 DEF SentOnce
  <2>3. Keyed(m)
    BY DEF Keys
  <2> QED
    BY <2>1, <2>2, <2>3 DEF Keyed
<1>3. \A m \in DOMAIN matches :
        matches[m].status = "Active" => Holds(matches[m].joiner, m, matches[m].key)'
  BY DEF Keys, Holds
<1>4. \A tx \in txs' : tx.kind = "join" => Holds(tx.by, tx.match, tx.key)'
  BY DEF Keys, Holds
<1> QED
  BY <1>2, <1>3, <1>4 DEF Keys

LEMMA KeysKeep ==
  ASSUME Types, Keys, Older, UNCHANGED <<keys, matches>>, faults'.told = faults.told, txs' \subseteq txs
  PROVE  Keys'
<1>1. NoJoins
  BY EndsAre DEF Older, NoJoins
<1> QED
  BY <1>1, KeysHold

LEMMA StakesKeep ==
  ASSUME Types, Stakes, Older, UNCHANGED matches, txs' \subseteq txs,
         \A c \in DOMAIN socks : c \in DOMAIN socks' /\ socks'[c] = socks[c],
         DOMAIN socks' \subseteq Conns, Queued' \subseteq DOMAIN socks',
         \A c \in Queued' : c \in Queued \/ c \notin DOMAIN socks,
         \A c \in Conns \ DOMAIN socks' : inbox'[c] = <<>>,
         \A c \in DOMAIN pairs' : c \in DOMAIN pairs /\ pairs'[c] = pairs[c],
         faults.stray \subseteq faults'.stray
  PROVE  Stakes'
<1>1. ASSUME NEW c \in Queued' PROVE Fresh(c)'
  <2>1. c \in Conns
    OBVIOUS
  <2>2. CASE c \in Queued
    <3>1. Fresh(c)
      BY <2>2 DEF Stakes
    <3> QED
      BY <2>1, <3>1, EndsAre DEF Fresh, Older
  <2>3. CASE c \notin DOMAIN socks
    <3>1. inbox[c] = <<>>
      BY <2>1, <2>3 DEF Stakes
    <3>2. \A i \in DOMAIN inbox'[c] : inbox'[c][i].t # "matched"
      BY <2>1, <3>1, EndsAre DEF Older
    <3> QED
      BY <2>3, <3>2 DEF Stakes, Fresh, TxOK, MatchOK
  <2> QED
    BY <2>2, <2>3
<1>2. ASSUME NEW m, NEW limit, Within(m, limit) PROVE Within(m, limit)'
  BY <1>2 DEF Within
<1>3. ASSUME NEW c \in DOMAIN socks', NEW i \in DOMAIN inbox'[c], NEW msg, msg = inbox'[c][i]
      PROVE  MsgOK(c, msg)'
  <2>1. CASE Ends(msg)
    BY <2>1, EndsAre DEF MsgOK
  <2>2. CASE i \in DOMAIN inbox[c] /\ inbox'[c][i] = inbox[c][i]
    <3>1. c \in DOMAIN socks
      <4>1. c \in Conns
        OBVIOUS
      <4>2. c \notin DOMAIN socks => inbox[c] = <<>>
        BY <4>1 DEF Stakes
      <4> QED
        BY <2>2, <4>2, EmptyIs
    <3>2. MsgOK(c, msg) /\ socks'[c] = socks[c]
      BY <1>3, <2>2, <3>1 DEF Stakes
    <3> QED
      BY <3>2, <1>2 DEF MsgOK
  <2>3. c \in Conns
    OBVIOUS
  <2> QED
    BY <1>3, <2>1, <2>2, <2>3 DEF Older
<1>4. ASSUME NEW tx \in txs' PROVE TxOK(tx)'
  <2>1. TxOK(tx)
    BY DEF Stakes
  <2> QED
    BY <2>1, <1>2 DEF TxOK
<1>5. ASSUME NEW m \in DOMAIN matches PROVE MatchOK(m)'
  <2>1. MatchOK(m)
    BY DEF Stakes
  <2> QED
    BY <2>1, <1>2 DEF MatchOK
<1>6. \A c \in DOMAIN socks' : \A i \in DOMAIN inbox'[c] : MsgOK(c, inbox[c][i])'
  BY <1>3
<1> QED
  BY <1>1, <1>4, <1>5, <1>6 DEF Stakes

\* A player who does nothing, and hears no more than the end.
LEMMA OnceStays ==
  ASSUME Types, NEW p \in Players, AppOK(p), Once(p), Older, app'[p] = app[p], txs' \subseteq txs,
         app[p].conn \in (Queued \cup Joiners)' => app[p].conn \in Queued \cup Joiners
  PROVE  Once(p)' /\ (Bound(p)' => Bound(p))
<1>1. Making(p)' \subseteq Making(p)
  BY DEF Making
<1>2. ASSUME NEW i \in DOMAIN Box(p)', Creates(Box(p)'[i])
      PROVE  i \in DOMAIN Box(p) /\ Creates(Box(p)[i])
  <2>1. app[p].conn # NoConn /\ Box(p)' = inbox'[app[p].conn] /\ Box(p) = inbox[app[p].conn]
    BY <1>2, EmptyIs DEF Box
  <2>2. app[p].conn \in Conns
    BY <2>1, TypesSay DEF AppOK
  <2> QED
    BY <1>2, <2>1, <2>2, EndsAre DEF Older
<1>3. ToCreate(p)' => ToCreate(p)
  BY <1>2 DEF ToCreate
<1>4. Bound(p)' => Bound(p)
  BY <1>1, <1>3 DEF Bound
<1> QED
  BY <1>1, <1>2, <1>3, <1>4 DEF Once

-----------------------------------------------------------------------------
(* Steps that end a pair, or nothing: a walk-away, a failure, a timeout, a *)
(* closed connection, the receipt of a join.                               *)

SameFaults ==
  /\ faults' \in Faults /\ faults'.astray = faults.astray
  /\ faults'.stray = faults.stray /\ faults'.told = faults.told

\* A panel as it was, or closed.
Closes(p) ==
  /\ ~app'[p].open /\ app'[p].conn = NoConn /\ app'[p].created = NoMatch
  /\ app'[p].search = app[p].search
Panels == app' \in [Players -> Apps] /\ \A p \in Players : app'[p] = app[p] \/ Closes(p)

LEMMA BailIs ==
  ASSUME Types, NEW p \in Players, NEW phase \in Phases, Bail(p, phase)
  PROVE  Panels
<1>1. app[p] \in Apps /\ app \in [Players -> Apps]
  BY TypesSay DEF Types
<1>2. PICK shut : shut = [app[p] EXCEPT !.open = FALSE, !.conn = NoConn, !.phase = phase,
                                        !.created = NoMatch]
  OBVIOUS
<1>3. shut \in Apps /\ ~shut.open /\ shut.conn = NoConn /\ shut.created = NoMatch
      /\ shut.search = app[p].search
  BY <1>1, <1>2 DEF Apps, NoMatch
<1>4. app' = [app EXCEPT ![p] = shut]
  BY <1>2 DEF Bail
<1> QED
  BY <1>1, <1>3, <1>4 DEF Panels, Closes

LEMMA AppsStay ==
  ASSUME \A p \in Players : AppOK(p), \A tx \in txs : Timely(tx), Panels, Types,
         UNCHANGED <<socks, matches>>, txs' \subseteq txs
  PROVE  (\A p \in Players : AppOK(p)') /\ (\A tx \in txs' : Timely(tx)')
<1>1. ASSUME NEW p \in Players PROVE AppOK(p)'
  <2>1. AppOK(p) /\ Len(matches) \in Nat
    BY TypesSay
  <2>2. CASE app'[p] = app[p]
    BY <2>1, <2>2 DEF AppOK
  <2>3. CASE Closes(p)
    BY <2>1, <2>3 DEF AppOK, Closes, NoMatch
  <2> QED
    BY <2>2, <2>3 DEF Panels
<1>2. ASSUME NEW tx \in txs' PROVE Timely(tx)'
  <2>1. Timely(tx) /\ tx.by \in Players
    BY DEF Types, Txs
  <2>2. app'[tx.by].search = app[tx.by].search
    BY <2>1 DEF Panels, Closes
  <2> QED
    BY <2>1, <2>2 DEF Timely
<1> QED
  BY <1>1, <1>2

\* The store follows the pairs.
LEMMA OverPersists ==
  ASSUME Types, PairsOK, Places, Ending, NEW p \in Players, Persisted(p)
  PROVE  Persisted(p)'
<1>1. CASE Calm
  BY <1>1 DEF Calm, Persisted
<1>2. ASSUME NEW c \in DOMAIN pairs, Over(c) PROVE Persisted(p)'
  <2>0. /\ pairs' = Without(pairs, c) /\ store' = Without(store, pairs[c].creator)
        /\ recovering' = recovering
    BY <1>2 DEF Over
  <2>1. /\ DOMAIN pairs' = DOMAIN pairs \ {c}
        /\ \A k \in DOMAIN pairs : k # c => pairs'[k] = pairs[k]
    BY <2>0, WithoutAt
  <2>2. /\ DOMAIN store' = DOMAIN store \ {pairs[c].creator}
        /\ \A q \in DOMAIN store : q # pairs[c].creator => store'[q] = store[q]
    BY <2>0, WithoutAt
  <2>3. CASE p = pairs[c].creator
    BY <2>0, <2>1, <2>2, <2>3 DEF Persisted
  <2>4. CASE p # pairs[c].creator
    BY <2>0, <2>1, <2>2, <2>4 DEF Persisted
  <2> QED
    BY <2>3, <2>4
<1> QED
  BY <1>1, <1>2 DEF Ending

LEMMA PresentStays ==
  ASSUME Types, NEW p \in Players, Present(p), Panels, Placed' \subseteq Placed, UNCHANGED socks,
         app[p].conn \in online => app[p].conn \in online'
  PROVE  Present(p)'
<1>1. CASE app'[p] = app[p]
  BY <1>1 DEF Present, Owner
<1>2. CASE Closes(p)
  BY <1>2 DEF Present, Closes
<1> QED
  BY <1>1, <1>2 DEF Panels

\* Whoever waits with a stake on the table still has its answer.
LEMMA OverAnswers ==
  ASSUME Types, PairsOK, Places, EndsLast, Ending, NEW p \in Players, AppOK(p), Present(p), Persisted(p),
         app[p].open, Answered(p), app'[p] = app[p], online' \subseteq online
  PROVE  Answered(p)'
<1>0. app[p].conn \in {NoConn} \cup Conns
  BY TypesSay DEF Apps
<1>1. CASE Calm
  BY <1>1 DEF Calm, Answered, Box
<1>2. ASSUME NEW c \in DOMAIN pairs, Over(c) PROVE Answered(p)'
  <2>0. /\ pairs' = Without(pairs, c) /\ store' = Without(store, pairs[c].creator)
        /\ owed' = owed
    BY <1>2 DEF Over
  <2>1. /\ DOMAIN pairs' = DOMAIN pairs \ {c}
        /\ DOMAIN store' = DOMAIN store \ {pairs[c].creator}
    BY <2>0, WithoutAt
  <2>2. ASSUME NEW d \in Conns, NEW msg \in EndMsgs, inbox'[d] = Append(inbox[d], msg)
        PROVE  Ended(inbox'[d])
    <3>1. inbox[d] \in Seq(Msgs) /\ msg \in Msgs /\ Ends(msg)
      BY TypesSay, EndIs
    <3>2. /\ inbox'[d] # <<>> /\ Len(inbox'[d]) = Len(inbox[d]) + 1
          /\ inbox'[d][Len(inbox[d]) + 1] = msg
      BY <2>2, <3>1, AppendIs
    <3> QED
      BY <3>1, <3>2 DEF Ended
  <2>3. CASE app[p].conn \in DOMAIN pairs
    <3>1. CASE app[p].conn # c
      BY <2>1, <2>3, <3>1 DEF Answered
    <3>2. CASE app[p].conn = c
      <4>1. c \in Conns /\ Owner(c) = p /\ c # NoConn /\ c \in Placed
        BY <3>2, TypesSay DEF AppOK, Owner, Placed
      <4>2. c \in online
        BY <3>2, <4>1 DEF Present
      <4>3. Reached(c)
        BY <3>2, <4>1, <4>2 DEF Reached
      <4>4. PICK msg \in EndMsgs : inbox'[c] = Append(inbox[c], msg)
        BY <1>2, <4>3 DEF Over
      <4>5. Ended(inbox'[c])
        BY <2>2, <4>1, <4>4
      <4> QED
        BY <3>2, <4>1, <4>5 DEF Answered, Box
    <3> QED
      BY <3>1, <3>2
  <2>4. CASE Ended(Box(p))
    <3>1. app[p].conn \in Conns /\ app[p].conn # NoConn /\ Box(p) = inbox[app[p].conn]
      BY <1>0, <2>4, TypesSay DEF Ended, Box
    <3>2. CASE inbox'[app[p].conn] = inbox[app[p].conn]
      BY <2>4, <3>1, <3>2 DEF Answered, Box
    <3>3. ASSUME NEW msg \in EndMsgs, inbox'[app[p].conn] = Append(inbox[app[p].conn], msg)
          PROVE  Answered(p)'
      BY <2>2, <3>1, <3>3 DEF Answered, Box
    <3> QED
      BY <1>2, <3>1, <3>2, <3>3 DEF Over
  <2>5. CASE app[p].conn \notin online /\ p \in owed \cup DOMAIN store
    <3>1. \A k \in Placed : Owner(k) # p
      BY <2>5 DEF Present
    <3>2. pairs[c].creator # p
      BY <3>1, PairIs DEF Placed
    <3> QED
      BY <2>0, <2>1, <2>5, <3>2 DEF Answered
  <2> QED
    BY <2>3, <2>4, <2>5 DEF Answered
<1> QED
  BY <1>1, <1>2 DEF Ending

LEMMA OverKeeps ==
  ASSUME IInv, Ending, Panels, SameFaults, UNCHANGED <<socks, asking, keys, matches>>,
         waiting' \subseteq waiting, online' \subseteq online, txs' \subseteq txs,
         \A p \in Players : app[p].conn \in online => app[p].conn \in online'
  PROVE  IInv'
<1>0. /\ Types /\ PairsOK /\ Places /\ EndsLast /\ Told /\ Stakes /\ Keys
      /\ (\A p \in Players : AppOK(p)) /\ (\A tx \in txs : Timely(tx))
  BY DEF IInv
<1>1. /\ pairs' \in Partial(Conns, Pair) /\ store' \in Partial(Players, Kept)
      /\ inbox' \in [Conns -> Seq(Msgs)] /\ UNCHANGED <<owed, recovering>>
      /\ \A c \in DOMAIN pairs' : c \in DOMAIN pairs /\ pairs'[c] = pairs[c]
      /\ Queued' \subseteq Queued /\ Joiners' \subseteq Joiners /\ Placed' \subseteq Placed
  BY EndingIs
<1>2. \A d \in Conns : \/ inbox'[d] = inbox[d]
                       \/ /\ d \in Placed \ Placed' /\ d \notin Queued
                          /\ \E msg \in EndMsgs : inbox'[d] = Append(inbox[d], msg)
  BY EndingIs
<1>3. Types'
  BY <1>0, <1>1 DEF Types, Panels, SameFaults
<1>4. PairsOK'
  BY <1>0, <1>1 DEF PairsOK, Owner
<1>5. Places'
  BY <1>0, <1>1 DEF Places, Waiting
<1>6. Older
  BY <1>0, <1>2, OlderIs
<1>7. EndsLast'
  <2> SUFFICES ASSUME NEW d \in Conns, NEW i \in DOMAIN inbox'[d], Ends(inbox'[d][i])
               PROVE  i = Len(inbox'[d]) /\ d \notin Placed'
    BY DEF EndsLast
  <2>1. CASE inbox'[d] = inbox[d]
    BY <1>0, <1>1, <2>1 DEF EndsLast
  <2>2. ASSUME d \in Placed \ Placed', NEW msg \in EndMsgs, inbox'[d] = Append(inbox[d], msg)
        PROVE  i = Len(inbox'[d]) /\ d \notin Placed'
    <3>1. inbox[d] \in Seq(Msgs) /\ msg \in Msgs
      BY <1>0, TypesSay, EndIs
    <3>2. /\ Len(inbox'[d]) = Len(inbox[d]) + 1 /\ DOMAIN inbox'[d] = DOMAIN inbox[d] \cup {Len(inbox[d]) + 1}
          /\ \A j \in DOMAIN inbox[d] : inbox'[d][j] = inbox[d][j]
      BY <2>2, <3>1, AppendIs
    <3>3. i \notin DOMAIN inbox[d]
      BY <1>0, <2>2, <3>2 DEF EndsLast
    <3> QED
      BY <2>2, <3>2, <3>3
  <2> QED
    BY <1>2, <2>1, <2>2
<1>8. (\A p \in Players : AppOK(p)') /\ (\A tx \in txs' : Timely(tx)')
  BY <1>0, AppsStay
<1>9. Told'
  <2> SUFFICES ASSUME NEW p \in Players \ faults.astray
               PROVE  Persisted(p)' /\ Present(p)' /\ Committed(p)'
    BY DEF Told, SameFaults
  <2>1. Persisted(p) /\ Present(p) /\ Committed(p) /\ AppOK(p)
    BY <1>0 DEF Told
  <2>2. Persisted(p)'
    BY <1>0, <2>1, OverPersists
  <2>3. Present(p)'
    BY <1>0, <1>1, <2>1, PresentStays
  <2>4. CASE Closes(p)
    BY <2>2, <2>3, <2>4 DEF Committed, Closes
  <2>5. CASE app'[p] = app[p] /\ app[p].open
    <3>1. Once(p) /\ (Bound(p) => Answered(p))
      BY <2>1, <2>5 DEF Committed
    <3>2. Once(p)' /\ (Bound(p)' => Bound(p))
      BY <1>0, <1>1, <1>6, <2>1, <2>5, <3>1, OnceStays
    <3>3. Answered(p) => Answered(p)'
      BY <1>0, <2>1, <2>5, OverAnswers
    <3> QED
      BY <2>2, <2>3, <3>1, <3>2, <3>3 DEF Committed
  <2>6. CASE app'[p] = app[p] /\ ~app[p].open
    BY <2>2, <2>3, <2>6 DEF Committed
  <2> QED
    BY <2>4, <2>5, <2>6 DEF Panels
<1>10. Stakes'
  <2>1. Queued \subseteq DOMAIN socks /\ DOMAIN socks \subseteq Conns
    BY <1>0, TypesSay DEF Queued, Waiting, Types
  <2>2. \A c \in Conns \ DOMAIN socks : inbox'[c] = <<>>
    <3>1. Placed \subseteq DOMAIN socks
      BY <1>0, <2>1, PairIs DEF Placed, Joiners
    <3> QED
      BY <1>0, <1>2, <3>1 DEF Stakes
  <2> QED
    BY <1>0, <1>1, <1>6, <2>1, <2>2, StakesKeep DEF SameFaults
<1>11. Keys'
  BY <1>0, <1>6, KeysKeep DEF SameFaults
<1> QED
  BY <1>3, <1>4, <1>5, <1>7, <1>8, <1>9, <1>10, <1>11 DEF IInv

LEMMA Untouched ==
  ASSUME Types
  PROVE  (UNCHANGED app => Panels) /\ (UNCHANGED faults => SameFaults)
BY DEF Types, Panels, SameFaults

LEMMA TimeoutKeeps == ASSUME IInv, NEW c \in Conns, SetupTimeout(c) PROVE IInv'
<1>1. Types /\ PairsOK /\ Places
  BY DEF IInv
<1>2. c \in DOMAIN pairs /\ AbortCashPair(c)
      /\ UNCHANGED <<app, keys, socks, online, asking, waiting, matches, txs, faults>>
  BY DEF SetupTimeout, appvars, queuevars, chainvars
<1>3. Ending
  BY <1>1, <1>2, AbortIs DEF Ending
<1> QED
  BY <1>1, <1>2, <1>3, Untouched, OverKeeps

LEMMA DisconnectKeeps == ASSUME IInv, NEW c \in Conns, Disconnect(c) PROVE IInv'
<1>1. Types /\ PairsOK /\ Places /\ \A p \in Players : AppOK(p)
  BY DEF IInv
<1>2. /\ c \in online /\ app[Owner(c)].conn # c /\ online' = online \ {c}
      /\ RemoveFromCash(c) /\ AbortPairOf(c)
      /\ UNCHANGED <<app, keys, socks, asking, matches, txs, faults>>
  BY DEF Disconnect, appvars, chainvars
<1>3. Ending
  BY <1>1, <1>2, AbortOfIs
<1>4. ASSUME NEW p \in Players, app[p].conn = c PROVE FALSE
  <2>1. c # NoConn
    BY TypesSay, <1>1
  <2>2. AppOK(p)
    BY <1>1
  <2>3. socks[c] = [by |-> p, stake |-> Ask[p][app[p].search]]
    BY <1>4, <2>1, <2>2 DEF AppOK
  <2> QED
    BY <1>2, <1>4, <2>3 DEF Owner
<1>5. waiting' \subseteq waiting
  BY <1>2 DEF RemoveFromCash
<1> QED
  BY <1>1, <1>2, <1>3, <1>4, <1>5, Untouched, OverKeeps

LEMMA SeeJoinedKeeps == ASSUME IInv, NEW m \in DOMAIN matches, SeeJoined(m) PROVE IInv'
<1>1. Types /\ PairsOK /\ Places
  BY DEF IInv
<1>2. /\ \E c \in DOMAIN pairs : ReleasePair(c)
      /\ UNCHANGED <<app, keys, socks, online, asking, waiting, matches, txs, faults>>
  BY DEF SeeJoined, appvars, queuevars
<1>3. Ending
  BY <1>1, <1>2, ReleaseIs DEF Ending
<1> QED
  BY <1>1, <1>2, <1>3, Untouched, OverKeeps

LEMMA CancelKeeps == ASSUME IInv, NEW p \in Players, CashCancel(p) PROVE IInv'
<1>1. Types /\ PairsOK /\ Places
  BY DEF IInv
<1>2. /\ Bail(p, "idle") /\ UNCHANGED <<keys, socks, online, asking, matches, txs, faults>>
      /\ IF Heard(p) THEN RemoveFromCash(app[p].conn) /\ AbortPairOf(app[p].conn)
                     ELSE UNCHANGED <<waiting, pairvars, inbox>>
  BY DEF CashCancel, chainvars
<1>3. Panels
  BY <1>1, <1>2, BailIs DEF Phases
<1>4. waiting' \subseteq waiting /\ Ending
  <2>1. CASE Heard(p)
    BY <1>1, <1>2, <2>1, AbortOfIs DEF RemoveFromCash
  <2>2. CASE ~Heard(p)
    BY <1>2, <2>2 DEF Ending, Calm, pairvars
  <2> QED
    BY <2>1, <2>2
<1> QED
  BY <1>1, <1>2, <1>3, <1>4, Untouched, OverKeeps

\* The receipt of a match the search still waits for.
Made(tx) ==
  /\ tx.kind = "create" /\ tx.mined = "yes" /\ Current(tx)
  /\ app' = [app EXCEPT ![tx.by].created = tx.match] /\ CashCreated(tx.by, tx.match)

\* A receipt that fails the pair, or ends it, or is of an earlier search.
LEMMA ReceiptEnds ==
  ASSUME IInv, NEW tx \in txs, Receipt(tx), ~Made(tx)
  PROVE  IInv'
<1>1. Types /\ PairsOK /\ Places /\ tx.by \in Players /\ faults \in Faults
  BY DEF IInv, Types, Txs
<1>2. /\ tx.mined # "no" /\ txs' \subseteq txs
      /\ UNCHANGED <<keys, matches, socks, online, asking, waiting>>
  BY DEF Receipt, queuevars
<1>3. PICK p \in Players : p = tx.by
  BY <1>1
<1>4. ASSUME CashFailed(p) PROVE Ending
  BY <1>1, <1>4, AbortOfIs DEF CashFailed, Ending, Calm, pairvars
<1>5. ASSUME CashJoined(p) PROVE Ending
  <2>1. CASE UNCHANGED <<pairvars, inbox>>
    BY <2>1 DEF Ending, Calm, pairvars
  <2>2. ASSUME NEW c \in DOMAIN pairs, ReleasePair(c) PROVE Ending
    BY <1>1, <2>2, ReleaseIs DEF Ending
  <2> QED
    BY <1>5, <2>1, <2>2 DEF CashJoined
<1>6. ASSUME UNCHANGED <<pairvars, inbox>> PROVE Ending
  BY <1>6 DEF Ending, Calm, pairvars
<1>7. ASSUME NEW phase \in Phases, Bail(p, phase) PROVE Panels
  BY <1>1, <1>7, BailIs
<1>8. "idle" \in Phases /\ "playing" \in Phases
  BY DEF Phases
<1>9. CASE /\ tx.kind # "cancel" /\ (tx.mined = "reverted" \/ faults.unseen < MaxUnseen)
           /\ faults' = IF tx.mined = "yes" THEN [faults EXCEPT !.unseen = @ + 1] ELSE faults
           /\ IF Current(tx) THEN CashFailed(tx.by) /\ Bail(tx.by, "idle")
                             ELSE UNCHANGED <<pairvars, inbox, app>>
  <2>1. SameFaults
    BY <1>1, <1>9 DEF SameFaults, Faults
  <2>2. Ending /\ Panels
    BY <1>1, <1>3, <1>4, <1>6, <1>7, <1>8, <1>9, Untouched
  <2> QED
    BY <1>2, <2>1, <2>2, OverKeeps
<1>10. CASE /\ tx.kind = "join" /\ tx.mined = "yes"
            /\ IF Current(tx) THEN CashJoined(tx.by) ELSE UNCHANGED <<pairvars, inbox>>
            /\ Bail(tx.by, "playing") /\ UNCHANGED faults
  <2>1. Ending /\ Panels /\ SameFaults
    BY <1>1, <1>3, <1>5, <1>6, <1>7, <1>8, <1>10, Untouched
  <2> QED
    BY <1>2, <2>1, OverKeeps
<1>11. CASE /\ tx.kind = "cancel"
            /\ IF Current(tx) THEN Bail(tx.by, "idle") ELSE UNCHANGED app
            /\ UNCHANGED <<pairvars, inbox, faults>>
  <2>1. Ending /\ Panels /\ SameFaults
    BY <1>1, <1>3, <1>6, <1>7, <1>8, <1>11, Untouched
  <2> QED
    BY <1>2, <2>1, OverKeeps
<1>12. CASE /\ tx.kind = "create" /\ tx.mined = "yes" /\ ~Current(tx)
            /\ UNCHANGED <<app, pairvars, inbox, faults>>
  <2>1. Ending /\ Panels /\ SameFaults
    BY <1>1, <1>6, <1>12, Untouched
  <2> QED
    BY <1>2, <2>1, OverKeeps
<1> QED
  BY <1>9, <1>10, <1>11, <1>12 DEF Receipt, Made

-----------------------------------------------------------------------------
(* Steps that send nothing and end no pair.                                *)

LEMMA QuietKeeps ==
  ASSUME IInv, UNCHANGED <<socks, inbox, txs, matches, keys>>, Types', Places', Told',
         Queued' \subseteq Queued, Joiners' \subseteq Joiners,
         \A c \in DOMAIN pairs' : c \in DOMAIN pairs /\ pairs'[c] = pairs[c],
         \A p \in Players : AppOK(p)' /\ app'[p].search = app[p].search,
         faults'.told = faults.told, faults'.stray = faults.stray
  PROVE  IInv'
<1>0. /\ Types /\ PairsOK /\ Places /\ EndsLast /\ Stakes /\ Keys
      /\ (\A p \in Players : AppOK(p)) /\ (\A tx \in txs : Timely(tx))
  BY DEF IInv
<1>1. PairsOK'
  BY <1>0 DEF PairsOK, Owner
<1>2. EndsLast'
  BY <1>0 DEF EndsLast, Placed
<1>3. \A tx \in txs' : Timely(tx)'
  BY <1>0 DEF Timely, Types, Txs
<1>4. Older
  BY <1>0, OlderIs
<1>5. Keys'
  BY <1>0, <1>4, KeysKeep
<1>6. Stakes'
  <2>1. Queued \subseteq DOMAIN socks /\ DOMAIN socks \subseteq Conns
    BY <1>0, TypesSay DEF Queued, Waiting, Types
  <2>2. \A c \in Conns \ DOMAIN socks : inbox'[c] = <<>>
    BY <1>0 DEF Stakes
  <2> QED
    BY <1>0, <1>4, <2>1, <2>2, StakesKeep
<1> QED
  BY <1>1, <1>2, <1>3, <1>5, <1>6 DEF IInv

\* One who waits longer, or comes to the pool, is still in the queue.
LEMMA QueueKeeps ==
  ASSUME IInv, UNCHANGED <<app, keys, socks, inbox, online, pairs, store, owed, recovering, matches,
                           txs, faults>>,
         waiting' \subseteq Waiter, asking' \subseteq asking, Queued' \subseteq Queued,
         asking' \cap Waiting' = {}, \A v, w \in waiting' : v.conn = w.conn => v = w
  PROVE  IInv'
<1>0. /\ Types /\ Places /\ Told /\ \A p \in Players : AppOK(p)
  BY DEF IInv
<1>1. Joiners' = Joiners
  BY DEF Joiners
<1>2. Types'
  <2>1. \A w \in waiting' : w.conn \in DOMAIN socks
    <3>1. Queued \subseteq DOMAIN socks
      BY <1>0 DEF Types, Queued, Waiting
    <3> QED
      BY <3>1 DEF Queued, Waiting
  <2> QED
    BY <1>0, <2>1 DEF Types
<1>3. Places'
  BY <1>0, <1>1 DEF Places
<1>4. Told'
  <2> SUFFICES ASSUME NEW p \in Players \ faults.astray
               PROVE  Persisted(p)' /\ Present(p)' /\ Committed(p)'
    BY DEF Told
  <2>1. Persisted(p) /\ Present(p) /\ Committed(p) /\ AppOK(p)
    BY <1>0 DEF Told
  <2>2. Persisted(p)' /\ Present(p)'
    BY <1>1, <2>1 DEF Persisted, Present, Placed, Owner
  <2>3. ASSUME app[p].open, Once(p) PROVE Once(p)' /\ (Bound(p)' => Bound(p))
    BY <1>0, <1>1, <2>1, <2>3, OlderIs, OnceStays
  <2>4. Answered(p)' = Answered(p)
    BY DEF Answered, Box
  <2> QED
    BY <2>1, <2>2, <2>3, <2>4 DEF Committed
<1>5. \A p \in Players : AppOK(p)'
  BY <1>0 DEF AppOK
<1> QED
  BY <1>1, <1>2, <1>3, <1>4, <1>5, QuietKeeps

LEMMA TickKeeps == ASSUME IInv, Tick PROVE IInv'
<1>0. Types /\ Places
  BY DEF IInv
<1> DEFINE Aged(w) == [w EXCEPT !.waited = IF @ < MaxWait THEN @ + 1 ELSE @]
<1>1. /\ waiting' = {Aged(w) : w \in waiting}
      /\ UNCHANGED <<app, keys, socks, inbox, online, asking, pairs, store, owed, recovering, matches,
                     txs, faults>>
  BY DEF Tick, appvars, netvars, pairvars, chainvars
<1>2. \A w \in waiting : Aged(w) \in Waiter /\ Aged(w).conn = w.conn
  <2> SUFFICES ASSUME NEW w \in waiting PROVE Aged(w) \in Waiter /\ Aged(w).conn = w.conn
    OBVIOUS
  <2>1. w \in Waiter /\ MaxWait \in Nat
    BY <1>0, PairingAssumption DEF Types
  <2> QED
    BY <2>1 DEF Waiter
<1> HIDE DEF Aged
<1>3. waiting' \subseteq Waiter /\ Waiting' = Waiting
  BY <1>1, <1>2 DEF Waiting
<1>4. \A v, w \in waiting' : v.conn = w.conn => v = w
  <2> SUFFICES ASSUME NEW v \in waiting, NEW w \in waiting, Aged(v).conn = Aged(w).conn
               PROVE  Aged(v) = Aged(w)
    BY <1>1
  <2> QED
    BY <1>0, <1>2 DEF Places
<1> QED
  BY <1>0, <1>1, <1>3, <1>4, QueueKeeps DEF Queued, Places

LEMMA EnqueueAloneKeeps ==
  ASSUME IInv, NEW c \in asking, asking' = asking \ {c},
         waiting' = waiting \cup {[conn |-> c, waited |-> 0]},
         UNCHANGED <<app, keys, socks, inbox, online, pairs, store, owed, recovering, matches, txs,
                     faults>>
  PROVE  IInv'
<1>0. Types /\ Places
  BY DEF IInv
<1>1. PICK w : w = [conn |-> c, waited |-> 0]
  OBVIOUS
<1>2. w \in Waiter /\ w.conn = c
  BY <1>0, <1>1, TypesSay, PairingAssumption DEF Types, Waiter
<1>3. waiting' = waiting \cup {w} /\ Waiting' = Waiting \cup {c}
  BY <1>1, <1>2 DEF Waiting
<1>4. c \notin Waiting
  BY <1>0 DEF Places
<1>5. \A u, v \in waiting' : u.conn = v.conn => u = v
  BY <1>0, <1>2, <1>3, <1>4 DEF Places, Waiting
<1>6. asking' \cap Waiting' = {} /\ Queued' \subseteq Queued
  BY <1>0, <1>3 DEF Places, Queued
<1>7. waiting' \subseteq Waiter
  BY <1>0, <1>2, <1>3 DEF Types
<1> QED
  BY <1>5, <1>6, <1>7, QueueKeeps

\* The app loses its connection, and the server does not know, or was away.
LEMMA LostKeeps ==
  ASSUME IInv, NEW p \in Players, app' = [app EXCEPT ![p].conn = NoConn],
         UNCHANGED <<keys, socks, inbox, online, asking, waiting, pairs, store, owed, recovering,
                     matches, txs>>,
         faults' \in Faults, faults'.told = faults.told, faults'.stray = faults.stray,
         faults.astray \subseteq faults'.astray,
         p \notin faults'.astray => app[p].conn \notin online /\ Box(p) = <<>>
  PROVE  IInv'
<1>0. /\ Types /\ PairsOK /\ Places /\ Told /\ \A q \in Players : AppOK(q)
  BY DEF IInv
<1>1. /\ app'[p] \in Apps /\ app'[p].open = app[p].open /\ app'[p].conn = NoConn
      /\ app'[p].search = app[p].search /\ app'[p].created = app[p].created
      /\ app' \in [Players -> Apps] /\ \A q \in Players : q # p => app'[q] = app[q]
  <2>1. app[p] \in Apps /\ app \in [Players -> Apps]
    BY <1>0 DEF Types
  <2> QED
    BY <2>1 DEF Apps
<1>2. Queued' = Queued /\ Joiners' = Joiners /\ Placed' = Placed
  BY DEF Queued, Waiting, Joiners, Placed
<1>3. Types' /\ Places'
  BY <1>0, <1>1, <1>2 DEF Types, Places, Waiting
<1>4. \A q \in Players : AppOK(q)' /\ app'[q].search = app[q].search
  BY <1>0, <1>1 DEF AppOK
<1>5. Told'
  <2> SUFFICES ASSUME NEW q \in Players \ faults'.astray
               PROVE  Persisted(q)' /\ Present(q)' /\ Committed(q)'
    BY DEF Told
  <2>1. Persisted(q) /\ Present(q) /\ Committed(q) /\ AppOK(q)
    BY <1>0 DEF Told
  <2>2. Persisted(q)'
    BY <2>1 DEF Persisted
  <2>3. CASE q # p
    <3>1. Present(q)'
      BY <1>1, <1>2, <2>1, <2>3 DEF Present, Owner
    <3>2. ASSUME app[q].open, Once(q) PROVE Once(q)' /\ (Bound(q)' => Bound(q))
      BY <1>0, <1>1, <1>2, <2>1, <2>3, <3>2, OlderIs, OnceStays
    <3>3. Answered(q)' = Answered(q)
      BY <1>1, <2>3 DEF Answered, Box
    <3> QED
      BY <1>1, <2>1, <2>2, <2>3, <3>1, <3>2, <3>3 DEF Committed
  <2>4. CASE q = p
    <3>1. app[p].conn \notin online /\ Box(p) = <<>>
      BY <2>4
    <3>2. Present(p)'
      BY <1>1, <1>2, <2>1, <2>4, <3>1 DEF Present, Owner
    <3>3. Box(p)' = <<>> /\ Making(p)' = Making(p)
      BY <1>1 DEF Box, Making
    <3>4. Bound(p)' => Bound(p)
      BY <1>1, <3>3, EmptyIs DEF Bound, ToCreate
    <3>5. NoConn \notin (Queued \cup Joiners)
      <4>1. Queued \subseteq Conns /\ Joiners \subseteq Conns /\ NoConn \notin Conns
        BY <1>0, TypesSay, PairIs DEF Queued, Waiting, Joiners, Types
      <4> QED
        BY <4>1
    <3>6. Once(p) => Once(p)'
      BY <1>1, <1>2, <3>1, <3>3, <3>5, EmptyIs DEF Once, ToCreate
    <3>7. ASSUME app[p].open, Answered(p) PROVE Answered(p)'
      <4>1. ~Ended(Box(p))
        BY <3>1 DEF Ended
      <4>2. ASSUME app[p].conn \in DOMAIN pairs PROVE FALSE
        <5>1. app[p].conn \in Placed /\ app[p].conn # NoConn
          BY <1>0, <4>2, TypesSay DEF Placed
        <5>2. socks[app[p].conn] = [by |-> p, stake |-> Ask[p][app[p].search]]
          BY <2>1, <2>4, <5>1 DEF AppOK
        <5> QED
          BY <2>1, <2>4, <3>1, <3>7, <5>1, <5>2 DEF Present, Owner
      <4>3. p \in owed \cup DOMAIN store
        BY <3>7, <4>1, <4>2 DEF Answered
      <4>4. NoConn \notin online
        BY <1>0, TypesSay DEF Types
      <4> QED
        BY <1>1, <4>3, <4>4 DEF Answered
    <3> QED
      BY <1>1, <2>1, <2>2, <2>4, <3>2, <3>4, <3>6, <3>7 DEF Committed
  <2> QED
    BY <2>3, <2>4
<1> QED
  BY <1>2, <1>3, <1>4, <1>5, QuietKeeps

LEMMA FaultsAre ==
  ASSUME faults \in Faults, NEW a \in SUBSET Players,
         \/ faults' = [faults EXCEPT !.drops = @ + 1, !.astray = a]
         \/ faults' = [faults EXCEPT !.restarts = @ + 1, !.astray = a]
         \/ faults' = [faults EXCEPT !.astray = a]
  PROVE  /\ faults' \in Faults /\ faults'.told = faults.told /\ faults'.stray = faults.stray
         /\ faults'.astray = a
<1>1. PICK d \in Nat, r \in Nat : d = faults.drops + 1 /\ r = faults.restarts + 1
  BY DEF Faults
<1>2. CASE faults' = [faults EXCEPT !.drops = d, !.astray = a]
  BY <1>2 DEF Faults
<1>3. CASE faults' = [faults EXCEPT !.restarts = r, !.astray = a]
  BY <1>3 DEF Faults
<1>4. CASE faults' = [faults EXCEPT !.astray = a]
  BY <1>4 DEF Faults
<1> QED
  BY <1>1, <1>2, <1>3, <1>4

LEMMA DropKeeps == ASSUME IInv, NEW p \in Players, Drop(p) PROVE IInv'
<1>1. faults \in Faults
  BY DEF IInv, Types
<1>2. /\ app' = [app EXCEPT ![p].conn = NoConn]
      /\ faults' = [faults EXCEPT !.drops = @ + 1, !.astray = @ \cup {p}]
      /\ UNCHANGED <<keys, socks, inbox, online, asking, waiting, pairs, store, owed, recovering,
                     matches, txs>>
  BY DEF Drop, netvars, queuevars, pairvars, chainvars
<1>3. faults' \in Faults /\ faults'.told = faults.told /\ faults'.stray = faults.stray
      /\ faults'.astray = faults.astray \cup {p}
  <2>1. faults.astray \cup {p} \in SUBSET Players
    BY <1>1 DEF Faults
  <2> QED
    BY <1>1, <1>2, <2>1, FaultsAre
<1> QED
  BY <1>2, <1>3, LostKeeps

LEMMA NoticeKeeps == ASSUME IInv, NEW p \in Players, Notice(p) PROVE IInv'
<1>1. faults \in Faults
  BY DEF IInv, Types
<1>2. /\ app[p].conn \notin online \cup {NoConn} /\ inbox[app[p].conn] = <<>>
      /\ app' = [app EXCEPT ![p].conn = NoConn]
      /\ UNCHANGED <<keys, socks, inbox, online, asking, waiting, pairs, store, owed, recovering,
                     matches, txs, faults>>
  BY DEF Notice, netvars, queuevars, pairvars, chainvars
<1>3. Box(p) = <<>>
  BY <1>2 DEF Box
<1> QED
  BY <1>1, <1>2, <1>3, LostKeeps

LEMMA RecoverKeeps == ASSUME IInv, NEW p \in Players, Recover(p) PROVE IInv'
<1>0. /\ Types /\ PairsOK /\ Places /\ Told /\ \A q \in Players : AppOK(q)
  BY DEF IInv
<1>1. /\ p \in DOMAIN recovering /\ owed' = owed \cup {p, recovering[p].joiner}
      /\ recovering' = Without(recovering, p) /\ store' = Without(store, p)
      /\ UNCHANGED <<app, keys, socks, inbox, online, asking, waiting, pairs, matches, txs, faults>>
  BY DEF Recover, appvars, netvars, queuevars, chainvars
<1>2. /\ DOMAIN recovering' = DOMAIN recovering \ {p} /\ DOMAIN store' = DOMAIN store \ {p}
      /\ \A q \in DOMAIN store : q # p => store'[q] = store[q]
  BY <1>1, WithoutAt
<1>3. Types'
  <2>1. recovering[p].joiner \in Players
    BY <1>0, <1>1, TypesSay DEF Kept
  <2>2. store \in Partial(Players, Kept) /\ recovering \in Partial(Players, Kept)
    BY <1>0 DEF Types
  <2>3. store' \in Partial(Players, Kept)
    BY <1>1, <2>2, WithoutIs
  <2>4. recovering' \in Partial(Players, Kept)
    BY <1>1, <2>2, WithoutIs
  <2> QED
    BY <1>0, <1>1, <2>1, <2>3, <2>4 DEF Types
<1>4. Queued' = Queued /\ Joiners' = Joiners /\ Placed' = Placed
  BY <1>1 DEF Queued, Waiting, Joiners, Placed
<1>5. Places'
  BY <1>0, <1>1, <1>4 DEF Places, Waiting
<1>6. Told'
  <2> SUFFICES ASSUME NEW q \in Players \ faults.astray
               PROVE  Persisted(q)' /\ Present(q)' /\ Committed(q)'
    BY <1>1 DEF Told
  <2>1. Persisted(q) /\ Present(q) /\ Committed(q) /\ AppOK(q)
    BY <1>0 DEF Told
  <2>2. Persisted(q)'
    BY <1>1, <1>2, <2>1 DEF Persisted
  <2>3. Present(q)'
    BY <1>1, <1>4, <2>1 DEF Present, Owner
  <2>4. ASSUME app[q].open, Once(q) PROVE Once(q)' /\ (Bound(q)' => Bound(q))
    BY <1>0, <1>1, <1>4, <2>1, <2>4, OlderIs, OnceStays
  <2>5. Answered(q) => Answered(q)'
    BY <1>1, <1>2 DEF Answered, Box
  <2> QED
    BY <1>1, <2>1, <2>2, <2>3, <2>4, <2>5 DEF Committed
<1>7. \A q \in Players : AppOK(q)' /\ app'[q].search = app[q].search
  BY <1>0, <1>1 DEF AppOK
<1> QED
  BY <1>1, <1>3, <1>4, <1>5, <1>6, <1>7, QuietKeeps

LEMMA RestartKeeps == ASSUME IInv, Restart PROVE IInv'
<1>0. /\ Types /\ PairsOK /\ Places /\ Told /\ \A q \in Players : AppOK(q)
  BY DEF IInv
<1>1. /\ online' = {} /\ asking' = {} /\ waiting' = {} /\ pairs' = <<>> /\ owed' = {}
      /\ recovering' = store
      /\ faults' = [faults EXCEPT !.restarts = @ + 1, !.astray = @ \cup owed]
      /\ UNCHANGED <<app, keys, socks, inbox, store, matches, txs>>
  BY DEF Restart, appvars, chainvars
<1>2. /\ faults' \in Faults /\ faults'.told = faults.told /\ faults'.stray = faults.stray
      /\ faults'.astray = faults.astray \cup owed
  <2>1. faults.astray \cup owed \in SUBSET Players /\ faults \in Faults
    BY <1>0 DEF Types, Faults
  <2> QED
    BY <1>1, <2>1, FaultsAre
<1>3. pairs' \in Partial(Conns, Pair) /\ DOMAIN pairs' = {}
  BY <1>1, EmptyIs
<1>4. Queued' = {} /\ Joiners' = {} /\ Placed' = {}
  BY <1>1, <1>3 DEF Queued, Waiting, Joiners, Placed
<1>5. Types' /\ Places'
  BY <1>0, <1>1, <1>2, <1>3, <1>4 DEF Types, Places, Waiting
<1>6. Told'
  <2> SUFFICES ASSUME NEW q \in Players \ faults'.astray
               PROVE  Persisted(q)' /\ Present(q)' /\ Committed(q)'
    BY DEF Told
  <2>1. Persisted(q) /\ Present(q) /\ Committed(q) /\ AppOK(q) /\ q \notin owed
    BY <1>0, <1>2 DEF Told
  <2>2. Persisted(q)'
    BY <1>1, <1>3 DEF Persisted
  <2>3. Present(q)'
    BY <1>4 DEF Present
  <2>4. ASSUME app[q].open, Once(q) PROVE Once(q)' /\ (Bound(q)' => Bound(q))
    BY <1>0, <1>1, <1>4, <2>1, <2>4, OlderIs, OnceStays
  <2>5. ASSUME Answered(q) PROVE Answered(q)'
    <3>1. CASE app[q].conn \in DOMAIN pairs
      <4>1. app[q].conn # NoConn
        BY <1>0, <3>1, TypesSay
      <4>2. socks[app[q].conn] = [by |-> q, stake |-> Ask[q][app[q].search]]
        BY <2>1, <4>1 DEF AppOK
      <4>3. pairs[app[q].conn].creator = q
        BY <1>0, <3>1, <4>2, PairIs DEF Owner
      <4>4. q \in DOMAIN store
        BY <2>1, <3>1, <4>3 DEF Persisted
      <4> QED
        BY <1>1, <4>4 DEF Answered
    <3>2. CASE Ended(Box(q))
      BY <1>1, <3>2 DEF Answered, Box
    <3>3. CASE q \in DOMAIN store
      BY <1>1, <3>3 DEF Answered
    <3> QED
      BY <2>1, <2>5, <3>1, <3>2, <3>3 DEF Answered
  <2> QED
    BY <1>1, <2>1, <2>2, <2>3, <2>4, <2>5 DEF Committed
<1>7. \A q \in Players : AppOK(q)' /\ app'[q].search = app[q].search
  BY <1>0, <1>1 DEF AppOK
<1> QED
  BY <1>1, <1>2, <1>3, <1>4, <1>5, <1>6, <1>7, QuietKeeps

-----------------------------------------------------------------------------
(* A connection opens.                                                     *)

LEMMA ConnectKeeps == ASSUME IInv, NEW p \in Players, Connect(p) PROVE IInv'
<1>0. /\ Types /\ PairsOK /\ Places /\ EndsLast /\ Told /\ Stakes /\ Keys
      /\ (\A q \in Players : AppOK(q)) /\ (\A tx \in txs : Timely(tx))
  BY DEF IInv
<1> PICK c : c = Len(socks) + 1
  OBVIOUS
<1> PICK s, cr : s = app'[p].search /\ cr = app'[p].created
  OBVIOUS
<1> DEFINE Lost == p \in UNION {{q, recovering[q].joiner} : q \in DOMAIN recovering}
<1>1. /\ c <= MaxConns /\ app[p].conn = NoConn /\ (Search(p) \/ Reconnect(p))
      /\ socks' = Append(socks, [by |-> p, stake |-> Ask[p][s]])
      /\ online' = online \cup {c}
      /\ UNCHANGED <<keys, waiting, pairs, store, recovering, matches, txs>>
  BY DEF Connect, CashQueue, chainvars
<1>2. \/ p \in owed /\ owed' = owed \ {p} /\ inbox' = [inbox EXCEPT ![c] = <<[t |-> "abort"]>>]
         /\ asking' = asking
      \/ p \notin owed /\ asking' = asking \cup {c} /\ owed' = owed /\ inbox' = inbox
  BY DEF Connect, CashQueue
<1>3. /\ faults' \in Faults /\ faults'.told = faults.told /\ faults'.stray = faults.stray
      /\ faults.astray \subseteq faults'.astray /\ (Lost => p \in faults'.astray)
  <2>1. faults' = IF Lost THEN [faults EXCEPT !.astray = @ \cup {p}] ELSE faults
    BY DEF Connect, CashQueue
  <2>2. faults \in Faults /\ faults.astray \cup {p} \in SUBSET Players
    BY <1>0 DEF Types, Faults
  <2>3. CASE Lost
    BY <2>1, <2>2, <2>3, FaultsAre
  <2>4. CASE ~Lost
    BY <2>1, <2>2, <2>4
  <2> QED
    BY <2>3, <2>4
<1>4. /\ c \in Conns /\ c \notin DOMAIN socks /\ c # NoConn /\ inbox[c] = <<>>
      /\ inbox[c] \in Seq(Msgs)
  BY <1>0, <1>1, TypesSay DEF Conns, NoConn, Stakes
<1>5. /\ app'[p] \in Apps /\ app'[p].open /\ app'[p].conn = c /\ s \in Nat /\ s >= 1
      /\ s <= Len(Ask[p]) /\ cr \in Nat /\ cr <= Len(matches) /\ s >= app[p].search
      /\ app' \in [Players -> Apps] /\ \A q \in Players : q # p => app'[q] = app[q]
      /\ \/ s > app[p].search /\ cr = NoMatch
         \/ app[p].open /\ s = app[p].search /\ cr = app[p].created
  <2>1. /\ app \in [Players -> Apps] /\ app[p] \in Apps /\ AppOK(p) /\ Len(matches) \in Nat
        /\ Ask[p] \in Seq(Nat \ {0})
    BY <1>0, TypesSay, PairingAssumption DEF Types
  <2>2. CASE Search(p)
    <3>1. PICK n \in Nat : n = app[p].search + 1
      BY <2>1 DEF Apps
    <3>2. PICK a : a = [open |-> TRUE, conn |-> c, search |-> n, phase |-> "searching",
                        created |-> NoMatch]
      OBVIOUS
    <3>3. app' = [app EXCEPT ![p] = a] /\ app[p].search < Len(Ask[p])
      <4>1. app' = [app EXCEPT ![p] = [open |-> TRUE, conn |-> c, search |-> n,
                                       phase |-> "searching", created |-> NoMatch]]
        BY <2>2, <3>1 DEF Search
      <4> QED
        BY <2>2, <3>2, <4>1 DEF Search
    <3>4. a \in Apps
      BY <1>4, <3>2 DEF Apps, Phases, NoMatch
    <3>5. app'[p] = a /\ app' \in [Players -> Apps] /\ \A q \in Players : q # p => app'[q] = app[q]
      BY <2>1, <3>3, <3>4
    <3>6. s = n /\ cr = NoMatch /\ a.open /\ a.conn = c
      BY <3>2, <3>5
    <3> QED
      BY <2>1, <3>1, <3>3, <3>4, <3>5, <3>6 DEF Apps, NoMatch
  <2>3. CASE Reconnect(p)
    <3>1. app' = [app EXCEPT ![p] = [app[p] EXCEPT !.conn = c]] /\ app[p].open
      BY <2>3 DEF Reconnect
    <3>2. PICK a : a = [app[p] EXCEPT !.conn = c]
      OBVIOUS
    <3>3. /\ a \in Apps /\ a.open = app[p].open /\ a.conn = c /\ a.search = app[p].search
          /\ a.created = app[p].created
      BY <1>4, <2>1, <3>2 DEF Apps
    <3>4. app'[p] = a /\ app' \in [Players -> Apps] /\ \A q \in Players : q # p => app'[q] = app[q]
      BY <2>1, <3>1, <3>2, <3>3
    <3>5. app[p].search \in Nat /\ app[p].created \in Nat /\ app[p].created <= Len(matches)
          /\ app[p].search >= 1 /\ app[p].search <= Len(Ask[p])
      BY <2>1, <3>1 DEF AppOK, Apps
    <3> QED
      BY <2>1, <3>1, <3>3, <3>4, <3>5
  <2> QED
    BY <1>1, <2>2, <2>3
<1>6. /\ socks' \in Seq(Sock) /\ Len(socks') <= MaxConns /\ DOMAIN socks' = DOMAIN socks \cup {c}
      /\ socks'[c] = [by |-> p, stake |-> Ask[p][s]]
      /\ \A d \in DOMAIN socks : socks'[d] = socks[d]
  <2>1. Ask[p] \in Seq(Nat \ {0})
    BY PairingAssumption
  <2>2. Ask[p][s] \in Nat
    BY <1>5, <2>1
  <2>3. [by |-> p, stake |-> Ask[p][s]] \in Sock
    BY <2>2 DEF Sock
  <2>4. socks \in Seq(Sock)
    BY <1>0 DEF Types
  <2> QED
    BY <1>1, <2>3, <2>4, AppendIs
<1>7. /\ inbox' \in [Conns -> Seq(Msgs)] /\ \A d \in Conns : d # c => inbox'[d] = inbox[d]
      /\ \/ p \in owed /\ inbox'[c] = <<[t |-> "abort"]>>
         \/ p \notin owed /\ inbox'[c] = <<>>
  <2>1. [t |-> "abort"] \in EndMsgs
    BY DEF EndMsgs
  <2>2. <<[t |-> "abort"]>> \in Seq(Msgs)
    BY <2>1, EndIs
  <2>3. inbox \in [Conns -> Seq(Msgs)]
    BY <1>0 DEF Types
  <2> QED
    BY <1>2, <1>4, <2>2, <2>3
<1>8. Older /\ \A i \in DOMAIN inbox'[c] : Ends(inbox'[c][i]) /\ i = Len(inbox'[c])
  <2>1. \A i \in DOMAIN inbox'[c] : Ends(inbox'[c][i]) /\ i = Len(inbox'[c])
    <3>1. PICK end : end = [t |-> "abort"]
      OBVIOUS
    <3>2. Ends(end)
      BY <3>1 DEF Ends
    <3>3. CASE inbox'[c] = <<end>>
      BY <3>2, <3>3
    <3>4. CASE inbox'[c] = <<>>
      BY <3>4, EmptyIs
    <3> QED
      BY <1>7, <3>1, <3>3, <3>4
  <2> QED
    BY <1>7, <2>1 DEF Older
<1>9. /\ Joiners' = Joiners /\ Waiting' = Waiting /\ Queued \subseteq Queued'
      /\ Queued' \subseteq Queued \cup {c} /\ (p \in owed => Queued' = Queued)
      /\ c \notin Placed /\ Placed \subseteq DOMAIN socks /\ Queued \subseteq DOMAIN socks
      /\ Placed' \subseteq Placed \cup {c} /\ (p \in owed => Placed' = Placed)
  <2>1. Joiners' = Joiners /\ Waiting' = Waiting
    BY <1>1 DEF Joiners, Waiting
  <2>2. Placed \subseteq DOMAIN socks /\ Queued \subseteq DOMAIN socks
    BY <1>0, PairIs DEF Placed, Queued, Waiting, Joiners, Types
  <2> QED
    BY <1>1, <1>2, <1>4, <2>1, <2>2 DEF Queued, Placed
<1>10. Types'
  <2>1. /\ online' \subseteq DOMAIN socks' /\ asking' \subseteq DOMAIN socks' /\ owed' \subseteq Players
        /\ \A w \in waiting' : w.conn \in DOMAIN socks'
    BY <1>0, <1>1, <1>2, <1>6 DEF Types
  <2> QED
    BY <1>0, <1>1, <1>3, <1>5, <1>6, <1>7, <2>1 DEF Types
<1>11. PairsOK'
  BY <1>0, <1>1, <1>6 DEF PairsOK, Owner
<1>12. Places'
  <2>1. asking' \cap Waiting' = {}
    BY <1>0, <1>2, <1>9 DEF Places, Queued
  <2>2. Queued' \cap (DOMAIN pairs' \cup Joiners') = {}
    BY <1>0, <1>1, <1>9 DEF Places, Placed
  <2> QED
    BY <1>0, <1>1, <1>9, <2>1, <2>2 DEF Places
<1>13. EndsLast'
  <2> SUFFICES ASSUME NEW d \in Conns, NEW i \in DOMAIN inbox'[d], Ends(inbox'[d][i])
               PROVE  i = Len(inbox'[d]) /\ d \notin Placed'
    BY DEF EndsLast
  <2>1. CASE d = c
    BY <1>4, <1>7, <1>8, <1>9, <2>1, EmptyIs
  <2>2. CASE d # c
    BY <1>0, <1>7, <1>9, <2>2 DEF EndsLast
  <2> QED
    BY <2>1, <2>2
<1>14. \A q \in Players : AppOK(q)'
  <2> SUFFICES ASSUME NEW q \in Players PROVE AppOK(q)'
    OBVIOUS
  <2>1. CASE q = p
    BY <1>1, <1>5, <1>6, <2>1 DEF AppOK
  <2>2. CASE q # p
    <3>1. AppOK(q) /\ app'[q] = app[q] /\ matches' = matches
      BY <1>0, <1>1, <1>5, <2>2
    <3> QED
      BY <1>6, <3>1 DEF AppOK
  <2> QED
    BY <2>1, <2>2
<1>15. \A tx \in txs' : Timely(tx)'
  <2> SUFFICES ASSUME NEW tx \in txs PROVE Timely(tx)'
    BY <1>1
  <2>1. /\ Timely(tx) /\ tx.by \in Players /\ tx.search \in Nat
        /\ app[tx.by].search \in Nat /\ app'[tx.by].search \in Nat
    BY <1>0, <1>10, TypesSay DEF Types, Txs, Apps
  <2>2. app[tx.by].search <= app'[tx.by].search
    BY <1>5, <2>1
  <2> QED
    BY <1>1, <2>1, <2>2 DEF Timely
<1>16. ASSUME NEW q \in Players \ faults'.astray, q # p
       PROVE  Persisted(q)' /\ Present(q)' /\ Committed(q)'
  <2>1. Persisted(q) /\ Present(q) /\ Committed(q) /\ AppOK(q) /\ app'[q] = app[q]
    BY <1>0, <1>3, <1>5, <1>16 DEF Told
  <2>2. Persisted(q)'
    BY <1>1, <2>1 DEF Persisted
  <2>3. app[q].conn # c /\ app[q].conn \in {NoConn} \cup Conns
    BY <1>0, <1>4, <2>1, TypesSay DEF AppOK, Apps
  <2>4. Present(q)'
    BY <1>1, <1>6, <1>9, <1>16, <2>1 DEF Present, Owner
  <2>5. ASSUME app[q].open, Once(q) PROVE Once(q)' /\ (Bound(q)' => Bound(q))
    BY <1>0, <1>1, <1>8, <1>9, <2>1, <2>3, <2>5, OnceStays
  <2>6. Answered(q) => Answered(q)'
    BY <1>1, <1>2, <1>7, <1>16, <2>1, <2>3 DEF Answered, Box
  <2> QED
    BY <2>1, <2>2, <2>4, <2>5, <2>6 DEF Committed
<1>17. ASSUME p \notin faults'.astray PROVE Persisted(p)' /\ Present(p)' /\ Committed(p)'
  <2>1. Persisted(p) /\ Present(p) /\ Committed(p) /\ AppOK(p) /\ ~Lost
    BY <1>0, <1>3, <1>17 DEF Told
  <2>2. Persisted(p)'
    BY <1>1, <2>1 DEF Persisted
  <2>3. Present(p)'
    BY <1>1, <1>5 DEF Present
  <2>4. Box(p)' = inbox'[c] /\ ~ToCreate(p)' /\ ~ToCreate(p)
        /\ \A i \in DOMAIN Box(p)' : ~Creates(Box(p)'[i])
    <3>1. Box(p)' = inbox'[c]
      BY <1>4, <1>5 DEF Box
    <3>2. \A i \in DOMAIN inbox'[c] : ~Creates(inbox'[c][i])
      BY <1>8, EndsAre
    <3>3. ~ToCreate(p)
      BY <1>1, EmptyIs DEF ToCreate, Box
    <3> QED
      BY <3>1, <3>2, <3>3 DEF ToCreate
  <2>5. p \in owed => Ended(Box(p)')
    BY <1>7, <2>4 DEF Ended, Ends
  <2>6. c \in (Queued \cup Joiners)' => p \notin owed
    BY <1>4, <1>9 DEF Placed
  <2>7. CASE s > app[p].search /\ cr = NoMatch
    <3>1. Making(p)' = {}
      <4> SUFFICES ASSUME NEW tx \in txs, tx.by = p PROVE tx.search # app'[p].search
        BY <1>1 DEF Making
      <4>1. Timely(tx) /\ tx.search \in Nat /\ app[p].search \in Nat
        BY <1>0, TypesSay DEF Types, Txs, Apps
      <4> QED
        BY <1>5, <2>7, <4>1 DEF Timely
    <3>2. ~Bound(p)'
      BY <2>4, <2>7, <3>1 DEF Bound
    <3>3. Once(p)'
      BY <2>4, <2>7, <3>1, <3>2 DEF Once
    <3> QED
      BY <2>2, <2>3, <3>2, <3>3 DEF Committed
  <2>8. CASE app[p].open /\ s = app[p].search /\ cr = app[p].created
    <3>1. Once(p) /\ (Bound(p) => Answered(p))
      BY <2>1, <2>8 DEF Committed
    <3>2. Making(p)' = Making(p)
      BY <1>1, <2>8 DEF Making
    <3>3. Bound(p)' => Bound(p)
      BY <2>4, <2>8, <3>2 DEF Bound
    <3>4. ASSUME Bound(p) PROVE p \in owed
      <4>1. NoConn \notin DOMAIN pairs /\ NoConn \notin online
        BY <1>0, TypesSay DEF Types
      <4>2. ~Ended(Box(p))
        BY <1>1 DEF Box, Ended
      <4>3. p \in owed \cup DOMAIN store
        BY <1>1, <3>1, <3>4, <4>1, <4>2 DEF Answered
      <4>4. ASSUME p \in DOMAIN store PROVE FALSE
        <5>1. p \notin DOMAIN recovering
          BY <2>1
        <5>2. PICK k \in DOMAIN pairs : pairs[k].creator = p
          BY <2>1, <4>4, <5>1 DEF Persisted
        <5>3. k \in Placed /\ Owner(k) = p
          BY <1>0, <5>2, PairIs DEF Placed
        <5> QED
          BY <1>1, <2>1, <2>8, <4>1, <5>3 DEF Present
      <4> QED
        BY <4>3, <4>4
    <3>5. Once(p)'
      BY <1>5, <2>4, <2>6, <2>8, <3>1, <3>2, <3>3, <3>4 DEF Once
    <3>6. Bound(p)' => Answered(p)'
      BY <2>5, <3>3, <3>4 DEF Answered
    <3> QED
      BY <2>2, <2>3, <3>5, <3>6 DEF Committed
  <2> QED
    BY <1>5, <2>7, <2>8
<1>18. Told'
  BY <1>16, <1>17 DEF Told
<1>19. Stakes'
  <2>1. DOMAIN socks' \subseteq Conns /\ Queued' \subseteq DOMAIN socks'
        /\ \A d \in Queued' : d \in Queued \/ d \notin DOMAIN socks
    BY <1>0, <1>4, <1>6, <1>9, TypesSay
  <2>2. \A d \in Conns \ DOMAIN socks' : inbox'[d] = <<>>
    BY <1>0, <1>6, <1>7 DEF Stakes
  <2> QED
    BY <1>0, <1>1, <1>3, <1>6, <1>8, <2>1, <2>2, StakesKeep
<1>20. Keys'
  BY <1>0, <1>1, <1>3, <1>8, KeysKeep
<1> QED
  BY <1>10, <1>11, <1>12, <1>13, <1>14, <1>15, <1>18, <1>19, <1>20 DEF IInv

-----------------------------------------------------------------------------
(* A pair is made.                                                         *)

LEMMA PairKeeps ==
  ASSUME IInv, NEW a \in Queued, NEW b \in Queued, Owner(a) # Owner(b), StartCashPairing(a, b),
         waiting' \subseteq waiting, asking' \subseteq asking, a \notin Queued', b \notin Queued',
         UNCHANGED <<app, keys, socks, online, matches, txs>>
  PROVE  IInv'
<1>0. /\ Types /\ PairsOK /\ Places /\ EndsLast /\ Told /\ Stakes /\ Keys
      /\ (\A q \in Players : AppOK(q)) /\ (\A tx \in txs : Timely(tx))
  BY DEF IInv
<1> PICK stake : stake = ResolveStake(socks[a].stake, socks[b].stake)
  OBVIOUS
<1> PICK pair : pair = [joinerConn |-> b, creator |-> Owner(a), joiner |-> Owner(b),
                        stake |-> stake, match |-> NoMatch]
  OBVIOUS
<1> PICK create, join :
      /\ create = [t |-> "matched", role |-> "create", stake |-> stake]
      /\ join = [t |-> "matched", role |-> "join", stake |-> stake]
  OBVIOUS
<1>1. /\ a \in DOMAIN socks /\ b \in DOMAIN socks /\ a \in Conns /\ b \in Conns /\ a # b
      /\ Owner(a) \in Players /\ Owner(b) \in Players /\ Queued \subseteq DOMAIN socks
      /\ socks[a].stake \in Nat /\ socks[b].stake \in Nat
  BY <1>0, TypesSay DEF Types, Queued, Waiting, Owner, Sock
<1>2. stake \in Nat /\ stake <= socks[a].stake /\ stake <= socks[b].stake
  BY <1>1 DEF ResolveStake
<1>3. /\ pair \in Pair /\ pair.joinerConn = b /\ pair.creator = Owner(a) /\ pair.joiner = Owner(b)
      /\ pair.stake = stake /\ pair.match = NoMatch /\ NoMatch = 0
  BY <1>1, <1>2 DEF Pair, NoMatch
<1>4. /\ create \in Msgs /\ create.t = "matched" /\ create.stake = stake /\ Creates(create)
      /\ join \in Msgs /\ join.t = "matched" /\ join.stake = stake /\ ~Creates(join)
      /\ ~Ends(create) /\ ~Ends(join)
  BY <1>2 DEF Msgs, Matched, Creates, Ends
<1>5. /\ pairs' = With(pairs, a, pair)
      /\ store' = With(store, Owner(a), [joiner |-> Owner(b), match |-> NoMatch])
      /\ inbox' = Send(Send(inbox, a, create), b, join)
      /\ faults' = IF Owner(a) \in DOMAIN store
                   THEN [faults EXCEPT !.astray = @ \cup {Owner(a)}] ELSE faults
      /\ UNCHANGED <<owed, recovering>>
  <2>1. /\ pairs' = With(pairs, a, pair) /\ store' = Stored(pair)
        /\ inbox' = Send(Send(inbox, a, create), b, join)
        /\ faults' = IF Owner(a) \in DOMAIN store
                     THEN [faults EXCEPT !.astray = @ \cup {Owner(a)}] ELSE faults
        /\ UNCHANGED <<owed, recovering>>
    BY DEF StartCashPairing
  <2> QED
    BY <2>1, <1>3 DEF Stored
<1>6. /\ DOMAIN pairs' = DOMAIN pairs \cup {a} /\ pairs'[a] = pair
      /\ a \notin DOMAIN pairs /\ b \notin DOMAIN pairs /\ a \notin Joiners /\ b \notin Joiners
      /\ \A c \in DOMAIN pairs : c # a /\ pairs'[c] = pairs[c]
  <2>1. a \notin DOMAIN pairs /\ b \notin DOMAIN pairs /\ a \notin Joiners /\ b \notin Joiners
    BY <1>0 DEF Places
  <2>2. pairs' = With(pairs, a, pair)
    BY <1>5
  <2>3. /\ DOMAIN pairs' = DOMAIN pairs \cup {a} /\ pairs'[a] = pair
        /\ \A c \in DOMAIN pairs : c # a => pairs'[c] = pairs[c]
    BY <2>2 DEF With
  <2> QED
    BY <2>1, <2>3
<1>7. /\ DOMAIN store' = DOMAIN store \cup {Owner(a)}
      /\ store'[Owner(a)] = [joiner |-> Owner(b), match |-> NoMatch]
      /\ \A q \in DOMAIN store : q # Owner(a) => store'[q] = store[q]
  <2>1. PICK record, q : record = [joiner |-> Owner(b), match |-> NoMatch] /\ q = Owner(a)
    OBVIOUS
  <2>2. store' = With(store, q, record)
    BY <1>5, <2>1
  <2>3. /\ DOMAIN store' = DOMAIN store \cup {q} /\ store'[q] = record
        /\ \A x \in DOMAIN store : x # q => store'[x] = store[x]
    BY <2>2 DEF With
  <2> QED
    BY <2>1, <2>3
<1>8. /\ faults' \in Faults /\ faults'.told = faults.told /\ faults'.stray = faults.stray
      /\ faults.astray \subseteq faults'.astray
      /\ (Owner(a) \in DOMAIN store => Owner(a) \in faults'.astray)
  <2>1. faults \in Faults /\ faults.astray \cup {Owner(a)} \in SUBSET Players
    BY <1>0, <1>1 DEF Types, Faults
  <2>2. CASE Owner(a) \in DOMAIN store
    BY <1>5, <2>1, <2>2, FaultsAre
  <2>3. CASE Owner(a) \notin DOMAIN store
    BY <1>5, <2>1, <2>3
  <2> QED
    BY <2>2, <2>3
<1>9. /\ inbox' \in [Conns -> Seq(Msgs)]
      /\ \A d \in Conns : d \notin {a, b} => inbox'[d] = inbox[d]
      /\ inbox'[a] = IF Reached(a) THEN Append(inbox[a], create) ELSE inbox[a]
      /\ inbox'[b] \in {inbox[b], Append(inbox[b], join)}
  <2>1. PICK box : box = Send(inbox, a, create)
    OBVIOUS
  <2>2. /\ box \in [Conns -> Seq(Msgs)] /\ \A d \in Conns : d # a => box[d] = inbox[d]
        /\ box[a] = IF Reached(a) THEN Append(inbox[a], create) ELSE inbox[a]
    <3>1. inbox \in [Conns -> Seq(Msgs)] /\ a \in Conns /\ create \in Msgs
      BY <1>0, <1>1, <1>4 DEF Types
    <3> QED
      BY <2>1, <3>1, SendIs
  <2>3. /\ inbox' \in [Conns -> Seq(Msgs)] /\ \A d \in Conns : d # b => inbox'[d] = box[d]
        /\ inbox'[b] = IF Reached(b) THEN Append(box[b], join) ELSE box[b]
    <3>1. box \in [Conns -> Seq(Msgs)] /\ b \in Conns /\ join \in Msgs
          /\ inbox' = Send(box, b, join)
      BY <1>1, <1>4, <1>5, <2>1, <2>2
    <3> QED
      BY <3>1, SendIs
  <2> QED
    BY <1>1, <2>2, <2>3
<1>10. /\ \A i \in DOMAIN inbox[a] : inbox[a][i].t # "matched" /\ ~Ends(inbox[a][i])
       /\ \A i \in DOMAIN inbox[b] : inbox[b][i].t # "matched" /\ ~Ends(inbox[b][i])
       /\ inbox[a] \in Seq(Msgs) /\ inbox[b] \in Seq(Msgs)
  BY <1>0, <1>1, TypesSay DEF Stakes, Fresh, EndsLast, Placed
<1>11. /\ \A i \in DOMAIN inbox'[a] :
            \/ i \in DOMAIN inbox[a] /\ inbox'[a][i] = inbox[a][i]
            \/ i = Len(inbox[a]) + 1 /\ inbox'[a][i] = create
       /\ \A i \in DOMAIN inbox'[b] :
            \/ i \in DOMAIN inbox[b] /\ inbox'[b][i] = inbox[b][i]
            \/ i = Len(inbox[b]) + 1 /\ inbox'[b][i] = join
  BY <1>4, <1>9, <1>10, AppendIs
<1>12. /\ Joiners' = Joiners \cup {b} /\ Queued' \subseteq Queued /\ Placed' \subseteq Placed
  <2>1. Joiners' = Joiners \cup {b}
    BY <1>3, <1>6 DEF Joiners
  <2>2. Queued' \subseteq Queued
    BY DEF Queued, Waiting
  <2> QED
    BY <1>6, <2>1, <2>2 DEF Placed
<1>13. Types'
  <2>1. pairs' \in Partial(Conns, Pair)
    BY <1>0, <1>1, <1>3, <1>5, WithIs DEF Types
  <2>2. PICK record : record = [joiner |-> Owner(b), match |-> NoMatch]
    OBVIOUS
  <2>3. record \in Kept /\ store' = With(store, Owner(a), record) /\ store \in Partial(Players, Kept)
    BY <1>0, <1>1, <1>3, <1>5, <2>2 DEF Kept, Types
  <2>4. store' \in Partial(Players, Kept)
    BY <1>1, <2>3, WithIs
  <2> QED
    BY <1>0, <1>5, <1>8, <1>9, <2>1, <2>4 DEF Types
<1>14. PairsOK'
  <2> SUFFICES ASSUME NEW c \in DOMAIN pairs'
               PROVE  /\ {c, pairs'[c].joinerConn} \subseteq DOMAIN socks
                      /\ pairs'[c].creator = Owner(c) /\ pairs'[c].joiner = Owner(pairs'[c].joinerConn)
                      /\ pairs'[c].match <= Len(matches) /\ pairs'[c].stake <= socks[c].stake
                      /\ pairs'[c].stake <= socks[pairs'[c].joinerConn].stake
    BY DEF PairsOK, Owner
  <2>1. CASE c = a
    BY <1>0, <1>1, <1>2, <1>3, <1>6, <2>1, TypesSay
  <2>2. CASE c # a
    BY <1>0, <1>6, <2>2 DEF PairsOK
  <2> QED
    BY <2>1, <2>2
<1>15. Places'
  <2>1. /\ \A v, w \in waiting' : v.conn = w.conn => v = w
        /\ asking' \cap Waiting' = {}
    BY <1>0 DEF Places, Waiting
  <2>2. Queued' \cap (DOMAIN pairs' \cup Joiners') = {} /\ DOMAIN pairs' \cap Joiners' = {}
    BY <1>0, <1>1, <1>6, <1>12 DEF Places
  <2>3. \A c, k \in DOMAIN pairs' : pairs'[c].joinerConn = pairs'[k].joinerConn => c = k
    <3>1. \A c \in DOMAIN pairs : pairs'[c].joinerConn # b
      BY <1>6 DEF Joiners
    <3> QED
      BY <1>0, <1>3, <1>6, <3>1 DEF Places
  <2> QED
    BY <2>1, <2>2, <2>3 DEF Places
<1>16. EndsLast'
  <2> SUFFICES ASSUME NEW d \in Conns, NEW i \in DOMAIN inbox'[d], Ends(inbox'[d][i])
               PROVE  i = Len(inbox'[d]) /\ d \notin Placed'
    BY DEF EndsLast
  <2>1. d \notin {a, b}
    BY <1>4, <1>10, <1>11
  <2> QED
    BY <1>0, <1>9, <1>12, <2>1 DEF EndsLast
<1>17. (\A q \in Players : AppOK(q)') /\ (\A tx \in txs' : Timely(tx)')
  BY <1>0 DEF AppOK, Timely
<1>18. ASSUME NEW q \in Players \ faults'.astray PROVE Persisted(q)' /\ Present(q)' /\ Committed(q)'
  <2>1. Persisted(q) /\ Present(q) /\ Committed(q) /\ AppOK(q)
    BY <1>0, <1>8 DEF Told
  <2>2. Persisted(q)'
    <3>1. CASE q = Owner(a)
      <4>1. q \notin DOMAIN store
        BY <1>8, <1>18, <3>1
      <4>2. q \notin DOMAIN recovering /\ \A c \in DOMAIN pairs : pairs[c].creator # q
        BY <2>1, <4>1 DEF Persisted
      <4> QED
        BY <1>3, <1>5, <1>6, <1>7, <3>1, <4>2 DEF Persisted
    <3>2. CASE q # Owner(a)
      BY <1>3, <1>5, <1>6, <1>7, <2>1, <3>2 DEF Persisted
    <3> QED
      BY <3>1, <3>2
  <2>3. Present(q)'
    BY <1>12, <2>1 DEF Present, Owner
  <2>4. Making(q)' = Making(q)
    BY DEF Making
  <2> SUFFICES ASSUME app[q].open PROVE Once(q)' /\ (Bound(q)' => Answered(q)')
    BY <2>2, <2>3 DEF Committed
  <2>5. Once(q) /\ (Bound(q) => Answered(q))
    BY <2>1 DEF Committed
  <2>6. app[q].conn \in {NoConn} \cup Conns /\ a # NoConn /\ b # NoConn
    BY <1>0, <1>1, TypesSay DEF Apps
  <2>7. CASE app[q].conn \notin {a, b}
    <3>1. Box(q)' = Box(q)
      BY <1>9, <2>6, <2>7 DEF Box
    <3>2. ToCreate(q)' = ToCreate(q) /\ Bound(q)' = Bound(q)
      BY <2>4, <3>1 DEF ToCreate, Bound
    <3>3. Once(q)'
      BY <1>12, <2>4, <2>5, <2>7, <3>1, <3>2 DEF Once
    <3>4. Answered(q) => Answered(q)'
      BY <1>5, <1>6, <1>7, <3>1 DEF Answered
    <3> QED
      BY <2>5, <3>2, <3>3, <3>4
  <2>8. CASE app[q].conn = a
    <3>1. ~Bound(q) /\ Box(q) = inbox[a] /\ Box(q)' = inbox'[a]
      BY <2>5, <2>6, <2>8 DEF Once, Box
    <3>2. app[q].created = NoMatch /\ Making(q) = {} /\ \A i \in DOMAIN inbox[a] : ~Creates(inbox[a][i])
      BY <3>1 DEF Bound, ToCreate
    <3>3. \A i \in DOMAIN inbox'[a] : Creates(inbox'[a][i]) => i = Len(inbox[a]) + 1
      BY <1>11, <3>2
    <3>4. a \notin (Queued \cup Joiners)'
      BY <1>1, <1>6, <1>12
    <3>5. Once(q)'
      BY <2>4, <2>8, <3>1, <3>2, <3>3, <3>4 DEF Once
    <3>6. Answered(q)'
      BY <1>6, <2>8 DEF Answered
    <3> QED
      BY <3>5, <3>6
  <2>9. CASE app[q].conn = b
    <3>1. ~Bound(q) /\ Box(q) = inbox[b] /\ Box(q)' = inbox'[b]
      BY <2>5, <2>6, <2>9 DEF Once, Box
    <3>2. app[q].created = NoMatch /\ Making(q) = {} /\ \A i \in DOMAIN inbox[b] : ~Creates(inbox[b][i])
      BY <3>1 DEF Bound, ToCreate
    <3>3. \A i \in DOMAIN inbox'[b] : ~Creates(inbox'[b][i])
      BY <1>4, <1>11, <3>2
    <3>4. ~Bound(q)'
      BY <2>4, <3>1, <3>2, <3>3 DEF Bound, ToCreate
    <3>5. Once(q)'
      BY <2>4, <3>1, <3>2, <3>3, <3>4 DEF Once
    <3> QED
      BY <3>4, <3>5
  <2> QED
    BY <2>7, <2>8, <2>9
<1>19. Told'
  BY <1>18 DEF Told
<1>20. Stakes'
  <2>1. ASSUME NEW c \in Queued' PROVE Fresh(c)'
    <3>1. Fresh(c) /\ c \notin {a, b} /\ c \in Conns
      BY <1>0, <1>1, <1>12, TypesSay DEF Stakes
    <3> QED
      BY <1>9, <3>1 DEF Fresh
  <2>2. ASSUME NEW m, NEW limit, Within(m, limit) PROVE Within(m, limit)'
    BY <1>8, <2>2 DEF Within
  <2>3. ASSUME NEW c \in DOMAIN socks', NEW i \in DOMAIN inbox'[c], NEW msg, msg = inbox'[c][i]
        PROVE  MsgOK(c, msg)'
    <3>1. c \in DOMAIN socks /\ c \in Conns
      BY <1>0, TypesSay
    <3>2. CASE i \in DOMAIN inbox[c] /\ msg = inbox[c][i] /\ c # a
      <4>1. MsgOK(c, msg)
        BY <1>0, <3>1, <3>2 DEF Stakes
      <4> QED
        BY <1>6, <2>2, <3>2, <4>1 DEF MsgOK
    <3>3. CASE i \in DOMAIN inbox[c] /\ msg = inbox[c][i] /\ c = a
      <4>1. MsgOK(c, msg) /\ msg.t # "matched"
        BY <1>0, <1>10, <3>1, <3>3 DEF Stakes
      <4> QED
        BY <2>2, <4>1 DEF MsgOK, Creates
    <3>4. CASE c = a /\ msg = create
      BY <1>2, <1>3, <1>4, <1>6, <3>4 DEF MsgOK
    <3>5. CASE c = b /\ msg = join
      BY <1>2, <1>4, <3>5 DEF MsgOK
    <3>6. CASE c \notin {a, b}
      <4>1. inbox'[c] = inbox[c]
        BY <1>9, <3>1, <3>6
      <4> QED
        BY <2>3, <3>2, <3>6, <4>1
    <3>7. CASE c = a
      BY <1>11, <2>3, <3>3, <3>4, <3>7
    <3>8. CASE c = b
      BY <1>1, <1>11, <2>3, <3>2, <3>5, <3>8
    <3> QED
      BY <3>6, <3>7, <3>8
  <2>4. ASSUME NEW tx \in txs' PROVE TxOK(tx)'
    <3>1. TxOK(tx) /\ (tx.kind = "create" => tx.conn # a)
      BY <1>0 DEF Stakes, Fresh
    <3> QED
      BY <1>6, <2>2, <3>1 DEF TxOK
  <2>5. ASSUME NEW m \in DOMAIN matches PROVE MatchOK(m)'
    <3>1. MatchOK(m) /\ matches[m].conn # a
      BY <1>0 DEF Stakes, Fresh
    <3> QED
      BY <1>6, <2>2, <3>1 DEF MatchOK
  <2>6. \A c \in DOMAIN socks' : \A i \in DOMAIN inbox'[c] : MsgOK(c, inbox[c][i])'
    BY <2>3
  <2>7. \A c \in Conns \ DOMAIN socks' : inbox'[c] = <<>>
    BY <1>0, <1>1, <1>9 DEF Stakes
  <2> QED
    BY <2>1, <2>4, <2>5, <2>6, <2>7 DEF Stakes
<1>21. Keys'
  <2>1. NoJoins
    BY <1>4, <1>9, <1>11 DEF NoJoins
  <2> QED
    BY <1>0, <1>8, <2>1, KeysHold
<1> QED
  BY <1>13, <1>14, <1>15, <1>16, <1>17, <1>19, <1>20, <1>21 DEF IInv

LEMMA EnqueueKeeps == ASSUME IInv, NEW c \in Conns, Enqueue(c) PROVE IInv'
<1>0. Types /\ Places
  BY DEF IInv
<1> DEFINE w == [conn |-> c, waited |-> 0]
<1>1. /\ c \in asking /\ asking' = asking \ {c}
      /\ UNCHANGED <<app, keys, socks, online, matches, txs>>
  BY DEF Enqueue, appvars, chainvars
<1>2. CASE waiting' = waiting \cup {w} /\ UNCHANGED <<pairvars, inbox, faults>>
  BY <1>1, <1>2, EnqueueAloneKeeps DEF pairvars
<1>3. ASSUME NEW b \in waiting, Accepts(w, b), waiting' = waiting \ {b}, StartCashPairing(c, b.conn)
      PROVE  IInv'
  <2>1. Owner(c) # Owner(b.conn)
    BY <1>3 DEF Accepts
  <2>2. c \in Queued /\ b.conn \in Queued
    BY <1>1, <1>3 DEF Queued, Waiting
  <2>3. c \notin Queued' /\ b.conn \notin Queued'
    BY <1>0, <1>1, <1>3 DEF Queued, Waiting, Places
  <2> QED
    BY <1>1, <1>3, <2>1, <2>2, <2>3, PairKeeps
<1> QED
  BY <1>2, <1>3 DEF Enqueue, BestMatches

LEMMA SweepKeeps == ASSUME IInv, Sweep PROVE IInv'
<1>0. Types /\ Places
  BY DEF IInv
<1>1. PICK vw \in ClosestPairs :
        /\ waiting' = waiting \ {vw[1], vw[2]} /\ StartCashPairing(vw[1].conn, vw[2].conn)
        /\ UNCHANGED <<app, keys, socks, online, asking, matches, txs>>
  BY DEF Sweep, appvars, chainvars
<1>2. PICK v \in waiting, w \in waiting : v = vw[1] /\ w = vw[2] /\ Accepts(v, w)
  BY DEF ClosestPairs
<1>3. Owner(v.conn) # Owner(w.conn)
  BY <1>2 DEF Accepts
<1>4. v.conn \in Queued /\ w.conn \in Queued
  BY DEF Queued, Waiting
<1>5. v.conn \notin Queued' /\ w.conn \notin Queued'
  BY <1>0, <1>1, <1>2 DEF Queued, Waiting, Places
<1> QED
  BY <1>1, <1>2, <1>3, <1>4, <1>5, PairKeeps

-----------------------------------------------------------------------------
(* The joiner is sent to the match, and the app learns of the match it made. *)

Makes(tx) ==
  /\ tx.kind = "create" /\ tx.mined = "yes" /\ app[tx.by].open /\ tx.search = app[tx.by].search
  /\ app' = [app EXCEPT ![tx.by].created = tx.match] /\ txs' = txs \ {tx}
StaysOrMakes == UNCHANGED <<app, txs>> \/ \E tx \in txs : Makes(tx)

LEMMA MakesIs ==
  ASSUME IInv, StaysOrMakes, UNCHANGED <<socks, matches>>
  PROVE  /\ app' \in [Players -> Apps] /\ txs' \subseteq txs
         /\ \A q \in Players :
              /\ app'[q].open = app[q].open /\ app'[q].conn = app[q].conn
              /\ app'[q].search = app[q].search
              /\ AppOK(q)'
              /\ \/ app'[q] = app[q] /\ Making(q)' \subseteq Making(q)
                 \/ Making(q) # {} /\ (Once(q) => Making(q)' = {})
         /\ \A tx \in txs' : Timely(tx)'
<1>0. /\ Types /\ (\A q \in Players : AppOK(q)) /\ (\A tx \in txs : Timely(tx))
  BY DEF IInv
<1>1. CASE UNCHANGED <<app, txs>>
  BY <1>0, <1>1 DEF AppOK, Timely, Types, Making
<1>2. ASSUME NEW tx \in txs, Makes(tx)
      PROVE  /\ app' \in [Players -> Apps] /\ txs' \subseteq txs
             /\ \A q \in Players :
                  /\ app'[q].open = app[q].open /\ app'[q].conn = app[q].conn
                  /\ app'[q].search = app[q].search
                  /\ AppOK(q)'
                  /\ \/ app'[q] = app[q] /\ Making(q)' \subseteq Making(q)
                     \/ Making(q) # {} /\ (Once(q) => Making(q)' = {})
             /\ \A t \in txs' : Timely(t)'
  <2> PICK p \in Players : p = tx.by
    BY <1>0 DEF Types, Txs
  <2>1. /\ tx \in Making(p) /\ tx.match \in DOMAIN matches /\ app[p].open
        /\ app' = [app EXCEPT ![p].created = tx.match] /\ txs' = txs \ {tx}
    BY <1>0, <1>2 DEF Makes, Making, Timely
  <2>2. tx.match \in Nat /\ tx.match <= Len(matches)
    BY <1>0, <2>1, TypesSay
  <2>3. PICK a : a = [app[p] EXCEPT !.created = tx.match]
    OBVIOUS
  <2>4. app[p] \in Apps /\ app \in [Players -> Apps]
    BY <1>0 DEF Types
  <2>5. /\ a \in Apps /\ a.open = app[p].open /\ a.conn = app[p].conn /\ a.search = app[p].search
        /\ a.created = tx.match
    BY <2>2, <2>3, <2>4 DEF Apps
  <2>6. app'[p] = a /\ app' \in [Players -> Apps] /\ \A q \in Players : q # p => app'[q] = app[q]
    BY <2>1, <2>3, <2>4, <2>5
  <2>7. ASSUME NEW q \in Players
        PROVE  /\ app'[q].open = app[q].open /\ app'[q].conn = app[q].conn
               /\ app'[q].search = app[q].search /\ AppOK(q)'
               /\ Making(q)' = Making(q) \ {tx}
    <3>1. app'[q].open = app[q].open /\ app'[q].conn = app[q].conn /\ app'[q].search = app[q].search
      BY <2>5, <2>6
    <3>2. AppOK(q)'
      <4>1. AppOK(q)
        BY <1>0
      <4>2. CASE q = p
        BY <2>1, <2>2, <2>5, <2>6, <4>1, <4>2 DEF AppOK
      <4>3. CASE q # p
        BY <2>6, <4>1, <4>3 DEF AppOK
      <4> QED
        BY <4>2, <4>3
    <3>3. Making(q)' = Making(q) \ {tx}
      BY <2>1, <3>1 DEF Making
    <3> QED
      BY <3>1, <3>2, <3>3
  <2>8. Making(p) # {} /\ (Once(p) => Making(p)' = {})
    BY <2>1, <2>7 DEF Once
  <2>9. \A t \in txs' : Timely(t)'
    <3> SUFFICES ASSUME NEW t \in txs' PROVE Timely(t)'
      OBVIOUS
    <3>1. Timely(t) /\ t.by \in Players
      BY <1>0, <2>1 DEF Types, Txs
    <3>2. app'[t.by].search = app[t.by].search
      BY <2>7, <3>1
    <3> QED
      BY <3>1, <3>2 DEF Timely
  <2> QED
    BY <2>1, <2>6, <2>7, <2>8, <2>9
<1> QED
  BY <1>1, <1>2 DEF StaysOrMakes

LEMMA OnceMakes ==
  ASSUME IInv, StaysOrMakes, UNCHANGED <<socks, matches>>, NEW q \in Players, Once(q),
         \A i \in DOMAIN Box(q)' : Creates(Box(q)'[i]) => i \in DOMAIN Box(q) /\ Box(q)'[i] = Box(q)[i],
         (Queued \cup Joiners)' = Queued \cup Joiners
  PROVE  Once(q)' /\ (Bound(q)' => Bound(q))
<1>1. /\ app'[q].conn = app[q].conn
      /\ \/ app'[q] = app[q] /\ Making(q)' \subseteq Making(q)
         \/ Making(q) # {} /\ Making(q)' = {}
  BY MakesIs
<1>2. ToCreate(q)' => ToCreate(q)
  BY DEF ToCreate
<1>3. CASE app'[q] = app[q] /\ Making(q)' \subseteq Making(q)
  <2>1. Bound(q)' => Bound(q)
    BY <1>2, <1>3 DEF Bound
  <2> QED
    BY <1>1, <1>2, <1>3, <2>1 DEF Once
<1>4. CASE Making(q) # {} /\ Making(q)' = {}
  <2>1. Bound(q) /\ ~ToCreate(q) /\ ~ToCreate(q)' /\ app[q].conn \notin Queued \cup Joiners
    BY <1>2, <1>4 DEF Once, Bound
  <2> QED
    BY <1>1, <1>4, <2>1 DEF Once
<1> QED
  BY <1>1, <1>3, <1>4

\* The server does not hear of the match.
LEMMA MakesKeeps ==
  ASSUME IInv, StaysOrMakes, Calm,
         UNCHANGED <<keys, socks, online, asking, waiting, matches, faults>>
  PROVE  IInv'
<1>0. /\ Types /\ PairsOK /\ Places /\ EndsLast /\ Told /\ Stakes /\ Keys
  BY DEF IInv
<1>1. /\ app' \in [Players -> Apps] /\ txs' \subseteq txs
      /\ \A q \in Players : /\ app'[q].open = app[q].open /\ app'[q].conn = app[q].conn
                            /\ app'[q].search = app[q].search /\ AppOK(q)'
      /\ \A tx \in txs' : Timely(tx)'
  BY MakesIs
<1>3. Queued' = Queued /\ Joiners' = Joiners /\ Placed' = Placed /\ Waiting' = Waiting
  BY DEF Calm, Queued, Waiting, Joiners, Placed
<1>2. Types' /\ PairsOK' /\ Places' /\ EndsLast'
  <2>1. Types'
    BY <1>0, <1>1 DEF Calm, Types
  <2>2. PairsOK'
    BY <1>0 DEF Calm, PairsOK, Owner
  <2>3. Places'
    BY <1>0, <1>3 DEF Calm, Places
  <2>4. EndsLast'
    BY <1>0, <1>3 DEF Calm, EndsLast
  <2> QED
    BY <2>1, <2>2, <2>3, <2>4
<1>4. Told'
  <2> SUFFICES ASSUME NEW q \in Players \ faults.astray
               PROVE  Persisted(q)' /\ Present(q)' /\ Committed(q)'
    BY DEF Told
  <2>1. Persisted(q) /\ Present(q) /\ Committed(q)
    BY <1>0 DEF Told
  <2>2. Persisted(q)' /\ Present(q)'
    BY <1>1, <1>3, <2>1 DEF Calm, Persisted, Present, Owner
  <2>3. Box(q)' = Box(q)
    BY <1>1 DEF Box, Calm
  <2>4. ASSUME Once(q) PROVE Once(q)' /\ (Bound(q)' => Bound(q))
    BY <1>3, <2>3, <2>4, OnceMakes
  <2>5. Answered(q) => Answered(q)'
    BY <1>1, <2>3 DEF Answered, Calm
  <2> QED
    BY <1>1, <2>1, <2>2, <2>4, <2>5 DEF Committed
<1>5. Older
  BY <1>0, OlderIs DEF Calm
<1>6. Keys'
  BY <1>0, <1>1, <1>5, KeysKeep
<1>7. Stakes'
  <2>1. Queued \subseteq DOMAIN socks /\ DOMAIN socks \subseteq Conns
    BY <1>0, TypesSay DEF Queued, Waiting, Types
  <2> QED
    BY <1>0, <1>1, <1>3, <1>5, <2>1, StakesKeep DEF Calm, Stakes
<1> QED
  BY <1>1, <1>2, <1>4, <1>6, <1>7 DEF IInv

LEMMA AnnounceKeeps ==
  ASSUME IInv, NEW c \in DOMAIN pairs, NEW m \in DOMAIN matches, NEW stake \in Nat,
         AnnounceMatch(c, m, stake), StaysOrMakes,
         UNCHANGED <<keys, socks, online, asking, waiting, matches>>
  PROVE  IInv'
<1>0. /\ Types /\ PairsOK /\ Places /\ EndsLast /\ Told /\ Stakes /\ Keys
  BY DEF IInv
<1> PICK j, q0 : j = pairs[c].joinerConn /\ q0 = pairs[c].creator
  OBVIOUS
<1> PICK msg : msg = [t |-> "join", match |-> m, stake |-> stake]
  OBVIOUS
<1> PICK next : next = [pairs[c] EXCEPT !.match = m]
  OBVIOUS
<1> PICK record : record = [joiner |-> pairs[c].joiner, match |-> m]
  OBVIOUS
<1>1. /\ m \in Nat /\ m <= Len(matches) /\ c \in Conns /\ j \in Conns /\ q0 \in Players
      /\ j \in DOMAIN socks /\ c \in DOMAIN socks /\ pairs[c] \in Pair /\ pairs[c].joiner \in Players
      /\ j \notin DOMAIN pairs /\ q0 = Owner(c)
  BY <1>0, TypesSay, PairIs
<1>2. /\ next \in Pair /\ next.joinerConn = j /\ next.creator = q0 /\ next.joiner = pairs[c].joiner
      /\ next.stake = pairs[c].stake /\ next.match = m
      /\ record \in Kept /\ record.joiner = pairs[c].joiner /\ record.match = m
  BY <1>1 DEF Pair, Kept
<1>3. /\ msg \in Msgs /\ msg.t = "join" /\ msg.match = m /\ ~Ends(msg) /\ ~Creates(msg)
      /\ msg.t # "matched"
  BY <1>1 DEF Msgs, Joining, Ends, Creates
<1>4. /\ pairs' = [pairs EXCEPT ![c] = next] /\ store' = With(store, q0, record)
      /\ inbox' = Send(inbox, j, msg) /\ UNCHANGED <<owed, recovering>>
  <2>1. pairs' = [pairs EXCEPT ![c] = next] /\ store' = Stored(next)
    BY DEF AnnounceMatch
  <2>2. inbox' = Send(inbox, j, msg) /\ UNCHANGED <<owed, recovering>>
    BY DEF AnnounceMatch
  <2> QED
    BY <1>2, <2>1, <2>2 DEF Stored
<1>5. /\ pairs' \in Partial(Conns, Pair) /\ DOMAIN pairs' = DOMAIN pairs /\ pairs'[c] = next
      /\ \A k \in DOMAIN pairs : k # c => pairs'[k] = pairs[k]
  <2>1. /\ DOMAIN pairs \subseteq Conns /\ pairs \in [DOMAIN pairs -> Pair]
    <3>1. pairs = [x \in DOMAIN pairs |-> pairs[x]] /\ \A x \in DOMAIN pairs : pairs[x] \in Pair
      BY <1>0, PartialIs DEF Types
    <3> QED
      BY <1>0, <3>1, TypesSay
  <2>2. pairs' \in [DOMAIN pairs -> Pair]
    BY <1>2, <1>4, <2>1
  <2>3. pairs' \in Partial(Conns, Pair)
    BY <2>1, <2>2, InPartial
  <2> QED
    BY <1>4, <2>1, <2>3
<1>6. /\ DOMAIN store' = DOMAIN store \cup {q0} /\ store'[q0] = record
      /\ \A q \in DOMAIN store : q # q0 => store'[q] = store[q]
  BY <1>4 DEF With
<1>7. store' \in Partial(Players, Kept)
  <2>1. store \in Partial(Players, Kept)
    BY <1>0 DEF Types
  <2> QED
    BY <1>1, <1>2, <1>4, <2>1, WithIs
<1>8. /\ inbox' \in [Conns -> Seq(Msgs)] /\ \A d \in Conns : d # j => inbox'[d] = inbox[d]
      /\ inbox'[j] \in {inbox[j], Append(inbox[j], msg)}
  <2>1. inbox \in [Conns -> Seq(Msgs)]
    BY <1>0 DEF Types
  <2>2. j \in Conns /\ msg \in Msgs /\ inbox' = Send(inbox, j, msg)
    BY <1>1, <1>3, <1>4
  <2>3. /\ Send(inbox, j, msg) \in [Conns -> Seq(Msgs)]
        /\ \A d \in Conns : d # j => Send(inbox, j, msg)[d] = inbox[d]
        /\ Send(inbox, j, msg)[j] = IF Reached(j) THEN Append(inbox[j], msg) ELSE inbox[j]
    BY <2>1, <2>2, SendIs
  <2> QED
    BY <2>2, <2>3
<1>9. /\ inbox[j] \in Seq(Msgs) /\ j \in Placed /\ j \notin Queued
      /\ \A i \in DOMAIN inbox'[j] : \/ i \in DOMAIN inbox[j] /\ inbox'[j][i] = inbox[j][i]
                                     \/ i = Len(inbox[j]) + 1 /\ inbox'[j][i] = msg
  <2>1. inbox[j] \in Seq(Msgs)
    BY <1>0, <1>1, TypesSay
  <2>2. j \in Joiners
    BY DEF Joiners
  <2>3. j \in Placed /\ j \notin Queued
    BY <1>0, <2>2 DEF Placed, Places
  <2>4. msg \in Msgs
    BY <1>3
  <2>5. /\ DOMAIN Append(inbox[j], msg) = DOMAIN inbox[j] \cup {Len(inbox[j]) + 1}
        /\ Append(inbox[j], msg)[Len(inbox[j]) + 1] = msg
        /\ \A i \in DOMAIN inbox[j] : Append(inbox[j], msg)[i] = inbox[j][i]
    BY <2>1, <2>4, AppendIs
  <2>6. ASSUME NEW i \in DOMAIN inbox'[j]
        PROVE  \/ i \in DOMAIN inbox[j] /\ inbox'[j][i] = inbox[j][i]
               \/ i = Len(inbox[j]) + 1 /\ inbox'[j][i] = msg
    BY <1>8, <2>5
  <2> QED
    BY <2>1, <2>3, <2>6
<1>10. Queued' = Queued /\ Joiners' = Joiners /\ Placed' = Placed
  <2>1. \A k \in DOMAIN pairs : pairs'[k].joinerConn = pairs[k].joinerConn
    BY <1>2, <1>5
  <2>2. Joiners' = Joiners
    BY <1>5, <2>1 DEF Joiners
  <2> QED
    BY <1>5, <2>2 DEF Queued, Waiting, Placed
<1>11. /\ app' \in [Players -> Apps] /\ txs' \subseteq txs
       /\ \A q \in Players : /\ app'[q].open = app[q].open /\ app'[q].conn = app[q].conn
                             /\ app'[q].search = app[q].search /\ AppOK(q)'
       /\ \A tx \in txs' : Timely(tx)'
  BY MakesIs
<1> PICK n : n = IF m \in DOMAIN faults.told THEN faults.told[m] + 1 ELSE 1
  OBVIOUS
<1>12. /\ faults' \in Faults /\ faults'.astray = faults.astray
       /\ faults.stray \subseteq faults'.stray /\ (matches[m].conn # c => m \in faults'.stray)
       /\ DOMAIN faults'.told = DOMAIN faults.told \cup {m} /\ faults'.told[m] = n
       /\ \A k \in DOMAIN faults.told : k # m => faults'.told[k] = faults.told[k]
       /\ n \in Nat \ {0} /\ (m \in DOMAIN faults.told => n > 1)
  <2>1. /\ faults \in Faults /\ faults.told \in Counts /\ faults.stray \subseteq Nat
    BY <1>0 DEF Types, Faults
  <2>2. n \in Nat \ {0} /\ (m \in DOMAIN faults.told => n > 1)
    <3>1. \A k \in DOMAIN faults.told : faults.told[k] \in Nat \ {0}
      BY <2>1, PartialIs DEF Counts
    <3> QED
      BY <3>1
  <2> PICK told : told = With(faults.told, m, n)
    OBVIOUS
  <2> PICK stray : stray = IF matches[m].conn # c THEN faults.stray \cup {m} ELSE faults.stray
    OBVIOUS
  <2>3. told \in Counts /\ stray \in SUBSET Nat
    BY <1>1, <2>1, <2>2, WithIs DEF Counts
  <2>4. faults' = [faults EXCEPT !.told = told, !.stray = stray]
    BY DEF AnnounceMatch
  <2>5. faults' \in Faults /\ faults'.astray = faults.astray /\ faults'.told = told /\ faults'.stray = stray
    BY <2>1, <2>3, <2>4 DEF Faults
  <2>6. /\ DOMAIN told = DOMAIN faults.told \cup {m} /\ told[m] = n
        /\ \A k \in DOMAIN faults.told : k # m => told[k] = faults.told[k]
    BY DEF With
  <2> QED
    BY <2>2, <2>5, <2>6
<1>13. Types'
  BY <1>0, <1>4, <1>5, <1>7, <1>8, <1>11, <1>12 DEF Types
<1>14. PairsOK'
  <2> SUFFICES ASSUME NEW k \in DOMAIN pairs
               PROVE  /\ {k, pairs'[k].joinerConn} \subseteq DOMAIN socks
                      /\ pairs'[k].creator = Owner(k) /\ pairs'[k].joiner = Owner(pairs'[k].joinerConn)
                      /\ pairs'[k].match <= Len(matches) /\ pairs'[k].stake <= socks[k].stake
                      /\ pairs'[k].stake <= socks[pairs'[k].joinerConn].stake
    BY <1>5 DEF PairsOK, Owner
  <2>1. CASE k = c
    <3>1. /\ {c, j} \subseteq DOMAIN socks /\ q0 = Owner(c) /\ pairs[c].joiner = Owner(j)
          /\ pairs[c].stake <= socks[c].stake /\ pairs[c].stake <= socks[j].stake
      BY <1>0 DEF PairsOK
    <3>2. /\ pairs'[c] = next /\ next.joinerConn = j /\ next.creator = q0
          /\ next.joiner = pairs[c].joiner /\ next.stake = pairs[c].stake /\ next.match = m
          /\ m <= Len(matches)
      BY <1>1, <1>2, <1>5
    <3> QED
      BY <2>1, <3>1, <3>2
  <2>2. CASE k # c
    BY <1>0, <1>5, <2>2 DEF PairsOK
  <2> QED
    BY <2>1, <2>2
<1>15. Places'
  <2>1. \A k \in DOMAIN pairs : pairs'[k].joinerConn = pairs[k].joinerConn
    BY <1>2, <1>5
  <2> QED
    BY <1>0, <1>5, <1>10, <2>1 DEF Places, Waiting
<1>16. EndsLast'
  <2> SUFFICES ASSUME NEW d \in Conns, NEW i \in DOMAIN inbox'[d], Ends(inbox'[d][i])
               PROVE  i = Len(inbox'[d]) /\ d \notin Placed'
    BY DEF EndsLast
  <2>1. d # j
    BY <1>0, <1>1, <1>3, <1>9 DEF EndsLast
  <2> QED
    BY <1>0, <1>8, <1>10, <2>1 DEF EndsLast
<1>17. Told'
  <2> SUFFICES ASSUME NEW q \in Players \ faults.astray
               PROVE  Persisted(q)' /\ Present(q)' /\ Committed(q)'
    BY <1>12 DEF Told
  <2>1. Persisted(q) /\ Present(q) /\ Committed(q)
    BY <1>0 DEF Told
  <2>2. Persisted(q)'
    <3>1. CASE q = q0
      BY <1>2, <1>4, <1>5, <1>6, <2>1, <3>1 DEF Persisted
    <3>2. CASE q # q0
      BY <1>2, <1>4, <1>5, <1>6, <2>1, <3>2 DEF Persisted
    <3> QED
      BY <3>1, <3>2
  <2>3. Present(q)'
    BY <1>10, <1>11, <2>1 DEF Present, Owner
  <2>4. app[q].conn \in {NoConn} \cup Conns
    BY <1>0, TypesSay DEF Apps
  <2>5. \A i \in DOMAIN Box(q)' :
          Creates(Box(q)'[i]) => i \in DOMAIN Box(q) /\ Box(q)'[i] = Box(q)[i]
    <3>1. CASE app[q].conn = j
      <4>1. j # NoConn
        BY <1>0, <1>1, TypesSay
      <4>2. Box(q) = inbox[j] /\ Box(q)' = inbox'[j]
        BY <1>11, <3>1, <4>1 DEF Box
      <4> QED
        BY <1>3, <1>9, <4>2
    <3>2. CASE app[q].conn # j
      BY <1>8, <1>11, <2>4, <3>2 DEF Box
    <3> QED
      BY <3>1, <3>2
  <2>6. ASSUME Once(q) PROVE Once(q)' /\ (Bound(q)' => Bound(q))
    BY <1>10, <2>5, <2>6, OnceMakes
  <2>7. ASSUME Answered(q) PROVE Answered(q)'
    <3>1. CASE app[q].conn \in DOMAIN pairs
      BY <1>5, <1>11, <3>1 DEF Answered
    <3>2. CASE Ended(Box(q))
      <4>1. app[q].conn \in Conns /\ app[q].conn # NoConn /\ Box(q) = inbox[app[q].conn]
        BY <2>4, <3>2 DEF Ended, Box
      <4>2. app[q].conn # j
        <5>1. inbox[app[q].conn] \in Seq(Msgs) /\ inbox[app[q].conn] # <<>>
          BY <1>0, <3>2, <4>1, TypesSay DEF Ended
        <5>2. Len(inbox[app[q].conn]) \in DOMAIN inbox[app[q].conn]
          BY <5>1
        <5> QED
          BY <1>0, <1>9, <3>2, <4>1, <5>2 DEF Ended, EndsLast
      <4> QED
        BY <1>8, <1>11, <3>2, <4>1, <4>2 DEF Answered, Box
    <3>3. CASE app[q].conn \notin online /\ q \in owed \cup DOMAIN store
      BY <1>4, <1>6, <1>11, <3>3 DEF Answered
    <3> QED
      BY <2>7, <3>1, <3>2, <3>3 DEF Answered
  <2> QED
    BY <1>11, <2>1, <2>2, <2>3, <2>6, <2>7 DEF Committed
<1>18. Stakes'
  <2>1. ASSUME NEW k \in Queued' PROVE Fresh(k)'
    <3>1. Fresh(k) /\ k # j /\ k \in Conns
      BY <1>0, <1>9, <1>10, TypesSay DEF Stakes, Queued, Waiting, Types
    <3> QED
      BY <1>8, <1>11, <3>1 DEF Fresh
  <2>2. ASSUME NEW k, NEW limit, Within(k, limit) PROVE Within(k, limit)'
    BY <1>12, <2>2 DEF Within
  <2>3. ASSUME NEW d \in DOMAIN socks, NEW i \in DOMAIN inbox'[d], NEW x, x = inbox'[d][i]
        PROVE  MsgOK(d, x)'
    <3>1. d \in Conns
      BY <1>0, TypesSay
    <3>2. CASE i \in DOMAIN inbox[d] /\ x = inbox[d][i]
      <4>1. MsgOK(d, x)
        BY <1>0, <3>2 DEF Stakes
      <4> QED
        BY <1>2, <1>5, <2>2, <4>1 DEF MsgOK
    <3>3. CASE d = j /\ x = msg
      <4>1. Within(m, socks[j].stake)'
        <5> SUFFICES ASSUME m \notin faults'.stray PROVE matches[m].stake <= socks[j].stake
          BY DEF Within
        <5>1. matches[m].conn = c
          BY <1>12
        <5>2. matches[m].stake = pairs[c].stake
          BY <1>0, <5>1 DEF Stakes, MatchOK
        <5> QED
          BY <1>0, <5>2 DEF PairsOK
      <4> QED
        BY <1>3, <3>3, <4>1 DEF MsgOK
    <3> QED
      BY <1>8, <1>9, <2>3, <3>1, <3>2, <3>3
  <2>4. ASSUME NEW tx \in txs' PROVE TxOK(tx)'
    <3>1. TxOK(tx)
      BY <1>0, <1>11 DEF Stakes
    <3> QED
      BY <1>2, <1>5, <2>2, <3>1 DEF TxOK
  <2>5. ASSUME NEW k \in DOMAIN matches PROVE MatchOK(k)'
    <3>1. MatchOK(k)
      BY <1>0 DEF Stakes
    <3> QED
      BY <1>2, <1>5, <2>2, <3>1 DEF MatchOK
  <2>6. \A d \in DOMAIN socks' : \A i \in DOMAIN inbox'[d] : MsgOK(d, inbox[d][i])'
    BY <2>3
  <2>7. \A d \in Conns \ DOMAIN socks' : inbox'[d] = <<>>
    BY <1>0, <1>1, <1>8 DEF Stakes
  <2> QED
    BY <2>1, <2>4, <2>5, <2>6, <2>7 DEF Stakes
<1>19. Keys'
  <2>1. ASSUME NEW k, NEW d \in Conns, NEW i \in DOMAIN inbox'[d], Sends(k, d, i)'
        PROVE  \/ i \in DOMAIN inbox[d] /\ Sends(k, d, i)
               \/ k = m /\ d = j /\ i = Len(inbox[j]) + 1
    BY <1>3, <1>8, <1>9, <2>1 DEF Sends
  <2>2. ASSUME NEW k \in Nat, k # m PROVE Keyed(k)'
    <3>1. \A d \in Conns : \A i \in DOMAIN inbox'[d] :
            Sends(k, d, i)' => i \in DOMAIN inbox[d] /\ Sends(k, d, i)
      BY <2>1, <2>2
    <3>2. (Unsent(k) => Unsent(k)') /\ (SentOnce(k) => SentOnce(k)')
      BY <3>1 DEF Unsent, SentOnce
    <3>3. Keyed(k)
      BY <1>0 DEF Keys
    <3> QED
      BY <1>12, <2>2, <3>2, <3>3 DEF Keyed
  <2>3. Keyed(m)'
    <3>1. CASE m \in DOMAIN faults.told
      BY <1>12, <3>1 DEF Keyed
    <3>2. CASE m \notin DOMAIN faults.told
      <4>1. Unsent(m) /\ \A p \in Players : m \notin DOMAIN keys[p]
        BY <1>0, <1>1, <3>2 DEF Keys, Keyed
      <4>2. SentOnce(m)'
        BY <2>1, <4>1 DEF SentOnce, Unsent
      <4> QED
        BY <1>12, <4>1, <4>2 DEF Keyed
    <3> QED
      BY <3>1, <3>2
  <2>4. \A k \in DOMAIN matches :
          matches[k].status = "Active" => Holds(matches[k].joiner, k, matches[k].key)'
    BY <1>0 DEF Keys, Holds
  <2>5. \A tx \in txs' : tx.kind = "join" => Holds(tx.by, tx.match, tx.key)'
    BY <1>0, <1>11 DEF Keys, Holds
  <2> QED
    BY <2>2, <2>3, <2>4, <2>5 DEF Keys
<1> QED
  BY <1>11, <1>13, <1>14, <1>15, <1>16, <1>17, <1>18, <1>19 DEF IInv

LEMMA SeeCreatedKeeps == ASSUME IInv, NEW m \in DOMAIN matches, SeeCreated(m) PROVE IInv'
<1>1. Types
  BY DEF IInv
<1>2. PICK c \in DOMAIN pairs : AnnounceMatch(c, m, matches[m].stake)
  BY DEF SeeCreated
<1>3. UNCHANGED <<app, txs, keys, socks, online, asking, waiting, matches>>
  BY DEF SeeCreated, appvars, queuevars
<1>4. matches[m].stake \in Nat
  BY <1>1, TypesSay DEF Chain
<1>5. StaysOrMakes
  BY <1>3 DEF StaysOrMakes
<1> QED
  BY <1>2, <1>3, <1>4, <1>5, AnnounceKeeps

LEMMA CreatedKeeps ==
  ASSUME IInv, NEW tx \in txs, Receipt(tx), Made(tx)
  PROVE  IInv'
<1>1. Types /\ PairsOK /\ Places /\ tx.by \in Players /\ Timely(tx)
  BY DEF IInv, Types, Txs
<1>2. /\ txs' = txs \ {tx} /\ UNCHANGED <<keys, matches, socks, online, asking, waiting>>
  BY DEF Receipt, queuevars
<1>3. tx.match \in DOMAIN matches
  BY <1>1 DEF Timely, Made
<1>4. StaysOrMakes
  BY <1>2 DEF StaysOrMakes, Makes, Made, Current
<1>5. CASE Heard(tx.by) /\ app[tx.by].conn \in DOMAIN pairs
  <2>1. PICK c \in DOMAIN pairs : c = app[tx.by].conn
    BY <1>5
  <2>2. AnnounceMatch(c, tx.match, pairs[c].stake)
    BY <1>5, <2>1 DEF Made, CashCreated
  <2>3. pairs[c].stake \in Nat
    BY <1>1, PairIs
  <2> QED
    BY <1>2, <1>3, <1>4, <2>2, <2>3, AnnounceKeeps
<1>6. CASE ~(Heard(tx.by) /\ app[tx.by].conn \in DOMAIN pairs)
  <2>1. Calm /\ UNCHANGED faults
    BY <1>6 DEF Made, CashCreated, Calm, pairvars
  <2> QED
    BY <1>2, <1>4, <2>1, MakesKeeps
<1> QED
  BY <1>5, <1>6

LEMMA ReceiptKeeps == ASSUME IInv, NEW tx \in txs, Receipt(tx) PROVE IInv'
BY ReceiptEnds, CreatedKeeps

-----------------------------------------------------------------------------
(* A transaction lands.                                                    *)

\* The chain has the matches it had, and perhaps one more; a seat is taken by
\* a join alone, which may lower what the players of that match asked for.
Landed(tx) ==
  /\ matches' \in Seq(Chain) /\ Len(matches') \in Nat /\ Len(matches) <= Len(matches')
  /\ DOMAIN matches \subseteq DOMAIN matches' /\ DOMAIN matches' = 1 .. Len(matches')
  /\ \A k \in DOMAIN matches :
       /\ matches'[k].conn = matches[k].conn /\ matches'[k].stake = matches[k].stake
       /\ \/ matches'[k].cap = matches[k].cap
          \/ /\ tx.kind = "join" /\ k = tx.match
             /\ matches'[k].cap \in {matches[k].cap, Ask[tx.by][tx.search]}
       /\ matches'[k].status = "Active" =>
            \/ /\ matches[k].status = "Active" /\ matches'[k].joiner = matches[k].joiner
               /\ matches'[k].key = matches[k].key
            \/ /\ tx.kind = "join" /\ k = tx.match
               /\ matches'[k].joiner = tx.by /\ matches'[k].key = tx.key
  /\ \A k \in DOMAIN matches' \ DOMAIN matches :
       /\ tx.kind = "create" /\ matches'[k].conn = tx.conn /\ matches'[k].stake = tx.stake
       /\ matches'[k].cap = Ask[tx.by][tx.search] /\ matches'[k].status = "Open"

LEMMA MinOfTwo ==
  ASSUME NEW a \in Nat, NEW b \in Nat
  PROVE  Min({a, b}) \in {a, b}
<1>1. \E x \in {a, b} : \A y \in {a, b} : x <= y
  <2>1. CASE a <= b
    BY <2>1
  <2>2. CASE b <= a
    BY <2>2
  <2> QED
    BY <2>1, <2>2
<1> QED
  BY <1>1 DEF Min

LEMMA CreateLands ==
  ASSUME matches \in Seq(Chain), NEW tx \in Txs, tx.kind = "create", Ask[tx.by][tx.search] \in Nat,
         CreateMatch(tx, Len(matches) + 1)
  PROVE  Landed(tx) /\ Len(matches) + 1 \in DOMAIN matches'
<1> PICK new : new = [creator |-> tx.by, joiner |-> tx.by, key |-> 0, stake |-> tx.stake,
                      conn |-> tx.conn, status |-> "Open", cap |-> Ask[tx.by][tx.search]]
  OBVIOUS
<1>1. /\ new \in Chain /\ new.conn = tx.conn /\ new.stake = tx.stake /\ new.status = "Open"
      /\ new.cap = Ask[tx.by][tx.search]
  BY DEF Chain, Txs
<1>2. matches' = Append(matches, new)
  BY DEF CreateMatch
<1>3. Len(matches) \in Nat /\ DOMAIN matches = 1 .. Len(matches)
  BY SeqIs
<1>4. /\ Append(matches, new) \in Seq(Chain) /\ Len(Append(matches, new)) = Len(matches) + 1
      /\ Append(matches, new)[Len(matches) + 1] = new
      /\ \A k \in DOMAIN matches : Append(matches, new)[k] = matches[k]
  BY <1>1, AppendIs
<1>5. DOMAIN Append(matches, new) = 1 .. Len(matches) + 1
  BY <1>1, <1>3
<1> QED
  BY <1>1, <1>2, <1>3, <1>4, <1>5 DEF Landed

LEMMA JoinLands ==
  ASSUME matches \in Seq(Chain), NEW tx \in Txs, tx.kind = "join", NEW m \in DOMAIN matches, m = tx.match,
         NEW ask \in Nat, ask = Ask[tx.by][tx.search], JoinMatch(tx, m)
  PROVE  Landed(tx)
<1>1. matches[m] \in Chain /\ Len(matches) \in Nat /\ DOMAIN matches = 1 .. Len(matches)
  BY SeqIs
<1>a. PICK cap : cap = Min({matches[m].cap, ask})
  OBVIOUS
<1>2. cap \in {matches[m].cap, ask} /\ cap \in Nat
  <2>1. matches[m].cap \in Nat
    BY <1>1 DEF Chain
  <2> QED
    BY <1>a, <2>1, MinOfTwo
<1>b. PICK new : new = [matches[m] EXCEPT !.status = "Active", !.joiner = tx.by, !.key = tx.key, !.cap = cap]
  OBVIOUS
<1>3. /\ new \in Chain /\ new.conn = matches[m].conn /\ new.stake = matches[m].stake
      /\ new.joiner = tx.by /\ new.key = tx.key /\ new.cap = cap
  BY <1>1, <1>2, <1>b DEF Chain, Txs
<1>4. matches' = [matches EXCEPT ![m] = new]
  BY <1>a, <1>b DEF JoinMatch
<1>5. /\ matches' \in Seq(Chain) /\ Len(matches') = Len(matches) /\ matches'[m] = new
      /\ DOMAIN matches' = DOMAIN matches
      /\ \A k \in DOMAIN matches : k # m => matches'[k] = matches[k]
  BY <1>1, <1>3, <1>4
<1>6. ASSUME NEW k \in DOMAIN matches
      PROVE  /\ matches'[k].conn = matches[k].conn /\ matches'[k].stake = matches[k].stake
             /\ \/ matches'[k].cap = matches[k].cap
                \/ /\ tx.kind = "join" /\ k = tx.match
                   /\ matches'[k].cap \in {matches[k].cap, Ask[tx.by][tx.search]}
             /\ matches'[k].status = "Active" =>
                  \/ /\ matches[k].status = "Active" /\ matches'[k].joiner = matches[k].joiner
                     /\ matches'[k].key = matches[k].key
                  \/ /\ tx.kind = "join" /\ k = tx.match
                     /\ matches'[k].joiner = tx.by /\ matches'[k].key = tx.key
  <2>1. CASE k = m
    BY <1>2, <1>3, <1>5, <2>1
  <2>2. CASE k # m
    BY <1>5, <2>2
  <2> QED
    BY <2>1, <2>2
<1> QED
  BY <1>1, <1>5, <1>6 DEF Landed

LEMMA CancelLands ==
  ASSUME matches \in Seq(Chain), NEW tx, NEW m \in DOMAIN matches, CancelOpen(m)
  PROVE  Landed(tx)
<1>1. matches[m] \in Chain /\ Len(matches) \in Nat /\ DOMAIN matches = 1 .. Len(matches)
  BY SeqIs
<1> PICK new : new = [matches[m] EXCEPT !.status = "Cancelled"]
  OBVIOUS
<1>2. /\ new \in Chain /\ new.conn = matches[m].conn /\ new.stake = matches[m].stake
      /\ new.cap = matches[m].cap /\ new.status = "Cancelled"
  BY <1>1 DEF Chain
<1>3. matches' = [matches EXCEPT ![m] = new]
  BY DEF CancelOpen
<1>4. /\ matches' \in Seq(Chain) /\ Len(matches') = Len(matches) /\ matches'[m] = new
      /\ DOMAIN matches' = DOMAIN matches
      /\ \A k \in DOMAIN matches : k # m => matches'[k] = matches[k]
  BY <1>1, <1>2, <1>3
<1>5. ASSUME NEW k \in DOMAIN matches
      PROVE  /\ matches'[k].conn = matches[k].conn /\ matches'[k].stake = matches[k].stake
             /\ matches'[k].cap = matches[k].cap
             /\ matches'[k].status = "Active" =>
                  /\ matches[k].status = "Active" /\ matches'[k].joiner = matches[k].joiner
                  /\ matches'[k].key = matches[k].key
  <2>1. CASE k = m
    BY <1>2, <1>4, <2>1
  <2>2. CASE k # m
    BY <1>4, <2>2
  <2> QED
    BY <2>1, <2>2
<1> QED
  BY <1>1, <1>4, <1>5 DEF Landed

LEMMA MineKeeps == ASSUME IInv, NEW tx \in txs, Mine(tx) PROVE IInv'
<1>0. /\ Types /\ PairsOK /\ Places /\ EndsLast /\ Told /\ Stakes /\ Keys
      /\ (\A p \in Players : AppOK(p)) /\ (\A t \in txs : Timely(t))
  BY DEF IInv
<1> PICK m : m = IF tx.kind = "create" THEN Len(matches) + 1 ELSE tx.match
  OBVIOUS
<1> PICK res \in {"yes", "reverted"} :
      /\ txs' = (txs \ {tx}) \cup {[tx EXCEPT !.mined = res, !.match = m]}
      /\ \/ res = "reverted" /\ UNCHANGED matches
         \/ res = "yes" /\ tx.kind = "create" /\ CreateMatch(tx, m)
         \/ res = "yes" /\ tx.kind = "join" /\ JoinMatch(tx, m)
         \/ res = "yes" /\ tx.kind = "cancel" /\ CancelOpen(m)
  BY DEF Mine
<1> PICK land : land = [tx EXCEPT !.mined = res, !.match = m]
  OBVIOUS
<1>1. /\ tx \in Txs /\ tx.mined = "no" /\ tx.by \in Players /\ tx.match \in Nat
      /\ UNCHANGED <<app, keys, socks, inbox, online, asking, waiting, pairs, store, owed, recovering, faults>>
  BY <1>0 DEF Mine, Types, Txs, appvars, netvars, queuevars, pairvars
<1>2. Len(matches) \in Nat /\ DOMAIN matches = 1 .. Len(matches) /\ matches \in Seq(Chain)
  BY <1>0, TypesSay
<1>3. m \in Nat /\ (tx.kind # "create" => m = tx.match /\ m \in DOMAIN matches)
  BY <1>0, <1>1, <1>2 DEF Timely
<1>4. /\ land \in Txs /\ land.kind = tx.kind /\ land.by = tx.by /\ land.search = tx.search
      /\ land.conn = tx.conn /\ land.stake = tx.stake /\ land.key = tx.key
      /\ land.mined = res /\ land.match = m
  BY <1>1, <1>3 DEF Txs
<1>5. txs' \subseteq Txs /\ \A t \in txs' : t \in txs \/ t = land
  BY <1>0, <1>4 DEF Types
<1>6. Landed(tx) /\ (res = "yes" /\ tx.kind = "create" => m \in DOMAIN matches')
  <2>1. CASE res = "reverted" /\ UNCHANGED matches
    BY <1>2, <2>1 DEF Landed
  <2>2. CASE res = "yes" /\ tx.kind = "create" /\ CreateMatch(tx, m)
    <3>1. tx.search >= 1 /\ tx.search <= app[tx.by].search /\ app[tx.by].search <= Len(Ask[tx.by])
      BY <1>0, <1>1 DEF Timely, AppOK
    <3>2. Ask[tx.by] \in Seq(Nat \ {0}) /\ tx.search \in Nat /\ app[tx.by].search \in Nat
      BY <1>0, <1>1, PairingAssumption DEF Txs, Types, Apps
    <3>3. Ask[tx.by][tx.search] \in Nat
      BY <3>1, <3>2
    <3> QED
      BY <1>1, <1>2, <2>2, <3>3, CreateLands
  <2>3. CASE res = "yes" /\ tx.kind = "join" /\ JoinMatch(tx, m)
    <3>1. tx.search >= 1 /\ tx.search <= app[tx.by].search /\ app[tx.by].search <= Len(Ask[tx.by])
      BY <1>0, <1>1 DEF Timely, AppOK
    <3>2. Ask[tx.by] \in Seq(Nat \ {0}) /\ tx.search \in Nat /\ app[tx.by].search \in Nat
      BY <1>0, <1>1, PairingAssumption DEF Txs, Types, Apps
    <3>3. Ask[tx.by][tx.search] \in Nat
      BY <3>1, <3>2
    <3> QED
      BY <1>1, <1>2, <1>3, <2>3, <3>3, JoinLands
  <2>4. CASE res = "yes" /\ tx.kind = "cancel" /\ CancelOpen(m)
    BY <1>2, <1>3, <2>4, CancelLands
  <2> QED
    BY <2>1, <2>2, <2>3, <2>4
<1>chain. /\ matches' \in Seq(Chain) /\ Len(matches') \in Nat /\ Len(matches) <= Len(matches')
       /\ DOMAIN matches \subseteq DOMAIN matches' /\ DOMAIN matches' = 1 .. Len(matches')
       /\ \A k \in DOMAIN matches :
            matches'[k].conn = matches[k].conn /\ matches'[k].stake = matches[k].stake
  BY <1>6 DEF Landed
<1>7. Types'
  BY <1>0, <1>1, <1>5, <1>chain DEF Types
<1>8. PairsOK'
  <2> SUFFICES ASSUME NEW c \in DOMAIN pairs PROVE pairs[c].match <= Len(matches')
    BY <1>0, <1>1 DEF PairsOK, Owner
  <2>1. pairs[c].match \in Nat /\ pairs[c].match <= Len(matches)
    BY <1>0, PairIs DEF PairsOK
  <2> QED
    BY <1>2, <1>chain, <2>1
<1>9. Queued' = Queued /\ Joiners' = Joiners /\ Placed' = Placed /\ Waiting' = Waiting
  BY <1>1 DEF Queued, Waiting, Joiners, Placed
<1>10. Places' /\ EndsLast'
  BY <1>0, <1>1, <1>9 DEF Places, EndsLast
<1>11. ASSUME NEW p \in Players PROVE AppOK(p)'
  <2>1. AppOK(p) /\ app[p].created \in Nat
    BY <1>0 DEF Types, Apps
  <2> QED
    BY <1>1, <1>2, <1>chain, <2>1 DEF AppOK
<1>12. ASSUME NEW t \in txs' PROVE Timely(t)'
  <2>1. CASE t \in txs
    BY <1>0, <1>1, <1>2, <1>chain, <2>1 DEF Timely
  <2>2. CASE t = land
    BY <1>0, <1>1, <1>2, <1>3, <1>4, <1>6, <1>chain, <2>2 DEF Timely
  <2> QED
    BY <1>5, <2>1, <2>2
<1>13. Told'
  <2> SUFFICES ASSUME NEW p \in Players \ faults.astray
               PROVE  Persisted(p)' /\ Present(p)' /\ Committed(p)'
    BY <1>1 DEF Told
  <2>1. Persisted(p) /\ Present(p) /\ Committed(p)
    BY <1>0 DEF Told
  <2>2. Persisted(p)' /\ Present(p)'
    BY <1>1, <1>9, <2>1 DEF Persisted, Present, Owner
  <2>3. Box(p)' = Box(p) /\ (Answered(p) => Answered(p)')
    BY <1>1 DEF Box, Answered
  <2>4. ASSUME Once(p) PROVE Once(p)' /\ (Bound(p)' => Bound(p))
    <3>1. ASSUME NEW t \in Making(p)'
          PROVE  \E u \in Making(p) : t = u \/ (t = land /\ u = tx)
      <4>1. t \in txs' /\ t.kind = "create" /\ t.by = p /\ t.search = app[p].search
        BY <1>1, <3>1 DEF Making
      <4>2. CASE t \in txs
        BY <4>1, <4>2 DEF Making
      <4>3. CASE t = land
        BY <1>4, <4>1, <4>3 DEF Making
      <4> QED
        BY <1>5, <4>1, <4>2, <4>3
    <3>2. Making(p)' # {} => Making(p) # {}
      BY <3>1
    <3>3. \A t, u \in Making(p)' : t = u
      <4> SUFFICES ASSUME NEW t \in Making(p)', NEW u \in Making(p)' PROVE t = u
        OBVIOUS
      <4>1. \A v, w \in Making(p) : v = w
        BY <2>4 DEF Once
      <4>2. tx \notin txs' \/ land = tx
        OBVIOUS
      <4>3. t \in txs' /\ u \in txs'
        BY DEF Making
      <4> QED
        BY <3>1, <4>1, <4>2, <4>3
    <3>4. ToCreate(p)' = ToCreate(p)
      BY <2>3 DEF ToCreate
    <3>5. Bound(p)' => Bound(p)
      BY <1>1, <3>2, <3>4 DEF Bound
    <3> QED
      BY <1>1, <1>9, <2>3, <2>4, <3>2, <3>3, <3>4, <3>5 DEF Once
  <2> QED
    BY <1>1, <2>1, <2>2, <2>3, <2>4 DEF Committed
<1>14. Stakes'
  <2>1. ASSUME NEW c \in Queued' PROVE Fresh(c)'
    <3>1. Fresh(c)
      BY <1>0, <1>9 DEF Stakes
    <3>2. \A t \in txs' : t.kind = "create" => t.conn # c
      <4> SUFFICES ASSUME NEW t \in txs', t.kind = "create" PROVE t.conn # c
        OBVIOUS
      <4>1. \A u \in txs : u.kind = "create" => u.conn # c
        BY <3>1 DEF Fresh
      <4>2. PICK u \in txs : u.kind = t.kind /\ u.conn = t.conn
        BY <1>4, <1>5
      <4> QED
        BY <4>1, <4>2
    <3>3. \A k \in DOMAIN matches' : matches'[k].conn # c
      BY <1>4, <1>6, <3>1 DEF Fresh, Landed
    <3> QED
      BY <1>1, <3>1, <3>2, <3>3 DEF Fresh
  <2>2. ASSUME NEW k, NEW limit, Within(k, limit) PROVE Within(k, limit)'
    BY <1>1, <1>2, <1>chain, <2>2 DEF Within
  <2>3. ASSUME NEW c \in DOMAIN socks, NEW i \in DOMAIN inbox[c], NEW msg, msg = inbox[c][i]
        PROVE  MsgOK(c, msg)'
    <3>1. MsgOK(c, msg)
      BY <1>0, <2>3 DEF Stakes
    <3> QED
      BY <1>1, <2>2, <3>1 DEF MsgOK
  <2>4. ASSUME NEW t \in txs' PROVE TxOK(t)'
    <3>1. PICK u \in txs : /\ u.kind = t.kind /\ u.by = t.by /\ u.search = t.search /\ u.conn = t.conn
                           /\ u.stake = t.stake /\ (t.kind = "join" => u.match = t.match)
      BY <1>3, <1>4, <1>5
    <3>2. TxOK(u)
      BY <1>0 DEF Stakes
    <3> QED
      BY <1>1, <2>2, <3>1, <3>2 DEF TxOK
  <2>5. ASSUME NEW k \in DOMAIN matches' PROVE MatchOK(k)'
    <3>1. CASE k \in DOMAIN matches
      <4>1. MatchOK(k)
        BY <1>0, <3>1 DEF Stakes
      <4>2. tx.kind = "join" => Within(tx.match, Ask[tx.by][tx.search])
        BY <1>0 DEF Stakes, TxOK
      <4> PICK cap : cap = matches'[k].cap
        OBVIOUS
      <4>3. Within(k, cap)
        BY <1>6, <3>1, <4>1, <4>2 DEF MatchOK, Landed
      <4>4. Within(k, cap)'
        BY <2>2, <4>3
      <4> QED
        BY <1>1, <1>chain, <3>1, <4>1, <4>4 DEF MatchOK
    <3>2. CASE k \notin DOMAIN matches
      <4>1. TxOK(tx)
        BY <1>0 DEF Stakes
      <4>2. tx.kind = "create" /\ matches'[k].conn = tx.conn /\ matches'[k].stake = tx.stake
            /\ matches'[k].cap = Ask[tx.by][tx.search]
        BY <1>6, <3>2 DEF Landed
      <4> QED
        BY <1>1, <4>1, <4>2 DEF TxOK, MatchOK, Within
    <3> QED
      BY <3>1, <3>2
  <2>6. \A c \in DOMAIN socks' : \A i \in DOMAIN inbox'[c] : MsgOK(c, inbox[c][i])'
    BY <1>1, <2>3
  <2> QED
    BY <1>0, <1>1, <2>1, <2>4, <2>5, <2>6 DEF Stakes
<1>15. Keys'
  <2>1. ASSUME NEW k \in Nat PROVE Keyed(k)'
    <3>1. Keyed(k)
      BY <1>0 DEF Keys
    <3> QED
      BY <1>1, <3>1 DEF Keyed, Unsent, SentOnce, Sends
  <2>2. \A t \in txs' : t.kind = "join" => Holds(t.by, t.match, t.key)'
    <3> SUFFICES ASSUME NEW t \in txs', t.kind = "join" PROVE Holds(t.by, t.match, t.key)'
      OBVIOUS
    <3>1. PICK u \in txs : u.kind = "join" /\ u.by = t.by /\ u.match = t.match /\ u.key = t.key
      <4>1. CASE t \in txs
        BY <4>1
      <4>2. CASE t = land
        BY <1>3, <1>4, <4>2
      <4> QED
        BY <1>5, <4>1, <4>2
    <3>2. Holds(u.by, u.match, u.key)
      BY <1>0, <3>1 DEF Keys
    <3> QED
      BY <1>1, <3>1, <3>2 DEF Holds
  <2>3. ASSUME NEW k \in DOMAIN matches', matches'[k].status = "Active",
               NEW who, NEW key, who = matches'[k].joiner, key = matches'[k].key
        PROVE  Holds(who, k, key)'
    <3>1. k \in DOMAIN matches
      BY <1>6, <2>3 DEF Landed
    <3>2. CASE matches[k].status = "Active" /\ who = matches[k].joiner /\ key = matches[k].key
      BY <1>0, <1>1, <3>1, <3>2 DEF Keys, Holds
    <3>3. CASE tx.kind = "join" /\ k = tx.match /\ who = tx.by /\ key = tx.key
      BY <1>0, <1>1, <3>3 DEF Keys, Holds
    <3> QED
      BY <1>6, <2>3, <3>1, <3>2, <3>3 DEF Landed
  <2> QED
    BY <2>1, <2>2, <2>3 DEF Keys
<1> QED
  BY <1>7, <1>8, <1>10, <1>11, <1>12, <1>13, <1>14, <1>15 DEF IInv

-----------------------------------------------------------------------------
(* An app reads a message.                                                 *)

\* The head of a box is taken, and the server sees nothing of it.
Takes(c) ==
  /\ c \in Conns /\ inbox[c] # <<>> /\ 1 \in DOMAIN inbox[c] /\ inbox' \in [Conns -> Seq(Msgs)]
  /\ \A d \in Conns : d # c => inbox'[d] = inbox[d]
  /\ Len(inbox'[c]) = Len(inbox[c]) - 1
  /\ \A i \in DOMAIN inbox'[c] :
       i \in Nat /\ i >= 1 /\ i + 1 \in DOMAIN inbox[c] /\ inbox'[c][i] = inbox[c][i + 1]
  /\ UNCHANGED <<socks, online, asking, waiting, pairs, store, owed, recovering, faults, matches>>

LEMMA TakesIs ==
  ASSUME IInv, NEW p \in Players, Read(p), UNCHANGED matches
  PROVE  /\ Takes(app[p].conn) /\ app[p].open /\ app[p].conn \in DOMAIN socks
         /\ socks[app[p].conn].stake = Ask[p][app[p].search] /\ socks[app[p].conn].by = p
         /\ Head(inbox[app[p].conn]) = inbox[app[p].conn][1]
         /\ inbox[app[p].conn][1] \in Msgs
<1>0. Types /\ AppOK(p)
  BY DEF IInv
<1> PICK c : c = app[p].conn
  OBVIOUS
<1>1. /\ app[p].open /\ c # NoConn /\ inbox[c] # <<>> /\ inbox' = [inbox EXCEPT ![c] = Tail(@)]
      /\ UNCHANGED <<socks, online, asking, waiting, pairs, store, owed, recovering, faults>>
  BY DEF Read, queuevars, pairvars
<1>2. c \in DOMAIN socks /\ socks[c] = [by |-> p, stake |-> Ask[p][app[p].search]]
  BY <1>0, <1>1 DEF AppOK
<1>3. c \in Conns /\ inbox \in [Conns -> Seq(Msgs)] /\ inbox[c] \in Seq(Msgs)
  BY <1>0, <1>2, TypesSay DEF Types
<1>4. /\ Tail(inbox[c]) \in Seq(Msgs) /\ Len(Tail(inbox[c])) = Len(inbox[c]) - 1
      /\ Head(inbox[c]) = inbox[c][1] /\ 1 \in DOMAIN inbox[c]
      /\ \A i \in DOMAIN Tail(inbox[c]) : i + 1 \in DOMAIN inbox[c] /\ Tail(inbox[c])[i] = inbox[c][i + 1]
  BY <1>1, <1>3, TailIs
<1>5. \A i \in DOMAIN Tail(inbox[c]) : i \in Nat /\ i >= 1
  <2>1. DOMAIN Tail(inbox[c]) = 1 .. Len(Tail(inbox[c])) /\ Len(Tail(inbox[c])) \in Nat
    BY <1>4, SeqIs
  <2> QED
    BY <2>1
<1>6. inbox'[c] = Tail(inbox[c]) /\ inbox' \in [Conns -> Seq(Msgs)]
      /\ \A d \in Conns : d # c => inbox'[d] = inbox[d]
  BY <1>1, <1>3, <1>4
<1>7. inbox[c][1] \in Msgs
  BY <1>3, <1>4, SeqIs
<1>8. Takes(c)
  BY <1>1, <1>3, <1>4, <1>5, <1>6 DEF Takes
<1> QED
  BY <1>1, <1>2, <1>4, <1>7, <1>8

\* Keys of a match that the message read is not about.
LEMMA TakesKeyed ==
  ASSUME Types, NEW c, Takes(c), NEW m
  PROVE  /\ Unsent(m) => Unsent(m)'
         /\ SentOnce(m) => SentOnce(m)'
         /\ SentOnce(m) /\ Sends(m, c, 1) => Unsent(m)'
<1>1. ASSUME NEW d \in Conns, NEW i \in DOMAIN inbox'[d], Sends(m, d, i)'
      PROVE  \/ d = c /\ i \in Nat /\ i >= 1 /\ i + 1 \in DOMAIN inbox[d] /\ Sends(m, d, i + 1)
             \/ d # c /\ i \in DOMAIN inbox[d] /\ Sends(m, d, i)
  BY <1>1 DEF Takes, Sends
<1>2. Unsent(m) => Unsent(m)'
  BY <1>1 DEF Unsent
<1>3. ASSUME SentOnce(m) PROVE SentOnce(m)'
  <2> SUFFICES ASSUME NEW d \in Conns, NEW e \in Conns, NEW i \in DOMAIN inbox'[d], NEW j \in DOMAIN inbox'[e],
                      Sends(m, d, i)', Sends(m, e, j)'
               PROVE  d = e /\ i = j
    BY DEF SentOnce
  <2>1. \/ d = c /\ i \in Nat /\ i + 1 \in DOMAIN inbox[d] /\ Sends(m, d, i + 1)
        \/ d # c /\ i \in DOMAIN inbox[d] /\ Sends(m, d, i)
    BY <1>1
  <2>2. \/ e = c /\ j \in Nat /\ j + 1 \in DOMAIN inbox[e] /\ Sends(m, e, j + 1)
        \/ e # c /\ j \in DOMAIN inbox[e] /\ Sends(m, e, j)
    BY <1>1
  <2> QED
    BY <1>3, <2>1, <2>2 DEF SentOnce
<1>4. ASSUME SentOnce(m), Sends(m, c, 1) PROVE Unsent(m)'
  <2> SUFFICES ASSUME NEW d \in Conns, NEW i \in DOMAIN inbox'[d], Sends(m, d, i)' PROVE FALSE
    BY DEF Unsent
  <2>1. \/ d = c /\ i \in Nat /\ i >= 1 /\ i + 1 \in DOMAIN inbox[d] /\ Sends(m, d, i + 1)
        \/ d # c /\ i \in DOMAIN inbox[d] /\ Sends(m, d, i)
    BY <1>1
  <2>2. c \in Conns /\ 1 \in DOMAIN inbox[c]
    BY DEF Takes
  <2> QED
    BY <1>4, <2>1, <2>2 DEF SentOnce
<1> QED
  BY <1>2, <1>3, <1>4

\* A message that sends nobody to a match changes no key.
LEMMA TakesKeys ==
  ASSUME Types, Keys, NEW c, Takes(c), UNCHANGED keys,
         \A tx \in txs' : tx.kind = "join" => tx \in txs
  PROVE  Keys'
<1>1. ASSUME NEW m \in Nat PROVE Keyed(m)'
  <2>1. Keyed(m)
    BY DEF Keys
  <2>2. (Unsent(m) => Unsent(m)') /\ (SentOnce(m) => SentOnce(m)')
    BY TakesKeyed
  <2> QED
    BY <2>1, <2>2 DEF Keyed, Takes
<1>2. \A m \in DOMAIN matches :
        matches[m].status = "Active" => Holds(matches[m].joiner, m, matches[m].key)'
  BY DEF Keys, Holds, Takes
<1>3. \A tx \in txs' : tx.kind = "join" => Holds(tx.by, tx.match, tx.key)'
  BY DEF Keys, Holds
<1> QED
  BY <1>1, <1>2, <1>3 DEF Keys, Takes

\* The answer to a stake is behind a message that is not the end.
LEMMA TakesAnswered ==
  ASSUME Types, NEW p \in Players, Takes(app[p].conn), app'[p].conn = app[p].conn,
         ~Ends(inbox[app[p].conn][1]), Answered(p)
  PROVE  Answered(p)'
<1> PICK c : c = app[p].conn
  OBVIOUS
<1>1. c # NoConn /\ Box(p) = inbox[c] /\ Box(p)' = inbox'[c]
  <2>1. c \in Conns /\ c # NoConn
    BY TypesSay DEF Takes
  <2> QED
    BY <2>1 DEF Box
<1>2. CASE c \in DOMAIN pairs
  BY <1>2 DEF Answered, Takes
<1>3. CASE c \notin online /\ p \in owed \cup DOMAIN store
  BY <1>3 DEF Answered, Takes
<1>4. CASE Ended(Box(p))
  <2>1. inbox[c] \in Seq(Msgs) /\ inbox[c] # <<>> /\ inbox'[c] \in Seq(Msgs)
    BY TypesSay DEF Takes
  <2>2. Len(inbox[c]) # 1 /\ Len(inbox[c]) \in Nat /\ Len(inbox[c]) # 0
    BY <1>1, <1>4, <2>1 DEF Ended
  <2>3. Len(inbox'[c]) = Len(inbox[c]) - 1
    BY DEF Takes
  <2>4. Len(inbox'[c]) \in DOMAIN inbox'[c] /\ inbox'[c] # <<>>
    <3>0. PICK n \in Nat, k \in Nat : n = Len(inbox[c]) /\ k = Len(inbox'[c])
      BY <2>1, SeqIs
    <3>1. Len(inbox'[c]) \in Nat /\ Len(inbox'[c]) >= 1
      <4>1. n # 0 /\ n # 1 /\ k = n - 1
        BY <2>2, <2>3, <3>0
      <4>2. n \in Nat /\ k \in Nat
        BY <3>0
      <4>3. k >= 1
        BY <4>1, <4>2
      <4> QED
        BY <3>0, <4>2, <4>3
    <3>2. DOMAIN inbox'[c] = 1 .. Len(inbox'[c])
      BY <2>1, SeqIs
    <3>3. Len(inbox'[c]) \in DOMAIN inbox'[c]
      BY <3>1, <3>2
    <3> QED
      BY <3>3, EmptyIs
  <2>5. inbox'[c][Len(inbox'[c])] = inbox[c][Len(inbox[c])]
    BY <2>2, <2>3, <2>4 DEF Takes
  <2> QED
    BY <1>1, <1>4, <2>4, <2>5 DEF Answered, Ended
<1> QED
  BY <1>2, <1>3, <1>4 DEF Answered

\* What a read keeps, whatever the app then does.
LEMMA TakesKeeps ==
  ASSUME IInv, NEW p \in Players, Takes(app[p].conn), app[p].open,
         app[p].conn \in DOMAIN socks, socks[app[p].conn].by = p,
         Types', Keys', AppOK(p)', app'[p].search = app[p].search,
         app'[p].open => app'[p].conn = app[p].conn,
         \A q \in Players : q # p => app'[q] = app[q],
         txs \subseteq txs',
         \A tx \in txs' : tx \notin txs =>
           tx.by = p /\ Timely(tx)' /\ TxOK(tx) /\ (tx.kind = "create" => tx.conn \notin Queued),
         p \notin faults.astray => Committed(p)'
  PROVE  IInv'
<1>0. /\ Types /\ PairsOK /\ Places /\ EndsLast /\ Told /\ Stakes /\ Keys
      /\ (\A q \in Players : AppOK(q)) /\ (\A tx \in txs : Timely(tx))
  BY DEF IInv
<1> PICK c : c = app[p].conn
  OBVIOUS
<1>1. Takes(c) /\ c \in Conns
  BY DEF Takes
<1>2. UNCHANGED <<socks, online, asking, waiting, pairs, store, owed, recovering, faults, matches>>
  BY <1>1 DEF Takes
<1>3. Queued' = Queued /\ Joiners' = Joiners /\ Placed' = Placed /\ Waiting' = Waiting
  BY <1>2 DEF Queued, Waiting, Joiners, Placed
<1>4. PairsOK' /\ Places'
  BY <1>0, <1>2, <1>3 DEF PairsOK, Owner, Places
<1>5. ASSUME NEW d \in Conns, NEW i \in DOMAIN inbox'[d]
      PROVE  \/ d # c /\ inbox'[d] = inbox[d]
             \/ /\ d = c /\ i \in Nat /\ i + 1 \in DOMAIN inbox[d] /\ inbox'[d][i] = inbox[d][i + 1]
                /\ Len(inbox'[d]) = Len(inbox[d]) - 1
  BY <1>1 DEF Takes
<1>6. EndsLast'
  <2> SUFFICES ASSUME NEW d \in Conns, NEW i \in DOMAIN inbox'[d], Ends(inbox'[d][i])
               PROVE  i = Len(inbox'[d]) /\ d \notin Placed'
    BY DEF EndsLast
  <2>1. CASE d # c
    BY <1>0, <1>3, <1>5, <2>1 DEF EndsLast
  <2>2. CASE d = c
    <3>1. i \in Nat /\ i + 1 \in DOMAIN inbox[c] /\ Ends(inbox[c][i + 1]) /\ Len(inbox'[c]) = Len(inbox[c]) - 1
      BY <1>5, <2>2
    <3>2. i + 1 = Len(inbox[c]) /\ c \notin Placed
      BY <1>0, <1>1, <3>1 DEF EndsLast
    <3> QED
      BY <1>3, <2>2, <3>1, <3>2
  <2> QED
    BY <2>1, <2>2
<1>7. ASSUME NEW q \in Players PROVE AppOK(q)'
  <2>1. CASE q = p
    BY <2>1
  <2>2. CASE q # p
    BY <1>0, <1>2, <2>2 DEF AppOK
  <2> QED
    BY <2>1, <2>2
<1>8. ASSUME NEW tx \in txs' PROVE Timely(tx)'
  <2>1. CASE tx \in txs
    <3>1. Timely(tx) /\ tx.by \in Players
      BY <1>0, <2>1 DEF Types, Txs
    <3>2. app'[tx.by].search = app[tx.by].search
      BY <3>1
    <3> QED
      BY <1>2, <3>1, <3>2 DEF Timely
  <2> QED
    BY <2>1
<1>9. Told'
  <2> SUFFICES ASSUME NEW q \in Players \ faults.astray
               PROVE  Persisted(q)' /\ Present(q)' /\ Committed(q)'
    BY <1>2 DEF Told
  <2>1. Persisted(q) /\ Present(q) /\ Committed(q)
    BY <1>0 DEF Told
  <2>2. Persisted(q)'
    BY <1>2, <2>1 DEF Persisted
  <2>3. Present(q)'
    BY <1>2, <1>3, <2>1 DEF Present, Owner
  <2>4. CASE q = p
    BY <2>2, <2>3, <2>4
  <2>5. CASE q # p
    <3>1. ASSUME app[q].conn = c PROVE FALSE
      <4>1. c # NoConn
        BY <1>0, <1>1, TypesSay
      <4>2. AppOK(q)
        BY <1>0
      <4>3. socks[c] = [by |-> q, stake |-> Ask[q][app[q].search]]
        BY <3>1, <4>1, <4>2 DEF AppOK
      <4> QED
        BY <2>5, <4>3
    <3>2. app'[q] = app[q] /\ app[q].conn \in {NoConn} \cup Conns
      BY <1>0, <2>5, TypesSay DEF Apps
    <3>3. Box(q)' = Box(q)
      BY <1>1, <3>1, <3>2 DEF Box, Takes
    <3>4. Making(q)' = Making(q)
      <4>1. \A tx \in txs' : tx.by = q => tx \in txs
        BY <2>5
      <4> QED
        BY <3>2, <4>1 DEF Making
    <3>5. Once(q)' = Once(q) /\ Bound(q)' = Bound(q) /\ Answered(q)' = Answered(q)
      BY <1>2, <1>3, <3>2, <3>3, <3>4 DEF Once, Bound, ToCreate, Answered
    <3> QED
      BY <2>1, <2>2, <2>3, <3>2, <3>5 DEF Committed
  <2> QED
    BY <2>4, <2>5
<1>10. Stakes'
  <2>1. ASSUME NEW d \in Queued' PROVE Fresh(d)'
    <3>1. Fresh(d) /\ d \in Conns
      <4>1. d \in Queued
        BY <1>3
      <4>2. Queued \subseteq DOMAIN socks /\ DOMAIN socks \subseteq Conns
        BY <1>0, TypesSay DEF Queued, Waiting, Types
      <4> QED
        BY <1>0, <4>1, <4>2 DEF Stakes
    <3>2. \A i \in DOMAIN inbox'[d] : inbox'[d][i].t # "matched"
      BY <1>5, <3>1 DEF Fresh
    <3>3. \A tx \in txs' : tx.kind = "create" => tx.conn # d
      BY <1>3, <3>1 DEF Fresh
    <3> QED
      BY <1>2, <3>1, <3>2, <3>3 DEF Fresh
  <2>2. ASSUME NEW k, NEW limit, Within(k, limit) PROVE Within(k, limit)'
    BY <1>2, <2>2 DEF Within
  <2>3. ASSUME NEW d \in DOMAIN socks, NEW i \in DOMAIN inbox'[d], NEW msg, msg = inbox'[d][i]
        PROVE  MsgOK(d, msg)'
    <3>1. d \in Conns
      BY <1>0, TypesSay
    <3>2. PICK k \in DOMAIN inbox[d] : msg = inbox[d][k]
      BY <1>5, <2>3, <3>1
    <3>3. MsgOK(d, msg)
      BY <1>0, <3>2 DEF Stakes
    <3> QED
      BY <1>2, <2>2, <3>3 DEF MsgOK
  <2>4. ASSUME NEW tx \in txs' PROVE TxOK(tx)'
    <3>1. TxOK(tx)
      BY <1>0 DEF Stakes
    <3> QED
      BY <1>2, <2>2, <3>1 DEF TxOK
  <2>5. ASSUME NEW k \in DOMAIN matches PROVE MatchOK(k)'
    <3>1. MatchOK(k)
      BY <1>0 DEF Stakes
    <3> QED
      BY <1>2, <2>2, <3>1 DEF MatchOK
  <2>6. \A d \in DOMAIN socks' : \A i \in DOMAIN inbox'[d] : MsgOK(d, inbox[d][i])'
    BY <1>2, <2>3
  <2>7. \A d \in Conns \ DOMAIN socks' : inbox'[d] = <<>>
    BY <1>0, <1>1, <1>2 DEF Stakes, Takes
  <2> QED
    BY <1>2, <2>1, <2>4, <2>5, <2>6, <2>7 DEF Stakes
<1> QED
  BY <1>4, <1>6, <1>7, <1>8, <1>9, <1>10 DEF IInv

LEMMA TakesTypes ==
  ASSUME Types, NEW c, Takes(c), app' \in [Players -> Apps], txs' \subseteq Txs, keys' \in [Players -> Counts]
  PROVE  Types'
BY DEF Types, Takes

LEMMA TakesBox ==
  ASSUME Types, NEW p \in Players, Takes(app[p].conn), app'[p].conn = app[p].conn
  PROVE  /\ Box(p) = inbox[app[p].conn] /\ 1 \in DOMAIN Box(p)
         /\ \A i \in DOMAIN Box(p)' :
              i \in Nat /\ i >= 1 /\ i + 1 \in DOMAIN Box(p) /\ Box(p)'[i] = Box(p)[i + 1]
<1>1. app[p].conn \in Conns /\ app[p].conn # NoConn
  BY TypesSay DEF Takes
<1>2. Box(p) = inbox[app[p].conn] /\ Box(p)' = inbox'[app[p].conn]
  BY <1>1 DEF Box
<1> QED
  BY <1>2 DEF Takes

\* The panel shows something else.
LEMMA PhaseIs ==
  ASSUME IInv, NEW p \in Players, NEW phase \in Phases, app' = [app EXCEPT ![p].phase = phase],
         UNCHANGED <<socks, matches>>
  PROVE  /\ app' \in [Players -> Apps] /\ \A q \in Players : q # p => app'[q] = app[q]
         /\ app'[p].open = app[p].open /\ app'[p].conn = app[p].conn
         /\ app'[p].search = app[p].search /\ app'[p].created = app[p].created
         /\ AppOK(p)'
<1>1. Types /\ AppOK(p)
  BY DEF IInv
<1>2. app \in [Players -> Apps] /\ app[p] \in Apps
  BY <1>1 DEF Types
<1>3. PICK a : a = [app[p] EXCEPT !.phase = phase]
  OBVIOUS
<1>4. a \in Apps /\ a.open = app[p].open /\ a.conn = app[p].conn /\ a.search = app[p].search
      /\ a.created = app[p].created
  BY <1>2, <1>3 DEF Apps
<1>5. app' = [app EXCEPT ![p] = a]
  BY <1>3
<1>6. app' \in [Players -> Apps] /\ app'[p] = a /\ \A q \in Players : q # p => app'[q] = app[q]
  BY <1>2, <1>4, <1>5
<1>7. AppOK(p)'
  BY <1>1, <1>4, <1>6 DEF AppOK
<1> QED
  BY <1>4, <1>6, <1>7

\* A message that is not the end, and puts nothing new on the table.
LEMMA TakesCommitted ==
  ASSUME Types, NEW p \in Players, Takes(app[p].conn), app[p].open, Committed(p),
         app'[p].conn = app[p].conn, app'[p].search = app[p].search, app'[p].created = app[p].created,
         ~Ends(inbox[app[p].conn][1]), Making(p)' = Making(p)
  PROVE  Committed(p)'
<1>1. Once(p) /\ (Bound(p) => Answered(p))
  BY DEF Committed
<1>2. \A i \in DOMAIN Box(p)' :
        i \in Nat /\ i >= 1 /\ i + 1 \in DOMAIN Box(p) /\ Box(p)'[i] = Box(p)[i + 1]
  BY TakesBox
<1>3. ToCreate(p)' => ToCreate(p)
  BY <1>2 DEF ToCreate
<1>4. Bound(p)' => Bound(p)
  BY <1>3 DEF Bound
<1>5. Queued' = Queued /\ Joiners' = Joiners
  BY DEF Takes, Queued, Waiting, Joiners
<1>6. \A i, j \in DOMAIN Box(p)' : Creates(Box(p)[i])' /\ Creates(Box(p)[j])' => i = j
  <2> SUFFICES ASSUME NEW i \in DOMAIN Box(p)', NEW j \in DOMAIN Box(p)',
                      Creates(Box(p)[i])', Creates(Box(p)[j])'
               PROVE  i = j
    OBVIOUS
  <2>1. /\ i \in Nat /\ i + 1 \in DOMAIN Box(p) /\ Creates(Box(p)[i + 1])
        /\ j \in Nat /\ j + 1 \in DOMAIN Box(p) /\ Creates(Box(p)[j + 1])
    BY <1>2 DEF Creates
  <2>2. i + 1 = j + 1
    BY <1>1, <2>1 DEF Once
  <2> QED
    BY <2>1, <2>2
<1>7. Once(p)'
  BY <1>1, <1>3, <1>4, <1>5, <1>6 DEF Once
<1>8. Answered(p) => Answered(p)'
  BY TakesAnswered
<1> QED
  BY <1>1, <1>4, <1>7, <1>8 DEF Committed

\* The creator is asked for its match.
LEMMA ReadCreateKeeps ==
  ASSUME IInv, NEW p \in Players, Read(p), NEW msg, msg = Head(inbox[app[p].conn]),
         msg.t = "matched", msg.role = "create", OnMatched(p, msg)
  PROVE  IInv'
<1>0. Types /\ Stakes /\ Keys /\ Told /\ EndsLast /\ AppOK(p)
  BY DEF IInv
<1> PICK c : c = app[p].conn
  OBVIOUS
<1> PICK tx : tx = Tx("create", p, NoMatch, msg.stake, 0)
  OBVIOUS
<1>1. /\ app' = [app EXCEPT ![p].phase = "committed"] /\ txs' = txs \cup {tx}
      /\ UNCHANGED <<matches, keys>>
  BY DEF OnMatched, CreateOnChain, SendTx
<1>2. /\ Takes(c) /\ app[p].open /\ c \in DOMAIN socks /\ socks[c].by = p
      /\ socks[c].stake = Ask[p][app[p].search] /\ msg = inbox[c][1] /\ msg \in Msgs
  BY <1>1, TakesIs
<1>3. c \in Conns /\ 1 \in DOMAIN inbox[c] /\ socks' = socks /\ c \in Nat
  BY <1>0, <1>2, TypesSay DEF Takes
<1>4. msg.stake \in Nat /\ ~Ends(msg) /\ Creates(msg)
  BY <1>2 DEF Msgs, EndMsgs, Matched, Joining, Ends, Creates
<1>5. /\ app' \in [Players -> Apps] /\ \A q \in Players : q # p => app'[q] = app[q]
      /\ app'[p].open = app[p].open /\ app'[p].conn = app[p].conn
      /\ app'[p].search = app[p].search /\ app'[p].created = app[p].created
      /\ AppOK(p)'
  BY <1>1, <1>3, PhaseIs DEF Phases
<1>6. app[p].search \in Nat /\ app[p].search >= 1
  BY <1>0, <1>2, TypesSay DEF AppOK, Apps
<1>7. /\ tx \in Txs /\ tx.kind = "create" /\ tx.by = p /\ tx.search = app[p].search /\ tx.conn = c
      /\ tx.stake = msg.stake /\ tx.mined = "no"
  BY <1>3, <1>4, <1>6 DEF Tx, Txs, NoMatch
<1>8. Types'
  BY <1>0, <1>1, <1>2, <1>5, <1>7, TakesTypes DEF Types
<1>9. Keys'
  BY <1>0, <1>1, <1>2, <1>7, TakesKeys
<1>10. MsgOK(c, msg) /\ c \notin Queued
  BY <1>0, <1>2, <1>3 DEF Stakes, Fresh, Creates
<1>11. Timely(tx)' /\ TxOK(tx) /\ tx.conn \notin Queued
  <2>1. Timely(tx)'
    <3>0. PICK n \in Nat : n = app[p].search /\ n <= n
      BY <1>6
    <3>1. tx.search <= app'[tx.by].search
      BY <1>5, <1>7, <3>0
    <3>2. tx.kind = "create" /\ tx.mined # "yes" /\ tx.search >= 1
      BY <1>6, <1>7
    <3> QED
      BY <1>7, <3>1, <3>2 DEF Timely
  <2>2. msg.stake <= socks[c].stake /\ (c \in DOMAIN pairs => msg.stake = pairs[c].stake)
    BY <1>2, <1>4, <1>10 DEF MsgOK, Creates
  <2>3. TxOK(tx)
    BY <1>2, <1>7, <2>2 DEF TxOK
  <2> QED
    BY <1>7, <1>10, <2>1, <2>3
<1>12. ASSUME p \notin faults.astray PROVE Committed(p)'
  <2>1. Committed(p)
    BY <1>0, <1>12 DEF Told
  <2>2. Once(p) /\ (Bound(p) => Answered(p))
    BY <1>2, <2>1 DEF Committed
  <2>3. /\ Box(p) = inbox[c] /\ 1 \in DOMAIN Box(p)
        /\ \A i \in DOMAIN Box(p)' :
             i \in Nat /\ i >= 1 /\ i + 1 \in DOMAIN Box(p) /\ Box(p)'[i] = Box(p)[i + 1]
    BY <1>0, <1>2, <1>5, TakesBox
  <2>4. ToCreate(p) /\ Creates(Box(p)[1])
    BY <1>2, <1>4, <2>3 DEF ToCreate
  <2>5. Bound(p) /\ app[p].created = NoMatch /\ Making(p) = {} /\ c \notin Queued \cup Joiners
    BY <2>2, <2>4 DEF Once, Bound
  <2>6. Making(p)' = {tx}
    BY <1>1, <1>5, <1>7, <2>5 DEF Making
  <2>7. ~ToCreate(p)'
    <3> SUFFICES ASSUME NEW i \in DOMAIN Box(p)', Creates(Box(p)[i])' PROVE FALSE
      BY DEF ToCreate
    <3>1. i \in Nat /\ i >= 1 /\ i + 1 \in DOMAIN Box(p) /\ Creates(Box(p)[i + 1])
      BY <2>3 DEF Creates
    <3>2. i + 1 = 1
      BY <2>2, <2>3, <2>4, <3>1 DEF Once
    <3> QED
      BY <3>1, <3>2
  <2>8. Queued' = Queued /\ Joiners' = Joiners
    BY <1>2 DEF Takes, Queued, Waiting, Joiners
  <2>9. Once(p)'
    <3>1. \A i, j \in DOMAIN Box(p)' : Creates(Box(p)[i])' /\ Creates(Box(p)[j])' => i = j
      BY <2>7 DEF ToCreate
    <3> QED
      BY <1>5, <2>5, <2>6, <2>7, <2>8, <3>1 DEF Once
  <2>10. Answered(p)'
    BY <1>0, <1>2, <1>4, <1>5, <2>2, <2>5, TakesAnswered
  <2> QED
    BY <2>9, <2>10 DEF Committed
<1>13. \A t \in txs' : t \notin txs => t = tx
  BY <1>1
<1> QED
  BY <1>1, <1>2, <1>5, <1>7, <1>8, <1>9, <1>11, <1>12, <1>13, TakesKeeps

\* The joiner is told to wait for the match.
LEMMA ReadWaitKeeps ==
  ASSUME IInv, NEW p \in Players, Read(p), NEW msg, msg = Head(inbox[app[p].conn]),
         msg.t = "matched", msg.role # "create", OnMatched(p, msg)
  PROVE  IInv'
<1>0. Types /\ Keys /\ Told
  BY DEF IInv
<1>1. app' = [app EXCEPT ![p].phase = "pairing"] /\ UNCHANGED <<txs, matches, keys>>
  BY DEF OnMatched, chainvars
<1>2. /\ Takes(app[p].conn) /\ app[p].open /\ app[p].conn \in DOMAIN socks /\ socks[app[p].conn].by = p
      /\ msg = inbox[app[p].conn][1]
  BY <1>1, TakesIs
<1>3. /\ app' \in [Players -> Apps] /\ \A q \in Players : q # p => app'[q] = app[q]
      /\ app'[p].open = app[p].open /\ app'[p].conn = app[p].conn
      /\ app'[p].search = app[p].search /\ app'[p].created = app[p].created
      /\ AppOK(p)'
  BY <1>1, <1>2, PhaseIs DEF Phases, Takes
<1>4. Types' /\ Keys'
  BY <1>0, <1>1, <1>2, <1>3, TakesTypes, TakesKeys DEF Types
<1>5. ASSUME p \notin faults.astray PROVE Committed(p)'
  <2>1. ~Ends(inbox[app[p].conn][1]) /\ Making(p)' = Making(p) /\ Committed(p)
    BY <1>0, <1>1, <1>2, <1>3, <1>5 DEF Ends, Making, Told
  <2> QED
    BY <1>0, <1>2, <1>3, <2>1, TakesCommitted
<1> QED
  BY <1>1, <1>2, <1>3, <1>4, <1>5, TakesKeeps

\* The joiner is sent to the match, makes a key and takes the seat.
LEMMA ReadJoinKeeps ==
  ASSUME IInv, NEW p \in Players, Read(p), NEW msg, msg = Head(inbox[app[p].conn]),
         msg.t = "join", OnJoin(p, msg)
  PROVE  IInv'
<1>0. Types /\ Stakes /\ Keys /\ Told /\ AppOK(p)
  BY DEF IInv
<1> PICK c : c = app[p].conn
  OBVIOUS
<1> PICK m : m = msg.match
  OBVIOUS
<1>a. PICK k : k = KeysMade(p, m) + 1
  OBVIOUS
<1>b. PICK tx : tx = Tx("join", p, m, msg.stake, k)
  OBVIOUS
<1>1. /\ app' = [app EXCEPT ![p].phase = "committed"] /\ txs' = txs \cup {tx}
      /\ keys' = [keys EXCEPT ![p] = With(keys[p], m, k)] /\ UNCHANGED matches
  BY <1>a, <1>b DEF OnJoin, JoinCashMatch, SendTx
<1>2. /\ Takes(c) /\ app[p].open /\ c \in DOMAIN socks /\ socks[c].by = p
      /\ socks[c].stake = Ask[p][app[p].search] /\ msg = inbox[c][1] /\ msg \in Msgs
  BY <1>1, TakesIs
<1>3. /\ c \in Conns /\ 1 \in DOMAIN inbox[c] /\ socks' = socks /\ matches' = matches /\ faults' = faults
      /\ c \in Nat
  BY <1>0, <1>2, TypesSay DEF Takes
<1>4. m \in Nat /\ msg.stake \in Nat /\ ~Ends(msg)
  BY <1>2 DEF Msgs, EndMsgs, Matched, Joining, Ends
<1>5. /\ app' \in [Players -> Apps] /\ \A q \in Players : q # p => app'[q] = app[q]
      /\ app'[p].open = app[p].open /\ app'[p].conn = app[p].conn
      /\ app'[p].search = app[p].search /\ app'[p].created = app[p].created
      /\ AppOK(p)'
  BY <1>1, <1>3, PhaseIs DEF Phases
<1>6. app[p].search \in Nat /\ app[p].search >= 1
  BY <1>0, <1>2, TypesSay DEF AppOK, Apps
<1>7. keys \in [Players -> Counts] /\ keys[p] \in Counts
  BY <1>0 DEF Types
<1>8. /\ k \in Nat \ {0} /\ (m \notin DOMAIN keys[p] => k = 1)
      /\ (m \in DOMAIN keys[p] => keys[p][m] \in Nat /\ keys[p][m] < k)
  <2>1. \A i \in DOMAIN keys[p] : keys[p][i] \in Nat \ {0}
    BY <1>7, PartialIs DEF Counts
  <2>2. CASE m \in DOMAIN keys[p]
    <3>1. PICK n \in Nat : n = keys[p][m]
      BY <2>1, <2>2
    <3>2. k = n + 1
      BY <1>a, <2>2, <3>1 DEF KeysMade
    <3> QED
      BY <2>2, <3>1, <3>2
  <2>3. CASE m \notin DOMAIN keys[p]
    BY <1>a, <2>3 DEF KeysMade
  <2> QED
    BY <2>2, <2>3
<1>9. /\ tx \in Txs /\ tx.kind = "join" /\ tx.by = p /\ tx.search = app[p].search
      /\ tx.match = m /\ tx.key = k /\ tx.mined = "no"
  BY <1>3, <1>4, <1>6, <1>8, <1>b DEF Tx, Txs
<1>10. /\ keys' \in [Players -> Counts] /\ keys'[p] = With(keys[p], m, k)
       /\ \A q \in Players : q # p => keys'[q] = keys[q]
  <2>1. With(keys[p], m, k) \in Counts
    BY <1>4, <1>7, <1>8, WithIs DEF Counts
  <2> QED
    BY <1>1, <1>7, <2>1
<1>11. /\ DOMAIN keys'[p] = DOMAIN keys[p] \cup {m} /\ keys'[p][m] = k
       /\ \A i \in DOMAIN keys[p] : i # m => keys'[p][i] = keys[p][i]
  BY <1>10 DEF With
<1>12. Types'
  <2>1. txs' \subseteq Txs
    BY <1>0, <1>1, <1>9 DEF Types
  <2> QED
    BY <1>0, <1>2, <1>5, <1>10, <2>1, TakesTypes
<1>13. Sends(m, c, 1)
  BY <1>2 DEF Sends
<1>14. Keys'
  <2>1. ASSUME NEW i \in Nat, i # m PROVE Keyed(i)'
    <3>1. Keyed(i) /\ (Unsent(i) => Unsent(i)') /\ (SentOnce(i) => SentOnce(i)')
      BY <1>0, <1>2, TakesKeyed DEF Keys
    <3>2. \A q \in Players : (i \in DOMAIN keys'[q] <=> i \in DOMAIN keys[q])
                             /\ (i \in DOMAIN keys[q] => keys'[q][i] = keys[q][i])
      BY <1>10, <1>11, <2>1
    <3> QED
      BY <1>3, <3>1, <3>2 DEF Keyed
  <2>2. Keyed(m)'
    <3>1. Keyed(m) /\ (SentOnce(m) => SentOnce(m)' /\ Unsent(m)') /\ ~Unsent(m)
      BY <1>0, <1>2, <1>3, <1>4, <1>13, TakesKeyed DEF Keys, Unsent
    <3>2. m \in DOMAIN faults.told
      BY <3>1 DEF Keyed
    <3>3. CASE faults.told[m] = 1
      <4>1. SentOnce(m) /\ \A q \in Players : m \notin DOMAIN keys[q]
        BY <3>1, <3>2, <3>3 DEF Keyed
      <4>2. \A q \in Players : m \in DOMAIN keys'[q] => keys'[q][m] = 1
        BY <1>8, <1>10, <1>11, <4>1
      <4> QED
        BY <1>3, <3>1, <3>2, <4>1, <4>2 DEF Keyed
    <3>4. CASE faults.told[m] # 1
      BY <1>3, <3>2, <3>4 DEF Keyed
    <3> QED
      BY <3>3, <3>4
  <2>3. ASSUME NEW q \in Players, NEW i, NEW j \in Nat, Holds(q, i, j) PROVE Holds(q, i, j)'
    <3>1. i \in DOMAIN keys[q] /\ j >= 1 /\ j <= keys[q][i]
      BY <2>3 DEF Holds
    <3>2. CASE q = p /\ i = m
      <4>1. PICK n \in Nat : n = keys[p][m] /\ n < k
        BY <1>8, <3>1, <3>2
      <4>2. j <= n /\ j \in Nat /\ k \in Nat
        BY <1>8, <3>1, <3>2, <4>1
      <4>3. j <= k
        BY <4>1, <4>2
      <4> QED
        BY <1>11, <3>1, <3>2, <4>3 DEF Holds
    <3>3. CASE ~(q = p /\ i = m)
      BY <1>10, <1>11, <3>1, <3>3 DEF Holds
    <3> QED
      BY <3>2, <3>3
  <2>4. ASSUME NEW i \in DOMAIN matches, matches[i].status = "Active",
               NEW q, NEW j, q = matches[i].joiner, j = matches[i].key
        PROVE  Holds(q, i, j)'
    <3>1. Holds(q, i, j) /\ q \in Players /\ j \in Nat
      BY <1>0, <2>4, TypesSay DEF Keys, Chain
    <3> QED
      BY <2>3, <3>1
  <2>5. ASSUME NEW t \in txs', t.kind = "join" PROVE Holds(t.by, t.match, t.key)'
    <3>1. CASE t \in txs
      <4>1. Holds(t.by, t.match, t.key) /\ t.by \in Players /\ t.key \in Nat
        BY <1>0, <2>5, <3>1 DEF Keys, Types, Txs
      <4> QED
        BY <2>3, <4>1
    <3>2. CASE t = tx
      <4>1. k >= 1 /\ k <= k
        BY <1>8
      <4>2. t.by = p /\ t.match = m /\ t.key = k
        BY <1>9, <3>2
      <4> QED
        BY <1>11, <4>1, <4>2 DEF Holds
    <3> QED
      BY <1>1, <3>1, <3>2
  <2> QED
    BY <1>3, <2>1, <2>2, <2>4, <2>5 DEF Keys
<1>15. MsgOK(c, msg)
  BY <1>0, <1>2, <1>3 DEF Stakes
<1>16. Within(m, Ask[p][app[p].search])
  BY <1>2, <1>15 DEF MsgOK
<1>17. Timely(tx)' /\ TxOK(tx)
  <2>1. m \in DOMAIN matches
    BY <1>16 DEF Within
  <2>2. Timely(tx)'
    BY <1>3, <1>5, <1>6, <1>9, <2>1 DEF Timely
  <2>3. TxOK(tx)
    BY <1>9, <1>16 DEF TxOK
  <2> QED
    BY <2>2, <2>3
<1>18. ASSUME p \notin faults.astray PROVE Committed(p)'
  <2>1. ~Ends(inbox[app[p].conn][1]) /\ Making(p)' = Making(p) /\ Committed(p)
    BY <1>0, <1>1, <1>2, <1>4, <1>5, <1>9, <1>18 DEF Making, Told
  <2> QED
    BY <1>0, <1>2, <1>5, <2>1, TakesCommitted
<1>19. \A t \in txs' : t \notin txs => t = tx
  BY <1>1
<1> QED
  BY <1>1, <1>2, <1>5, <1>9, <1>12, <1>14, <1>17, <1>18, <1>19, TakesKeeps

\* The panel closes on what it hears.
LEMMA ReadClosesKeeps ==
  ASSUME IInv, NEW p \in Players, Read(p), NEW phase \in Phases, Bail(p, phase),
         UNCHANGED <<txs, matches, keys>>
  PROVE  IInv'
<1>0. Types /\ Keys /\ (\A q \in Players : AppOK(q)) /\ (\A tx \in txs : Timely(tx))
  BY DEF IInv
<1>1. /\ Takes(app[p].conn) /\ app[p].open /\ app[p].conn \in DOMAIN socks /\ socks[app[p].conn].by = p
  BY TakesIs
<1>2. app' \in [Players -> Apps] /\ (\A q \in Players : app'[q] = app[q] \/ Closes(q)) /\ UNCHANGED socks
  BY <1>0, <1>1, BailIs DEF Panels, Takes
<1>3. ~app'[p].open /\ app'[p].search = app[p].search /\ \A q \in Players : q # p => app'[q] = app[q]
  BY <1>0 DEF Bail, Types, Apps
<1>4. AppOK(p)'
  BY <1>0, <1>2, AppsStay DEF Panels
<1>5. Types' /\ Keys'
  BY <1>0, <1>1, <1>2, TakesTypes, TakesKeys DEF Types
<1>6. Committed(p)'
  BY <1>3 DEF Committed
<1> QED
  BY <1>1, <1>3, <1>4, <1>5, <1>6, TakesKeeps

\* The creator takes its stake back.
LEMMA ReadCancelKeeps ==
  ASSUME IInv, NEW p \in Players, Read(p), app[p].created # NoMatch,
         app' = [app EXCEPT ![p].created = NoMatch], CancelMatch(p, app[p].created), UNCHANGED keys
  PROVE  IInv'
<1>0. Types /\ Keys /\ Told /\ AppOK(p)
  BY DEF IInv
<1> PICK c : c = app[p].conn
  OBVIOUS
<1> PICK tx : tx = Tx("cancel", p, app[p].created, 0, 0)
  OBVIOUS
<1>1. txs' = txs \cup {tx} /\ UNCHANGED matches
  BY DEF CancelMatch, SendTx
<1>2. /\ Takes(c) /\ app[p].open /\ c \in DOMAIN socks /\ socks[c].by = p /\ socks' = socks
  BY <1>1, TakesIs DEF Takes
<1>3. app \in [Players -> Apps] /\ app[p] \in Apps
  BY <1>0 DEF Types
<1>4. PICK a : a = [app[p] EXCEPT !.created = NoMatch]
  OBVIOUS
<1>5. a \in Apps /\ a.open = app[p].open /\ a.conn = c /\ a.search = app[p].search /\ a.created = NoMatch
  BY <1>3, <1>4 DEF Apps, NoMatch
<1>6. app' = [app EXCEPT ![p] = a]
  BY <1>4
<1>7. app' \in [Players -> Apps] /\ app'[p] = a /\ \A q \in Players : q # p => app'[q] = app[q]
  BY <1>3, <1>5, <1>6
<1>8. /\ app[p].created \in DOMAIN matches /\ app[p].search \in Nat /\ app[p].search >= 1 /\ c \in Nat
      /\ app[p].created \in Nat /\ Len(matches) \in Nat
  BY <1>0, <1>2, <1>3, TypesSay DEF AppOK, Apps, NoMatch
<1>9. AppOK(p)'
  BY <1>0, <1>1, <1>2, <1>5, <1>7, <1>8 DEF AppOK, NoMatch
<1>10. /\ tx \in Txs /\ tx.kind = "cancel" /\ tx.by = p /\ tx.search = app[p].search
       /\ tx.match = app[p].created /\ tx.mined = "no"
  BY <1>8 DEF Tx, Txs
<1>11. Types' /\ Keys'
  BY <1>0, <1>1, <1>2, <1>7, <1>10, TakesTypes, TakesKeys DEF Types
<1>12. Timely(tx)' /\ TxOK(tx)
  BY <1>1, <1>5, <1>7, <1>8, <1>10 DEF Timely, TxOK
<1>13. ASSUME p \notin faults.astray PROVE Committed(p)'
  <2>1. Once(p)
    BY <1>0, <1>2, <1>13 DEF Told, Committed
  <2>2. Making(p) = {} /\ ~ToCreate(p)
    BY <2>1 DEF Once
  <2>3. Making(p)' = {}
    BY <1>1, <1>5, <1>7, <1>10, <2>2 DEF Making
  <2>4. ~ToCreate(p)'
    <3>1. \A i \in DOMAIN Box(p)' : i + 1 \in DOMAIN Box(p) /\ Box(p)'[i] = Box(p)[i + 1]
      BY <1>0, <1>2, <1>5, <1>7, TakesBox
    <3> QED
      BY <2>2, <3>1 DEF ToCreate
  <2>5. ~Bound(p)'
    BY <1>5, <1>7, <2>3, <2>4 DEF Bound
  <2>6. \A i, j \in DOMAIN Box(p)' : Creates(Box(p)[i])' /\ Creates(Box(p)[j])' => i = j
    BY <2>4 DEF ToCreate
  <2> QED
    BY <1>5, <1>7, <2>3, <2>4, <2>5, <2>6 DEF Committed, Once
<1>14. \A t \in txs' : t \notin txs => t = tx
  BY <1>1
<1> QED
  BY <1>1, <1>2, <1>5, <1>7, <1>9, <1>10, <1>11, <1>12, <1>13, <1>14, TakesKeeps

LEMMA ReadKeeps == ASSUME IInv, NEW p \in Players, Read(p) PROVE IInv'
<1> PICK msg : msg = Head(inbox[app[p].conn])
  OBVIOUS
<1>1. CASE msg.t = "matched" /\ OnMatched(p, msg)
  BY <1>1, ReadCreateKeeps, ReadWaitKeeps
<1>2. CASE msg.t = "join" /\ OnJoin(p, msg)
  BY <1>2, ReadJoinKeeps
<1>3. CASE OnAbort(p)
  <2>1. CASE app[p].created # NoMatch
    BY <1>3, <2>1, ReadCancelKeeps DEF OnAbort
  <2>2. CASE app[p].created = NoMatch
    BY <1>3, <2>2, ReadClosesKeeps DEF OnAbort, Phases, chainvars
  <2> QED
    BY <2>1, <2>2
<1>4. CASE Bail(p, "playing") /\ UNCHANGED <<chainvars, keys>>
  BY <1>4, ReadClosesKeeps DEF Phases, chainvars
<1> QED
  BY <1>1, <1>2, <1>3, <1>4 DEF Read

-----------------------------------------------------------------------------
(* The invariant holds, and says what the properties say.                  *)

LEMMA InitKeeps == ASSUME Init PROVE IInv
<1>1. /\ app = [p \in Players |-> Closed] /\ socks = <<>> /\ inbox = [c \in Conns |-> <<>>]
      /\ online = {} /\ asking = {} /\ waiting = {} /\ pairs = <<>> /\ store = <<>> /\ owed = {}
      /\ recovering = <<>> /\ matches = <<>> /\ txs = {} /\ keys = [p \in Players |-> <<>>]
      /\ faults = [drops |-> 0, restarts |-> 0, astray |-> {}, stray |-> {}, unseen |-> 0, told |-> <<>>]
  BY DEF Init
<1>2. \A D, R : <<>> \in Partial(D, R) /\ DOMAIN <<>> = {} /\ <<>> \in Seq(R) /\ Len(<<>>) = 0
  BY EmptyIs
<1>3. DOMAIN socks = {} /\ DOMAIN pairs = {} /\ DOMAIN store = {} /\ DOMAIN recovering = {} /\ DOMAIN matches = {}
      /\ Len(matches) = 0 /\ DOMAIN faults.told = {}
  BY <1>1, <1>2
<1>4. \A p \in Players : app[p] = Closed /\ DOMAIN keys[p] = {}
  BY <1>1, <1>2
<1>5. \A c \in Conns : inbox[c] = <<>> /\ DOMAIN inbox[c] = {}
  BY <1>1, <1>2
<1>6. MaxConns \in Nat
  BY PairingAssumption
<1>7. Types
  <2>1. Closed \in Apps
    BY DEF Closed, Apps, NoConn, NoMatch, Phases
  <2>2. app \in [Players -> Apps]
    BY <1>1, <2>1
  <2>3. <<>> \in Seq(Msgs) /\ <<>> \in Seq(Sock) /\ <<>> \in Seq(Chain) /\ Len(<<>>) = 0
    BY <1>2
  <2>4. inbox \in [Conns -> Seq(Msgs)]
    BY <1>1, <2>3
  <2>5. <<>> \in Counts /\ <<>> \in Partial(Conns, Pair) /\ <<>> \in Partial(Players, Kept)
    BY <1>2 DEF Counts
  <2>6. keys \in [Players -> Counts]
    BY <1>1, <2>5
  <2>7. faults \in Faults
    BY <1>1, <2>5 DEF Faults
  <2>8. 0 <= MaxConns
    BY <1>6
  <2> QED
    BY <1>1, <2>2, <2>3, <2>4, <2>5, <2>6, <2>7, <2>8 DEF Types
<1>8. Queued = {} /\ Joiners = {} /\ Placed = {} /\ Waiting = {}
  BY <1>1, <1>3 DEF Queued, Waiting, Joiners, Placed
<1>9. PairsOK /\ Places /\ EndsLast
  BY <1>1, <1>3, <1>5, <1>8 DEF PairsOK, Places, EndsLast
<1>10. ASSUME NEW p \in Players PROVE AppOK(p)
  <2>1. Ask[p] \in Seq(Nat \ {0})
    BY PairingAssumption
  <2>2. 0 <= Len(Ask[p])
    BY <2>1
  <2> QED
    BY <1>3, <1>4, <2>2 DEF AppOK, Closed, NoConn, NoMatch
<1>11. Told
  <2> SUFFICES ASSUME NEW p \in Players PROVE Persisted(p) /\ Present(p) /\ Committed(p)
    BY DEF Told
  <2>1. Persisted(p)
    BY <1>3 DEF Persisted
  <2>2. Present(p) /\ Committed(p)
    BY <1>4 DEF Present, Committed, Closed
  <2> QED
    BY <2>1, <2>2
<1>12. Stakes
  BY <1>1, <1>3, <1>5, <1>8 DEF Stakes
<1>13. Keys
  BY <1>1, <1>3, <1>4, <1>5 DEF Keys, Keyed, Unsent
<1> QED
  BY <1>1, <1>7, <1>9, <1>10, <1>11, <1>12, <1>13 DEF IInv

LEMMA StillKeeps == ASSUME IInv, UNCHANGED vars PROVE IInv'
<1>1. UNCHANGED <<app, keys, socks, inbox, online, asking, waiting, pairs, store, owed, recovering,
                  matches, txs, faults>>
  BY DEF vars, appvars, netvars, queuevars, pairvars, chainvars
<1>2. Types /\ StaysOrMakes /\ Calm
  BY <1>1 DEF IInv, StaysOrMakes, Calm
<1> QED
  BY <1>1, <1>2, MakesKeeps

LEMMA StepKeeps == ASSUME IInv, [Next]_vars PROVE IInv'
<1>1. ASSUME NEW p \in Players,
             Connect(p) \/ CashCancel(p) \/ Read(p) \/ Drop(p) \/ Notice(p) \/ Recover(p)
      PROVE  IInv'
  BY <1>1, ConnectKeeps, CancelKeeps, ReadKeeps, DropKeeps, NoticeKeeps, RecoverKeeps
<1>2. ASSUME NEW c \in Conns, Enqueue(c) \/ Disconnect(c) \/ SetupTimeout(c) PROVE IInv'
  BY <1>2, EnqueueKeeps, DisconnectKeeps, TimeoutKeeps
<1>3. ASSUME NEW m \in DOMAIN matches, SeeCreated(m) \/ SeeJoined(m) PROVE IInv'
  BY <1>3, SeeCreatedKeeps, SeeJoinedKeeps
<1>4. ASSUME NEW tx \in txs, Mine(tx) \/ Receipt(tx) PROVE IInv'
  BY <1>4, MineKeeps, ReceiptKeeps
<1>5. CASE Sweep \/ Tick \/ Restart
  BY <1>5, SweepKeeps, TickKeeps, RestartKeeps
<1>6. CASE UNCHANGED vars
  BY <1>6, StillKeeps
<1> QED
  BY <1>1, <1>2, <1>3, <1>4, <1>5, <1>6 DEF Next

\* No action leaves the invariant, from the start on.
LEMMA Invariant == Spec => []IInv
<1>1. Init => IInv
  BY InitKeeps
<1>2. IInv /\ [Next]_vars => IInv'
  BY StepKeeps
<1> QED
  BY <1>1, <1>2, PTL DEF Spec

LEMMA InvPairing == ASSUME IInv PROVE PairingInv
<1>0. /\ Types /\ PairsOK /\ Places /\ Told /\ \A p \in Players : AppOK(p)
  BY DEF IInv
<1>1. TypeOK
  <2>1. app \in [Players -> [open : BOOLEAN, conn : {NoConn} \cup Conns, search : Nat, created : MatchIds,
                             phase : {"idle", "searching", "pairing", "committed", "playing"}]]
    <3>1. Len(matches) \in Nat
      BY <1>0, TypesSay
    <3>2. ASSUME NEW p \in Players PROVE app[p].created \in MatchIds
      <4>1. app[p].created \in Nat /\ app[p].created <= Len(matches)
        BY <1>0 DEF AppOK, Types, Apps
      <4> QED
        BY <3>1, <4>1 DEF MatchIds
    <3>3. ASSUME NEW p \in Players
          PROVE  app[p] \in [open : BOOLEAN, conn : {NoConn} \cup Conns, search : Nat, created : MatchIds,
                             phase : {"idle", "searching", "pairing", "committed", "playing"}]
      <4>1. app[p] \in Apps
        BY <1>0 DEF Types
      <4> QED
        BY <3>2, <4>1 DEF Apps, Phases
    <3> QED
      BY <1>0, <3>3 DEF Types
  <2>2. /\ Len(socks) <= MaxConns /\ \A c \in DOMAIN socks : Owner(c) \in Players
        /\ online \subseteq DOMAIN socks /\ asking \subseteq DOMAIN socks
    BY <1>0, TypesSay DEF Types, Owner, Sock
  <2>3. \A w \in waiting : w.conn \in DOMAIN socks /\ w.waited \in 0 .. MaxWait
    BY <1>0 DEF Types, Waiter
  <2>4. \A c \in DOMAIN pairs : {c, pairs[c].joinerConn} \subseteq DOMAIN socks /\ pairs[c].match \in MatchIds
    <3> SUFFICES ASSUME NEW c \in DOMAIN pairs
                 PROVE  {c, pairs[c].joinerConn} \subseteq DOMAIN socks /\ pairs[c].match \in MatchIds
      OBVIOUS
    <3>1. pairs[c].match \in Nat /\ Len(matches) \in Nat
      BY <1>0, PairIs, TypesSay
    <3>2. pairs[c].match <= Len(matches) /\ {c, pairs[c].joinerConn} \subseteq DOMAIN socks
      BY <1>0 DEF PairsOK
    <3> QED
      BY <3>1, <3>2 DEF MatchIds
  <2>5. DOMAIN store \subseteq Players /\ owed \subseteq Players
    BY <1>0, TypesSay DEF Types
  <2>6. \A m \in DOMAIN matches : matches[m].status \in {"Open", "Active", "Cancelled"}
    BY <1>0, TypesSay DEF Chain
  <2> QED
    BY <2>1, <2>2, <2>3, <2>4, <2>5, <2>6 DEF TypeOK
<1>2. OnePlaceEach
  <2> SUFFICES ASSUME NEW c \in DOMAIN pairs
               PROVE  /\ PairsOf(c) = {c} /\ PairsOf(pairs[c].joinerConn) = {c}
                      /\ \A w \in waiting : w.conn \notin {c, pairs[c].joinerConn}
    BY DEF OnePlaceEach
  <2>1. \A k \in DOMAIN pairs : pairs[k].joinerConn \in Joiners /\ pairs[k].joinerConn \notin DOMAIN pairs
    BY <1>0 DEF Places, Joiners
  <2>2. \A w \in waiting : w.conn \in Queued
    BY DEF Queued, Waiting
  <2> QED
    BY <1>0, <2>1, <2>2 DEF PairsOf, Places
<1>3. PairPersisted
  <2> SUFFICES ASSUME NEW c \in DOMAIN pairs, NEW p, p = pairs[c].creator, p \notin faults.astray
               PROVE  p \in DOMAIN store /\ store[p] = [joiner |-> pairs[c].joiner, match |-> pairs[c].match]
    BY DEF PairPersisted
  <2>1. p \in Players
    BY <1>0, PairIs
  <2> QED
    BY <1>0, <2>1 DEF Told, Persisted
<1>4. CreatorAnswered
  <2> SUFFICES ASSUME NEW p \in Players \ faults.astray, NEW c, c = app[p].conn,
                      app[p].open, app[p].created # NoMatch
               PROVE  \/ c \in DOMAIN pairs
                      \/ c # NoConn /\ inbox[c] # <<>>
                      \/ c \notin online /\ p \in owed \cup DOMAIN store
    BY DEF CreatorAnswered
  <2>1. Answered(p)
    BY <1>0 DEF Told, Committed, Bound
  <2>2. Ended(Box(p)) => c # NoConn /\ inbox[c] # <<>>
    BY DEF Ended, Box
  <2> QED
    BY <2>1, <2>2 DEF Answered
<1> QED
  BY <1>1, <1>2, <1>3, <1>4 DEF PairingInv

LEMMA InvSeats == ASSUME IInv PROVE SeatsMatch
<1>0. Types /\ Stakes /\ Keys
  BY DEF IInv
<1>1. NobodyRisksMore
  BY <1>0 DEF NobodyRisksMore, Stakes, MatchOK, Within
<1>2. KeyKept
  <2> SUFFICES ASSUME NEW m \in DOMAIN matches, matches[m].status = "Active",
                      NEW p, p = matches[m].joiner, NEW key, key = matches[m].key, keys[p][m] # key
               PROVE  faults.told[m] > 1
    BY DEF KeyKept
  <2>1. Holds(p, m, key) /\ p \in Players /\ key \in Nat /\ m \in Nat
    BY <1>0, TypesSay DEF Keys, Chain
  <2>2. Keyed(m)
    BY <1>0, <2>1 DEF Keys
  <2>3. m \in DOMAIN keys[p] /\ key >= 1 /\ key <= keys[p][m]
    BY <2>1 DEF Holds
  <2>4. m \in DOMAIN faults.told
    BY <2>1, <2>2, <2>3 DEF Keyed
  <2>5. faults.told[m] \in Nat \ {0}
    <3>1. faults.told \in Counts
      BY <1>0 DEF Types, Faults
    <3> QED
      BY <2>4, <3>1, PartialIs DEF Counts
  <2>6. faults.told[m] # 1
    <3> SUFFICES ASSUME faults.told[m] = 1 PROVE FALSE
      OBVIOUS
    <3>1. keys[p][m] = 1
      BY <2>1, <2>2, <2>3, <2>4 DEF Keyed
    <3> QED
      BY <2>1, <2>3, <3>1
  <2> QED
    BY <2>5, <2>6
<1> QED
  BY <1>1, <1>2 DEF SeatsMatch

\* A connection is queued or in one pair, never both; a pair whose creator has
\* not been led astray is in the store with its match; and a creator who waits
\* with a stake on the table has a pair, an unread message or owed news.
THEOREM PairingHolds == Spec => []PairingInv
<1>1. IInv => PairingInv
  BY InvPairing
<1> QED
  BY <1>1, Invariant, PTL

\* A match is staked at no more than either player asked for, and the joiner's
\* app keeps the session key its seat was taken with, outside the two cases the
\* definitions name.
THEOREM SeatsHold == Spec => []SeatsMatch
<1>1. IInv => SeatsMatch
  BY InvSeats
<1> QED
  BY <1>1, Invariant, PTL

=============================================================================
