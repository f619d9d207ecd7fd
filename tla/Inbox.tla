--------------------------------- MODULE Inbox ---------------------------------
(***************************************************************************)
(* How the server reaches a player who is away: the in-app inbox, the push *)
(* subscriptions and the challenges of one player, the card of the home    *)
(* screen that shows the inbox, and the friends graph                      *)
(* (notifications/inbox.ts, notifications/notifier.ts, social/store.ts,    *)
(* their routes in main.ts, InboxCard.tsx).                                *)
(*                                                                         *)
(* The lists are JSON values of Redis: every change loads a list, derives  *)
(* the next one and saves it, with an await in between.  Friends are sets  *)
(* of Redis, added to one by one.  Texts, links and keys are left out.     *)
(***************************************************************************)
EXTENDS Integers, FiniteSets, SequencesExt

CONSTANTS
  Kinds,          \* tags of notifications
  Endpoints,      \* push subscriptions of the player's devices
  Invitations,    \* [id, match] of challenges
  Wallets,        \* whom the friends graph is about
  MaxItems,       \* MAX_ITEMS (20)
  MaxChallenges,  \* 50
  CardRows,       \* items the card shows (3)
  Handlers,       \* bound: requests and notifications under way at a time
  MaxStarted,     \* bound: requests, notifications and cards
  LastTick,       \* bound
  MaxOutages,     \* bound: saves that fail, dismissals lost, restarts
  Quiet           \* no handler

ASSUME InboxAssumption ==
  /\ {MaxItems, MaxChallenges, CardRows, LastTick} \subseteq Nat \ {0}
  /\ {MaxStarted, MaxOutages} \subseteq Nat

VARIABLES
  tick,      \* Date.now()
  lists,     \* inbox, subs and challenges, as stored
  lastSeen,  \* awale:inbox:seen
  friends,   \* <<a, b>> when b is in a's set
  handler,   \* what each handler has loaded and is about to save or send
  dead,      \* endpoints the push service no longer knows
  card,      \* the home screen's card
  started, outages,
  saved,     \* history: items saved in the inbox
  shown,     \* history: items a card has shown
  passedBy,  \* history: items saved beside a card, or below the rows it shows
  overwrote     \* history: lists a save of which undid another

inboxHistory == <<saved, shown, passedBy, overwrote>>
inboxVars == <<tick, lists, lastSeen, friends, handler, dead, card, started, outages, inboxHistory>>

NoCard == [on |-> "none", unseen |-> 0]

InboxInit ==
  /\ tick = 1 /\ lastSeen = 0 /\ friends = {} /\ dead = {}
  /\ lists = [inbox |-> <<>>, subs |-> <<>>, challenges |-> <<>>]
  /\ handler = [h \in Handlers |-> Quiet]
  /\ card = NoCard /\ started = 0 /\ outages = 0
  /\ saved = {} /\ shown = {} /\ passedBy = {} /\ overwrote = {}

-----------------------------------------------------------------------------
(* From list to list.                                                      *)

First(list, n) == SubSeq(list, 1, IF Len(list) < n THEN Len(list) ELSE n)

\* Slip: the item of the tag that is there already stays.
PushStacking(list, n) == First(<<n>> \o list, MaxItems)

\* pushToInbox: one item of each tag, the newest first.
PushToInbox(list, n) == First(<<n>> \o SelectSeq(list, LAMBDA i : i.tag # n.tag), MaxItems)

AddSubscription(list, e) == IF e \in ToSet(list) THEN list ELSE Append(list, e)
RemoveSubscription(list, e) == SelectSeq(list, LAMBDA x : x # e)

AddChallenge(list, c) == First(<<c>> \o SelectSeq(list, LAMBDA x : x.match # c.match), MaxChallenges)
RemoveChallenge(list, c) == SelectSeq(list, LAMBDA x : x.id # c.id)

-----------------------------------------------------------------------------
(* The handlers: load and derive, then save.                               *)

\* left: what remains once the save is done, devices to notify or pairs to befriend.
Job(of, next, item, left) ==
  [of |-> of, base |-> IF of \in DOMAIN lists THEN lists[of] ELSE <<>>, next |-> next, item |-> item, left |-> left]

Start(h, job) ==
  /\ handler[h] = Quiet /\ started < MaxStarted /\ started' = started + 1
  /\ handler' = [handler EXCEPT ![h] = job]
  /\ UNCHANGED <<tick, lists, lastSeen, friends, dead, card, outages, inboxHistory>>

\* InboxNotifier.notify, from any of the nudges: the item carries the time of the call.
Notify(h, tag) ==
  LET n == [tag |-> tag, at |-> tick] IN Start(h, Job("inbox", PushToInbox(lists.inbox, n), n, <<>>))

\* POST /push/subscribe, /social/challenge and /social/challenge/dismiss.
Subscribe(h, e) == Start(h, Job("subs", AddSubscription(lists.subs, e), e, <<>>))
SendChallenge(h, c) == Start(h, Job("challenges", AddChallenge(lists.challenges, c), c, <<>>))
DismissChallenge(h, c) == Start(h, Job("challenges", RemoveChallenge(lists.challenges, c), c, <<>>))

\* POST /social/befriend: one set, then the other.
Befriend(h, a, b) == a # b /\ Start(h, Job("friends", <<>>, a, <<<<a, b>>, <<b, a>>>>))

Doing(h, of) == handler[h] # Quiet /\ handler[h].of \in of

AddFriend(h) ==
  /\ Doing(h, {"friends"})
  /\ friends' = friends \cup {Head(handler[h].left)}
  /\ handler' = [handler EXCEPT ![h] = IF Len(@.left) = 1 THEN Quiet ELSE [@ EXCEPT !.left = Tail(@)]]
  /\ UNCHANGED <<tick, lists, lastSeen, dead, card, started, outages, inboxHistory>>

\* A notification goes on to the subscriptions found after the save.
AfterSave(job) ==
  LET devices == IF job.of = "inbox" THEN lists.subs ELSE job.left IN
  IF devices = <<>> THEN Quiet
  ELSE [of |-> "push", base |-> <<>>, next |-> <<>>, item |-> job.item, left |-> devices]

SaveList(h) ==
  LET job == handler[h] IN
  /\ Doing(h, DOMAIN lists)
  /\ lists' = [lists EXCEPT ![job.of] = job.next]
  /\ overwrote' = IF lists[job.of] = job.base THEN overwrote ELSE overwrote \cup {job.of}
  /\ saved' = IF job.of = "inbox" THEN saved \cup {job.item} ELSE saved
  /\ passedBy' = IF job.of = "inbox" /\ (card # NoCard \/ job.item.at <= lastSeen)
                 THEN passedBy \cup {job.item} ELSE passedBy
  /\ handler' = [handler EXCEPT ![h] = AfterSave(job)]
  /\ UNCHANGED <<tick, lastSeen, friends, dead, card, started, outages, shown>>

\* The load or the save throws: an inbox that fails never blocks the push, nor a failed
\* pruning the next device; a route answers 400.
SaveFails(h) ==
  /\ Doing(h, DOMAIN lists) /\ outages < MaxOutages /\ outages' = outages + 1
  /\ handler' = [handler EXCEPT ![h] = AfterSave(@)]
  /\ UNCHANGED <<tick, lists, lastSeen, friends, dead, card, started, inboxHistory>>

\* WebPushNotifier.notify, device by device: one that is gone is pruned.
Deliver(h) ==
  LET e == Head(handler[h].left)
      rest == Tail(handler[h].left) IN
  /\ Doing(h, {"push"})
  /\ handler' = [handler EXCEPT ![h] =
       IF e \in dead THEN Job("subs", RemoveSubscription(lists.subs, e), e, rest)
       ELSE IF rest = <<>> THEN Quiet ELSE [@ EXCEPT !.left = rest]]
  /\ UNCHANGED <<tick, lists, lastSeen, friends, dead, card, started, outages, inboxHistory>>

-----------------------------------------------------------------------------
(* The card.                                                               *)

Unseen(list) == Len(SelectSeq(list, LAMBDA i : i.at > lastSeen))

\* GET /inbox when the home screen opens; nothing is shown when nothing is unseen.
OpenHome ==
  /\ card = NoCard /\ started < MaxStarted /\ started' = started + 1
  /\ Unseen(lists.inbox) > 0
  /\ card' = [on |-> "screen", unseen |-> Unseen(lists.inbox)]
  /\ shown' = shown \cup ToSet(First(lists.inbox, CardRows))
  /\ passedBy' = passedBy \cup (ToSet(lists.inbox) \ ToSet(First(lists.inbox, CardRows)))
  /\ UNCHANGED <<tick, lists, lastSeen, friends, handler, dead, outages, saved, overwrote>>

\* A tap on the cross or on an item: the card goes, and POST /inbox/seen is sent.
Dismiss ==
  /\ card.on = "screen" /\ card' = [on |-> "posting", unseen |-> 0]
  /\ UNCHANGED <<tick, lists, lastSeen, friends, handler, dead, started, outages, inboxHistory>>

\* Whatever came until now is seen.
MarkSeen ==
  /\ card.on = "posting" /\ card' = NoCard /\ lastSeen' = tick
  /\ UNCHANGED <<tick, lists, friends, handler, dead, started, outages, inboxHistory>>

-----------------------------------------------------------------------------
(* Time and trouble.                                                       *)

TickPasses ==
  /\ tick < LastTick /\ tick' = tick + 1
  /\ UNCHANGED <<lists, lastSeen, friends, handler, dead, card, started, outages, inboxHistory>>

Unsubscribed(e) ==
  /\ e \in ToSet(lists.subs) \ dead /\ dead' = dead \cup {e}
  /\ UNCHANGED <<tick, lists, lastSeen, friends, handler, card, started, outages, inboxHistory>>

\* The dismissal is lost, or the home screen is left without one.
CardGone ==
  /\ card # NoCard /\ card' = NoCard /\ outages < MaxOutages /\ outages' = outages + 1
  /\ UNCHANGED <<tick, lists, lastSeen, friends, handler, dead, started, inboxHistory>>

\* A restart of the server.
InboxRestarts ==
  /\ \E h \in Handlers : handler[h] # Quiet
  /\ outages < MaxOutages /\ outages' = outages + 1
  /\ handler' = [h \in Handlers |-> Quiet]
  /\ UNCHANGED <<tick, lists, lastSeen, friends, dead, card, started, inboxHistory>>

InboxNext ==
  \/ \E h \in Handlers :
       \/ \E tag \in Kinds : Notify(h, tag)
       \/ \E e \in Endpoints : Subscribe(h, e)
       \/ \E c \in Invitations : SendChallenge(h, c) \/ DismissChallenge(h, c)
       \/ \E a, b \in Wallets : Befriend(h, a, b)
       \/ AddFriend(h) \/ SaveList(h) \/ SaveFails(h) \/ Deliver(h)
  \/ OpenHome \/ Dismiss \/ MarkSeen \/ TickPasses \/ CardGone \/ InboxRestarts
  \/ \E e \in Endpoints : Unsubscribed(e)

-----------------------------------------------------------------------------
(* Properties.                                                             *)

Item == [tag : Kinds, at : 1 .. LastTick]

InboxTypeOK ==
  /\ tick \in 1 .. LastTick /\ lastSeen \in 0 .. tick
  /\ Len(lists.inbox) <= MaxItems /\ Len(lists.challenges) <= MaxChallenges
  /\ ToSet(lists.inbox) \subseteq saved /\ saved \subseteq Item
  /\ ToSet(lists.subs) \subseteq Endpoints /\ friends \subseteq Wallets \X Wallets

\* However handlers overlap, no list holds a tag, a device or a match twice: a second
\* "your turn" replaces the first (pushToInbox, add, addChallenge).
OneOfEach ==
  /\ \A i, k \in DOMAIN lists.inbox : lists.inbox[i].tag = lists.inbox[k].tag => i = k
  /\ \A i, k \in DOMAIN lists.subs : lists.subs[i] = lists.subs[k] => i = k
  /\ \A i, k \in DOMAIN lists.challenges : lists.challenges[i].match = lists.challenges[k].match => i = k

\* "Push is the reach channel; the inbox is the guarantee" (inbox.ts:6): as long as
\* notifications do not overlap, whatever was saved is still there, or another of its
\* tag is, or the inbox is full.
InboxKeeps ==
  "inbox" \notin overwrote =>
    \A n \in saved : Len(lists.inbox) = MaxItems \/ \E i \in ToSet(lists.inbox) : i.tag = n.tag

\* And the home screen counts it until a card has shown it: what the inbox holds and
\* does not count as unseen was shown, or came beside a card or below its rows.
NothingMissed ==
  "inbox" \notin overwrote =>
    \A i \in ToSet(lists.inbox) : i.at <= lastSeen => i \in shown \cup passedBy

\* Friends are mutual (store.ts:19), but for a pair under way or cut short.
FriendsMutual ==
  \A f \in friends :
    \/ <<f[2], f[1]>> \in friends
    \/ outages > 0
    \/ \E h \in Handlers : Doing(h, {"friends"}) /\ <<f[2], f[1]>> \in ToSet(handler[h].left)

\* A player who is away is reached.
InboxInv ==
  /\ InboxTypeOK
  /\ OneOfEach
  /\ InboxKeeps
  /\ NothingMissed
  /\ FriendsMutual
=============================================================================
