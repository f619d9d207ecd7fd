---------------------------------- MODULE Shop ----------------------------------
(***************************************************************************)
(* A limited skin of the style shop: the sale in Cosmetics.sol, and the    *)
(* page that lists it, sets up the payment, buys and waits for the receipt *)
(* (app/shop/page.tsx, lib/shop-logic.ts, lib/tx.ts).                      *)
(*                                                                         *)
(* The chain answers from a node that may be one change behind.  A skin    *)
(* bought is never passed on here, royalties, metadata and the rank gate   *)
(* are left out, and currency and treasury stay what they are.             *)
(***************************************************************************)
EXTENDS Integers, Sequences

CONSTANTS
  MaxSupply,   \* supply cap of the skin
  MaxEdits,    \* bound: price changes and mints by the owner, sales to others
  MaxPresses,  \* bound: purchases the shopper starts
  MaxSlips     \* bound: answers lost, pages out of patience or closed

ASSUME ShopAssumption ==
  /\ MaxSupply \in Nat \ {0}
  /\ MaxEdits \in Nat /\ MaxPresses \in Nat /\ MaxSlips \in Nat

VARIABLES
  shop,     \* the chain: the item, what each buyer holds and owns, the shopper's approval
  behind,   \* what a node that lags still shows
  visit,    \* the shopper's page
  posted,   \* the shopper's transactions under way, in nonce order
  tally     \* presses, purchases, edits and slips so far

shopVars == <<shop, behind, visit, posted, tally>>

Buyers == {"shopper", "other"}

MaxPrice == 2
Prices == 0 .. MaxPrice   \* 0: not for sale
Fallback == 1        \* the price written into the page
Headroom == 2        \* purchases one approval covers (20 in the code)
MaxTries == 2        \* times a send is tried (8 in the code)
Purse == 3           \* what each buyer starts with

NoCard == [known |-> FALSE, price |-> 0, left |-> 0, owned |-> FALSE]
AwayFromShop == [at |-> "away", card |-> NoCard, tries |-> 0, landed |-> FALSE,
                 told |-> "nothing", reading |-> FALSE]

Shops ==
  [price : Prices, minted : 0 .. MaxSupply, till : Nat, holds : [Buyers -> Nat],
   purse : [Buyers -> 0 .. Purse], allowed : 0 .. Headroom * MaxPrice]

ShopTypeOK ==
  /\ shop \in Shops /\ behind \in Shops
  /\ visit \in [
       at : {"away", "rest", "checking", "approve", "approving", "pay", "paying"},
       card : [known : BOOLEAN, price : Prices, left : 0 .. MaxSupply, owned : BOOLEAN],
       tries : 0 .. MaxTries, landed : BOOLEAN, told : {"nothing", "done", "failed"}, reading : BOOLEAN]
  /\ posted \in Seq([kind : {"approve", "buy"}, amount : 0 .. Headroom * MaxPrice])
  /\ tally \in [presses : Nat, won : Nat, bought : Nat, edits : Nat, slips : Nat]

CreateItem ==
  [price |-> Fallback, minted |-> 0, till |-> 0, holds |-> [c \in Buyers |-> 0],
   purse |-> [c \in Buyers |-> Purse], allowed |-> 0]

ShopInit ==
  /\ shop = CreateItem /\ behind = shop
  /\ visit = AwayFromShop /\ posted = <<>>
  /\ tally = [presses |-> 0, won |-> 0, bought |-> 0, edits |-> 0, slips |-> 0]

-----------------------------------------------------------------------------
(* The contract *)

Change(s) == shop' = s /\ behind' = shop

SoldOut(s) == s.minted + 1 > MaxSupply

Sells(s, c) == s.price > 0 /\ ~SoldOut(s) /\ s.purse[c] >= s.price
Buyable(s) == Sells(s, "shopper") /\ s.allowed >= s.price

Buy(s, c) ==
  [s EXCEPT !.minted = @ + 1, !.holds[c] = @ + 1, !.purse[c] = @ - s.price, !.till = @ + s.price,
            !.allowed = IF c = "shopper" THEN @ - s.price ELSE @]

Edit == tally.edits < MaxEdits /\ tally' = [tally EXCEPT !.edits = @ + 1]

SetItemPrice(p) ==
  /\ Edit /\ p # shop.price
  /\ Change([shop EXCEPT !.price = p])
  /\ UNCHANGED <<visit, posted>>

OwnerMint(c) ==
  /\ Edit /\ ~SoldOut(shop)
  /\ Change([shop EXCEPT !.minted = @ + 1, !.holds[c] = @ + 1])
  /\ UNCHANGED <<visit, posted>>

OtherBuys ==
  /\ Edit /\ Sells(shop, "other")
  /\ Change(Buy(shop, "other"))
  /\ UNCHANGED <<visit, posted>>

MineNext ==
  LET t == Head(posted)
      fits == t.kind = "approve" \/ Buyable(shop)
  IN /\ posted # <<>>
     /\ posted' = Tail(posted)
     /\ IF ~fits THEN UNCHANGED <<shop, behind>>
        ELSE Change(IF t.kind = "buy" THEN Buy(shop, "shopper") ELSE [shop EXCEPT !.allowed = t.amount])
     /\ visit' = [visit EXCEPT !.landed = fits /\ visit.at \in {"approving", "paying"}]
     /\ tally' = IF t.kind = "buy" /\ fits THEN [tally EXCEPT !.bought = @ + 1] ELSE tally

NodeSettles == behind # shop /\ behind' = shop /\ UNCHANGED <<shop, visit, posted, tally>>

-----------------------------------------------------------------------------
(* The page *)

Nodes == {shop, behind}

CardOf(s) ==
  [known |-> TRUE, price |-> s.price, left |-> MaxSupply - s.minted, owned |-> s.holds["shopper"] > 0]

OffersBuy(card) == ~card.owned /\ (card.known => card.left > 0 /\ card.price > 0)
PurchaseCost(card) == IF card.known /\ card.price > 0 THEN card.price ELSE Fallback

Busy == visit.at \notin {"away", "rest"}
ShowPage(v) == visit' = v
Slip == tally.slips < MaxSlips /\ tally' = [tally EXCEPT !.slips = @ + 1]

OpenShop ==
  /\ visit.at = "away"
  /\ ShowPage([AwayFromShop EXCEPT !.at = "rest", !.reading = TRUE])
  /\ UNCHANGED <<shop, behind, posted, tally>>

Reread ==
  /\ visit.reading
  /\ \E s \in Nodes : ShowPage([visit EXCEPT !.reading = FALSE, !.card = CardOf(s)])
  /\ UNCHANGED <<shop, behind, posted, tally>>

PressBuy ==
  /\ visit.at = "rest" /\ OffersBuy(visit.card)
  /\ tally.presses < MaxPresses
  /\ tally' = [tally EXCEPT !.presses = @ + 1]
  /\ ShowPage([visit EXCEPT !.at = "checking", !.told = "nothing"])
  /\ UNCHANGED <<shop, behind, posted>>

CheckAllowance ==
  /\ visit.at = "checking"
  /\ \E s \in Nodes :
       ShowPage([visit EXCEPT !.tries = MaxTries,
                  !.at = IF s.allowed < PurchaseCost(visit.card) THEN "approve" ELSE "pay"])
  /\ UNCHANGED <<shop, behind, posted, tally>>

TriedAgain(n) == n - 1

Fails == ShowPage([visit EXCEPT !.at = "rest", !.told = "failed", !.tries = 0, !.landed = FALSE])

TxOf ==
  IF visit.at = "approve"
  THEN [kind |-> "approve", amount |-> Headroom * PurchaseCost(visit.card)]
  ELSE [kind |-> "buy", amount |-> 0]

Submitted == posted' = Append(posted, TxOf)

\* The wallet estimates on some node; what reverts there is tried again.
SendWithStaleRetry ==
  LET v == visit
  IN /\ v.at \in {"approve", "pay"}
     /\ UNCHANGED <<shop, behind>>
     /\ \/ /\ v.tries > 0
           /\ \E s \in Nodes : v.at = "approve" \/ Buyable(s)
           /\ Submitted /\ UNCHANGED tally
           /\ ShowPage([v EXCEPT !.at = IF @ = "approve" THEN "approving" ELSE "paying",
                              !.tries = 0, !.landed = FALSE])
        \/ /\ v.tries > 0 /\ v.at = "pay"
           /\ \E s \in Nodes : ~Buyable(s)
           /\ ShowPage([v EXCEPT !.tries = TriedAgain(@)]) /\ UNCHANGED <<posted, tally>>
        \/ v.tries = 0 /\ Fails /\ UNCHANGED <<posted, tally>>

\* The request reached the node, its answer did not come back: it is posted again.
AnswerLost ==
  /\ Slip /\ visit.at \in {"approve", "pay"} /\ visit.tries > 0
  /\ visit.at = "pay" => \E s \in Nodes : Buyable(s)
  /\ Submitted
  /\ ShowPage([visit EXCEPT !.tries = TriedAgain(@)])
  /\ UNCHANGED <<shop, behind>>

\* Slip: the submission is taken for the purchase.
ConfirmsAtOnce == visit.at \in {"approving", "paying"}
Confirms == visit.at \in {"approving", "paying"} /\ posted = <<>>

Bought(v) == [v EXCEPT !.at = "rest", !.told = "done", !.landed = FALSE,
                       !.card.owned = TRUE, !.reading = TRUE]

ConfirmTx ==
  /\ Confirms
  /\ \/ ~visit.landed /\ Fails /\ UNCHANGED tally
     \/ /\ visit.landed /\ visit.at = "approving"
        /\ ShowPage([visit EXCEPT !.at = "pay", !.tries = MaxTries, !.landed = FALSE])
        /\ UNCHANGED tally
     \/ /\ visit.landed /\ visit.at = "paying"
        /\ ShowPage(Bought(visit))
        /\ tally' = [tally EXCEPT !.won = @ + 1]
  /\ UNCHANGED <<shop, behind, posted>>

Declines ==
  /\ visit.at \in {"approve", "pay"} /\ Fails
  /\ UNCHANGED <<shop, behind, posted, tally>>

\* 150 seconds without a receipt, or the page is closed.
OutOfPatience ==
  /\ Slip
  /\ \/ visit.at \in {"approving", "paying"} /\ posted # <<>> /\ Fails
     \/ Busy /\ ShowPage(AwayFromShop)
  /\ UNCHANGED <<shop, behind, posted>>

CloseShop ==
  /\ visit.at = "rest" /\ ShowPage(AwayFromShop)
  /\ UNCHANGED <<shop, behind, posted, tally>>

PageStep == CheckAllowance \/ SendWithStaleRetry \/ ConfirmTx

ShopNext ==
  \/ NodeSettles
  \/ \E p \in Prices : SetItemPrice(p)
  \/ \E c \in Buyers : OwnerMint(c)
  \/ OtherBuys \/ MineNext
  \/ OpenShop \/ Reread \/ PressBuy \/ PageStep
  \/ AnswerLost \/ Declines \/ OutOfPatience \/ CloseShop

\* Nodes catch up, the chain mines, and the page's code runs.
ShopFair == WF_shopVars(MineNext) /\ WF_shopVars(PageStep)

ShopSpec == ShopInit /\ [][ShopNext]_shopVars /\ ShopFair

-----------------------------------------------------------------------------
(* Properties *)

\* However sales, the owner's mints and price changes interleave, every unit
\* ever minted is held, the cap stands, and the treasury has received exactly
\* what the buyers have paid (buy, ownerMint).
SaleBalances ==
  /\ shop.minted = shop.holds["shopper"] + shop.holds["other"]
  /\ shop.minted <= MaxSupply
  /\ shop.till = 2 * Purse - (shop.purse["shopper"] + shop.purse["other"])

\* A card that lets its viewer equip a skin is right, whichever node the page
\* has read and however its purchase went (page.tsx 102, 219).
ShownAsOwned == visit.card.owned => shop.holds["shopper"] > 0

\* Unless an answer was lost or the page gave up waiting, the shopper has
\* been charged exactly as often as the page said so: a purchase it reports as
\* failed, after however many tries, has taken nothing (tx.ts 24, 67-95).
FailureTakesNothing ==
  tally.slips = 0 /\ ~Busy => posted = <<>> /\ tally.bought = tally.won

\* With one answer lost or one wait given up, at most one purchase too many is
\* made for what was pressed (sendWithStaleRetry sends again).
PressBuysOnce == tally.bought <= tally.presses + tally.slips

\* A press of Buy is answered, whatever the price, the supply and the nodes do
\* meanwhile: the page never stays busy (run's finally).
PressAnswered == []<>~Busy

\* The sale's books balance, and the page tells its shopper the truth about them.
ShopInv ==
  /\ ShopTypeOK
  /\ SaleBalances
  /\ ShownAsOwned
  /\ FailureTakesNothing
  /\ PressBuysOnce
=============================================================================
