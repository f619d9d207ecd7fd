------------------------------- MODULE Treasury -------------------------------
(***************************************************************************)
(* Treasury.sol: the contract the others pay their fees and sales to, and  *)
(* its owner withdraws from.  The other contracts EXTEND this module.      *)
(***************************************************************************)
EXTENDS Integers, FiniteSetsExt, Functions

CONSTANT Withdrawals  \* amounts the owner withdraws

ASSUME TreasuryAssumption == Withdrawals \subseteq Nat \ {0}

VARIABLES
  treasury,   \* its tokens
  withdrawn   \* history: what the owner took out

treasuryVars == <<treasury, withdrawn>>

TreasuryInit == treasury = 0 /\ withdrawn = 0

\* A payment of another contract.
Receive(amount) == treasury' = treasury + amount /\ UNCHANGED withdrawn

Take(amount) == treasury' = treasury - amount /\ withdrawn' = withdrawn + amount

\* withdraw and withdrawAll; the token refuses what is not there.
Withdraw ==
  \E amount \in Withdrawals \cup {treasury} : amount \in 1 .. treasury /\ Take(amount)

=============================================================================
