---------------------------- MODULE MCBidClient -----------------------------
(* A small instance of BidClient for TLC. *)
EXTENDS BidClient

CONSTANTS ann, bob                          \* the bidders

\* Enough for any one of their bids to be made twice.
MCInitialWallet == [o \in Owners |-> IF o \in Bidders THEN 4 ELSE 1]

Ask(op, pid, amount) == [op |-> op, pid |-> pid, amount |-> amount]

\* ann bids on a new proposal and tops up; bob backs the same proposal, bids
\* less on another one and takes that stake back.
MCRequests == [u \in Bidders |->
    IF u = ann THEN <<Ask("place_bid", 0, 2), Ask("top_up_bid", 0, 1)>>
    ELSE <<Ask("raise_bid", 0, 1), Ask("place_bid", 1, 1), Ask("withdraw", 1, 1)>>]
=============================================================================
