----------------------------- MODULE MCBidonZk ------------------------------
(* Small instances of BidonZk for TLC. *)
EXTENDS Settles, TLC

\* USDC at deployment, per role; an owner in two roles has the greater amount.
CONSTANTS CreatorPurse, BidderPurse, DonorPurse

MCInitialWallet ==
    [o \in Owners |-> IF o \in Bidders THEN BidderPurse
                      ELSE IF o \in Creators THEN CreatorPurse
                      ELSE IF o \in Donors THEN DonorPurse ELSE 0]

\* Bidders that differ in nothing but their name.
BidderSymmetry == Permutations(Bidders)
=============================================================================
