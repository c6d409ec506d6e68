------------------------------ MODULE Settles -------------------------------
(***************************************************************************)
(* The program implements the promise of Settlement: of an auction account *)
(* only its life, its end, its payment and the set of its winners is read, *)
(* of a Bid leaf whether it is there.                                      *)
(***************************************************************************)
EXTENDS BidonZk

Promise == INSTANCE Settlement WITH
    clock    <- now,
    account  <- [a \in Auctions |-> [status   |-> auction[a].status,
                                     end_time |-> auction[a].end_time,
                                     paid     |-> auction[a].creator_paid,
                                     winners  |-> Seated(auction[a].winners)]],
    leaf     <- [a \in Auctions |-> [k \in Keys |-> bid[a][k].leaf]],
    EndTimes <- 0 .. LastCreate + MaxDuration + MaxAntisnipeCap

\* Every instruction of the program, in any order and with whatever its caller
\* supplies, is a step of Settlement or none at all: an auction is closed only
\* when no loser has a stake in it, is paid out once, and never reopens.
ImplementsSettlement == Promise!Spec
=============================================================================
