----------------------------- MODULE Settlement -----------------------------
(***************************************************************************)
(* What the program promises to whoever settles auctions: the part of its  *)
(* accounts that the keeper reads and the part of its handlers' guards it  *)
(* relies on, without money, ranks or proofs.  BidonZk implements it       *)
(* (module Settles); Keeper runs against it.                               *)
(***************************************************************************)
EXTENDS Naturals

CONSTANTS
    Keys,              \* <<proposal, bidder>>: the Bid addresses of an auction
    MaxAuctions,       \* bound on the auctions ever created
    EndTimes,          \* bound on the end times
    MaxTime            \* the clock stops here

VARIABLES
    clock,             \* the chain's clock
    account,           \* the Auction accounts
    leaf               \* the compressed Bid leaves of each auction

chain == <<clock, account, leaf>>

Auctions  == 0 .. MaxAuctions - 1
Proposals == {k[1] : k \in Keys}

Account == [status : {"none", "live", "closed"}, end_time : Nat,
            paid : BOOLEAN, winners : SUBSET Proposals]

NoAccount == [status |-> "none", end_time |-> 0, paid |-> FALSE, winners |-> {}]

Init ==
    /\ clock = 0
    /\ account = [a \in Auctions |-> NoAccount]
    /\ leaf = [a \in Auctions |-> [k \in Keys |-> "none"]]

Live(a)  == account[a].status = "live"
Ended(a) == clock >= account[a].end_time

\* The stakes that nobody has had back although they lost.
Owed(a) == {k \in Keys : leaf[a][k] = "live" /\ k[1] \notin account[a].winners}

\* Ids are handed out in order.
Create(a, end) ==
    /\ account[a].status = "none"
    /\ \A b \in Auctions : b < a => account[b].status # "none"
    /\ end > clock
    /\ account' = [account EXCEPT ![a] = [@ EXCEPT !.status = "live", !.end_time = end]]
    /\ UNCHANGED <<clock, leaf>>

\* A bid may change the winners, to proposals with a stake on them, and may
\* move the end back.
Bid(a, k, top, end) ==
    /\ Live(a) /\ ~ Ended(a)
    /\ end >= account[a].end_time
    /\ leaf' = [leaf EXCEPT ![a][k] = "live"]
    /\ top # {}
    /\ \A p \in top : \E j \in Keys : j[1] = p /\ leaf'[a][j] = "live"
    /\ account' = [account EXCEPT ![a] = [@ EXCEPT !.winners = top, !.end_time = end]]
    /\ UNCHANGED clock

Claim(a) ==
    /\ Live(a) /\ Ended(a)
    /\ ~ account[a].paid
    /\ account' = [account EXCEPT ![a] = [@ EXCEPT !.paid = TRUE]]
    /\ UNCHANGED <<clock, leaf>>

Refund(a, k) ==
    /\ Live(a) /\ Ended(a)
    /\ k \in Owed(a)
    /\ leaf' = [leaf EXCEPT ![a][k] = "closed"]
    /\ UNCHANGED <<clock, account>>

\* Only an auction that owes nothing to anybody is closed.
Close(a) ==
    /\ Live(a) /\ Ended(a)
    /\ account[a].paid /\ Owed(a) = {}
    /\ account' = [account EXCEPT ![a] = [@ EXCEPT !.status = "closed"]]
    /\ UNCHANGED <<clock, leaf>>

\* The creator's way out of an auction nobody has ever bid in.
Cancel(a) ==
    /\ Live(a)
    /\ \A k \in Keys : leaf[a][k] = "none"
    /\ account' = [account EXCEPT ![a] = [@ EXCEPT !.status = "closed"]]
    /\ UNCHANGED <<clock, leaf>>

ClockTicks ==
    /\ clock < MaxTime
    /\ clock' = clock + 1
    /\ UNCHANGED <<account, leaf>>

Next ==
    \/ ClockTicks
    \/ \E a \in Auctions :
          \/ \E end \in EndTimes : Create(a, end)
          \/ \E k \in Keys, top \in SUBSET Proposals, end \in EndTimes : Bid(a, k, top, end)
          \/ Claim(a)
          \/ \E k \in Keys : Refund(a, k)
          \/ Close(a)
          \/ Cancel(a)

Spec == Init /\ [][Next]_chain
=============================================================================
