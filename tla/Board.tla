------------------------------- MODULE Board --------------------------------
(***************************************************************************)
(* One leader board under every sequence of bids: the calls of update_top  *)
(* from place_bid (a new proposal) and from raise_bid and top_up_bid (an   *)
(* existing one), with nothing else of the auction, so that more proposals *)
(* and seats fit a run than in BidonZk.                                    *)
(***************************************************************************)
EXTENDS Naturals, Sequences, FiniteSets, TopN

CONSTANTS WinnerCounts,   \* values of Auction.winner_count, unusable ones too
          Raises,         \* amounts of one bid
          MaxProposals,   \* bound on the number of proposals
          MaxTotal        \* bound on the total of a proposal

ASSUME BoardAssumption ==
    /\ WinnerCounts \subseteq Nat /\ Raises \subseteq Nat \ {0}
    /\ MaxProposals \in Nat /\ MaxTotal \in Nat

VARIABLES winner_count, winners, totals, proposal_count,
          set_changed     \* what the last update_top returned

vars == <<winner_count, winners, totals, proposal_count, set_changed>>

Proposals == 0 .. MaxProposals - 1

Init ==
    /\ winner_count \in WinnerCounts
    /\ winners = <<>>
    /\ totals = [p \in Proposals |-> 0]
    /\ proposal_count = 0
    /\ set_changed = FALSE

Booked(pid, new_total) ==
    /\ totals' = [totals EXCEPT ![pid] = new_total]
    /\ winners' = UpdateTop(winners, winner_count, pid, new_total)
    /\ set_changed' = SetChanged(winners, winner_count, pid, new_total)
    /\ UNCHANGED winner_count

Place(amount) ==
    /\ proposal_count < MaxProposals
    /\ proposal_count' = proposal_count + 1
    /\ Booked(proposal_count, amount)

Raise(pid, amount) ==
    /\ pid < proposal_count
    /\ totals[pid] + amount <= MaxTotal
    /\ Booked(pid, totals[pid] + amount)
    /\ UNCHANGED proposal_count

Next == \E amount \in Raises :
           \/ Place(amount)
           \/ \E pid \in Proposals : Raise(pid, amount)

Spec == Init /\ [][Next]_vars

----------------------------------------------------------------------------
\* The board stays sorted, without duplicates, full, current, and ahead of
\* everything outside it, for every usable and unusable winner_count.
BoardIsTop == IsLeaderBoard(winners, winner_count, totals, proposal_count)

\* The value returned to extend_if_sniped tells exactly whether the SET of
\* winners changed: a reorder among winners is none, an entry or an eviction is.
ChangeReported == [][set_changed' <=> Seated(winners') # Seated(winners)]_vars

\* The array with its bubbling implements the unordered promise of TopSet.
Top == INSTANCE TopSet WITH total <- totals, top <- Seated(winners),
                            seats <- Seats(winner_count),
                            MaxSeats <- MaxWinners

ImplementsTopSet == Top!Spec
=============================================================================
