-------------------------------- MODULE TopN --------------------------------
(***************************************************************************)
(* The on-chain leader board of an auction: Auction::update_top and the    *)
(* order of its slots (lib.rs, WinnerSlot and impl Auction).  A board is   *)
(* the occupied prefix winners[0 .. winners_filled) as a sequence, so      *)
(* winners[i] of the code is w[i + 1] here; the default-valued tail of the *)
(* fixed array is never read by a gate and is left out, as are the         *)
(* DEPRECATED copies winner_proposal and winner_amount of the first slot.  *)
(***************************************************************************)
EXTENDS Naturals, Sequences

CONSTANT MaxWinners     \* MAX_WINNERS, the length of the on-chain array

ASSUME MaxWinnersAssumption == MaxWinners \in Nat \ {0}

Slot == [proposal_id : Nat, total : Nat]

\* The order of seated slots: total descending, then proposal id ascending.
RanksAbove(s, t) ==
    \/ s.total > t.total
    \/ s.total = t.total /\ s.proposal_id < t.proposal_id

\* Mutant: a tie evicts the incumbent.
BeatsOnTie(s, incumbent) == s.total >= incumbent.total

\* A candidate from outside evicts only on a strictly greater total.
StrictlyBeats(s, incumbent) == s.total > incumbent.total

\* winner_count is persistent state: a value outside 1..MAX_WINNERS counts as 1.
Seats(n) == IF n \in 1 .. MaxWinners THEN n ELSE 1

\* Mutant: the candidate is compared with the leader.
FirstSlot(w, n) == w[1]

\* The slot a candidate from outside has to beat.
LastSlot(w, n) == w[Seats(n)]

Seated(w) == {w[i].proposal_id : i \in DOMAIN w}

SeatOf(w, pid) == CHOOSE i \in DOMAIN w : w[i].proposal_id = pid

\* Mutant: one swap instead of a loop of swaps.
OneSwap(w, i) == IF i > 1 /\ RanksAbove(w[i], w[i - 1]) THEN i - 1 ELSE i

\* Where the loop of swaps leaves slot i: above every neighbour it outranks.
Landing(w, i) ==
    CHOOSE j \in 1 .. i :
        /\ \A k \in j .. i - 1 : RanksAbove(w[i], w[k])
        /\ j > 1 => ~ RanksAbove(w[i], w[j - 1])

\* Slot i moves up to its landing place, the slots it passes move down one.
BubbleUp(w, i) ==
    LET j == Landing(w, i)
    IN  [k \in DOMAIN w |-> IF k \in j + 1 .. i THEN w[k - 1]
                            ELSE IF k = j THEN w[i] ELSE w[k]]

\* The board after proposal pid has reached the total new_total.
UpdateTop(w, n, pid, new_total) ==
    LET incoming == [proposal_id |-> pid, total |-> new_total]
        i        == SeatOf(w, pid)
    IN  IF pid \in Seated(w)
        THEN BubbleUp([w EXCEPT ![i] = incoming], i)
        ELSE IF Len(w) < Seats(n)
        THEN BubbleUp(Append(w, incoming), Len(w) + 1)
        ELSE IF StrictlyBeats(incoming, LastSlot(w, n))
        THEN BubbleUp([w EXCEPT ![Seats(n)] = incoming], Seats(n))
        ELSE w

\* Mutant: any bid on a proposal outside the board counts as a change.
ChangedByOutsider(w, n, pid, new_total) == pid \notin Seated(w)

\* The value update_top returns: did the SET of winners change?
SetChanged(w, n, pid, new_total) ==
    /\ pid \notin Seated(w)
    /\ \/ Len(w) < Seats(n)
       \/ StrictlyBeats([proposal_id |-> pid, total |-> new_total], LastSlot(w, n))

----------------------------------------------------------------------------
(***************************************************************************)
(* What a board must be, given the total of every proposal 0 .. count-1:   *)
(* in strict rank order (so no proposal has two slots), as full as it can  *)
(* be, every slot carrying the current total of its proposal, and nobody   *)
(* outside strictly ahead of anybody inside.                               *)
(***************************************************************************)
IsLeaderBoard(w, n, totals, count) ==
    /\ Len(w) = IF count < Seats(n) THEN count ELSE Seats(n)
    /\ \A i, j \in DOMAIN w : i < j => RanksAbove(w[i], w[j])
    /\ \A i \in DOMAIN w : /\ w[i].proposal_id < count
                           /\ w[i].total = totals[w[i].proposal_id]
    /\ \A p \in 0 .. count - 1 :
          p \notin Seated(w) => \A i \in DOMAIN w : totals[p] <= w[i].total
    /\ \A i, j \in DOMAIN w : w[i].proposal_id = w[j].proposal_id => i = j
=============================================================================
