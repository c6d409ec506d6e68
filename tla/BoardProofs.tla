---------------------------- MODULE BoardProofs -----------------------------
(***************************************************************************)
(* The leader board is right for any number of seats, proposals and bids.  *)
(***************************************************************************)
EXTENDS Board, OperatorProofs

BoardType ==
    /\ winner_count \in Nat
    /\ winners \in Seq(Slot)
    /\ totals \in [Proposals -> Nat]
    /\ proposal_count \in 0 .. MaxProposals

Inv == BoardType /\ Len(winners) <= MaxWinners /\ BoardIsTop

\* The empty board of no proposals is a leader board.
LEMMA BoardInit == Init => Inv
<1> SUFFICES ASSUME Init PROVE Inv
  OBVIOUS
<1>1. winners \in Seq(Slot) /\ Len(winners) = 0 /\ DOMAIN winners = {}
  BY EmptySeq DEF Init
<1>2. Seats(winner_count) \in Nat \ {0}
  BY MaxWinnersAssumption DEF Seats
<1>3. BoardIsTop
  BY <1>1, <1>2 DEF Init, BoardIsTop, IsLeaderBoard
<1> QED  BY <1>1, <1>3, BoardAssumption, MaxWinnersAssumption DEF Init, Inv, BoardType, Proposals

\* A bid keeps the board right, whichever proposal it is on.
LEMMA BookedKeepsTop ==
    ASSUME Inv, NEW pid \in Proposals, NEW new_total \in Nat, Booked(pid, new_total),
           \/ pid = proposal_count /\ proposal_count' = proposal_count + 1
           \/ /\ pid < proposal_count /\ proposal_count' = proposal_count
              /\ totals[pid] <= new_total
    PROVE  Inv'
<1> USE DEF Inv, BoardType
<1>1. pid \in Nat /\ pid < MaxProposals /\ MaxProposals \in Nat
  BY BoardAssumption DEF Proposals
<1>2. totals' \in [Proposals -> Nat] /\ winner_count' = winner_count
  BY DEF Booked
<1>3. winners' \in Seq(Slot) /\ Len(winners') <= MaxWinners
  BY <1>1, UpdateTopType DEF Booked
<1>4. proposal_count' \in 0 .. MaxProposals /\ pid <= proposal_count
  BY <1>1
<1>5. BidBooked(totals, proposal_count, pid, new_total, totals', proposal_count')
  BY <1>1 DEF BidBooked, Booked, Proposals
<1>6. IsLeaderBoard(UpdateTop(winners, winner_count, pid, new_total), winner_count,
                    totals', proposal_count')
  BY <1>1, <1>4, <1>5, UpdateTopKeepsTop DEF BoardIsTop
<1>7. BoardIsTop'
  BY <1>2, <1>6 DEF BoardIsTop, Booked
<1> QED  BY <1>2, <1>3, <1>4, <1>7

LEMMA BoardStep == Inv /\ [Next]_vars => Inv'
<1> SUFFICES ASSUME Inv, [Next]_vars PROVE Inv'
  OBVIOUS
<1>1. CASE UNCHANGED vars
  BY <1>1 DEF vars, Inv, BoardType, BoardIsTop
<1>2. ASSUME NEW amount \in Raises, Place(amount) PROVE Inv'
  <2>1. proposal_count \in Proposals /\ amount \in Nat
    BY <1>2, BoardAssumption DEF Place, Proposals, Inv, BoardType
  <2> QED  BY <1>2, <2>1, BookedKeepsTop DEF Place
<1>3. ASSUME NEW amount \in Raises, NEW pid \in Proposals, Raise(pid, amount) PROVE Inv'
  <2>1. /\ totals[pid] + amount \in Nat /\ totals[pid] <= totals[pid] + amount
        /\ pid < proposal_count /\ proposal_count' = proposal_count
        /\ Booked(pid, totals[pid] + amount)
    BY <1>3, BoardAssumption DEF Raise, Inv, BoardType
  <2> QED  BY <2>1, BookedKeepsTop
<1> QED  BY <1>1, <1>2, <1>3 DEF Next

\* For every number of seats, proposals and bids, the board is the sorted top N.
THEOREM BoardAlwaysTop == Spec => []BoardIsTop
<1>1. Inv => BoardIsTop
  BY DEF Inv
<1> QED  BY <1>1, BoardInit, BoardStep, PTL DEF Spec

----------------------------------------------------------------------------
\* Bubbling reorders the slots, so it seats the same proposals.
LEMMA BubbleUpSeated ==
    ASSUME NEW w \in Seq(Slot), NEW i \in 1 .. Len(w)
    PROVE  Seated(BubbleUp(w, i)) = Seated(w)
<1> DEFINE r == BubbleUp(w, i)
           j == Landing(w, i)
<1>1. Len(w) \in Nat /\ i \in Nat \ {0} /\ DOMAIN w = 1 .. Len(w)
  BY LenProperties
<1>2. j \in 1 .. i
  BY <1>1, LandingPlace
<1>3. /\ r \in Seq(Slot) /\ Len(r) = Len(w) /\ r[j] = w[i]
      /\ \A k \in j + 1 .. i : r[k] = w[k - 1]
      /\ \A k \in 1 .. Len(w) : k \notin j .. i => r[k] = w[k]
  BY BubbleUpSlots
<1> HIDE DEF r, j
<1>4. DOMAIN r = 1 .. Len(w)
  BY <1>3, LenProperties
<1>5. ASSUME NEW k \in 1 .. Len(w) PROVE \E m \in 1 .. Len(w) : r[k] = w[m]
  <2>1. CASE k = j  BY <1>3, <2>1
  <2>2. CASE k \in j + 1 .. i
    <3>1. k - 1 \in 1 .. Len(w)  BY <1>1, <1>2, <2>2
    <3> QED  BY <1>3, <2>2, <3>1
  <2>3. CASE k \notin j .. i  BY <1>3, <2>3
  <2> QED  BY <1>1, <1>2, <2>1, <2>2, <2>3
<1>6. ASSUME NEW m \in 1 .. Len(w) PROVE \E k \in 1 .. Len(w) : r[k] = w[m]
  <2>1. CASE m = i
    <3>1. j \in 1 .. Len(w)  BY <1>1, <1>2
    <3> QED  BY <1>3, <2>1, <3>1
  <2>2. CASE m \in j .. i - 1
    <3>1. m + 1 \in 1 .. Len(w) /\ m + 1 \in j + 1 .. i /\ (m + 1) - 1 = m
      BY <1>1, <1>2, <2>2
    <3> QED  BY <1>3, <3>1
  <2>3. CASE m \notin j .. i  BY <1>3, <2>3
  <2> QED  BY <1>1, <1>2, <2>1, <2>2, <2>3
<1>7. Seated(r) \subseteq Seated(w)
  BY <1>1, <1>4, <1>5 DEF Seated
<1>8. ASSUME NEW m \in 1 .. Len(w) PROVE w[m].proposal_id \in Seated(r)
  <2>1. PICK k \in 1 .. Len(w) : r[k] = w[m]  BY <1>6
  <2>2. r[k].proposal_id \in Seated(r)  BY <1>4 DEF Seated
  <2> QED  BY <2>1, <2>2
<1>9. Seated(w) \subseteq Seated(r)
  BY <1>1, <1>8 DEF Seated
<1> QED  BY <1>7, <1>9 DEF r

\* What update_top does to the set of winners of a board, and what it reports:
\* a winner stays, an outsider takes a free seat, or the last seat if it is
\* strictly ahead of who sits there.
LEMMA UpdateTopSeats ==
    ASSUME NEW w \in Seq(Slot), NEW n \in Nat, NEW sums, NEW count \in Nat,
           IsLeaderBoard(w, n, sums, count),
           NEW pid \in Nat, NEW new_total \in Nat
    PROVE  LET before  == Seated(w)
               after   == Seated(UpdateTop(w, n, pid, new_total))
               changed == SetChanged(w, n, pid, new_total)
               N       == Seats(n)
           IN  /\ pid \in before => after = before /\ ~ changed
               /\ pid \notin before /\ Len(w) < N =>
                     after = before \cup {pid} /\ changed
               /\ pid \notin before /\ ~ (Len(w) < N) =>
                     /\ Len(w) = N /\ N \in 1 .. Len(w)
                     /\ IF new_total > w[N].total
                        THEN changed /\ after = (before \ {w[N].proposal_id}) \cup {pid}
                        ELSE ~ changed /\ after = before
<1> DEFINE incoming == [proposal_id |-> pid, total |-> new_total]
           N == Seats(n)
<1>1. /\ Len(w) \in Nat /\ DOMAIN w = 1 .. Len(w) /\ \A k \in 1 .. Len(w) : w[k] \in Slot
      /\ incoming \in Slot /\ incoming.proposal_id = pid /\ incoming.total = new_total
  BY LenProperties, ElementOfSeq DEF Slot
<1>2. N \in Nat \ {0} /\ Len(w) <= N
  BY MaxWinnersAssumption DEF Seats, IsLeaderBoard
<1>3. \A k, m \in 1 .. Len(w) : w[k].proposal_id = w[m].proposal_id => k = m
  BY <1>1 DEF IsLeaderBoard
<1> HIDE DEF incoming
<1>4. ASSUME NEW i \in 1 .. Len(w)
      PROVE  LET v == [w EXCEPT ![i] = incoming]
             IN  /\ Seated(BubbleUp(v, i)) = Seated(v)
                 /\ \A p : p \in Seated(v) <=>
                       p = pid \/ \E k \in 1 .. Len(w) : k # i /\ p = w[k].proposal_id
  <2> DEFINE v == [w EXCEPT ![i] = incoming]
  <2>1. /\ v \in Seq(Slot) /\ Len(v) = Len(w) /\ v[i] = incoming
        /\ \A k \in 1 .. Len(w) : k # i => v[k] = w[k]
    BY <1>1, ExceptSeq
  <2> HIDE DEF v
  <2>2. DOMAIN v = 1 .. Len(w)
    BY <2>1, LenProperties
  <2>3. Seated(BubbleUp(v, i)) = Seated(v)
    BY <2>1, BubbleUpSeated
  <2>4. \A p : p \in Seated(v) <=>
           p = pid \/ \E k \in 1 .. Len(w) : k # i /\ p = w[k].proposal_id
    BY <1>1, <2>1, <2>2 DEF Seated
  <2> QED  BY <2>3, <2>4 DEF v
<1>5. \A p : p \in Seated(w) <=> \E k \in 1 .. Len(w) : p = w[k].proposal_id
  BY <1>1 DEF Seated
<1>6. CASE pid \in Seated(w)
  <2> DEFINE i == SeatOf(w, pid)
  <2>1. i \in 1 .. Len(w) /\ w[i].proposal_id = pid
    BY <1>1, <1>6 DEF Seated, SeatOf
  <2>2. UpdateTop(w, n, pid, new_total) = BubbleUp([w EXCEPT ![i] = incoming], i)
    BY <1>6 DEF UpdateTop, incoming
  <2> HIDE DEF i
  <2>3. \A p : p \in Seated([w EXCEPT ![i] = incoming]) <=> p \in Seated(w)
    BY <1>4, <1>5, <2>1
  <2>4. Seated(UpdateTop(w, n, pid, new_total)) = Seated(w)
    BY <1>4, <2>1, <2>2, <2>3
  <2> QED  BY <1>6, <2>4 DEF SetChanged
<1>7. CASE pid \notin Seated(w) /\ Len(w) < N
  <2> DEFINE v == Append(w, incoming)
             last == Len(w) + 1
  <2>1. /\ v \in Seq(Slot) /\ Len(v) = last /\ v[last] = incoming
        /\ \A k \in 1 .. Len(w) : v[k] = w[k]
    BY <1>1, AppendProperties
  <2>2. UpdateTop(w, n, pid, new_total) = BubbleUp(v, last)
    BY <1>7 DEF UpdateTop, incoming
  <2> HIDE DEF v
  <2>3. last \in 1 .. Len(v) /\ DOMAIN v = (1 .. Len(w)) \cup {last}
    BY <1>1, <2>1, LenProperties
  <2> HIDE DEF last
  <2>4. Seated(v) = Seated(w) \cup {pid}
    BY <1>1, <2>1, <2>3 DEF Seated
  <2>5. Seated(UpdateTop(w, n, pid, new_total)) = Seated(w) \cup {pid}
    BY <2>1, <2>2, <2>3, <2>4, BubbleUpSeated
  <2> QED  BY <1>7, <2>5 DEF SetChanged
<1>8. CASE pid \notin Seated(w) /\ ~ (Len(w) < N)
  <2>1. Len(w) = N /\ N \in 1 .. Len(w)
    BY <1>1, <1>2, <1>8
  <2>2. SetChanged(w, n, pid, new_total) <=> new_total > w[N].total
    BY <1>8 DEF SetChanged, StrictlyBeats, LastSlot
  <2>3. CASE new_total > w[N].total
    <3>1. UpdateTop(w, n, pid, new_total) = BubbleUp([w EXCEPT ![N] = incoming], N)
      BY <1>8, <2>2, <2>3 DEF UpdateTop, SetChanged, incoming
    <3> HIDE DEF N
    <3>2. \A p : p \in Seated([w EXCEPT ![N] = incoming]) <=>
             p \in (Seated(w) \ {w[N].proposal_id}) \cup {pid}
      <4>1. \A p : p \in Seated([w EXCEPT ![N] = incoming]) <=>
               p = pid \/ \E k \in 1 .. Len(w) : k # N /\ p = w[k].proposal_id
        BY <1>4, <2>1
      <4>2. \A p : (\E k \in 1 .. Len(w) : k # N /\ p = w[k].proposal_id) <=>
                       p \in Seated(w) /\ p # w[N].proposal_id
        BY <1>3, <1>5, <2>1
      <4> QED  BY <4>1, <4>2
    <3>3. Seated(UpdateTop(w, n, pid, new_total))
             = (Seated(w) \ {w[N].proposal_id}) \cup {pid}
      BY <1>4, <2>1, <3>1, <3>2
    <3> QED  BY <1>8, <2>1, <2>2, <2>3, <3>3 DEF N
  <2>4. CASE ~ (new_total > w[N].total)
    <3>1. UpdateTop(w, n, pid, new_total) = w
      BY <1>8, <2>2, <2>4 DEF UpdateTop, SetChanged
    <3> QED  BY <1>8, <2>1, <2>2, <2>4, <3>1
  <2> QED  BY <2>3, <2>4
<1> QED  BY <1>6, <1>7, <1>8

\* As many proposals are seated as there are slots in use.
LEMMA SeatedCardinality ==
    ASSUME NEW w \in Seq(Slot), Distinct(w)
    PROVE  IsFiniteSet(Seated(w)) /\ Cardinality(Seated(w)) = Len(w)
<1> DEFINE n == Len(w)
           f == [i \in 1 .. n |-> w[i].proposal_id]
<1>1. n \in Nat /\ DOMAIN w = 1 .. n
  BY LenProperties
<1>2. IsFiniteSet(1 .. n) /\ Cardinality(1 .. n) = n
  BY <1>1, FS_Interval
<1>3. f \in Surjection(1 .. n, Seated(w)) /\ f \in Injection(1 .. n, Seated(w))
  BY <1>1 DEF Seated, Distinct, Surjection, Injection, IsInjective
<1> HIDE DEF n, f
<1>4. /\ IsFiniteSet(Seated(w))
      /\ Cardinality(Seated(w)) = Cardinality(1 .. n)
  BY <1>2, <1>3, FS_Surjection
<1> QED  BY <1>2, <1>4 DEF n

\* The slots of a board are in use in the order of their seats.
LEMMA BoardFacts ==
    ASSUME Inv
    PROVE  /\ Distinct(winners)
           /\ Cardinality(Seated(winners)) = Len(winners)
           /\ Seats(winner_count) \in 1 .. MaxWinners
           /\ \A i \in 1 .. Len(winners) :
                 /\ winners[i] \in Slot
                 /\ winners[i].total = totals[winners[i].proposal_id]
           /\ \A i, k \in 1 .. Len(winners) : i < k => RanksAbove(winners[i], winners[k])
           /\ \A p : p \in Seated(winners) <=>
                 \E i \in 1 .. Len(winners) : p = winners[i].proposal_id
<1>1. winners \in Seq(Slot) /\ DOMAIN winners = 1 .. Len(winners)
      /\ \A i \in 1 .. Len(winners) : winners[i] \in Slot
  BY LenProperties, ElementOfSeq DEF Inv, BoardType
<1>2. Distinct(winners)
  BY <1>1 DEF Inv, BoardIsTop, IsLeaderBoard, Distinct
<1>3. Seats(winner_count) \in 1 .. MaxWinners
  BY MaxWinnersAssumption DEF Seats
<1> QED  BY <1>1, <1>2, <1>3, SeatedCardinality DEF Inv, BoardIsTop, IsLeaderBoard, Seated

\* A bid of the program is one on a proposal with what is staked on it so far.
LEMMA EveryBidIsBooked ==
    ASSUME Inv, \A p \in Proposals : totals[p] > 0 => p < proposal_count,
           NEW amount \in Raises,
           Place(amount) \/ \E pid \in Proposals : Raise(pid, amount)
    PROVE  /\ amount \in Nat
           /\ \E pid \in Proposals :
                /\ pid \in Nat /\ totals[pid] \in Nat /\ totals[pid] + amount \in Nat
                /\ Booked(pid, totals[pid] + amount)
                /\ proposal_count' >= proposal_count /\ pid < proposal_count'
<1>1. amount \in Nat /\ proposal_count \in Nat /\ MaxProposals \in Nat
      /\ Proposals \subseteq Nat /\ \A p \in Proposals : totals[p] \in Nat
  BY BoardAssumption DEF Inv, BoardType, Proposals
<1>2. CASE Place(amount)
  <2>1. proposal_count \in Proposals
    BY <1>1, <1>2 DEF Place, Proposals
  <2>2. totals[proposal_count] = 0
    BY <1>1, <2>1
  <2>3. totals[proposal_count] + amount = amount
    BY <1>1, <2>2
  <2> QED  BY <1>1, <1>2, <2>1, <2>3 DEF Place
<1>3. ASSUME NEW pid \in Proposals, Raise(pid, amount)
      PROVE  /\ Booked(pid, totals[pid] + amount) /\ totals[pid] + amount \in Nat
             /\ proposal_count' >= proposal_count /\ pid < proposal_count'
  BY <1>1, <1>3 DEF Raise
<1> QED  BY <1>1, <1>2, <1>3

\* Nothing is staked on a proposal before it is placed.
UnplacedEmpty == \A p \in Proposals : totals[p] > 0 => p < proposal_count

LEMMA UnplacedInit == Init => UnplacedEmpty
BY DEF Init, UnplacedEmpty

LEMMA UnplacedStep == Inv /\ UnplacedEmpty /\ [Next]_vars => UnplacedEmpty'
<1> SUFFICES ASSUME Inv, UnplacedEmpty, [Next]_vars PROVE UnplacedEmpty'
  OBVIOUS
<1>1. CASE UNCHANGED vars
  BY <1>1 DEF vars, UnplacedEmpty
<1>2. CASE Next
  <2>1. PICK pid \in Proposals :
           /\ totals' = [totals EXCEPT ![pid] = totals'[pid]]
           /\ proposal_count' >= proposal_count /\ pid < proposal_count'
    <3>1. PICK amount \in Raises : Place(amount) \/ \E pid \in Proposals : Raise(pid, amount)
      BY <1>2 DEF Next
    <3>2. PICK pid \in Proposals :
             /\ Booked(pid, totals[pid] + amount)
             /\ proposal_count' >= proposal_count /\ pid < proposal_count'
      BY <3>1, EveryBidIsBooked DEF UnplacedEmpty
    <3> QED  BY <3>2 DEF Booked, Inv, BoardType
  <2>2. proposal_count \in Nat /\ proposal_count' \in Nat /\ Proposals \subseteq Nat
    BY BoardStep, BoardAssumption DEF Inv, BoardType, Proposals
  <2> QED  BY <2>1, <2>2 DEF UnplacedEmpty, Inv, BoardType
<1> QED  BY <1>1, <1>2

----------------------------------------------------------------------------
LEMMA ReportStep ==
    Inv /\ UnplacedEmpty /\ Next => (set_changed' <=> Seated(winners') # Seated(winners))
<1> SUFFICES ASSUME Inv, UnplacedEmpty, Next
             PROVE  set_changed' <=> Seated(winners') # Seated(winners)
  OBVIOUS
<1>1. PICK pid \in Proposals, new_total \in Nat : pid \in Nat /\ Booked(pid, new_total)
  BY EveryBidIsBooked DEF Next, UnplacedEmpty
<1>2. BoardIsTop /\ winners \in Seq(Slot) /\ winner_count \in Nat /\ proposal_count \in Nat
  BY BoardAssumption DEF Inv, BoardType
<1> DEFINE N == Seats(winner_count)
<1>3. /\ pid \in Seated(winners) => Seated(winners') = Seated(winners) /\ ~ set_changed'
      /\ pid \notin Seated(winners) /\ Len(winners) < N =>
            Seated(winners') = Seated(winners) \cup {pid} /\ set_changed'
      /\ pid \notin Seated(winners) /\ ~ (Len(winners) < N) =>
            /\ N \in 1 .. Len(winners)
            /\ \/ /\ set_changed'
                  /\ Seated(winners') = (Seated(winners) \ {winners[N].proposal_id}) \cup {pid}
               \/ ~ set_changed' /\ Seated(winners') = Seated(winners)
  BY <1>1, <1>2, UpdateTopSeats DEF BoardIsTop, Booked
<1> HIDE DEF N
<1> QED  BY <1>3

\* What update_top returns, and extend_if_sniped goes by, is whether the set of
\* winners changed: for every board that any sequence of bids leads to.
THEOREM ChangesReported == Spec => ChangeReported
<1>1. Inv /\ UnplacedEmpty /\ [Next]_vars
         => [set_changed' <=> Seated(winners') # Seated(winners)]_vars
  BY ReportStep
<1> QED  BY <1>1, BoardInit, BoardStep, UnplacedInit, UnplacedStep, PTL
         DEF Spec, ChangeReported

----------------------------------------------------------------------------
LEMMA TopSetInit == Init => Top!Init
<1> SUFFICES ASSUME Init PROVE Top!Init
  OBVIOUS
<1>1. Seated(<<>>) = {}
  BY EmptySeq DEF Seated
<1>2. Seats(winner_count) \in 1 .. MaxWinners
  BY MaxWinnersAssumption DEF Seats
<1> QED  BY <1>1, <1>2 DEF Init, Top!Init

\* The instance counts with the same Cardinality.
LEMMA SameCardinality == ASSUME NEW S PROVE Top!Cardinality(S) = Cardinality(S)
BY DEF Top!Cardinality, Cardinality

\* Who sits in the last seat of a full board is the last of its winners.
LEMMA LastSeat ==
    ASSUME Inv, Len(winners) \in 1 .. MaxWinners
    PROVE  /\ winners[Len(winners)].proposal_id \in Seated(winners)
           /\ Top!Last(winners[Len(winners)].proposal_id)
<1> DEFINE N == Len(winners)
           q == winners[N].proposal_id
<1>1. N \in 1 .. N /\ N \in Nat
  BY MaxWinnersAssumption
<1>2. q \in Seated(winners)
  BY <1>1, BoardFacts
<1>3. ASSUME NEW p \in Seated(winners) \ {q}
      PROVE  totals[p] > totals[q] \/ (totals[p] = totals[q] /\ p < q)
  <2>1. PICK i \in 1 .. N : p = winners[i].proposal_id
    BY BoardFacts
  <2>2. i < N
    BY <1>1, <1>3, <2>1
  <2>3. RanksAbove(winners[i], winners[N])
    BY <1>1, <2>2, BoardFacts
  <2>4. totals[p] = winners[i].total /\ totals[q] = winners[N].total
    BY <1>1, <2>1, BoardFacts
  <2> QED  BY <2>1, <2>3, <2>4 DEF RanksAbove
<1> HIDE DEF q
<1>4. Top!Last(q)
  BY <1>2, <1>3 DEF Top!Last
<1> QED  BY <1>2, <1>4 DEF q

LEMMA TopSetStep == Inv /\ UnplacedEmpty /\ [Next]_vars => [Top!Next]_(Top!vars)
<1> SUFFICES ASSUME Inv, UnplacedEmpty, [Next]_vars PROVE [Top!Next]_(Top!vars)
  OBVIOUS
<1>1. CASE UNCHANGED vars
  BY <1>1 DEF vars, Top!vars
<1>2. CASE Next
  <2>1. PICK amount \in Raises, pid \in Proposals :
           /\ pid \in Nat /\ totals[pid] + amount \in Nat
           /\ Booked(pid, totals[pid] + amount)
    <3>1. PICK amount \in Raises : Place(amount) \/ \E pid \in Proposals : Raise(pid, amount)
      BY <1>2 DEF Next
    <3> QED  BY <3>1, EveryBidIsBooked DEF UnplacedEmpty
  <2> DEFINE top == Seated(winners)
             N == Seats(winner_count)
             reached == totals[pid] + amount
             last == winners[N].proposal_id
  <2>2. BoardIsTop /\ winners \in Seq(Slot) /\ winner_count \in Nat /\ proposal_count \in Nat
    BY BoardAssumption DEF Inv, BoardType
  <2>3. /\ pid \in top => Seated(winners)' = top
        /\ pid \notin top /\ Len(winners) < N => Seated(winners)' = top \cup {pid}
        /\ pid \notin top /\ ~ (Len(winners) < N) =>
              /\ Len(winners) = N /\ N \in 1 .. Len(winners)
              /\ Seated(winners)' = IF reached > winners[N].total
                                    THEN (top \ {last}) \cup {pid} ELSE top
    <3>1. IsLeaderBoard(winners, winner_count, totals, proposal_count)
      BY <2>2 DEF BoardIsTop
    <3>2. Seated(winners)' = Seated(UpdateTop(winners, winner_count, pid, reached))
      BY <2>1 DEF Booked
    <3>3. reached \in Nat /\ pid \in Nat
      BY <2>1
    <3> HIDE DEF reached
    <3> QED  BY <2>2, <3>1, <3>2, <3>3, UpdateTopSeats
  <2>4. Cardinality(top) = Len(winners) /\ N \in 1 .. MaxWinners /\ Len(winners) \in Nat
    BY BoardFacts, LenProperties, <2>2
  <2>5. /\ totals' = [totals EXCEPT ![pid] = reached]
        /\ Seats(winner_count)' = N
    BY <2>1 DEF Booked
  <2>6. ASSUME pid \notin top, ~ (Len(winners) < N)
        PROVE  /\ Len(winners) = N /\ last \in top /\ Top!Last(last)
               /\ totals[last] = winners[N].total
    <3>1. Len(winners) = N /\ N \in 1 .. Len(winners)
      BY <2>3, <2>6
    <3>2. last \in top /\ Top!Last(last)
      BY <2>4, <3>1, LastSeat
    <3>3. totals[last] = winners[N].total
      BY <3>1, BoardFacts
    <3> QED  BY <3>1, <3>2, <3>3
  <2> HIDE DEF top, N, reached, last
  <2>7. \/ pid \in top /\ Seated(winners)' = top
        \/ pid \notin top /\ ~ (Cardinality(top) = N) /\ Seated(winners)' = top \cup {pid}
        \/ /\ pid \notin top /\ Cardinality(top) = N
           /\ \E q \in top :
                 /\ Top!Last(q)
                 /\ Seated(winners)' = IF reached > totals[q] THEN (top \ {q}) \cup {pid}
                                       ELSE top
    <3>1. CASE pid \in top  BY <2>3, <3>1
    <3>2. CASE pid \notin top /\ Len(winners) < N
      <4>1. N \in Nat /\ ~ (Len(winners) = N)  BY <2>4, <3>2
      <4> QED  BY <2>3, <2>4, <3>2, <4>1
    <3>3. CASE pid \notin top /\ ~ (Len(winners) < N)
      BY <2>3, <2>4, <2>6, <3>3
    <3> QED  BY <3>1, <3>2, <3>3
  <2>8. Top!Bid(pid, amount)
    BY <2>5, <2>7, SameCardinality DEF Top!Bid, top, N, reached
  <2> QED  BY <2>8 DEF Top!Next
<1> QED  BY <1>1, <1>2

\* The sorted array of slots, with its bubbling and its two orders, implements
\* the unordered promise to bidders: whoever is in leaves only when strictly
\* outbid from outside, and then it is the last of the winners who leaves.
THEOREM BoardImplementsTopSet == Spec => ImplementsTopSet
<1> QED  BY BoardInit, BoardStep, UnplacedInit, UnplacedStep, TopSetInit, TopSetStep, PTL
         DEF Spec, ImplementsTopSet, Top!Spec
=============================================================================
