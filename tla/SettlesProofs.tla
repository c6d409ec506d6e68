--------------------------- MODULE SettlesProofs ----------------------------
(***************************************************************************)
(* What whoever settles auctions relies on, for every value of the         *)
(* constants: the program implements the promise of Settlement, and every  *)
(* guard of a payout holds when the auction is over.                       *)
(***************************************************************************)
EXTENDS Settles, BidonZkMoney

\* No auction ends after this, whatever bids extend it.
LastEnd == LastCreate + MaxDuration + MaxAntisnipeCap

\* What the refinement needs of an auction beside the money: the Bid leaves are
\* those of the placed proposals, every one of which has a backer; a live leaf
\* holds something; none is closed before the end; and the end has a bound.
LeafAt(a) ==
    /\ auction[a].status # "none" => auction[a].schema_version \in {1, 2, 3}
    /\ auction[a].end_time <= LastEnd /\ ext[a].max_end_time <= LastEnd
    /\ \A k \in Keys :
          /\ bid[a][k].leaf # "none" => k[1] < auction[a].proposal_count
          /\ bid[a][k].leaf = "live" => bid[a][k].amount > 0
          /\ bid[a][k].leaf = "closed" => auction[a].status # "none" /\ Ended(a)
    /\ \A p \in Proposals :
          p < auction[a].proposal_count =>
              \E bidder \in Bidders : bid[a][<<p, bidder>>].leaf # "none"

\* The ids below the counter have been given out, and no others.
LeafInv ==
    \A a \in Auctions : LeafAt(a) /\ (a < config.auction_count => auction[a].status # "none")

LEMMA LastEndType == LastEnd \in Nat
<1>1. LastCreate \in Nat /\ MaxDuration \in Nat /\ MaxAntisnipeCap \in Nat
  BY BoundsAssumption, LimitsAssumption
<1> QED  BY <1>1 DEF LastEnd

\* The numbers of an auction.
LEMMA NumbersType ==
    ASSUME TypeOK, NEW a \in Auctions
    PROVE  /\ auction[a].proposal_count \in Nat /\ auction[a].end_time \in Nat
           /\ ext[a].max_end_time \in Nat /\ now \in Nat
           /\ \A k \in Keys : /\ k[1] \in Nat /\ k[1] \in Proposals /\ k[2] \in Bidders
                              /\ bid[a][k].leaf \in {"none", "live", "closed"}
<1>1. auction[a] \in AuctionType /\ ext[a] \in [exists : BOOLEAN, max_end_time : Nat]
      /\ bid[a] \in [Keys -> BidType] /\ now \in 0 .. MaxTime
  BY DEF TypeOK
<1>2. \A k \in Keys : k[1] \in Proposals /\ k[2] \in Bidders
  BY DEF Keys
<1>3. \A p \in Proposals : p \in Nat
  BY DEF Proposals
<1>4. \A k \in Keys : bid[a][k].leaf \in {"none", "live", "closed"}
  BY <1>1 DEF BidType
<1>5. auction[a].proposal_count \in Nat /\ auction[a].end_time \in Nat
  BY <1>1 DEF AuctionType
<1> QED  BY <1>1, <1>2, <1>3, <1>4, <1>5

LEMMA LeafInit == Init => LeafInv
<1> SUFFICES ASSUME Init, NEW a \in Auctions
             PROVE  LeafAt(a) /\ (a < config.auction_count => auction[a].status # "none")
  BY DEF LeafInv
<1>1. /\ auction[a].status = "none" /\ auction[a].end_time = 0
      /\ auction[a].proposal_count = 0 /\ ext[a].max_end_time = 0
      /\ \A k \in Keys : bid[a][k].leaf = "none"
      /\ config.auction_count = 0
  BY DEF Init, NoAuction
<1>2. /\ \A p \in Proposals : ~ (p < 0)
      /\ \A b \in Auctions : ~ (b < 0)
  BY DEF Proposals, Auctions
<1> QED  BY <1>1, <1>2, LastEndType DEF LeafAt

\* An auction whose leaves and terms a step leaves alone.
LEMMA LeafSame ==
    ASSUME TypeOK, now' >= now, now' \in Nat, NEW a \in Auctions, LeafAt(a),
           bid'[a] = bid[a], ext'[a] = ext[a], auction'[a] = auction[a] \/ SameTerms(a),
           auction'[a].status # "none" <=> auction[a].status # "none"
    PROVE  LeafAt(a)'
<1>1. /\ auction'[a].schema_version = auction[a].schema_version
      /\ auction'[a].end_time = auction[a].end_time
      /\ auction'[a].proposal_count = auction[a].proposal_count
  BY DEF SameTerms
<1>2. Ended(a) => Ended(a)'
  BY <1>1 DEF Ended, TypeOK, AuctionType
<1> QED  BY <1>1, <1>2 DEF LeafAt

\* A creation gives out the next id, on which no leaf was ever written.
LEMMA LeafCreate ==
    ASSUME TypeOK, Life, LeafInv, NEW a \in Auctions, Create(a)
    PROVE  LeafInv'
<1> PICK creator \in Creators, duration \in Nat, extension \in Nat,
         schema \in {1, 2, 3}, r \in AuctionType :
         Created(a, creator, duration, extension, schema, r)
  BY CreateFacts
<1>1. /\ bid' = bid /\ now' = now /\ now \in Nat
      /\ a = config.auction_count /\ config'.auction_count = config.auction_count + 1
      /\ \A b \in Auctions : b # a => auction'[b] = auction[b] /\ ext'[b] = ext[b]
  BY BoundsAssumption DEF Created, TypeOK
<1>2. auction[a].status = "none" /\ \A k \in Keys : bid[a][k].leaf = "none"
  <2>1. auction[a].status = "none"
    BY <1>1 DEF Life, TypeOK, ConfigType
  <2>2. auction[a].proposal_count = 0
    BY <2>1 DEF Life, NoAuction
  <2>3. ASSUME NEW k \in Keys PROVE bid[a][k].leaf = "none"
    <3>1. ~ (k[1] < auction[a].proposal_count)
      BY <2>2, NumbersType
    <3> QED  BY <3>1 DEF LeafInv, LeafAt
  <2> QED  BY <2>1, <2>3
<1>3. /\ auction'[a].status = "live" /\ auction'[a].schema_version = schema
      /\ auction'[a].end_time = now + duration /\ auction'[a].proposal_count = 0
      /\ ext'[a] = ext[a] \/ ext'[a].max_end_time = now + duration + extension
  BY DEF Created, TypeOK
<1>4. now + duration <= LastEnd /\ now + duration + extension <= LastEnd
  <2>1. now <= LastCreate /\ duration <= MaxDuration /\ extension <= MaxAntisnipeCap
    BY DEF Created
  <2> QED  BY <1>1, <2>1, BoundsAssumption, LimitsAssumption DEF LastEnd
<1>5. LeafAt(a)'
  <2>1. \A p \in Proposals : ~ (p < auction'[a].proposal_count)
    BY <1>3 DEF Proposals
  <2>2. ext'[a].max_end_time <= LastEnd
    BY <1>3, <1>4 DEF LeafInv, LeafAt
  <2> QED  BY <1>1, <1>2, <1>3, <1>4, <2>1, <2>2 DEF LeafAt
<1>6. ASSUME NEW b \in Auctions, b # a PROVE LeafAt(b)'
  BY <1>1, <1>6, LeafSame DEF LeafInv
<1>7. ASSUME NEW b \in Auctions, b < config'.auction_count PROVE auction'[b].status # "none"
  <2>1. CASE b = a  BY <1>3, <2>1
  <2>2. CASE b # a
    <3>1. b < config.auction_count
      BY <1>1, <1>7, <2>2 DEF Auctions, TypeOK, ConfigType
    <3> QED  BY <1>1, <2>2, <3>1 DEF LeafInv
  <2> QED  BY <2>1, <2>2
<1> QED  BY <1>5, <1>6, <1>7 DEF LeafInv

\* A bid writes a live leaf of a placed proposal, before the end and its bound.
LEMMA LeafBid ==
    ASSUME TypeOK, TopInv, LeafInv, NEW a \in Auctions, BidStep(a)
    PROVE  LeafInv'
<1> PICK bidder \in Bidders, pid \in Proposals, amount \in Nat, old \in Nat,
         with_ext \in BOOLEAN, new_proposals \in {0, 1} :
         OneBid(a, bidder, pid, amount, old, with_ext, new_proposals)
  BY DEF BidStep
<1> DEFINE key == <<pid, bidder>>
           new_total == proposal_total[a][pid] + amount
           w == auction[a].winners
           n == auction[a].winner_count
           end == ExtendedEnd(a, with_ext, SetChanged(w, n, pid, new_total))
<1>1. /\ BookBid(a, bidder, pid, new_total, amount, with_ext, new_proposals)
      /\ Live(a) /\ BiddingOpen(a) /\ amount > 0
      /\ bid' = [bid EXCEPT ![a][key] = [leaf |-> "live", amount |-> old + amount]]
      /\ \/ new_proposals = 1 /\ pid = auction[a].proposal_count
         \/ new_proposals = 0 /\ proposal_total[a][pid] > 0
  BY DEF OneBid
<1>2. now' = now /\ ext' = ext /\ config' = config
  BY <1>1 DEF BookBid
<1>3. /\ \A b \in Auctions : b # a => auction'[b] = auction[b]
      /\ \A b \in Auctions : /\ auction'[b].status = auction[b].status
                             /\ auction'[b].schema_version = auction[b].schema_version
      /\ auction'[a].end_time = end
      /\ auction'[a].proposal_count = auction[a].proposal_count + new_proposals
  BY <1>1, BookFacts
<1>4. end <= LastEnd
  <2>1. /\ auction[a].end_time \in Nat /\ ext[a].max_end_time \in Nat
        /\ auction[a].end_time <= LastEnd /\ ext[a].max_end_time <= LastEnd
        /\ now + AntisnipeWindow \in Nat
        /\ LastEnd \in Nat
    <3>1. AntisnipeWindow \in Nat
      BY LimitsAssumption
    <3> QED  BY <3>1, NumbersType, LastEndType DEF LeafInv, LeafAt
  <2> QED  BY <2>1 DEF ExtendedEnd
<1> HIDE DEF end
<1>5. /\ auction[a].proposal_count \in Nat /\ pid \in Nat
      /\ auction'[a].proposal_count >= auction[a].proposal_count
      /\ pid < auction'[a].proposal_count
      /\ \A p \in Proposals : p < auction'[a].proposal_count =>
            p = pid \/ p < auction[a].proposal_count
  <2>1. auction[a].proposal_count \in Nat /\ Proposals \subseteq Nat
    BY NumbersType DEF Proposals
  <2>2. proposal_total[a][pid] > 0 => pid < auction[a].proposal_count
    BY DEF TopInv
  <2> QED  BY <1>1, <1>3, <2>1, <2>2
<1>6. key \in Keys /\ key[1] = pid
  BY DEF Keys
<1>7. /\ \A b \in Auctions : b # a => bid'[b] = bid[b]
      /\ \A k \in Keys : bid'[a][k] = IF k = key
                                      THEN [leaf |-> "live", amount |-> old + amount]
                                      ELSE bid[a][k]
  BY <1>1, <1>6 DEF TypeOK
<1>8. LeafAt(a)'
  <2>1. \A k \in Keys : bid[a][k].leaf # "closed"
    <3>1. ~ Ended(a)
      <4>1. now \in Nat /\ auction[a].end_time \in Nat /\ now < auction[a].end_time
        BY <1>1, BoundsAssumption DEF TypeOK, AuctionType, BiddingOpen
      <4> QED  BY <4>1 DEF Ended
    <3> QED  BY <3>1 DEF LeafInv, LeafAt
  <2>2. ASSUME NEW k \in Keys
        PROVE  /\ bid'[a][k].leaf # "none" => k[1] < auction'[a].proposal_count
               /\ bid'[a][k].leaf = "live" => bid'[a][k].amount > 0
               /\ bid'[a][k].leaf # "closed"
    <3>1. CASE k = key
      <4>1. bid'[a][k].leaf = "live" /\ bid'[a][k].amount = old + amount
        BY <1>7, <3>1
      <4> QED  BY <1>1, <1>5, <1>6, <3>1, <4>1
    <3>2. CASE k # key
      <4>1. bid'[a][k] = bid[a][k] /\ k[1] \in Nat /\ auction'[a].proposal_count \in Nat
        BY <1>3, <1>5, <1>7, <3>2 DEF Keys, Proposals
      <4>2. /\ bid[a][k].leaf # "none" => k[1] < auction[a].proposal_count
            /\ bid[a][k].leaf = "live" => bid[a][k].amount > 0
        BY DEF LeafInv, LeafAt
      <4> QED  BY <1>5, <2>1, <4>1, <4>2
    <3> QED  BY <3>1, <3>2
  <2>3. ASSUME NEW p \in Proposals, p < auction'[a].proposal_count
        PROVE  \E u \in Bidders : bid'[a][<<p, u>>].leaf # "none"
    <3>1. CASE p = pid
      <4>1. bid'[a][<<p, bidder>>].leaf = "live"
        BY <1>6, <1>7, <3>1
      <4> QED  BY <4>1
    <3>2. CASE p # pid
      <4>1. PICK u \in Bidders : bid[a][<<p, u>>].leaf # "none"
        BY <1>5, <2>3, <3>2 DEF LeafInv, LeafAt
      <4>2. <<p, u>> \in Keys /\ <<p, u>> # key
        BY <3>2 DEF Keys
      <4>3. bid'[a][<<p, u>>].leaf # "none"
        BY <1>7, <4>1, <4>2
      <4> QED  BY <4>3
    <3> QED  BY <3>1, <3>2
  <2>4. auction'[a].status # "none" => auction'[a].schema_version \in {1, 2, 3}
    BY <1>3 DEF LeafInv, LeafAt
  <2>5. auction'[a].end_time <= LastEnd /\ ext'[a].max_end_time <= LastEnd
    BY <1>2, <1>3, <1>4 DEF LeafInv, LeafAt
  <2> QED  BY <2>2, <2>3, <2>4, <2>5 DEF LeafAt
<1>9. ASSUME NEW b \in Auctions, b # a PROVE LeafAt(b)'
  <2>1. now' >= now /\ now' \in Nat
    BY <1>2, BoundsAssumption DEF TypeOK
  <2> QED  BY <1>2, <1>3, <1>7, <1>9, <2>1, LeafSame DEF LeafInv
<1> QED  BY <1>2, <1>3, <1>8, <1>9 DEF LeafInv

\* A refund closes a live leaf, after the end.
LEMMA LeafWithdraw ==
    ASSUME TypeOK, LeafInv, NEW a \in Auctions, WithdrawABid(a)
    PROVE  LeafInv'
<1> PICK pid \in Proposals, bidder \in Bidders, b \in Auctions :
         \E seen_bid \in BidsRead(b, <<pid, bidder>>) : Withdraw(a, pid, bidder, b, seen_bid)
  BY DEF WithdrawABid
<1> DEFINE key == <<pid, bidder>>
<1>1. /\ key \in Keys /\ Ended(a) /\ Live(a) /\ bid[a][key].leaf = "live"
      /\ bid' = [bid EXCEPT ![a][key] = ClosedBid(@)]
      /\ auction' = auction /\ ext' = ext /\ now' = now /\ config' = config
  BY DEF Withdraw, BidProved, BidBound, Keys
<1> HIDE DEF key
<1>2. /\ \A c \in Auctions : c # a => bid'[c] = bid[c]
      /\ \A k \in Keys : k # key => bid'[a][k] = bid[a][k]
      /\ bid'[a][key].leaf = "closed"
  BY <1>1 DEF TypeOK, ClosedBid
<1>3. LeafAt(a)'
  <2>1. \A k \in Keys : /\ k # key => bid'[a][k] = bid[a][k]
                        /\ k = key => /\ bid'[a][k].leaf = "closed"
                                      /\ bid[a][k].leaf = "live"
    BY <1>1, <1>2
  <2>2. \A k \in Keys : bid[a][k].leaf # "none" => bid'[a][k].leaf # "none"
    BY <2>1
  <2>3. \A p \in Proposals, u \in Bidders : <<p, u>> \in Keys
    BY DEF Keys
  <2>4. Ended(a)' /\ auction'[a].status # "none"
    BY <1>1 DEF Ended, Live
  <2> QED  BY <1>1, <2>1, <2>2, <2>3, <2>4 DEF LeafInv, LeafAt
<1>4. ASSUME NEW c \in Auctions, c # a PROVE LeafAt(c)'
  <2>1. now' >= now /\ now' \in Nat
    BY <1>1, BoundsAssumption DEF TypeOK
  <2> QED  BY <1>1, <1>2, <1>4, <2>1, LeafSame DEF LeafInv
<1> QED  BY <1>1, <1>3, <1>4 DEF LeafInv

LEMMA LeafStep == TypeOK /\ TypeOK' /\ Life /\ TopInv /\ LeafInv /\ [Next]_vars => LeafInv'
<1> SUFFICES ASSUME TypeOK, TypeOK', Life, TopInv, LeafInv, [Next]_vars PROVE LeafInv'
  OBVIOUS
<1>1. now \in Nat /\ now' \in Nat
  BY BoundsAssumption DEF TypeOK
<1>2. ASSUME now' >= now, bid' = bid, ext' = ext,
             config'.auction_count = config.auction_count,
             \A a \in Auctions : /\ auction'[a] = auction[a] \/ SameTerms(a)
                                 /\ auction'[a].status # "none" <=> auction[a].status # "none"
      PROVE  LeafInv'
  BY <1>1, <1>2, LeafSame DEF LeafInv
<1>3. CASE UNCHANGED vars \/ Tick \/ Donate
  <2>1. now' >= now /\ bid' = bid /\ ext' = ext /\ auction' = auction /\ config' = config
    BY <1>1, <1>3 DEF vars, accounts, history, Tick, Donate, DonateToVault,
                      DonateToDepositVault
  <2> QED  BY <1>2, <2>1
<1>4. CASE Configure
  <2>1. /\ now' = now /\ bid' = bid /\ ext' = ext /\ auction' = auction
        /\ config'.auction_count = config.auction_count
    <3>1. ASSUME NEW owner, NEW receiver, NEW fee, Initialize(owner, fee, receiver)
          PROVE  config'.auction_count = config.auction_count
      BY <3>1 DEF Initialize, Life
    <3>2. ASSUME NEW signer, NEW receiver, NEW fee, SetConfig(signer, fee, receiver)
          PROVE  config'.auction_count = config.auction_count
      BY <3>2 DEF SetConfig, TypeOK, ConfigType
    <3>3. CASE InitDepositVault
      BY <3>3 DEF InitDepositVault
    <3>4. config'.auction_count = config.auction_count
      BY <1>4, <3>1, <3>2, <3>3 DEF Configure
    <3> QED  BY <1>4, <3>4 DEF Configure, Initialize, SetConfig, InitDepositVault
  <2> QED  BY <1>1, <1>2, <2>1
<1>5. ASSUME NEW a \in Auctions, ClaimWinnings(a) PROVE LeafInv'
  <2>1. /\ now' = now /\ bid' = bid /\ ext' = ext /\ config' = config
        /\ auction' = [auction EXCEPT ![a].creator_paid = TRUE]
    BY <1>5 DEF ClaimWinnings
  <2>2. \A b \in Auctions : SameTerms(b) /\ auction'[b].status = auction[b].status
    BY <2>1, PaidFacts
  <2> QED  BY <1>1, <1>2, <2>1, <2>2
<1>6. ASSUME NEW a \in Auctions, CloseAuction(a) \/ Cancel(a) \/ ForceCloseAuction(a)
      PROVE  LeafInv'
  <2>1. /\ now' = now /\ bid' = bid /\ ext' = ext /\ config' = config
        /\ CloseAccounts(a) /\ Live(a)
    BY <1>6 DEF CloseAuction, Cancel, CancelAuction, ForceCloseAuction
  <2>2. \A b \in Auctions : /\ SameTerms(b)
                            /\ auction'[b].status # "none" <=> auction[b].status # "none"
    BY <2>1, ClosedFacts DEF Live
  <2> QED  BY <1>1, <1>2, <2>1, <2>2
<1>7. ASSUME NEW a \in Auctions, OnAuction(a) PROVE LeafInv'
  BY <1>5, <1>6, <1>7, BidsAreCurrent, LeafCreate, LeafBid, LeafWithdraw DEF OnAuction
<1> QED  BY <1>3, <1>4, <1>7 DEF Next

----------------------------------------------------------------------------
(* The refinement. *)

\* The account and the leaves that the promise is about.
View(a) == [status   |-> auction[a].status,
            end_time |-> auction[a].end_time,
            paid     |-> auction[a].creator_paid,
            winners  |-> Seated(auction[a].winners)]

Account == [a \in Auctions |-> View(a)]
Leaf    == [a \in Auctions |-> [k \in Keys |-> bid[a][k].leaf]]

\* The promise's own guards, in the terms of the program.
LEMMA PromiseFacts ==
    ASSUME NEW a \in Auctions
    PROVE  /\ Account[a] = View(a) /\ Promise!Auctions = Auctions
           /\ Promise!Live(a) <=> Live(a)
           /\ Promise!Ended(a) <=> Ended(a)
           /\ Promise!Owed(a) = {k \in LosingKeys(a) : bid[a][k].leaf = "live"}
<1>1. Promise!Auctions = Auctions
  BY DEF Promise!Auctions, Auctions
<1>2. Promise!Live(a) <=> Live(a)
  BY DEF Promise!Live, Live
<1>3. Promise!Ended(a) <=> Ended(a)
  BY DEF Promise!Ended, Ended
<1>4. Promise!Owed(a) = {k \in LosingKeys(a) : bid[a][k].leaf = "live"}
  BY DEF Promise!Owed, LosingKeys
<1> QED  BY <1>1, <1>2, <1>3, <1>4 DEF Account

\* A step that changes one account, and one that changes none.
LEMMA AccountChange ==
    ASSUME NEW a \in Auctions, \A b \in Auctions : b # a => View(b)' = View(b),
           NEW r, View(a)' = r
    PROVE  Account' = [Account EXCEPT ![a] = r]
BY DEF Account

\* What a step leaves of an account.
SameStatus(a) == auction'[a].status = auction[a].status
SameEnd(a)    == auction'[a].end_time = auction[a].end_time
SamePaid(a)   == auction'[a].creator_paid = auction[a].creator_paid
SameSeats(a)  == Seated(auction'[a].winners) = Seated(auction[a].winners)

\* The four ways in which the promise writes an account.
StatusWritten(a, x)      == Account' = [Account EXCEPT ![a] = [@ EXCEPT !.status = x]]
PaidWritten(a, x)        == Account' = [Account EXCEPT ![a] = [@ EXCEPT !.paid = x]]
StatusEndWritten(a, x, y) ==
    Account' = [Account EXCEPT ![a] = [@ EXCEPT !.status = x, !.end_time = y]]
WinnersEndWritten(a, x, y) ==
    Account' = [Account EXCEPT ![a] = [@ EXCEPT !.winners = x, !.end_time = y]]

\* They show in the view of the account.
LEMMA AccountRewritten ==
    ASSUME NEW a \in Auctions, \A b \in Auctions : b # a => View(b)' = View(b),
           NEW x, NEW y, NEW s, NEW e, NEW p, NEW w,
           View(a) = [status |-> s, end_time |-> e, paid |-> p, winners |-> w]
    PROVE  /\ View(a)' = [status |-> x, end_time |-> e, paid |-> p, winners |-> w]
                => StatusWritten(a, x)
           /\ View(a)' = [status |-> s, end_time |-> e, paid |-> x, winners |-> w]
                => PaidWritten(a, x)
           /\ View(a)' = [status |-> x, end_time |-> y, paid |-> p, winners |-> w]
                => StatusEndWritten(a, x, y)
           /\ View(a)' = [status |-> s, end_time |-> y, paid |-> p, winners |-> x]
                => WinnersEndWritten(a, x, y)
<1> DEFINE q1 == [View(a) EXCEPT !.status = x]
           q2 == [View(a) EXCEPT !.winners = x]
           q3 == [View(a) EXCEPT !.paid = x]
           q4 == [View(a) EXCEPT !.status = x, !.end_time = y]
           q5 == [View(a) EXCEPT !.winners = x, !.end_time = y]
<1>1. q1 = [status |-> x, end_time |-> e, paid |-> p, winners |-> w]
  OBVIOUS
<1>2. q2 = [status |-> s, end_time |-> e, paid |-> p, winners |-> x]
  OBVIOUS
<1>3. q3 = [status |-> s, end_time |-> e, paid |-> x, winners |-> w]
  OBVIOUS
<1>4. q4 = [q1 EXCEPT !.end_time = y]
  OBVIOUS
<1>5. q5 = [q2 EXCEPT !.end_time = y]
  OBVIOUS
<1>6. Account[a] = View(a)
  BY DEF Account
<1>7. ASSUME NEW r, View(a)' = r PROVE Account' = [Account EXCEPT ![a] = r]
  BY <1>7, AccountChange
<1>8. [Account EXCEPT ![a] = q1] = [Account EXCEPT ![a] = [@ EXCEPT !.status = x]]
  BY <1>6
<1>9. [Account EXCEPT ![a] = q3] = [Account EXCEPT ![a] = [@ EXCEPT !.paid = x]]
  BY <1>6
<1>10. [Account EXCEPT ![a] = q4]
          = [Account EXCEPT ![a] = [@ EXCEPT !.status = x, !.end_time = y]]
  BY <1>6
<1>11. [Account EXCEPT ![a] = q5]
          = [Account EXCEPT ![a] = [@ EXCEPT !.winners = x, !.end_time = y]]
  BY <1>6
<1> HIDE DEF q1, q2, q3, q4, q5
<1>12. q4 = [status |-> x, end_time |-> y, paid |-> p, winners |-> w]
  BY <1>1, <1>4
<1>13. q5 = [status |-> s, end_time |-> y, paid |-> p, winners |-> x]
  BY <1>2, <1>5
<1>14. /\ View(a)' = q1 => Account' = [Account EXCEPT ![a] = q1]
       /\ View(a)' = q3 => Account' = [Account EXCEPT ![a] = q3]
       /\ View(a)' = q4 => Account' = [Account EXCEPT ![a] = q4]
       /\ View(a)' = q5 => Account' = [Account EXCEPT ![a] = q5]
  <2>1. View(a)' = q1 => Account' = [Account EXCEPT ![a] = q1]  BY AccountChange
  <2>2. View(a)' = q3 => Account' = [Account EXCEPT ![a] = q3]  BY AccountChange
  <2>3. View(a)' = q4 => Account' = [Account EXCEPT ![a] = q4]  BY AccountChange
  <2>4. View(a)' = q5 => Account' = [Account EXCEPT ![a] = q5]  BY AccountChange
  <2> QED  BY <2>1, <2>2, <2>3, <2>4
<1>15. /\ StatusWritten(a, x) <=> Account' = [Account EXCEPT ![a] = [@ EXCEPT !.status = x]]
       /\ PaidWritten(a, x) <=> Account' = [Account EXCEPT ![a] = [@ EXCEPT !.paid = x]]
       /\ StatusEndWritten(a, x, y)
             <=> Account' = [Account EXCEPT ![a] = [@ EXCEPT !.status = x, !.end_time = y]]
       /\ WinnersEndWritten(a, x, y)
             <=> Account' = [Account EXCEPT ![a] = [@ EXCEPT !.winners = x, !.end_time = y]]
  BY DEF StatusWritten, PaidWritten, StatusEndWritten, WinnersEndWritten
<1> QED  BY <1>1, <1>3, <1>8, <1>9, <1>10, <1>11, <1>12, <1>13, <1>14, <1>15, Zenon

\* The same, field by field.
LEMMA AccountWritten ==
    ASSUME NEW a \in Auctions, \A b \in Auctions : b # a => View(b)' = View(b),
           NEW x, NEW y
    PROVE  /\ /\ auction'[a].status = x /\ SameEnd(a) /\ SamePaid(a) /\ SameSeats(a)
              => StatusWritten(a, x)
           /\ /\ auction'[a].creator_paid = x /\ SameStatus(a) /\ SameEnd(a) /\ SameSeats(a)
              => PaidWritten(a, x)
           /\ /\ auction'[a].status = x /\ auction'[a].end_time = y
              /\ SamePaid(a) /\ SameSeats(a)
              => StatusEndWritten(a, x, y)
           /\ /\ Seated(auction'[a].winners) = x /\ auction'[a].end_time = y
              /\ SameStatus(a) /\ SamePaid(a)
              => WinnersEndWritten(a, x, y)
<1> PICK s : s = auction[a].status  OBVIOUS
<1> PICK e : e = auction[a].end_time  OBVIOUS
<1> PICK p : p = auction[a].creator_paid  OBVIOUS
<1> PICK w : w = Seated(auction[a].winners)  OBVIOUS
<1>1. View(a) = [status |-> s, end_time |-> e, paid |-> p, winners |-> w]
  BY DEF View
<1>2. View(a)' = [status |-> auction'[a].status, end_time |-> auction'[a].end_time,
                  paid |-> auction'[a].creator_paid, winners |-> Seated(auction'[a].winners)]
  BY DEF View
<1>3. /\ View(a)' = [status |-> x, end_time |-> e, paid |-> p, winners |-> w]
           => StatusWritten(a, x)
      /\ View(a)' = [status |-> s, end_time |-> e, paid |-> x, winners |-> w]
           => PaidWritten(a, x)
      /\ View(a)' = [status |-> x, end_time |-> y, paid |-> p, winners |-> w]
           => StatusEndWritten(a, x, y)
      /\ View(a)' = [status |-> s, end_time |-> y, paid |-> p, winners |-> x]
           => WinnersEndWritten(a, x, y)
  BY <1>1, AccountRewritten, Zenon
<1>4. /\ SameStatus(a) => auction'[a].status = s
      /\ SameEnd(a) => auction'[a].end_time = e
      /\ SamePaid(a) => auction'[a].creator_paid = p
      /\ SameSeats(a) => Seated(auction'[a].winners) = w
  BY DEF SameStatus, SameEnd, SamePaid, SameSeats
<1> QED  BY <1>2, <1>3, <1>4, Zenon

LEMMA AccountSame ==
    ASSUME \A b \in Auctions : View(b)' = View(b)
    PROVE  Account' = Account
BY DEF Account

\* A step that changes one Bid leaf.
LEMMA LeafChange ==
    ASSUME TypeOK, NEW a \in Auctions, NEW key \in Keys, NEW r,
           bid' = [bid EXCEPT ![a][key] = r]
    PROVE  Leaf' = [Leaf EXCEPT ![a][key] = r.leaf]
<1>1. /\ \A b \in Auctions : b # a => bid'[b] = bid[b]
      /\ \A k \in Keys : bid'[a][k] = IF k = key THEN r ELSE bid[a][k]
  BY DEF TypeOK
<1>2. [Leaf EXCEPT ![a][key] = r.leaf]
         = [b \in Auctions |-> IF b = a THEN [Leaf[a] EXCEPT ![key] = r.leaf] ELSE Leaf[b]]
  BY DEF Leaf
<1>3. \A b \in Auctions : Leaf[b] = [k \in Keys |-> bid[b][k].leaf]
  BY DEF Leaf
<1>4. [Leaf[a] EXCEPT ![key] = r.leaf]
         = [k \in Keys |-> IF k = key THEN r.leaf ELSE bid[a][k].leaf]
  BY <1>3
<1>5. [k \in Keys |-> bid'[a][k].leaf]
         = [k \in Keys |-> IF k = key THEN r.leaf ELSE bid[a][k].leaf]
  BY <1>1
<1>6. \A b \in Auctions : b # a => [k \in Keys |-> bid'[b][k].leaf] = Leaf[b]
  BY <1>1, <1>3
<1>7. Leaf' = [b \in Auctions |-> [k \in Keys |-> bid'[b][k].leaf]]
  BY DEF Leaf
<1>8. ASSUME NEW b \in Auctions
      PROVE  [k \in Keys |-> bid'[b][k].leaf]
                = IF b = a THEN [Leaf[a] EXCEPT ![key] = r.leaf] ELSE Leaf[b]
  BY <1>4, <1>5, <1>6
<1>9. Leaf' = [b \in Auctions |-> IF b = a THEN [Leaf[a] EXCEPT ![key] = r.leaf] ELSE Leaf[b]]
  BY <1>7, <1>8
<1> QED  BY <1>2, <1>9

\* Nobody sits on an empty board.
LEMMA EmptySeats == Seated(<<>>) = {}
BY EmptySeq DEF Seated

LEMMA SettlesInit == Init => Promise!Init
<1> SUFFICES ASSUME Init PROVE Promise!Init
  OBVIOUS
<1>2. \A a \in Auctions : View(a) = Promise!NoAccount
  BY EmptySeats DEF Init, View, NoAuction, Promise!NoAccount
<1>3. Account = [a \in Promise!Auctions |-> Promise!NoAccount]
  BY <1>2 DEF Account, Promise!Auctions, Auctions
<1>4. Leaf = [a \in Promise!Auctions |-> [k \in Keys |-> "none"]]
  BY DEF Init, Leaf, Promise!Auctions, Auctions
<1> QED  BY <1>3, <1>4 DEF Init, Promise!Init, Account, Leaf, View

\* Everything the refinement rests on.
SettleInv == MoneyInv /\ DepositInv /\ AntisnipeHolds /\ LeafInv

\* create_auction, of either program: the next id, an end to come.
LEMMA CreateIsPromised ==
    ASSUME SettleInv, SettleInv', NEW a \in Auctions, Create(a)
    PROVE  \E end \in 0 .. LastEnd : Promise!Create(a, end)
<1> PICK creator \in Creators, duration \in Nat, extension \in Nat,
         schema \in {1, 2, 3}, r \in AuctionType :
         Created(a, creator, duration, extension, schema, r)
  BY CreateFacts DEF SettleInv, MoneyInv
<1>1. PICK end : end = now + duration
  OBVIOUS
<1>0. TypeOK /\ Life /\ LeafInv /\ LeafInv'
  BY DEF SettleInv, MoneyInv
<1>2. /\ bid' = bid /\ now' = now /\ now \in Nat /\ duration > 0
      /\ a = config.auction_count
      /\ \A b \in Auctions : b # a => auction'[b] = auction[b]
      /\ auction'[a] = r /\ r.status = "live" /\ r.end_time = end
      /\ ~ r.creator_paid /\ r.winners = <<>> /\ r \in AuctionType
  BY <1>0, <1>1, NumbersType DEF Created, TypeOK
<1>3. auction[a].status = "none" /\ auction[a] = NoAuction
  <2>1. ~ (a < config.auction_count)
    BY <1>0, <1>2 DEF TypeOK, ConfigType
  <2> QED  BY <1>0, <2>1 DEF Life
<1>4. \A b \in Auctions : b < a => auction[b].status # "none"
  BY <1>0, <1>2 DEF LeafInv
<1>5. end \in 0 .. LastEnd /\ end > now
  <2>1. auction'[a].end_time <= LastEnd
    BY <1>0 DEF LeafInv, LeafAt
  <2> QED  BY <1>1, <1>2, <2>1, LastEndType
<1>6. /\ auction[a].status = "none"
      /\ auction'[a].status = "live" /\ auction'[a].end_time = end
      /\ auction'[a].creator_paid = auction[a].creator_paid
      /\ auction'[a].winners = auction[a].winners
  <2>1. auction[a].creator_paid = FALSE /\ auction[a].winners = <<>>
    BY <1>3 DEF NoAuction
  <2>2. auction'[a].creator_paid = FALSE /\ auction'[a].winners = <<>>
    BY <1>2 DEF AuctionType
  <2> QED  BY <1>2, <1>3, <2>1, <2>2
<1>7. \A b \in Auctions : b # a => View(b)' = View(b)
  BY <1>2 DEF View
<1>9. Account[a] = View(a) /\ Promise!Auctions = Auctions
  BY PromiseFacts
<1>10. StatusEndWritten(a, "live", end)
  BY <1>6, <1>7, AccountWritten DEF SamePaid, SameSeats
<1>11. /\ Account[a].status = "none"
       /\ \A b \in Auctions : Account[b].status = auction[b].status
  BY <1>3 DEF Account, View
<1>12. Promise!Create(a, end)
  BY <1>2, <1>4, <1>5, <1>9, <1>10, <1>11
     DEF Promise!Create, Account, View, StatusEndWritten
<1> QED  BY <1>5, <1>12

\* The three bid handlers: the seats of the new board are taken by proposals
\* somebody still backs, and the end only moves back.
LEMMA BidIsPromised ==
    ASSUME SettleInv, SettleInv', NEW a \in Auctions, BidStep(a), Live(a) => FrozenAt(a)
    PROVE  \E k \in Keys, top \in SUBSET Promise!Proposals, end \in 0 .. LastEnd :
              Promise!Bid(a, k, top, end)
<1>1. /\ TypeOK /\ TypeOK' /\ TopInv' /\ LeafInv /\ LeafInv'
  BY DEF SettleInv, MoneyInv
<1> PICK bidder \in Bidders, pid \in Proposals, amount \in Nat, old \in Nat,
         with_ext \in BOOLEAN, new_proposals \in {0, 1} :
         OneBid(a, bidder, pid, amount, old, with_ext, new_proposals)
  BY DEF BidStep
<1> PICK k : k = <<pid, bidder>>
  OBVIOUS
<1> PICK new_total : new_total = proposal_total[a][pid] + amount
  OBVIOUS
<1> PICK top : top = Seated(auction'[a].winners)
  OBVIOUS
<1> PICK end : end = auction'[a].end_time
  OBVIOUS
<1>2. /\ k \in Keys /\ Live(a) /\ BiddingOpen(a)
      /\ BookBid(a, bidder, pid, new_total, amount, with_ext, new_proposals)
      /\ bid' = [bid EXCEPT ![a][k] = [leaf |-> "live", amount |-> old + amount]]
  BY DEF OneBid, Keys
<1>3. /\ now' = now /\ ~ Ended(a) /\ ~ Ended(a)'
  <2>1. /\ now \in Nat /\ auction[a].end_time \in Nat /\ auction'[a].end_time \in Nat
    BY <1>1, NumbersType DEF TypeOK, AuctionType
  <2>2. now' = now /\ now < auction[a].end_time
    BY <1>2 DEF BookBid, BiddingOpen
  <2>3. auction'[a].end_time >= auction[a].end_time
    BY <1>2 DEF FrozenAt
  <2>4. now < auction'[a].end_time
    BY <2>1, <2>2, <2>3
  <2> QED  BY <2>1, <2>2, <2>4 DEF Ended
<1>4. /\ end \in 0 .. LastEnd /\ end >= auction[a].end_time
  <2>1. end \in Nat /\ end <= LastEnd
    BY <1>1 DEF TypeOK, AuctionType, LeafInv, LeafAt
  <2> QED  BY <1>2, <2>1, LastEndType DEF FrozenAt
<1>5. Leaf' = [Leaf EXCEPT ![a][k] = "live"]
  <2>1. Leaf' = [Leaf EXCEPT ![a][k] = [leaf |-> "live", amount |-> old + amount].leaf]
    BY <1>1, <1>2, LeafChange
  <2> QED  BY <2>1
<1>6. /\ \A b \in Auctions : b # a => auction'[b] = auction[b]
      /\ SameStatus(a) /\ SamePaid(a)
      /\ auction'[a].proposal_count = auction[a].proposal_count + new_proposals
      /\ auction'[a].winner_count = auction[a].winner_count
  BY <1>1, <1>2, BookFacts DEF SameStatus, SamePaid
<1>7. \A b \in Auctions : b # a => View(b)' = View(b)
  BY <1>6 DEF View
<1>8. WinnersEndWritten(a, top, end)
  BY <1>6, <1>7, AccountWritten
<1>9. /\ auction'[a].proposal_count \in 0 .. MaxProposals
      /\ \A p \in top : p \in Nat /\ p < auction'[a].proposal_count
      /\ top # {}
  <2> PICK w : w = auction'[a].winners
    OBVIOUS
  <2> PICK count : count = auction'[a].proposal_count
    OBVIOUS
  <2>1. /\ w \in Seq(Slot) /\ count \in 0 .. MaxProposals
        /\ auction'[a].winner_count \in 0 .. MaxWinners
    BY <1>1 DEF TypeOK, AuctionType
  <2>2. IsLeaderBoard(w, auction'[a].winner_count, proposal_total'[a], count)
    <3>1. auction'[a].status # "none"
      BY <1>2, <1>6 DEF Live, SameStatus
    <3> QED  BY <1>1, <3>1 DEF TopInv, WinnersAreTop
  <2>3. count > 0
    <3>1. bid'[a][k].leaf = "live"
      BY <1>1, <1>2 DEF TypeOK
    <3>2. k[1] < count /\ k[1] \in Nat
      BY <1>1, <1>2, <3>1, NumbersType DEF LeafInv, LeafAt
    <3> QED  BY <2>1, <3>2, BoundsAssumption
  <2>4. Len(w) > 0
    <3>1. Seats(auction'[a].winner_count) \in Nat /\ Seats(auction'[a].winner_count) > 0
      BY MaxWinnersAssumption DEF Seats
    <3>2. Len(w) = IF count < Seats(auction'[a].winner_count) THEN count
                   ELSE Seats(auction'[a].winner_count)
      BY <2>2 DEF IsLeaderBoard
    <3> QED  BY <2>3, <3>1, <3>2
  <2>5. 1 \in DOMAIN w
    BY <2>1, <2>4
  <2>6. \A i \in DOMAIN w : w[i].proposal_id < count /\ w[i].proposal_id \in Nat
    <3>1. \A i \in DOMAIN w : w[i] \in Slot
      BY <2>1
    <3> QED  BY <2>2, <3>1 DEF IsLeaderBoard, Slot
  <2> QED  BY <2>1, <2>5, <2>6 DEF Seated
<1>10. \A p \in top : /\ p \in Promise!Proposals
                      /\ \E j \in Keys : j[1] = p /\ Leaf'[a][j] = "live"
  <2> SUFFICES ASSUME NEW p \in top
               PROVE  \E j \in Keys : j[1] = p /\ Leaf'[a][j] = "live"
    BY DEF Promise!Proposals
  <2>1. p \in Proposals /\ p < auction'[a].proposal_count
    <3>1. p \in Nat /\ p < auction'[a].proposal_count
          /\ auction'[a].proposal_count \in 0 .. MaxProposals
      BY <1>9
    <3> QED  BY <3>1, BoundsAssumption DEF Proposals
  <2>2. PICK u \in Bidders : bid'[a][<<p, u>>].leaf # "none"
    BY <1>1, <2>1 DEF LeafInv, LeafAt
  <2>3. <<p, u>> \in Keys
    BY <2>1 DEF Keys
  <2>4. bid'[a][<<p, u>>].leaf \in {"none", "live", "closed"}
    BY <1>1, <2>3 DEF TypeOK, BidType
  <2>5. bid'[a][<<p, u>>].leaf # "closed"
    BY <1>1, <1>3, <2>3 DEF LeafInv, LeafAt
  <2>6. Leaf'[a][<<p, u>>] = bid'[a][<<p, u>>].leaf
    BY <2>3 DEF Leaf
  <2> QED  BY <2>2, <2>3, <2>4, <2>5, <2>6
<1>11. Promise!Bid(a, k, top, end)
  <2>1. Account[a].end_time = auction[a].end_time /\ Promise!Live(a) /\ ~ Promise!Ended(a)
    <3>1. Account[a].end_time = auction[a].end_time
      BY DEF Account, View
    <3> QED  BY <1>2, <1>3, <3>1, PromiseFacts, Zenon
  <2>2. Account' = [Account EXCEPT ![a] = [@ EXCEPT !.winners = top, !.end_time = end]]
    BY <1>8 DEF WinnersEndWritten
  <2>3. \A p \in top : \E j \in Keys : j[1] = p /\ Leaf'[a][j] = "live"
    BY <1>10
  <2>4. end >= Account[a].end_time /\ top # {} /\ now' = now
    BY <1>3, <1>4, <1>9, <2>1
  <2> QED  BY <1>5, <2>1, <2>2, <2>3, <2>4, Zenon DEF Promise!Bid, Account, View, Leaf
<1> QED  BY <1>2, <1>4, <1>10, <1>11

\* claim_winnings.
LEMMA ClaimIsPromised ==
    ASSUME SettleInv, NEW a \in Auctions, ClaimWinnings(a)
    PROVE  Promise!Claim(a)
<1>1. /\ TypeOK /\ Live(a) /\ Ended(a) /\ ~ auction[a].creator_paid
      /\ auction' = [auction EXCEPT ![a].creator_paid = TRUE]
      /\ now' = now /\ bid' = bid
  BY DEF SettleInv, MoneyInv, ClaimWinnings
<1>2. /\ \A b \in Auctions : b # a => View(b)' = View(b)
      /\ auction'[a].creator_paid = TRUE /\ SameStatus(a) /\ SameEnd(a) /\ SameSeats(a)
  <2>1. /\ \A b \in Auctions : b # a => auction'[b] = auction[b]
        /\ SameTerms(a) /\ auction'[a].status = auction[a].status
        /\ auction'[a].creator_paid
    BY <1>1, PaidFacts
  <2>2. auction'[a].creator_paid = TRUE
    BY <1>1 DEF TypeOK, AuctionType
  <2> QED  BY <2>1, <2>2 DEF View, SameTerms, SameStatus, SameEnd, SameSeats
<1>3. Account' = [Account EXCEPT ![a] = [@ EXCEPT !.paid = TRUE]]
  <2>1. PaidWritten(a, TRUE)
    BY <1>2, AccountWritten
  <2> QED  BY <2>1 DEF PaidWritten
<1>4. Leaf' = Leaf
  BY <1>1 DEF Leaf
<1>5. Promise!Live(a) /\ Promise!Ended(a) /\ ~ Account[a].paid
  <2>1. ~ Account[a].paid
    BY <1>1 DEF Account, View
  <2> QED  BY <1>1, <2>1, PromiseFacts, Zenon
<1> QED  BY <1>1, <1>3, <1>4, <1>5, Zenon DEF Promise!Claim, Account, View, Leaf

\* withdraw: what it refunds is owed.
LEMMA RefundIsPromised ==
    ASSUME SettleInv, NEW a \in Auctions, WithdrawABid(a)
    PROVE  \E k \in Keys : Promise!Refund(a, k)
<1> PICK pid \in Proposals, bidder \in Bidders, b \in Auctions :
         \E seen_bid \in BidsRead(b, <<pid, bidder>>) : Withdraw(a, pid, bidder, b, seen_bid)
  BY DEF WithdrawABid
<1> PICK k : k = <<pid, bidder>>
  OBVIOUS
<1>1. /\ TypeOK /\ k \in LosingKeys(a) /\ Ended(a) /\ Live(a) /\ bid[a][k].leaf = "live"
      /\ bid' = [bid EXCEPT ![a][k] = ClosedBid(@)]
      /\ auction' = auction /\ now' = now /\ k \in Keys
  BY DEF SettleInv, MoneyInv, Withdraw, BidProved, BidBound, Keys, LosingKeys, IsWinner
<1>2. Leaf' = [Leaf EXCEPT ![a][k] = "closed"]
  <2> PICK r : r = [leaf |-> "closed", amount |-> 0]
    OBVIOUS
  <2>1. bid' = [bid EXCEPT ![a][k] = r]
    BY <1>1 DEF ClosedBid
  <2>2. TypeOK /\ k \in Keys
    BY <1>1
  <2>3. Leaf' = [Leaf EXCEPT ![a][k] = r.leaf]
    BY <2>1, <2>2, LeafChange
  <2> QED  BY <2>3
<1>3. Account' = Account
  BY <1>1 DEF Account, View
<1>4. Promise!Live(a) /\ Promise!Ended(a) /\ k \in Promise!Owed(a)
  <2>1. k \in {j \in LosingKeys(a) : bid[a][j].leaf = "live"}
    BY <1>1
  <2> QED  BY <1>1, <2>1, PromiseFacts, Zenon
<1>5. Promise!Refund(a, k)
  BY <1>1, <1>2, <1>3, <1>4, Zenon DEF Promise!Refund, Account, View, Leaf
<1> QED  BY <1>1, <1>5

\* A step that closes the Auction account, seen by the promise.
LEMMA CloseWritten ==
    ASSUME TypeOK, NEW a \in Auctions, CloseAccounts(a), bid' = bid
    PROVE  /\ Account' = [Account EXCEPT ![a] = [@ EXCEPT !.status = "closed"]]
           /\ Leaf' = Leaf
<1>1. /\ \A b \in Auctions : b # a => auction'[b] = auction[b]
      /\ SameTerms(a) /\ auction'[a].status = "closed"
      /\ auction'[a].creator_paid = auction[a].creator_paid
  BY ClosedFacts
<1>2. \A b \in Auctions : b # a => View(b)' = View(b)
  BY <1>1 DEF View
<1>3. StatusWritten(a, "closed")
  <2>1. SameEnd(a) /\ SamePaid(a) /\ SameSeats(a)
    BY <1>1 DEF SameTerms, SameEnd, SamePaid, SameSeats
  <2> QED  BY <1>1, <1>2, <2>1, AccountWritten
<1> QED  BY <1>3 DEF StatusWritten, Leaf

\* close_auction and force_close_auction: an empty vault owes nothing.
LEMMA CloseIsPromised ==
    ASSUME SettleInv, NEW a \in Auctions, CloseAuction(a) \/ ForceCloseAuction(a)
    PROVE  Promise!Close(a)
<1>1. /\ TypeOK /\ Live(a) /\ auction[a].creator_paid /\ CloseAccounts(a)
      /\ now' = now /\ bid' = bid /\ vault[a] = 0
  BY DEF SettleInv, MoneyInv, CloseAuction, ForceCloseAuction, CloseAccounts
<1>2. Ended(a)
  <2>1. CASE CloseAuction(a)
    BY <2>1 DEF CloseAuction
  <2>2. CASE ForceCloseAuction(a)
    <3>1. now >= auction[a].end_time + CloseGrace /\ CloseGrace \in Nat
      BY <2>2, LimitsAssumption DEF ForceCloseAuction
    <3>2. now \in Nat /\ auction[a].end_time \in Nat
      BY <1>1, NumbersType
    <3> QED  BY <3>1, <3>2 DEF Ended
  <2> QED  BY <2>1, <2>2
<1>3. {k \in LosingKeys(a) : bid[a][k].leaf = "live"} = {}
  <2> SUFFICES ASSUME NEW k \in LosingKeys(a), bid[a][k].leaf = "live" PROVE FALSE
    OBVIOUS
  <2>1. k \in Keys /\ bid[a][k].amount \in Nat
    BY <1>1 DEF LosingKeys, TypeOK, BidType
  <2>2. bid[a][k].amount <= 0
    BY <1>1, MoneyCovers DEF SettleInv, PayoutsCovered
  <2>3. bid[a][k].amount > 0
    BY <2>1 DEF SettleInv, LeafInv, LeafAt
  <2> QED  BY <2>1, <2>2, <2>3
<1>4. /\ Account' = [Account EXCEPT ![a] = [@ EXCEPT !.status = "closed"]]
      /\ Leaf' = Leaf
  BY <1>1, CloseWritten
<1>5. Promise!Live(a) /\ Promise!Ended(a) /\ Account[a].paid /\ Promise!Owed(a) = {}
  <2>1. Account[a].paid
    BY <1>1 DEF Account, View
  <2> QED  BY <1>1, <1>2, <1>3, <2>1, PromiseFacts, Zenon
<1> QED  BY <1>1, <1>4, <1>5, Zenon DEF Promise!Close, Account, View, Leaf

\* cancel_auction: an auction without proposals has no leaves.
LEMMA CancelIsPromised ==
    ASSUME SettleInv, NEW a \in Auctions, Cancel(a)
    PROVE  Promise!Cancel(a)
<1>1. /\ TypeOK /\ Live(a) /\ CloseAccounts(a) /\ now' = now /\ bid' = bid
      /\ auction[a].proposal_count = 0
  BY DEF SettleInv, MoneyInv, Cancel, CancelAuction
<1>2. \A k \in Keys : Leaf[a][k] = "none"
  <2> SUFFICES ASSUME NEW k \in Keys PROVE bid[a][k].leaf = "none"
    BY DEF Leaf
  <2>1. ~ (k[1] < auction[a].proposal_count)
    BY <1>1, NumbersType
  <2> QED  BY <2>1 DEF SettleInv, LeafInv, LeafAt
<1>3. /\ Account' = [Account EXCEPT ![a] = [@ EXCEPT !.status = "closed"]]
      /\ Leaf' = Leaf
  BY <1>1, CloseWritten
<1>4. Promise!Live(a)
  BY <1>1, PromiseFacts, Zenon
<1> QED  BY <1>1, <1>2, <1>3, <1>4, Zenon DEF Promise!Cancel, Account, View, Leaf

\* Every instruction is a step of the promise, or changes nothing it is about.
LEMMA SettlesStep ==
    SettleInv /\ SettleInv' /\ [Next]_vars => [Promise!Next]_(Promise!chain)
<1> SUFFICES ASSUME SettleInv, SettleInv', [Next]_vars
             PROVE  Promise!Next \/ UNCHANGED Promise!chain
  OBVIOUS
<1>1. /\ TypeOK /\ Life /\ AntisnipeHolds /\ Promise!Auctions = Auctions
      /\ LastEnd = LastCreate + MaxDuration + MaxAntisnipeCap
  BY DEF SettleInv, MoneyInv, Promise!Auctions, Auctions, LastEnd
<1>2. ASSUME now' = now, auction' = auction, bid' = bid PROVE UNCHANGED Promise!chain
  BY <1>2 DEF Promise!chain
<1>3. CASE UNCHANGED vars \/ Configure \/ Donate
  <2>1. now' = now /\ auction' = auction /\ bid' = bid
    BY <1>3 DEF vars, accounts, Configure, Initialize, SetConfig, InitDepositVault,
                Donate, DonateToVault, DonateToDepositVault
  <2> QED  BY <1>2, <2>1
<1>4. CASE Tick
  <2>1. Promise!ClockTicks
    BY <1>4 DEF Tick, accounts, Promise!ClockTicks
  <2> QED  BY <2>1 DEF Promise!Next
<1>5. ASSUME NEW a \in Auctions, Create(a) PROVE Promise!Next
  <2>1. \E end \in 0 .. LastCreate + MaxDuration + MaxAntisnipeCap : Promise!Create(a, end)
    BY <1>1, <1>5, CreateIsPromised
  <2> QED  BY <1>1, <2>1 DEF Promise!Next
<1>6. ASSUME NEW a \in Auctions, BidStep(a) PROVE Promise!Next
  <2>1. Live(a) => FrozenAt(a)
    BY <1>1, FrozenStep
  <2>2. \E k \in Keys, top \in SUBSET Promise!Proposals,
           end \in 0 .. LastCreate + MaxDuration + MaxAntisnipeCap :
              Promise!Bid(a, k, top, end)
    BY <1>1, <1>6, <2>1, BidIsPromised
  <2> QED  BY <1>1, <2>2 DEF Promise!Next
<1>7. ASSUME NEW a \in Auctions, ClaimWinnings(a) PROVE Promise!Next
  <2>1. Promise!Claim(a)
    BY <1>7, ClaimIsPromised
  <2> QED  BY <1>1, <2>1 DEF Promise!Next
<1>8. ASSUME NEW a \in Auctions, WithdrawABid(a) PROVE Promise!Next
  <2>1. \E k \in Keys : Promise!Refund(a, k)
    BY <1>8, RefundIsPromised
  <2> QED  BY <1>1, <2>1 DEF Promise!Next
<1>9. ASSUME NEW a \in Auctions, CloseAuction(a) \/ ForceCloseAuction(a) PROVE Promise!Next
  <2>1. Promise!Close(a)
    BY <1>9, CloseIsPromised
  <2> QED  BY <1>1, <2>1 DEF Promise!Next
<1>10. ASSUME NEW a \in Auctions, Cancel(a) PROVE Promise!Next
  <2>1. Promise!Cancel(a)
    BY <1>10, CancelIsPromised
  <2> QED  BY <1>1, <2>1 DEF Promise!Next
<1>11. ASSUME NEW a \in Auctions, OnAuction(a) PROVE Promise!Next
  <2>1. PlaceABid(a) \/ RaiseABid(a) \/ TopUpABid(a) => BidStep(a)
    BY <1>1, BidsAreCurrent
  <2> QED  BY <1>5, <1>6, <1>7, <1>8, <1>9, <1>10, <1>11, <2>1 DEF OnAuction
<1> QED  BY <1>3, <1>4, <1>11 DEF Next

LEMMA SettleAlways == Spec => []SettleInv
<1>1. Init => SettleInv
  BY TypeInit, LifeInit, TopInit, SupplyInit, StakeInit, DepositInit, AntisnipeInit, LeafInit
     DEF SettleInv, MoneyInv
<1>2. SettleInv /\ [Next]_vars => SettleInv'
  BY TypeStep, LifeStep, TopStep, SupplyStep, StakeStep, DepositStep, AntisnipeStep, LeafStep
     DEF SettleInv, MoneyInv
<1> QED  BY <1>1, <1>2, PTL DEF Spec

\* What the keeper was written against is true of the program, for any number
\* of auctions, proposals and bidders: whatever is sent to it and in whatever
\* order, an auction is closed only when no loser has a stake in it, is paid
\* out once, keeps its end and its winners from the end on, and never reopens.
THEOREM ProgramSettles == Spec => ImplementsSettlement
<1>1. Init => Promise!Init
  BY SettlesInit
<1>2. SettleInv /\ SettleInv' /\ [Next]_vars => [Promise!Next]_(Promise!chain)
  BY SettlesStep
<1> QED  BY <1>1, <1>2, SettleAlways, PTL DEF Spec, ImplementsSettlement, Promise!Spec

\* A closed auction has an empty vault, and a vault backs every losing stake, and
\* every stake while the creator is unpaid.
LEMMA StrandedFollows == SettleInv => NobodyStranded
<1> SUFFICES ASSUME SettleInv, NEW a \in Auctions, NEW k \in Keys,
                    auction[a].status = "closed", bid[a][k].leaf = "live"
             PROVE  auction[a].creator_paid /\ k \notin LosingKeys(a)
  BY DEF NobodyStranded
<1> DEFINE owed == IF auction[a].creator_paid THEN LosingKeys(a) ELSE Keys
<1>1. /\ TypeOK /\ BackedAt(a) /\ vault[a] = 0 /\ stray[a] \in Nat
      /\ auction[a].creator_paid \in BOOLEAN
  <2>1. TypeOK /\ BackedAt(a) /\ SupplyInv
    BY DEF SettleInv, MoneyInv, StakeInv, StakeAt
  <2> QED  BY <2>1 DEF SupplyInv, Live, TypeOK, AuctionType
<1>2. owed \in SUBSET Keys /\ IsFiniteSet(owed)
  BY KeysFinite, FS_Subset DEF LosingKeys
<1>3. Total(Staked(a), owed) = 0
  <2>1. Total(Staked(a), owed) \in Nat /\ vault[a] = stray[a] + Total(Staked(a), owed)
    BY <1>1, <1>2, StakedFacts DEF BackedAt
  <2> QED  BY <1>1, <2>1
<1>4. Staked(a)[k] \in Nat /\ Staked(a)[k] > 0
  <2>1. bid[a][k].amount > 0
    BY DEF SettleInv, LeafInv, LeafAt
  <2> QED  BY <1>1, <2>1, StakedFacts
<1>5. k \notin owed
  <2> SUFFICES ASSUME k \in owed PROVE FALSE
    OBVIOUS
  <2>1. \A j \in owed : Staked(a)[j] \in Nat
    BY <1>1, <1>2, StakedFacts
  <2> HIDE DEF owed
  <2>2. Staked(a)[k] <= Total(Staked(a), owed)
    BY <1>2, <2>1, TotalBound
  <2> QED  BY <1>3, <1>4, <2>2
<1> QED  BY <1>1, <1>5

\* Neither closing nor cancelling takes a stake out of its owner's reach.
THEOREM NobodyIsStranded == Spec => []NobodyStranded
BY SettleAlways, StrandedFollows, PTL

----------------------------------------------------------------------------
(* Nothing stands in the way of a payout. *)

\* The guards of claim_winnings, its checked product apart, and those of the
\* refund of a losing bid.  The owner creates the deposit vault once.
ClaimOpen(a) ==
    /\ config.exists /\ deposit_vault.exists /\ Live(a) /\ Ended(a) /\ Migrated(a)
    /\ ~ auction[a].creator_paid
    /\ PotCovered(a, WinnersPot(a))
    /\ DepositOwed(a) <= deposit_vault.amount

RefundOpen(a, k) ==
    /\ config.exists /\ Live(a) /\ Ended(a) /\ Migrated(a) /\ ~ IsWinner(a, k[1])
    /\ BidProved(a, k, bid[a][k].amount) /\ BidBound(a, a)
    /\ bid[a][k].amount <= vault[a]

\* checked_mul: the product of the pot and the fee rate is a u64.
FeeFits(a) == WinnersPot(a) * auction[a].fee_bps <= U64Max

GuardsOpen ==
    \A a \in Auctions :
        Live(a) /\ Ended(a) =>
            /\ deposit_vault.exists /\ ~ auction[a].creator_paid => ClaimOpen(a)
            /\ \A k \in LosingKeys(a) : bid[a][k].leaf = "live" => RefundOpen(a, k)

FeesFit == \A a \in Auctions : Live(a) /\ ~ auction[a].creator_paid => FeeFits(a)

\* The two handlers have no guard beside these: what is left of them is writes.
LEMMA ClaimNeedsNoMore ==
    ASSUME NEW a \in Auctions, ClaimOpen(a), FeeFits(a),
           vault' = Debit(vault, a, WinnersPot(a)),
           wallet' = Credit(Credit(wallet, auction[a].creator,
                                   Payout(a, WinnersPot(a)) + DepositOwed(a)),
                            config.fee_receiver, Fee(a, WinnersPot(a))),
           deposit_vault' = [deposit_vault EXCEPT !.amount = @ - DepositOwed(a)],
           auction' = [auction EXCEPT ![a].creator_paid = TRUE],
           UNCHANGED <<now, config, ext, proposal_total, bid, history>>
    PROVE  ClaimWinnings(a)
BY Zenon DEF ClaimOpen, FeeFits, ClaimWinnings

LEMMA RefundNeedsNoMore ==
    ASSUME NEW a \in Auctions, NEW p \in Proposals, NEW u \in Bidders, RefundOpen(a, <<p, u>>),
           vault' = Debit(vault, a, bid[a][<<p, u>>].amount),
           wallet' = Credit(wallet, u, bid[a][<<p, u>>].amount),
           bid' = [bid EXCEPT ![a][<<p, u>>] = ClosedBid(@)],
           UNCHANGED <<now, config, deposit_vault, auction, ext, proposal_total, history>>
    PROVE  Withdraw(a, p, u, a, bid[a][<<p, u>>].amount)
<1>1. <<p, u>>[1] = p
  OBVIOUS
<1> QED  BY <1>1, Zenon DEF RefundOpen, Withdraw

LEMMA GuardsFollow == SettleInv => GuardsOpen
<1> SUFFICES ASSUME SettleInv, NEW a \in Auctions, Live(a), Ended(a)
             PROVE  /\ deposit_vault.exists /\ ~ auction[a].creator_paid => ClaimOpen(a)
                    /\ \A k \in LosingKeys(a) : bid[a][k].leaf = "live" => RefundOpen(a, k)
  BY DEF GuardsOpen
<1>1. /\ config.exists /\ Migrated(a)
      /\ ~ auction[a].creator_paid => PotCovered(a, WinnersPot(a))
      /\ DepositOwed(a) <= deposit_vault.amount
      /\ \A k \in LosingKeys(a) : bid[a][k].amount <= vault[a]
  <2>1. config.exists /\ Migrated(a)
    BY DEF SettleInv, MoneyInv, Life, LeafInv, LeafAt, Live, Migrated
  <2>2. PayoutsCovered
    BY MoneyCovers DEF SettleInv
  <2> QED  BY <2>1, <2>2 DEF PayoutsCovered
<1>2. ASSUME NEW k \in LosingKeys(a), bid[a][k].leaf = "live" PROVE RefundOpen(a, k)
  <2>1. k \in Keys /\ ~ IsWinner(a, k[1]) /\ bid[a][k] \in BidType
    BY DEF LosingKeys, IsWinner, SettleInv, MoneyInv, TypeOK
  <2>2. bid[a][k] = [leaf |-> "live", amount |-> bid[a][k].amount]
    BY <1>2, <2>1 DEF BidType
  <2> QED  BY <1>1, <2>1, <2>2 DEF RefundOpen, BidProved, BidBound
<1> QED  BY <1>1, <1>2 DEF ClaimOpen

\* After the end the claim, and the refund of every losing bid, meet all their
\* guards at once and for as long as they are due: neither waits for the other,
\* for another auction, or for the owner.
THEOREM GuardsStayOpen == Spec => []GuardsOpen
BY SettleAlways, GuardsFollow, PTL

LEMMA FeesFollow ==
    ASSUME Total(InitialWallet, Owners) * MaxFeeBps <= U64Max
    PROVE  SettleInv => FeesFit
<1> SUFFICES ASSUME SettleInv, NEW a \in Auctions, Live(a), ~ auction[a].creator_paid
             PROVE  FeeFits(a)
  BY DEF FeesFit
<1> DEFINE pot == WinnersPot(a)
           supply == Total(InitialWallet, Owners)
           fee == auction[a].fee_bps
<1>1. TypeOK /\ MoneyInv /\ DepositInv /\ SupplyConserved
  BY DEF SettleInv, MoneyInv, SupplyInv
<1>2. pot \in Nat /\ pot <= vault[a] /\ vault[a] \in Nat
  <2>1. auction[a].winners \in Seq(Slot) /\ vault[a] \in Nat
    BY <1>1 DEF TypeOK, AuctionType
  <2>2. PotCovered(a, WinnersPot(a))
    BY <1>1, MoneyCovers DEF PayoutsCovered
  <2> QED  BY <2>1, <2>2, PotType DEF PotCovered
<1>3. vault[a] <= supply /\ supply \in Nat
  <2>1. vault[a] <= Total(vault, Auctions)
    BY <1>1, AuctionsFinite, TotalBound DEF TypeOK
  <2>2. /\ Total(wallet, Owners) \in Nat /\ Total(vault, Auctions) \in Nat
        /\ deposit_vault.amount \in Nat
    BY <1>1, SumsType DEF TypeOK
  <2> QED  BY <1>1, <1>2, <2>1, <2>2 DEF SupplyConserved
<1>4. fee \in Nat /\ fee <= MaxFeeBps /\ MaxFeeBps \in Nat /\ U64Max \in Nat
  <2>1. fee \in 0 .. MaxFeeBps
    BY <1>1 DEF TypeOK, AuctionType
  <2> QED  BY <2>1, LimitsAssumption
<1>5. supply * MaxFeeBps <= U64Max
  OBVIOUS
<1>6. FeeFits(a) <=> pot * fee <= U64Max
  BY DEF FeeFits
<1> HIDE DEF pot, supply, fee
<1>7. pot <= supply
  BY <1>2, <1>3
<1>8. pot * fee <= supply * fee /\ supply * fee <= supply * MaxFeeBps
      /\ pot * fee \in Nat /\ supply * fee \in Nat /\ supply * MaxFeeBps \in Nat
  BY <1>2, <1>3, <1>4, <1>7
<1> QED  BY <1>4, <1>5, <1>6, <1>8

\* With a mint whose whole supply, at the highest fee, is still a u64 (18.4
\* billion USDC at 10%), the checked product of claim_winnings never overflows.
\* The program itself puts no bound on a pot: this is all it rests on.
THEOREM FeesNeverOverflow ==
    ASSUME Total(InitialWallet, Owners) * MaxFeeBps <= U64Max
    PROVE  Spec => []FeesFit
BY SettleAlways, FeesFollow, PTL
=============================================================================
