--------------------------- MODULE BidonZkProofs ---------------------------
(***************************************************************************)
(* The on-chain program for any number of owners, auctions, proposals and  *)
(* seats, any inputs and any clock: types; the life of an auction id, the  *)
(* deposits and the anti-snipe window, each from type correctness and      *)
(* from what is left of an account before it is created (Life); and who    *)
(* wins: the board on the chain is the top of the proposals at all times,  *)
(* and from the end on claim and withdraw read the same, frozen, board.    *)
(***************************************************************************)
EXTENDS BidonZk, OperatorProofs

----------------------------------------------------------------------------
(* Amounts. *)

\* The platform's fee is part of the pot.
LEMMA FeeWithinPot ==
    ASSUME NEW pot \in Nat, NEW a, auction[a].fee_bps \in 0 .. MaxFeeBps
    PROVE  Fee(a, pot) \in 0 .. pot /\ Payout(a, pot) \in 0 .. pot
<1> DEFINE rate == auction[a].fee_bps
           B == BpsDenominator
           q == (pot * rate) \div B
<1>1. rate \in Nat /\ B \in Nat \ {0} /\ rate <= B
  BY LimitsAssumption
<1> HIDE DEF rate, B
<1>2. pot * rate \in Nat /\ pot * rate <= pot * B
  BY <1>1
<1> DEFINE x == pot * rate
<1>3. q \in Nat /\ B * q <= x
  <2>1. x \in Nat  BY <1>2
  <2> HIDE DEF x
  <2>2. x \div B \in Nat /\ B * (x \div B) <= x
    BY <1>1, <2>1
  <2> QED  BY <2>2 DEF x
<1>4. q <= pot
  <2> HIDE DEF q
  <2>1. B * q <= B * pot
    BY <1>1, <1>2, <1>3
  <2> QED  BY <1>1, <1>3, <2>1
<1> QED  BY <1>3, <1>4 DEF Fee, Payout, q, rate, B

\* Money moves only between accounts that exist and never below zero.
LEMMA CreditType ==
    ASSUME NEW S, NEW w \in [S -> Nat], NEW who, NEW amount \in Nat
    PROVE  Credit(w, who, amount) \in [S -> Nat]
<1> DEFINE c == Credit(w, who, amount)
<1>1. c = [x \in S |-> IF x = who THEN w[x] + amount ELSE w[x]]
  BY DEF Credit
<1> QED  BY <1>1

LEMMA DebitType ==
    ASSUME NEW S, NEW w \in [S -> Nat], NEW who \in S, NEW amount \in Nat, amount <= w[who]
    PROVE  Debit(w, who, amount) \in [S -> Nat]
<1>1. w[who] - amount \in Nat
  OBVIOUS
<1> QED  BY <1>1 DEF Debit

\* The pot is an amount.
LEMMA PotType ==
    ASSUME NEW a, auction[a].winners \in Seq(Slot)
    PROVE  WinnersPot(a) \in Nat
<1> DEFINE w == auction[a].winners
           f == [i \in DOMAIN w |-> w[i].total]
<1>1. DOMAIN w = 1 .. Len(w) /\ Len(w) \in Nat /\ \A i \in 1 .. Len(w) : w[i] \in Slot
  BY LenProperties, ElementOfSeq
<1> HIDE DEF w
<1>2. \A i \in DOMAIN w : f[i] \in Nat
  BY <1>1 DEF Slot
<1>3. IsFiniteSet(DOMAIN w)
  BY <1>1, FS_Interval
<1> HIDE DEF f
<1>4. Total(f, DOMAIN w) \in Nat
  BY <1>2, <1>3, TotalType
<1> QED  BY <1>4 DEF WinnersPot, f, w

----------------------------------------------------------------------------
(* Type correctness, one lemma per kind of action. *)

LEMMA TypeInit == Init => TypeOK
<1> SUFFICES ASSUME Init PROVE TypeOK
  OBVIOUS
<1>1. NoAuction \in AuctionType
  <2>1. <<>> \in Seq(Slot) /\ 0 \in 0 .. MaxFeeBps /\ 0 \in 0 .. MaxProposals
        /\ 0 \in 0 .. MaxWinners
    BY LimitsAssumption, BoundsAssumption, MaxWinnersAssumption, EmptySeq
  <2> QED  BY <2>1 DEF NoAuction, AuctionType
<1>2. config \in ConfigType
  BY LimitsAssumption, BoundsAssumption DEF Init, ConfigType
<1>3. auction \in [Auctions -> AuctionType]
      /\ \A a \in Auctions : Len(auction[a].winners) <= MaxWinners
  BY <1>1, MaxWinnersAssumption, EmptySeq DEF Init, NoAuction
<1>4. /\ now \in 0 .. MaxTime
      /\ deposit_vault \in [exists : BOOLEAN, amount : Nat]
      /\ ext \in [Auctions -> [exists : BOOLEAN, max_end_time : Nat]]
      /\ vault \in [Auctions -> Nat]
      /\ wallet \in [Owners -> Nat]
      /\ stray \in [Auctions -> Nat] /\ deposit_stray \in Nat
      /\ last_change \in [Auctions -> Int]
  BY OwnersAssumption, LimitsAssumption, BoundsAssumption DEF Init
<1>5. proposal_total \in [Auctions -> [Proposals -> Nat]]
  BY DEF Init
<1>6. bid \in [Auctions -> [Keys -> BidType]]
  BY DEF Init, BidType
<1> QED  BY <1>2, <1>3, <1>4, <1>5, <1>6 DEF TypeOK

\* initialize, set_config and init_deposit_vault.
LEMMA TypeConfigure == TypeOK /\ Configure => TypeOK'
<1> SUFFICES ASSUME TypeOK, Configure PROVE TypeOK'
  OBVIOUS
<1> USE DEF TypeOK, history
<1>1. ASSUME NEW owner \in Receivers, NEW receiver \in Receivers, NEW fee \in FeeRates,
             Initialize(owner, fee, receiver)
      PROVE  TypeOK'
  <2>1. fee \in 0 .. MaxFeeBps /\ owner \in Owners /\ receiver \in Owners /\ 0 \in 0 .. MaxAuctions
    BY <1>1, InputsAssumption, LimitsAssumption, BoundsAssumption DEF Initialize, Owners
  <2>2. config' \in ConfigType
    BY <1>1, <2>1 DEF Initialize, ConfigType
  <2> QED  BY <1>1, <2>2 DEF Initialize
<1>2. ASSUME NEW signer \in Owners, NEW receiver \in Receivers, NEW fee \in FeeRates,
             SetConfig(signer, fee, receiver)
      PROVE  TypeOK'
  <2>1. fee \in 0 .. MaxFeeBps /\ receiver \in Owners
    BY <1>2, InputsAssumption, LimitsAssumption DEF SetConfig, Owners
  <2>2. config' \in ConfigType
    BY <1>2, <2>1 DEF SetConfig, ConfigType
  <2> QED  BY <1>2, <2>2 DEF SetConfig
<1>3. CASE InitDepositVault
  BY <1>3 DEF InitDepositVault
<1> QED  BY <1>1, <1>2, <1>3 DEF Configure

\* The account that create_auction writes is well-typed.
LEMMA NewAuctionType ==
    ASSUME TypeOK, NEW creator \in Creators, NEW min_bid \in MinBids, NEW duration \in Durations,
           NEW n \in WinnerCounts, NEW extension \in Extensions, NEW schema \in {1, 2, 3},
           TermsAccepted(duration, n, extension)
    PROVE  /\ NewAuction(creator, min_bid, duration, n, schema) \in AuctionType
           /\ Len(NewAuction(creator, min_bid, duration, n, schema).winners) = 0
           /\ now + duration + extension \in Nat
<1>1. /\ duration \in Nat /\ extension \in Nat /\ n \in 0 .. MaxWinners
      /\ min_bid \in Nat /\ creator \in Owners /\ now \in Nat
  <2>1. /\ duration \in Int /\ extension \in Int /\ n \in Nat /\ min_bid \in Nat
        /\ MinAntisnipeCap \in Nat /\ MaxWinners \in Nat
    BY InputsAssumption, LimitsAssumption, MaxWinnersAssumption
  <2>2. duration > 0 /\ extension >= MinAntisnipeCap /\ n <= MaxWinners
    BY DEF TermsAccepted
  <2>3. now \in Nat
    BY BoundsAssumption DEF TypeOK
  <2> QED  BY <2>1, <2>2, <2>3 DEF Owners
<1>2. config.fee_bps \in 0 .. MaxFeeBps
  BY DEF TypeOK, ConfigType
<1>3. 0 \in 0 .. MaxProposals /\ <<>> \in Seq(Slot) /\ Len(<<>>) = 0
  BY BoundsAssumption, EmptySeq
<1>4. NewAuction(creator, min_bid, duration, n, schema) \in AuctionType
  BY <1>1, <1>2, <1>3 DEF NewAuction, AuctionType
<1> QED  BY <1>1, <1>3, <1>4 DEF NewAuction

\* create_auction, today's and that of the older program.
LEMMA TypeCreate == ASSUME TypeOK, NEW a \in Auctions, Create(a) PROVE TypeOK'
<1> PICK creator \in Creators, min_bid \in MinBids, duration \in Durations,
         n \in WinnerCounts, extension \in Extensions :
        \/ CreateAuction(creator, a, min_bid, duration, n, extension)
        \/ \E schema \in LegacySchemas :
              LegacyCreate(creator, a, min_bid, duration, n, extension, schema)
  BY DEF Create
<1> USE DEF TypeOK, history
<1>1. ASSUME IdIsNext(a)
      PROVE  [config EXCEPT !.auction_count = @ + 1] \in ConfigType
  <2>1. config.auction_count + 1 \in 0 .. MaxAuctions
    <3>1. a = config.auction_count /\ a \in 0 .. MaxAuctions - 1 /\ MaxAuctions \in Nat
      BY <1>1, BoundsAssumption DEF IdIsNext, Auctions
    <3> QED  BY <3>1
  <2> QED  BY <2>1 DEF ConfigType
<1>2. CASE CreateAuction(creator, a, min_bid, duration, n, extension)
  <2>1. /\ NewAuction(creator, min_bid, duration, n, 3) \in AuctionType
        /\ Len(NewAuction(creator, min_bid, duration, n, 3).winners) = 0
        /\ now + duration + extension \in Nat
    BY <1>2, NewAuctionType DEF CreateAuction
  <2>2. /\ auction' = [auction EXCEPT ![a] = NewAuction(creator, min_bid, duration, n, 3)]
        /\ ext' = [ext EXCEPT ![a] =
              [exists |-> TRUE, max_end_time |-> now + duration + extension]]
        /\ config' = [config EXCEPT !.auction_count = @ + 1]
    BY <1>2 DEF CreateAuction, SCHEMA_VERSION_DEPOSIT
  <2>3. /\ auction' \in [Auctions -> AuctionType]
        /\ \A b \in Auctions : Len(auction'[b].winners) <= MaxWinners
    BY <2>1, <2>2, MaxWinnersAssumption
  <2>4. ext' \in [Auctions -> [exists : BOOLEAN, max_end_time : Nat]]
    BY <2>1, <2>2
  <2>5. config' \in ConfigType
    BY <1>1, <1>2, <2>2 DEF CreateAuction
  <2>6. wallet' \in [Owners -> Nat]
    BY <1>2, LimitsAssumption, DebitType DEF CreateAuction, Owners
  <2>7. deposit_vault' \in [exists : BOOLEAN, amount : Nat] /\ vault' \in [Auctions -> Nat]
    <3>1. deposit_vault.amount + CreatorDeposit \in Nat
      <4>1. CreatorDeposit \in Nat
        BY LimitsAssumption
      <4> QED  BY <4>1
    <3> QED  BY <1>2, <3>1 DEF CreateAuction
  <2> QED  BY <1>2, <2>3, <2>4, <2>5, <2>6, <2>7 DEF CreateAuction
<1>3. ASSUME NEW schema \in LegacySchemas,
             LegacyCreate(creator, a, min_bid, duration, n, extension, schema)
      PROVE  TypeOK'
  <2>1. /\ NewAuction(creator, min_bid, duration, n, schema) \in AuctionType
        /\ Len(NewAuction(creator, min_bid, duration, n, schema).winners) = 0
        /\ now + duration + extension \in Nat
    <3>1. schema \in {1, 2, 3} /\ TermsAccepted(duration, n, extension)
      BY <1>3, InputsAssumption DEF LegacyCreate
    <3> QED  BY <3>1, NewAuctionType
  <2>2. /\ auction' \in [Auctions -> AuctionType]
        /\ \A b \in Auctions : Len(auction'[b].winners) <= MaxWinners
    BY <1>3, <2>1, MaxWinnersAssumption DEF LegacyCreate
  <2>3. ext' \in [Auctions -> [exists : BOOLEAN, max_end_time : Nat]]
    BY <1>3, <2>1 DEF LegacyCreate
  <2>4. config' \in ConfigType
    BY <1>1, <1>3 DEF LegacyCreate
  <2>5. vault' \in [Auctions -> Nat]
    BY <1>3 DEF LegacyCreate
  <2> QED  BY <1>3, <2>2, <2>3, <2>4, <2>5 DEF LegacyCreate
<1> QED  BY <1>2, <1>3

\* The end time after a bid is a time.
LEMMA ExtendedEndType ==
    ASSUME TypeOK, NEW a \in Auctions, NEW with_ext, NEW changed
    PROVE  ExtendedEnd(a, with_ext, changed) \in Nat
<1>1. now + AntisnipeWindow \in Nat
  <2>1. now \in 0 .. MaxTime /\ MaxTime \in Nat
    BY BoundsAssumption DEF TypeOK
  <2>2. AntisnipeWindow \in Nat
    BY LimitsAssumption
  <2> QED  BY <2>1, <2>2
<1>2. auction[a].end_time \in Nat /\ ext[a].max_end_time \in Nat
  BY DEF TypeOK, AuctionType
<1> QED  BY <1>1, <1>2 DEF ExtendedEnd

\* What the three bid handlers share.
LEMMA TypeBook ==
    ASSUME TypeOK, NEW a \in Auctions, NEW bidder \in Bidders, NEW pid \in Nat,
           NEW new_total \in Nat, NEW amount \in Nat, NEW with_ext,
           NEW new_proposals \in {0, 1},
           auction[a].proposal_count + new_proposals <= MaxProposals,
           amount <= wallet[bidder],
           BookBid(a, bidder, pid, new_total, amount, with_ext, new_proposals),
           proposal_total' \in [Auctions -> [Proposals -> Nat]],
           bid' \in [Auctions -> [Keys -> BidType]]
    PROVE  TypeOK'
<1> DEFINE w == auction[a].winners
           n == auction[a].winner_count
           changed == SetChanged(w, n, pid, new_total)
           after == [auction[a] EXCEPT
                       !.total_staked = @ + amount,
                       !.winners = UpdateTop(w, n, pid, new_total),
                       !.end_time = ExtendedEnd(a, with_ext, changed),
                       !.proposal_count = @ + new_proposals]
<1>1. auction[a] \in AuctionType /\ Len(w) <= MaxWinners
  BY DEF TypeOK
<1>2. w \in Seq(Slot) /\ n \in Nat
  BY <1>1, MaxWinnersAssumption DEF AuctionType
<1>3. /\ UpdateTop(w, n, pid, new_total) \in Seq(Slot)
      /\ Len(UpdateTop(w, n, pid, new_total)) <= MaxWinners
  BY <1>1, <1>2, UpdateTopType
<1>4. ExtendedEnd(a, with_ext, changed) \in Nat
  BY ExtendedEndType
<1>5. auction' = [auction EXCEPT ![a] = after]
  BY DEF BookBid
<1>6. auction[a].proposal_count + new_proposals \in 0 .. MaxProposals
  <2>1. auction[a].proposal_count \in Nat /\ new_proposals \in Nat /\ MaxProposals \in Nat
    BY <1>1, BoundsAssumption DEF AuctionType
  <2> QED  BY <2>1
<1> DEFINE staked == auction[a].total_staked + amount
           count  == auction[a].proposal_count + new_proposals
           top    == UpdateTop(w, n, pid, new_total)
           end    == ExtendedEnd(a, with_ext, changed)
<1>11. staked \in Nat /\ count \in 0 .. MaxProposals /\ top \in Seq(Slot) /\ end \in Nat
  <2>1. auction[a].total_staked \in Nat
    BY <1>1 DEF AuctionType
  <2>2. staked \in Nat
    BY <2>1
  <2> HIDE DEF w, n, changed, after, staked
  <2> QED  BY <1>3, <1>4, <1>6, <2>2
<1>12. after = [auction[a] EXCEPT !.total_staked = staked, !.winners = top,
                                  !.end_time = end, !.proposal_count = count]
  OBVIOUS
<1> HIDE DEF w, n, changed, after, staked, count, top, end
<1>7. after \in AuctionType /\ after.winners = UpdateTop(w, n, pid, new_total)
  <2>1. after \in AuctionType /\ after.winners = top
    BY <1>1, <1>11, <1>12 DEF AuctionType
  <2> QED  BY <2>1 DEF top
<1>8. /\ auction' \in [Auctions -> AuctionType]
      /\ \A b \in Auctions : Len(auction'[b].winners) <= MaxWinners
  BY <1>3, <1>5, <1>7 DEF TypeOK
<1>9. wallet' \in [Owners -> Nat] /\ vault' \in [Auctions -> Nat]
  BY DebitType, CreditType DEF BookBid, TypeOK, Owners
<1>10. last_change' \in [Auctions -> Int]
  <2>1. last_change' = last_change \/ last_change' = [last_change EXCEPT ![a] = now]
    BY DEF BookBid
  <2>2. now \in Int
    BY BoundsAssumption DEF TypeOK
  <2> QED  BY <2>1, <2>2 DEF TypeOK
<1> QED  BY <1>8, <1>9, <1>10 DEF TypeOK, BookBid

\* place_bid, raise_bid and top_up_bid.
LEMMA TypePlace == ASSUME TypeOK, NEW a \in Auctions, PlaceABid(a) PROVE TypeOK'
<1> PICK bidder \in Bidders, amount \in Amounts, with_ext \in Companions :
         PlaceBid(a, bidder, amount, with_ext)
  BY DEF PlaceABid
<1> DEFINE pid == auction[a].proposal_count
<1>1. amount \in Nat /\ amount <= wallet[bidder]
  BY InputsAssumption DEF PlaceBid, BidAccepted, TypeOK, Owners
<1>2. pid \in Nat /\ pid < MaxProposals /\ pid + 1 <= MaxProposals
  <2>1. pid \in 0 .. MaxProposals /\ MaxProposals \in Nat
    BY BoundsAssumption DEF TypeOK, AuctionType
  <2>2. pid < MaxProposals
    BY DEF PlaceBid
  <2> HIDE DEF pid
  <2> QED  BY <2>1, <2>2
<1>3. BookBid(a, bidder, pid, amount, amount, with_ext, 1)
  BY DEF PlaceBid
<1>4. proposal_total' \in [Auctions -> [Proposals -> Nat]]
  BY <1>1 DEF PlaceBid, TypeOK
<1>5. bid' \in [Auctions -> [Keys -> BidType]]
  <2>1. [leaf |-> "live", amount |-> amount] \in BidType
    BY <1>1 DEF BidType
  <2> QED  BY <2>1 DEF PlaceBid, TypeOK
<1> QED  BY <1>1, <1>2, <1>3, <1>4, <1>5, TypeBook

LEMMA TypeRaise == ASSUME TypeOK, NEW a \in Auctions, RaiseABid(a) PROVE TypeOK'
<1> PICK pid \in Proposals, bidder \in Bidders, amount \in Amounts,
         with_ext \in Companions, meta \in Leaves :
         \E seen_total \in TotalsRead(meta) :
            RaiseBid(a, pid, bidder, amount, with_ext, meta, seen_total)
  BY DEF RaiseABid
<1> PICK seen_total \in TotalsRead(meta) :
         RaiseBid(a, pid, bidder, amount, with_ext, meta, seen_total)
  OBVIOUS
<1> DEFINE new_total == seen_total + amount
<1>1. amount \in Nat /\ amount <= wallet[bidder] /\ pid \in Nat
  BY InputsAssumption DEF RaiseBid, BidAccepted, TypeOK, Owners, Proposals
<1>2. new_total \in Nat
  BY <1>1 DEF TotalsRead
<1>3. /\ BookBid(a, bidder, pid, new_total, amount, with_ext, 0)
      /\ auction[a].proposal_count + 0 <= MaxProposals
  <2>1. auction[a].proposal_count \in 0 .. MaxProposals /\ MaxProposals \in Nat
    BY BoundsAssumption DEF TypeOK, AuctionType
  <2> QED  BY <2>1 DEF RaiseBid
<1> HIDE DEF new_total
<1>4. proposal_total' \in [Auctions -> [Proposals -> Nat]]
  BY <1>2 DEF RaiseBid, TypeOK, new_total
<1>5. bid' \in [Auctions -> [Keys -> BidType]]
  <2>1. [leaf |-> "live", amount |-> amount] \in BidType
    BY <1>1 DEF BidType
  <2> QED  BY <2>1 DEF RaiseBid, TypeOK
<1> QED  BY <1>1, <1>2, <1>3, <1>4, <1>5, TypeBook

LEMMA TypeTopUp == ASSUME TypeOK, NEW a \in Auctions, TopUpABid(a) PROVE TypeOK'
<1> PICK pid \in Proposals, bidder \in Bidders, amount \in Amounts,
         with_ext \in Companions, meta \in Leaves, b \in Auctions :
         \E seen_total \in TotalsRead(meta), seen_bid \in BidsRead(b, <<pid, bidder>>) :
            TopUpBid(a, pid, bidder, amount, with_ext, meta, seen_total, b, seen_bid)
  BY DEF TopUpABid
<1> PICK seen_total \in TotalsRead(meta) :
         \E seen_bid \in BidsRead(b, <<pid, bidder>>) :
            TopUpBid(a, pid, bidder, amount, with_ext, meta, seen_total, b, seen_bid)
  OBVIOUS
<1> PICK seen_bid \in BidsRead(b, <<pid, bidder>>) :
         TopUpBid(a, pid, bidder, amount, with_ext, meta, seen_total, b, seen_bid)
  OBVIOUS
<1> DEFINE new_total == seen_total + amount
<1>1. amount \in Nat /\ amount <= wallet[bidder] /\ pid \in Nat
  BY InputsAssumption DEF TopUpBid, BidAccepted, TypeOK, Owners, Proposals
<1>2. new_total \in Nat /\ seen_bid + amount \in Nat
  BY <1>1 DEF TotalsRead, BidsRead
<1>3. /\ BookBid(a, bidder, pid, new_total, amount, with_ext, 0)
      /\ auction[a].proposal_count + 0 <= MaxProposals
  <2>1. auction[a].proposal_count \in 0 .. MaxProposals
    BY DEF TypeOK, AuctionType
  <2>2. BookBid(a, bidder, pid, new_total, amount, with_ext, 0)
    BY DEF TopUpBid
  <2> QED  BY <2>1, <2>2, BoundsAssumption
<1> HIDE DEF new_total
<1>4. proposal_total' \in [Auctions -> [Proposals -> Nat]]
  BY <1>2 DEF TopUpBid, TypeOK, new_total
<1>5. bid' \in [Auctions -> [Keys -> BidType]]
  <2> DEFINE key == <<pid, bidder>>
             reached == seen_bid + amount
  <2>1. key \in Keys /\ reached \in Nat
    BY <1>2 DEF Keys
  <2>2. bid' = [bid EXCEPT ![b][key].amount = reached]
    BY DEF TopUpBid
  <2> HIDE DEF key, reached
  <2> DEFINE leaf == [bid[b][key] EXCEPT !.amount = reached]
             leaves == [bid[b] EXCEPT ![key] = leaf]
  <2>3. bid[b] \in [Keys -> BidType]
    BY DEF TypeOK
  <2>4. leaf \in BidType
    BY <2>1, <2>3 DEF BidType
  <2>5. bid' = [bid EXCEPT ![b] = leaves]
    BY <2>2
  <2> HIDE DEF leaf
  <2>6. leaves \in [Keys -> BidType]
    BY <2>3, <2>4
  <2> HIDE DEF leaves
  <2> QED  BY <2>5, <2>6 DEF TypeOK
<1> QED  BY <1>1, <1>2, <1>3, <1>4, <1>5, TypeBook

\* An action that writes one field of an Auction account, and not its board.
LEMMA AuctionWriteType ==
    ASSUME TypeOK, NEW a \in Auctions, NEW r \in AuctionType,
           r.winners = auction[a].winners, auction' = [auction EXCEPT ![a] = r]
    PROVE  /\ auction' \in [Auctions -> AuctionType]
           /\ \A b \in Auctions : Len(auction'[b].winners) <= MaxWinners
<1>1. auction \in [Auctions -> AuctionType]
      /\ \A b \in Auctions : Len(auction[b].winners) <= MaxWinners
  BY DEF TypeOK
<1> QED  BY <1>1

\* claim_winnings.
LEMMA TypeClaim == ASSUME TypeOK, NEW a \in Auctions, ClaimWinnings(a) PROVE TypeOK'
<1> DEFINE pot    == WinnersPot(a)
           refund == DepositOwed(a)
<1>1. auction[a] \in AuctionType /\ auction[a].fee_bps \in 0 .. MaxFeeBps
      /\ auction[a].winners \in Seq(Slot)
  BY DEF TypeOK, AuctionType
<1>2. pot \in Nat /\ refund \in Nat
  BY <1>1, PotType, LimitsAssumption DEF DepositOwed
<1>3. /\ pot <= vault[a] /\ refund <= deposit_vault.amount
      /\ vault' = Debit(vault, a, pot)
      /\ wallet' = Credit(Credit(wallet, auction[a].creator, Payout(a, pot) + refund),
                         config.fee_receiver, Fee(a, pot))
      /\ deposit_vault' = [deposit_vault EXCEPT !.amount = @ - refund]
      /\ auction' = [auction EXCEPT ![a].creator_paid = TRUE]
  BY DEF ClaimWinnings, PotCovered
<1> HIDE DEF pot, refund
<1>4. Payout(a, pot) + refund \in Nat /\ Fee(a, pot) \in Nat
  <2>1. Fee(a, pot) \in 0 .. pot /\ Payout(a, pot) \in 0 .. pot
    BY <1>1, <1>2, FeeWithinPot
  <2> QED  BY <1>2, <2>1
<1>5. wallet' \in [Owners -> Nat]
  <2>1. Credit(wallet, auction[a].creator, Payout(a, pot) + refund) \in [Owners -> Nat]
    BY <1>4, CreditType DEF TypeOK
  <2> QED  BY <1>3, <1>4, <2>1, CreditType
<1>6. vault' \in [Auctions -> Nat]
  BY <1>2, <1>3, DebitType DEF TypeOK
<1>7. deposit_vault' \in [exists : BOOLEAN, amount : Nat]
  <2>1. deposit_vault.amount - refund \in Nat
    BY <1>2, <1>3 DEF TypeOK
  <2> QED  BY <1>3, <2>1 DEF TypeOK
<1>8. /\ auction' \in [Auctions -> AuctionType]
      /\ \A b \in Auctions : Len(auction'[b].winners) <= MaxWinners
  <2> DEFINE r == [auction[a] EXCEPT !.creator_paid = TRUE]
  <2>1. r \in AuctionType /\ r.winners = auction[a].winners
    BY <1>1 DEF AuctionType
  <2>2. auction' = [auction EXCEPT ![a] = r]
    BY <1>3
  <2> HIDE DEF r
  <2> QED  BY <2>1, <2>2, AuctionWriteType
<1> QED  BY <1>5, <1>6, <1>7, <1>8 DEF TypeOK, ClaimWinnings, history

\* withdraw.
LEMMA TypeWithdraw == ASSUME TypeOK, NEW a \in Auctions, WithdrawABid(a) PROVE TypeOK'
<1> PICK pid \in Proposals, bidder \in Bidders, b \in Auctions :
         \E seen_bid \in BidsRead(b, <<pid, bidder>>) : Withdraw(a, pid, bidder, b, seen_bid)
  BY DEF WithdrawABid
<1> PICK seen_bid \in BidsRead(b, <<pid, bidder>>) : Withdraw(a, pid, bidder, b, seen_bid)
  OBVIOUS
<1>1. seen_bid \in Nat /\ seen_bid <= vault[a]
  BY DEF BidsRead, Withdraw
<1>2. vault' \in [Auctions -> Nat] /\ wallet' \in [Owners -> Nat]
  BY <1>1, DebitType, CreditType DEF Withdraw, TypeOK
<1>3. bid' \in [Auctions -> [Keys -> BidType]]
  BY DEF Withdraw, ClosedBid, TypeOK, BidType
<1> QED  BY <1>2, <1>3 DEF TypeOK, Withdraw, history

\* close_auction, cancel_auction and force_close_auction.
LEMMA TypeCloseAccounts ==
    ASSUME TypeOK, NEW a \in Auctions, CloseAccounts(a)
    PROVE  /\ auction' \in [Auctions -> AuctionType]
           /\ \A b \in Auctions : Len(auction'[b].winners) <= MaxWinners
<1> DEFINE r == [auction[a] EXCEPT !.status = "closed"]
<1>1. auction[a] \in AuctionType
  BY DEF TypeOK
<1>2. r \in AuctionType /\ r.winners = auction[a].winners
  BY <1>1 DEF AuctionType
<1>3. auction' = [auction EXCEPT ![a] = r]
  BY DEF CloseAccounts
<1> HIDE DEF r
<1> QED  BY <1>2, <1>3, AuctionWriteType

LEMMA TypeClose ==
    ASSUME TypeOK, NEW a \in Auctions,
           CloseAuction(a) \/ Cancel(a) \/ ForceCloseAuction(a)
    PROVE  TypeOK'
<1>1. CASE CloseAuction(a)
  BY <1>1, TypeCloseAccounts DEF CloseAuction, TypeOK, history
<1>2. CASE Cancel(a)
  <2> PICK signer \in Owners : CancelAuction(a, signer)
    BY <1>2 DEF Cancel
  <2>1. DepositOwed(a) \in Nat
    BY LimitsAssumption DEF DepositOwed
  <2>2. deposit_vault' \in [exists : BOOLEAN, amount : Nat]
    <3>1. deposit_vault.amount - DepositOwed(a) \in Nat
      BY <2>1 DEF CancelAuction, TypeOK
    <3> QED  BY <3>1 DEF CancelAuction, TypeOK
  <2>3. wallet' \in [Owners -> Nat]
    BY <2>1, CreditType DEF CancelAuction, TypeOK
  <2>4. CloseAccounts(a)
    BY DEF CancelAuction
  <2> QED  BY <2>2, <2>3, <2>4, TypeCloseAccounts DEF CancelAuction, TypeOK, history
<1>3. CASE ForceCloseAuction(a)
  BY <1>3, TypeCloseAccounts DEF ForceCloseAuction, TypeOK, history
<1> QED  BY <1>1, <1>2, <1>3

LEMMA TypeTick == TypeOK /\ Tick => TypeOK'
BY BoundsAssumption DEF Tick, TypeOK, accounts, history

\* Transfers from outside.
LEMMA TypeDonate == ASSUME TypeOK, Donate PROVE TypeOK'
<1> PICK donor \in Donors, amount \in StrayAmounts :
         \/ \E a \in Auctions : DonateToVault(donor, a, amount)
         \/ DonateToDepositVault(donor, amount)
  BY DEF Donate
<1>1. amount \in Nat /\ donor \in Owners
  BY InputsAssumption DEF Owners
<1>2. ASSUME NEW a \in Auctions, DonateToVault(donor, a, amount) PROVE TypeOK'
  <2>1. wallet' \in [Owners -> Nat] /\ vault' \in [Auctions -> Nat]
        /\ stray' \in [Auctions -> Nat]
    BY <1>1, <1>2, DebitType, CreditType DEF DonateToVault, TypeOK
  <2> QED  BY <1>2, <2>1 DEF DonateToVault, TypeOK
<1>3. CASE DonateToDepositVault(donor, amount)
  <2>1. wallet' \in [Owners -> Nat]
    BY <1>1, <1>3, DebitType DEF DonateToDepositVault, TypeOK
  <2>2. deposit_vault.amount + amount \in Nat /\ deposit_stray + amount \in Nat
    BY <1>1 DEF TypeOK
  <2> QED  BY <1>3, <2>1, <2>2 DEF DonateToDepositVault, TypeOK
<1> QED  BY <1>2, <1>3

LEMMA TypeStep == TypeOK /\ [Next]_vars => TypeOK'
<1> SUFFICES ASSUME TypeOK, [Next]_vars PROVE TypeOK'
  OBVIOUS
<1>1. CASE UNCHANGED vars
  BY <1>1 DEF vars, accounts, history, TypeOK
<1>2. ASSUME NEW a \in Auctions, OnAuction(a) PROVE TypeOK'
  BY <1>2, TypeCreate, TypePlace, TypeRaise, TypeTopUp, TypeClaim, TypeWithdraw, TypeClose
     DEF OnAuction
<1> QED  BY <1>1, <1>2, TypeTick, TypeConfigure, TypeDonate DEF Next

\* Every account holds values of its declared type: no amount ever goes below
\* zero, no fee above the pot, no board beyond the fixed array, no id beyond
\* the counter's range.
THEOREM TypeCorrect == Spec => []TypeOK
BY TypeInit, TypeStep, PTL DEF Spec

----------------------------------------------------------------------------
(* What the handlers come to. *)

\* What the three bid handlers come to once every check on the leaves has
\* passed: a bid of amount on a position of old base units.
OneBid(a, bidder, pid, amount, old, with_ext, new_proposals) ==
    LET key == <<pid, bidder>>
    IN  /\ config.exists /\ Live(a) /\ BiddingOpen(a) /\ CompanionAccepted(a, with_ext)
        /\ amount > 0 /\ amount <= wallet[bidder]
        /\ \/ new_proposals = 1 /\ pid = auction[a].proposal_count
              /\ proposal_total[a][pid] = 0
           \/ new_proposals = 0 /\ proposal_total[a][pid] > 0
        /\ \/ bid[a][key].leaf = "none" /\ old = 0
           \/ bid[a][key].leaf = "live" /\ old = bid[a][key].amount
        /\ proposal_total' =
              [proposal_total EXCEPT ![a][pid] = proposal_total[a][pid] + amount]
        /\ bid' = [bid EXCEPT ![a][key] = [leaf |-> "live", amount |-> old + amount]]
        /\ BookBid(a, bidder, pid, proposal_total[a][pid] + amount, amount, with_ext,
                   new_proposals)

BidStep(a) ==
    \E bidder \in Bidders, pid \in Proposals, amount \in Nat, old \in Nat,
       with_ext \in BOOLEAN, new_proposals \in {0, 1} :
        OneBid(a, bidder, pid, amount, old, with_ext, new_proposals)

\* Whatever contents and addresses the caller read and sent, a bid that goes
\* through is one on the current contents of the leaves of its own auction.
LEMMA BidsAreCurrent ==
    ASSUME TypeOK, NEW a \in Auctions, PlaceABid(a) \/ RaiseABid(a) \/ TopUpABid(a)
    PROVE  BidStep(a)
<1>1. CASE PlaceABid(a)
  <2> PICK bidder \in Bidders, amount \in Amounts, with_ext \in Companions :
           PlaceBid(a, bidder, amount, with_ext)
    BY <1>1 DEF PlaceABid
  <2> DEFINE pid == auction[a].proposal_count
  <2>1. pid \in Proposals /\ amount \in Nat /\ with_ext \in BOOLEAN
    <3>1. pid \in 0 .. MaxProposals /\ MaxProposals \in Nat
      BY BoundsAssumption DEF TypeOK, AuctionType
    <3>2. pid < MaxProposals
      BY DEF PlaceBid
    <3>3. amount \in Nat /\ with_ext \in BOOLEAN
      BY InputsAssumption DEF Companions
    <3> QED  BY <3>1, <3>2, <3>3 DEF Proposals
  <2>2. proposal_total[a][pid] = 0 /\ proposal_total[a][pid] + amount = amount /\ 0 + amount = amount
    BY <2>1 DEF PlaceBid
  <2>3. OneBid(a, bidder, pid, amount, 0, with_ext, 1)
    BY <2>1, <2>2 DEF PlaceBid, OneBid, BidAccepted
  <2> QED  BY <2>1, <2>3 DEF BidStep
<1>2. CASE RaiseABid(a)
  <2> PICK pid \in Proposals, bidder \in Bidders, amount \in Amounts,
           with_ext \in Companions, meta \in Leaves :
           \E seen_total \in TotalsRead(meta) :
              RaiseBid(a, pid, bidder, amount, with_ext, meta, seen_total)
    BY <1>2 DEF RaiseABid
  <2> PICK seen_total \in TotalsRead(meta) :
           RaiseBid(a, pid, bidder, amount, with_ext, meta, seen_total)
    OBVIOUS
  <2>1. amount \in Nat /\ with_ext \in BOOLEAN
    BY InputsAssumption DEF Companions
  <2>2. meta[1] = a /\ meta[2] = pid
    BY DEF RaiseBid
  <2>3. seen_total = proposal_total[a][pid] /\ seen_total > 0 /\ 0 + amount = amount
    BY <2>1, <2>2 DEF RaiseBid, ProposalProved
  <2>4. OneBid(a, bidder, pid, amount, 0, with_ext, 0)
    BY <2>1, <2>2, <2>3 DEF RaiseBid, OneBid, BidAccepted
  <2> QED  BY <2>1, <2>4 DEF BidStep
<1>3. CASE TopUpABid(a)
  <2> PICK pid \in Proposals, bidder \in Bidders, amount \in Amounts,
           with_ext \in Companions, meta \in Leaves, b \in Auctions :
           \E seen_total \in TotalsRead(meta), seen_bid \in BidsRead(b, <<pid, bidder>>) :
              TopUpBid(a, pid, bidder, amount, with_ext, meta, seen_total, b, seen_bid)
    BY <1>3 DEF TopUpABid
  <2> PICK seen_total \in TotalsRead(meta) :
           \E seen_bid \in BidsRead(b, <<pid, bidder>>) :
              TopUpBid(a, pid, bidder, amount, with_ext, meta, seen_total, b, seen_bid)
    OBVIOUS
  <2> PICK seen_bid \in BidsRead(b, <<pid, bidder>>) :
           TopUpBid(a, pid, bidder, amount, with_ext, meta, seen_total, b, seen_bid)
    OBVIOUS
  <2> DEFINE key == <<pid, bidder>>
  <2>1. amount \in Nat /\ with_ext \in BOOLEAN /\ seen_bid \in Nat /\ key \in Keys
    BY InputsAssumption DEF Companions, BidsRead, Keys
  <2>2. meta[1] = a /\ meta[2] = pid /\ b = a
    BY DEF TopUpBid, BidBound
  <2>3. seen_total = proposal_total[a][pid] /\ seen_total > 0
    BY <2>1, <2>2 DEF TopUpBid, ProposalProved
  <2>4. bid[a][key] = [leaf |-> "live", amount |-> seen_bid]
    BY <2>2 DEF TopUpBid, BidProved
  <2>5. bid' = [bid EXCEPT ![a][key] = [leaf |-> "live", amount |-> seen_bid + amount]]
    <3>1. bid' = [bid EXCEPT ![a][key].amount = seen_bid + amount]
      BY <2>2 DEF TopUpBid
    <3>2. [bid[a][key] EXCEPT !.amount = seen_bid + amount]
             = [leaf |-> "live", amount |-> seen_bid + amount]
      BY <2>4
    <3> QED  BY <3>1, <3>2
  <2> HIDE DEF key
  <2>6. /\ config.exists /\ Live(a) /\ BiddingOpen(a) /\ CompanionAccepted(a, with_ext)
        /\ amount > 0 /\ amount <= wallet[bidder]
        /\ proposal_total' =
              [proposal_total EXCEPT ![a][pid] = proposal_total[a][pid] + amount]
        /\ BookBid(a, bidder, pid, proposal_total[a][pid] + amount, amount, with_ext, 0)
    BY <2>1, <2>2, <2>3 DEF TopUpBid, BidAccepted
  <2>7. OneBid(a, bidder, pid, amount, seen_bid, with_ext, 0)
    BY <2>3, <2>4, <2>5, <2>6 DEF OneBid, key
  <2> QED  BY <2>1, <2>7 DEF BidStep
<1> QED  BY <1>1, <1>2, <1>3

\* What a bid does to the Auction accounts.
LEMMA BookFacts ==
    ASSUME TypeOK, NEW a \in Auctions, NEW bidder, NEW pid, NEW new_total, NEW amount,
           NEW with_ext, NEW new_proposals,
           BookBid(a, bidder, pid, new_total, amount, with_ext, new_proposals)
    PROVE  LET w == auction[a].winners
               n == auction[a].winner_count
           IN  /\ \A b \in Auctions : b # a => auction'[b] = auction[b]
               /\ \A b \in Auctions :
                    /\ auction'[b].status = auction[b].status
                    /\ auction'[b].creator = auction[b].creator
                    /\ auction'[b].fee_bps = auction[b].fee_bps
                    /\ auction'[b].creator_paid = auction[b].creator_paid
                    /\ auction'[b].winner_count = auction[b].winner_count
                    /\ auction'[b].schema_version = auction[b].schema_version
               /\ auction'[a].total_staked = auction[a].total_staked + amount
               /\ auction'[a].winners = UpdateTop(w, n, pid, new_total)
               /\ auction'[a].end_time =
                     ExtendedEnd(a, with_ext, SetChanged(w, n, pid, new_total))
               /\ auction'[a].proposal_count = auction[a].proposal_count + new_proposals
<1> DEFINE w == auction[a].winners
           n == auction[a].winner_count
           top == UpdateTop(w, n, pid, new_total)
           end == ExtendedEnd(a, with_ext, SetChanged(w, n, pid, new_total))
           r == [auction[a] EXCEPT !.total_staked = @ + amount, !.winners = top,
                                   !.end_time = end, !.proposal_count = @ + new_proposals]
<1>1. auction' = [auction EXCEPT ![a] = r]
  BY DEF BookBid
<1>2. auction \in [Auctions -> AuctionType] /\ auction[a] \in AuctionType
  BY DEF TypeOK
<1> HIDE DEF w, n, top, end
<1>3. /\ r.status = auction[a].status /\ r.creator = auction[a].creator
      /\ r.fee_bps = auction[a].fee_bps /\ r.creator_paid = auction[a].creator_paid
      /\ r.winner_count = auction[a].winner_count
      /\ r.schema_version = auction[a].schema_version
      /\ r.total_staked = auction[a].total_staked + amount
      /\ r.winners = top /\ r.end_time = end
      /\ r.proposal_count = auction[a].proposal_count + new_proposals
  BY <1>2 DEF AuctionType
<1> HIDE DEF r
<1>4. \A b \in Auctions : auction'[b] = IF b = a THEN r ELSE auction[b]
  BY <1>1, <1>2
<1> QED  BY <1>3, <1>4 DEF w, n, top, end

\* What a creation does, by today's program or the older one.
Created(a, creator, duration, extension, schema, r) ==
    /\ config.exists /\ ~ Live(a) /\ ~ ext[a].exists
    /\ a = config.auction_count
    /\ now <= LastCreate
    /\ duration > 0 /\ duration <= MaxDuration /\ extension <= MaxAntisnipeCap
    /\ r.status = "live" /\ r.schema_version = schema /\ ~ r.creator_paid
    /\ r.end_time = now + duration /\ r.winners = <<>> /\ r.proposal_count = 0
    /\ r.total_staked = 0 /\ r.creator = creator
    /\ auction' = [auction EXCEPT ![a] = r]
    /\ ext' = IF schema = 1 THEN ext
              ELSE [ext EXCEPT ![a] = [exists |-> TRUE,
                                       max_end_time |-> now + duration + extension]]
    /\ config'.exists /\ config'.auction_count = config.auction_count + 1
    /\ vault' = [vault EXCEPT ![a] = 0]
    /\ \/ /\ schema = 3 /\ deposit_vault.exists /\ CreatorDeposit <= wallet[creator]
          /\ wallet' = Debit(wallet, creator, CreatorDeposit)
          /\ deposit_vault' = [deposit_vault EXCEPT !.amount = @ + CreatorDeposit]
       \/ schema # 3 /\ wallet' = wallet /\ deposit_vault' = deposit_vault
    /\ UNCHANGED <<now, proposal_total, bid, history>>

LEMMA CreateFacts ==
    ASSUME TypeOK, NEW a \in Auctions, Create(a)
    PROVE  \E creator \in Creators, duration \in Nat, extension \in Nat,
              schema \in {1, 2, 3}, r \in AuctionType :
                Created(a, creator, duration, extension, schema, r)
<1> PICK creator \in Creators, min_bid \in MinBids, duration \in Durations,
         n \in WinnerCounts, extension \in Extensions :
        \/ CreateAuction(creator, a, min_bid, duration, n, extension)
        \/ \E schema \in LegacySchemas :
              LegacyCreate(creator, a, min_bid, duration, n, extension, schema)
  BY DEF Create
<1> PICK schema \in {1, 2, 3} :
        \/ schema = 3 /\ CreateAuction(creator, a, min_bid, duration, n, extension)
        \/ schema # 3 /\ LegacyCreate(creator, a, min_bid, duration, n, extension, schema)
  BY InputsAssumption
<1> DEFINE r == NewAuction(creator, min_bid, duration, n, schema)
<1>1. TermsAccepted(duration, n, extension)
  BY DEF CreateAuction, LegacyCreate
<1>2. duration \in Nat /\ extension \in Nat
  <2>1. duration \in Int /\ extension \in Int /\ MinAntisnipeCap \in Nat
    BY InputsAssumption, LimitsAssumption
  <2>2. duration > 0 /\ extension >= MinAntisnipeCap
    BY <1>1 DEF TermsAccepted
  <2> QED  BY <2>1, <2>2
<1>3. r \in AuctionType
  BY <1>1, NewAuctionType
<1>4. /\ r.status = "live" /\ r.schema_version = schema /\ ~ r.creator_paid
      /\ r.end_time = now + duration /\ r.winners = <<>> /\ r.proposal_count = 0
      /\ r.total_staked = 0 /\ r.creator = creator
  BY DEF NewAuction
<1>5. auction' = [auction EXCEPT ![a] = r]
  BY DEF CreateAuction, LegacyCreate, SCHEMA_VERSION_DEPOSIT
<1> HIDE DEF r
<1>6. config' = [config EXCEPT !.auction_count = @ + 1] /\ config.exists
  BY DEF CreateAuction, LegacyCreate
<1>7. config'.exists /\ config'.auction_count = config.auction_count + 1
  BY <1>6 DEF TypeOK, ConfigType
<1>8. ~ Live(a) /\ ~ ext[a].exists /\ a = config.auction_count
  BY DEF CreateAuction, LegacyCreate, IdIsNext
<1>9. Created(a, creator, duration, extension, schema, r)
  <2>1. CASE schema = 3 /\ CreateAuction(creator, a, min_bid, duration, n, extension)
    BY <1>1, <1>4, <1>5, <1>6, <1>7, <1>8, <2>1 DEF Created, CreateAuction, TermsAccepted
  <2>2. CASE schema # 3 /\ LegacyCreate(creator, a, min_bid, duration, n, extension, schema)
    BY <1>1, <1>4, <1>5, <1>6, <1>7, <1>8, <2>2 DEF Created, LegacyCreate, TermsAccepted
  <2> QED  BY <2>1, <2>2
<1> QED  BY <1>2, <1>3, <1>9

\* A write to one flag of an Auction account leaves the rest of it alone.
SameTerms(a) ==
    /\ auction'[a].winners = auction[a].winners
    /\ auction'[a].winner_count = auction[a].winner_count
    /\ auction'[a].proposal_count = auction[a].proposal_count
    /\ auction'[a].total_staked = auction[a].total_staked
    /\ auction'[a].end_time = auction[a].end_time
    /\ auction'[a].schema_version = auction[a].schema_version
    /\ auction'[a].creator = auction[a].creator
    /\ auction'[a].fee_bps = auction[a].fee_bps

LEMMA PaidFacts ==
    ASSUME TypeOK, NEW a \in Auctions,
           auction' = [auction EXCEPT ![a].creator_paid = TRUE]
    PROVE  /\ \A b \in Auctions : b # a => auction'[b] = auction[b]
           /\ \A b \in Auctions : SameTerms(b)
           /\ auction'[a].status = auction[a].status /\ auction'[a].creator_paid
<1> DEFINE r == [auction[a] EXCEPT !.creator_paid = TRUE]
<1>1. auction \in [Auctions -> AuctionType] /\ auction[a] \in AuctionType
  BY DEF TypeOK
<1>2. \A b \in Auctions : auction'[b] = IF b = a THEN r ELSE auction[b]
  BY <1>1
<1> QED  BY <1>1, <1>2 DEF SameTerms, AuctionType

LEMMA ClosedFacts ==
    ASSUME TypeOK, NEW a \in Auctions, CloseAccounts(a)
    PROVE  /\ vault[a] = 0
           /\ \A b \in Auctions : b # a => auction'[b] = auction[b]
           /\ \A b \in Auctions : SameTerms(b)
           /\ auction'[a].status = "closed"
           /\ auction'[a].creator_paid = auction[a].creator_paid
<1> DEFINE r == [auction[a] EXCEPT !.status = "closed"]
<1>1. auction \in [Auctions -> AuctionType] /\ auction[a] \in AuctionType
  BY DEF TypeOK
<1>2. auction' = [auction EXCEPT ![a] = r] /\ vault[a] = 0
  BY DEF CloseAccounts
<1>3. \A b \in Auctions : auction'[b] = IF b = a THEN r ELSE auction[b]
  BY <1>1, <1>2
<1> QED  BY <1>1, <1>2, <1>3 DEF SameTerms, AuctionType

----------------------------------------------------------------------------
(* The life of an account. *)

\* Ids are given out in order and once, so an account that was never created
\* is untouched; a companion belongs to an auction of schema 2 or 3.
Life ==
    /\ ~ config.exists => config.auction_count = 0
    /\ \A a \in Auctions :
          /\ auction[a].status # "none" => config.exists /\ a < config.auction_count
          /\ auction[a].status = "none" =>
                /\ auction[a] = NoAuction /\ ~ ext[a].exists
                /\ last_change[a] = 0 - AntisnipeWindow
          /\ ext[a].exists => auction[a].schema_version >= SCHEMA_VERSION_ANTISNIPE

LEMMA LifeInit == Init => Life
BY DEF Init, Life, NoAuction

LEMMA LifeStep == TypeOK /\ Life /\ [Next]_vars => Life'
<1> SUFFICES ASSUME TypeOK, Life, [Next]_vars PROVE Life'
  OBVIOUS
<1>1. CASE UNCHANGED vars
  BY <1>1 DEF vars, accounts, history, Life
<1>2. CASE Tick
  BY <1>2 DEF Tick, accounts, history, Life
<1>3. CASE Configure
  <2>1. /\ ~ config'.exists => config'.auction_count = 0
        /\ config.exists => config'.exists /\ config'.auction_count = config.auction_count
    <3>1. ASSUME NEW owner, NEW receiver, NEW fee, Initialize(owner, fee, receiver)
          PROVE  config'.exists /\ ~ config.exists
      BY <3>1 DEF Initialize
    <3>2. ASSUME NEW signer, NEW receiver, NEW fee, SetConfig(signer, fee, receiver)
          PROVE  config'.exists /\ config'.auction_count = config.auction_count
      BY <3>2 DEF SetConfig, TypeOK, ConfigType
    <3>3. CASE InitDepositVault
      BY <3>3 DEF InitDepositVault, Life
    <3> QED  BY <1>3, <3>1, <3>2, <3>3 DEF Configure
  <2>2. auction' = auction /\ ext' = ext /\ last_change' = last_change
    BY <1>3 DEF Configure, Initialize, SetConfig, InitDepositVault, history
  <2> QED  BY <2>1, <2>2 DEF Life
<1>4. CASE Donate
  BY <1>4 DEF Donate, DonateToVault, DonateToDepositVault, Life
<1>5. ASSUME NEW a \in Auctions, Create(a) PROVE Life'
  <2>1. PICK creator \in Creators, duration \in Nat, extension \in Nat,
             schema \in {1, 2, 3}, r \in AuctionType :
             Created(a, creator, duration, extension, schema, r)
    BY <1>5, CreateFacts
  <2>2. /\ config.auction_count \in Nat /\ a = config.auction_count /\ ~ ext[a].exists
        /\ config'.exists /\ config'.auction_count = config.auction_count + 1
        /\ last_change' = last_change
        /\ r.status = "live" /\ r.schema_version = schema
    BY <2>1 DEF TypeOK, ConfigType, Created, history
  <2>3. \A b \in Auctions : auction'[b] = IF b = a THEN r ELSE auction[b]
    BY <2>1 DEF Created, TypeOK
  <2>4. \A b \in Auctions : ext'[b] = ext[b] \/ (b = a /\ schema # 1)
    BY <2>1 DEF Created, TypeOK
  <2> QED  BY <2>2, <2>3, <2>4 DEF Life, SCHEMA_VERSION_ANTISNIPE, Auctions
<1>6. ASSUME NEW a \in Auctions, BidStep(a) PROVE Life'
  <2> PICK bidder \in Bidders, pid \in Proposals, amount \in Nat, old \in Nat,
           with_ext \in BOOLEAN, new_proposals \in {0, 1} :
           OneBid(a, bidder, pid, amount, old, with_ext, new_proposals)
    BY <1>6 DEF BidStep
  <2> DEFINE new_total == proposal_total[a][pid] + amount
  <2>1. BookBid(a, bidder, pid, new_total, amount, with_ext, new_proposals) /\ Live(a)
    BY DEF OneBid
  <2> HIDE DEF new_total
  <2>2. /\ \A b \in Auctions : b # a => auction'[b] = auction[b]
        /\ \A b \in Auctions : /\ auction'[b].status = auction[b].status
                              /\ auction'[b].schema_version = auction[b].schema_version
    BY <2>1, BookFacts
  <2>3. /\ config' = config /\ ext' = ext
        /\ \A b \in Auctions : b # a => last_change'[b] = last_change[b]
    BY <2>1 DEF BookBid, TypeOK
  <2> QED  BY <2>1, <2>2, <2>3 DEF Life, Live
<1>7. ASSUME NEW a \in Auctions,
             ClaimWinnings(a) \/ CloseAuction(a) \/ Cancel(a) \/ ForceCloseAuction(a)
      PROVE  Life'
  <2>1. /\ config' = config /\ ext' = ext /\ last_change' = last_change
        /\ Live(a)
        /\ auction' = [auction EXCEPT ![a].creator_paid = TRUE] \/ CloseAccounts(a)
    BY <1>7 DEF ClaimWinnings, CloseAuction, Cancel, CancelAuction, ForceCloseAuction,
                history
  <2>2. /\ \A b \in Auctions : b # a => auction'[b] = auction[b]
        /\ auction'[a].status \in {"live", "closed"}
        /\ auction'[a].schema_version = auction[a].schema_version
    BY <2>1, PaidFacts, ClosedFacts DEF Live, SameTerms
  <2> QED  BY <2>1, <2>2 DEF Life, Live
<1>8. ASSUME NEW a \in Auctions, WithdrawABid(a) PROVE Life'
  BY <1>8 DEF WithdrawABid, Withdraw, history, Life
<1>9. ASSUME NEW a \in Auctions, OnAuction(a) PROVE Life'
  BY <1>5, <1>6, <1>7, <1>8, <1>9, BidsAreCurrent DEF OnAuction
<1> QED  BY <1>1, <1>2, <1>3, <1>4, <1>9 DEF Next

\* The id of a closed auction is never given out again.
LEMMA ReopenStep ==
    TypeOK /\ Life /\ [Next]_vars =>
        \A a \in Auctions : auction[a].status = "closed" => auction'[a].status = "closed"
<1> SUFFICES ASSUME TypeOK, Life, [Next]_vars,
                    NEW b \in Auctions, auction[b].status = "closed"
             PROVE  auction'[b].status = "closed"
  OBVIOUS
<1>1. CASE auction' = auction
  BY <1>1
<1>2. ASSUME NEW a \in Auctions, Create(a) PROVE auction'[b].status = "closed"
  <2>1. PICK creator \in Creators, duration \in Nat, extension \in Nat,
             schema \in {1, 2, 3}, r \in AuctionType :
             Created(a, creator, duration, extension, schema, r)
    BY <1>2, CreateFacts
  <2>2. a = config.auction_count /\ auction' = [auction EXCEPT ![a] = r]
    BY <2>1 DEF Created
  <2>3. b < config.auction_count /\ config.auction_count \in Nat /\ b \in Nat
    BY DEF Life, TypeOK, ConfigType, Auctions
  <2> QED  BY <2>2, <2>3 DEF TypeOK
<1>3. ASSUME NEW a \in Auctions, BidStep(a) PROVE auction'[b].status = "closed"
  <2>1. \A c \in Auctions : auction'[c].status = auction[c].status
    BY <1>3, BookFacts DEF BidStep, OneBid
  <2> QED  BY <2>1
<1>4. ASSUME NEW a \in Auctions,
             auction' = [auction EXCEPT ![a].creator_paid = TRUE] \/ CloseAccounts(a)
      PROVE  auction'[b].status = "closed"
  BY <1>4, PaidFacts, ClosedFacts
<1>5. ASSUME NEW a \in Auctions, OnAuction(a) PROVE auction'[b].status = "closed"
  <2>1. ASSUME WithdrawABid(a) PROVE auction' = auction
    BY <2>1 DEF WithdrawABid, Withdraw
  <2> QED  BY <1>1, <1>2, <1>3, <1>4, <1>5, <2>1, BidsAreCurrent
           DEF OnAuction, ClaimWinnings, CloseAuction, Cancel, CancelAuction, ForceCloseAuction
<1>6. UNCHANGED vars \/ Tick \/ Configure \/ Donate => auction' = auction
  BY DEF vars, accounts, Tick, Configure, Initialize, SetConfig, InitDepositVault, Donate,
         DonateToVault, DonateToDepositVault
<1> QED  BY <1>1, <1>5, <1>6 DEF Next

\* No sequence of instructions brings a closed auction back, with whose old Bid
\* leaves a new vault at the same address could be emptied.
THEOREM NoReopening == Spec => NeverReopened
<1>1. TypeOK /\ Life /\ [Next]_vars =>
        [\A a \in Auctions : auction[a].status = "closed" => auction'[a].status = "closed"]_vars
  BY ReopenStep
<1>2. Spec => [](TypeOK /\ Life)
  BY TypeInit, TypeStep, LifeInit, LifeStep, PTL DEF Spec
<1> QED  BY <1>1, <1>2, PTL DEF Spec, NeverReopened

----------------------------------------------------------------------------
(* The commingled deposit vault. *)

DepositInv ==
    /\ DepositConserved
    /\ ~ deposit_vault.exists => deposit_vault.amount = 0

UnsettledAt(a) == /\ auction[a].status = "live"
                  /\ auction[a].schema_version = SCHEMA_VERSION_DEPOSIT
                  /\ ~ auction[a].creator_paid

LEMMA UnsettledFinite ==
    /\ IsFiniteSet(Unsettled) /\ Cardinality(Unsettled) \in Nat
    /\ \A a \in Auctions : a \in Unsettled <=> UnsettledAt(a)
<1>1. IsFiniteSet(Auctions)
  <2>1. 0 \in Int /\ MaxAuctions - 1 \in Int
    BY BoundsAssumption
  <2> QED  BY <2>1, FS_Interval, Zenon DEF Auctions
<1>2. Unsettled \in SUBSET Auctions
  BY DEF Unsettled
<1>3. IsFiniteSet(Unsettled) /\ Cardinality(Unsettled) \in Nat
  BY <1>1, <1>2, FS_Subset, FS_CardinalityType
<1> QED  BY <1>3 DEF Unsettled, UnsettledAt, Live

\* A step that leaves the unsettled auctions as they are owes what was owed.
LEMMA DepositUntouched ==
    ASSUME DepositInv, \A a \in Auctions : UnsettledAt(a)' <=> UnsettledAt(a),
           deposit_vault' = deposit_vault, deposit_stray' = deposit_stray
    PROVE  DepositInv'
<1>1. Unsettled' = Unsettled
  BY DEF Unsettled, UnsettledAt, Live
<1> QED  BY <1>1 DEF DepositInv, DepositConserved

\* One deposit more.
LEMMA DepositAdded ==
    ASSUME TypeOK, DepositInv, NEW a \in Auctions, a \notin Unsettled,
           UnsettledAt(a)', \A b \in Auctions \ {a} : UnsettledAt(b)' <=> UnsettledAt(b),
           deposit_vault.exists,
           deposit_vault' = [deposit_vault EXCEPT !.amount = @ + CreatorDeposit],
           deposit_stray' = deposit_stray
    PROVE  DepositInv'
<1> DEFINE n == Cardinality(Unsettled)
<1>1. Unsettled' = Unsettled \cup {a}
  BY DEF Unsettled, UnsettledAt, Live
<1>2. Cardinality(Unsettled') = n + 1 /\ n \in Nat
  BY <1>1, UnsettledFinite, FS_AddElement
<1>3. CreatorDeposit * (n + 1) = CreatorDeposit * n + CreatorDeposit
      /\ CreatorDeposit * n \in Nat /\ CreatorDeposit \in Nat
  BY <1>2, LimitsAssumption
<1>4. deposit_vault'.amount = deposit_vault.amount + CreatorDeposit /\ deposit_vault'.exists
  BY DEF TypeOK
<1>5. deposit_vault.amount = deposit_stray + CreatorDeposit * n
  BY DEF DepositInv, DepositConserved
<1> HIDE DEF n
<1>6. deposit_vault'.amount = deposit_stray + CreatorDeposit * (n + 1)
  BY <1>3, <1>4, <1>5 DEF TypeOK
<1> QED  BY <1>2, <1>4, <1>6, Zenon DEF DepositInv, DepositConserved

\* One deposit less.
LEMMA DepositRefunded ==
    ASSUME TypeOK, DepositInv, NEW a \in Auctions, a \in Unsettled,
           ~ UnsettledAt(a)', \A b \in Auctions \ {a} : UnsettledAt(b)' <=> UnsettledAt(b),
           deposit_vault.exists,
           deposit_vault' = [deposit_vault EXCEPT !.amount = @ - CreatorDeposit],
           deposit_stray' = deposit_stray
    PROVE  DepositInv'
<1> DEFINE n == Cardinality(Unsettled)
           m == Cardinality(Unsettled')
<1>1. Unsettled' = Unsettled \ {a}
  BY DEF Unsettled, UnsettledAt, Live
<1>2. Unsettled = Unsettled' \cup {a} /\ a \notin Unsettled'
  BY <1>1
<1>3. IsFiniteSet(Unsettled') /\ m \in Nat
  BY <1>1, UnsettledFinite, FS_RemoveElement, FS_CardinalityType
<1>4. n = m + 1
  BY <1>2, <1>3, FS_AddElement, Zenon
<1>5. CreatorDeposit * (m + 1) = CreatorDeposit * m + CreatorDeposit
      /\ CreatorDeposit * m \in Nat /\ CreatorDeposit \in Nat
  BY <1>3, LimitsAssumption
<1>6. deposit_vault'.amount = deposit_vault.amount - CreatorDeposit /\ deposit_vault'.exists
  BY DEF TypeOK
<1>7. deposit_vault.amount = deposit_stray + CreatorDeposit * n
  BY DEF DepositInv, DepositConserved
<1> HIDE DEF n, m
<1>8. deposit_vault'.amount = deposit_stray + CreatorDeposit * m
  BY <1>4, <1>5, <1>6, <1>7 DEF TypeOK
<1> QED  BY <1>6, <1>8, Zenon DEF DepositInv, DepositConserved, m

LEMMA DepositInit == Init => DepositInv
<1> SUFFICES ASSUME Init PROVE DepositInv
  OBVIOUS
<1>1. Unsettled = {}
  BY DEF Init, NoAuction, Unsettled, Live
<1>2. Cardinality(Unsettled) = 0
  BY <1>1, FS_EmptySet, Zenon
<1>3. CreatorDeposit * 0 = 0
  BY LimitsAssumption
<1> QED  BY <1>2, <1>3 DEF Init, DepositInv, DepositConserved

LEMMA DepositStep == TypeOK /\ DepositInv /\ [Next]_vars => DepositInv'
<1> SUFFICES ASSUME TypeOK, DepositInv, [Next]_vars PROVE DepositInv'
  OBVIOUS
<1>1. ASSUME auction' = auction, deposit_vault' = deposit_vault,
             deposit_stray' = deposit_stray
      PROVE  DepositInv'
  BY <1>1, DepositUntouched DEF UnsettledAt
<1>2. CASE UNCHANGED vars \/ Tick
  BY <1>1, <1>2 DEF vars, Tick, accounts, history
<1>3. CASE Configure
  <2>1. auction' = auction /\ deposit_stray' = deposit_stray
    BY <1>3 DEF Configure, Initialize, SetConfig, InitDepositVault, history
  <2>2. CASE InitDepositVault
    <3>1. deposit_vault.amount = 0 /\ deposit_vault'.amount = 0 /\ deposit_vault'.exists
      BY <2>2 DEF InitDepositVault, DepositInv
    <3>2. Unsettled' = Unsettled
      BY <2>1 DEF Unsettled, Live
    <3> QED  BY <2>1, <3>1, <3>2 DEF DepositInv, DepositConserved
  <2>3. CASE ~ InitDepositVault
    <3>1. deposit_vault' = deposit_vault
      BY <1>3, <2>3 DEF Configure, Initialize, SetConfig
    <3> QED  BY <1>1, <2>1, <3>1
  <2> QED  BY <2>2, <2>3
<1>4. CASE Donate
  <2>1. PICK donor \in Donors, amount \in StrayAmounts :
             \/ \E a \in Auctions : DonateToVault(donor, a, amount)
             \/ DonateToDepositVault(donor, amount)
    BY <1>4 DEF Donate
  <2>2. CASE \E a \in Auctions : DonateToVault(donor, a, amount)
    BY <1>1, <2>2 DEF DonateToVault
  <2>3. CASE DonateToDepositVault(donor, amount)
    <3>1. Unsettled' = Unsettled
      BY <2>3 DEF DonateToDepositVault, Unsettled, Live
    <3>2. /\ deposit_vault'.exists
          /\ deposit_vault'.amount = deposit_vault.amount + amount
          /\ deposit_stray' = deposit_stray + amount
      BY <2>3 DEF DonateToDepositVault, TypeOK
    <3> DEFINE owed == CreatorDeposit * Cardinality(Unsettled)
    <3>3. owed \in Nat /\ amount \in Nat /\ deposit_stray \in Nat
      BY UnsettledFinite, LimitsAssumption, InputsAssumption DEF TypeOK
    <3>4. deposit_vault.amount = deposit_stray + owed
      BY DEF DepositInv, DepositConserved
    <3>5. owed' = owed
      BY <3>1
    <3> HIDE DEF owed
    <3>6. deposit_vault'.amount = deposit_stray' + owed
      BY <3>2, <3>3, <3>4
    <3> QED  BY <3>2, <3>5, <3>6 DEF DepositInv, DepositConserved, owed
  <2> QED  BY <2>1, <2>2, <2>3
<1>5. ASSUME NEW a \in Auctions, Create(a) PROVE DepositInv'
  <2>1. PICK creator \in Creators, duration \in Nat, extension \in Nat,
             schema \in {1, 2, 3}, r \in AuctionType :
             Created(a, creator, duration, extension, schema, r)
    BY <1>5, CreateFacts
  <2>2. \A b \in Auctions : auction'[b] = IF b = a THEN r ELSE auction[b]
    BY <2>1 DEF Created, TypeOK
  <2>3. /\ ~ Live(a) /\ deposit_stray' = deposit_stray
        /\ r.status = "live" /\ r.schema_version = schema /\ ~ r.creator_paid
    BY <2>1 DEF Created, history
  <2>4. \A b \in Auctions \ {a} : UnsettledAt(b)' <=> UnsettledAt(b)
    BY <2>2 DEF UnsettledAt
  <2>5. CASE schema = 3
    <3>1. UnsettledAt(a)' /\ a \notin Unsettled
      BY <2>2, <2>3, <2>5 DEF UnsettledAt, Unsettled, SCHEMA_VERSION_DEPOSIT
    <3>2. /\ deposit_vault.exists
          /\ deposit_vault' = [deposit_vault EXCEPT !.amount = @ + CreatorDeposit]
      BY <2>1, <2>5 DEF Created
    <3> QED  BY <2>3, <2>4, <3>1, <3>2, DepositAdded
  <2>6. CASE schema # 3
    <3>1. ~ UnsettledAt(a)' /\ ~ UnsettledAt(a)
      BY <2>2, <2>3, <2>6 DEF UnsettledAt, SCHEMA_VERSION_DEPOSIT, Live
    <3>2. deposit_vault' = deposit_vault
      BY <2>1, <2>6 DEF Created
    <3> QED  BY <2>3, <2>4, <3>1, <3>2, DepositUntouched
  <2> QED  BY <2>5, <2>6
<1>6. ASSUME NEW a \in Auctions, BidStep(a) PROVE DepositInv'
  <2> PICK bidder \in Bidders, pid \in Proposals, amount \in Nat, old \in Nat,
           with_ext \in BOOLEAN, new_proposals \in {0, 1} :
           OneBid(a, bidder, pid, amount, old, with_ext, new_proposals)
    BY <1>6 DEF BidStep
  <2> DEFINE new_total == proposal_total[a][pid] + amount
  <2>1. BookBid(a, bidder, pid, new_total, amount, with_ext, new_proposals)
    BY DEF OneBid
  <2> HIDE DEF new_total
  <2>2. \A b \in Auctions : UnsettledAt(b)' <=> UnsettledAt(b)
    BY <2>1, BookFacts DEF UnsettledAt
  <2> QED  BY <2>1, <2>2, DepositUntouched DEF BookBid
\* A claim or a cancel refunds the deposit exactly if it is still owed.
<1>7. ASSUME NEW a \in Auctions, Live(a), deposit_vault.exists,
             deposit_vault' = [deposit_vault EXCEPT !.amount = @ - DepositOwed(a)],
             deposit_stray' = deposit_stray, ~ UnsettledAt(a)',
             \A b \in Auctions \ {a} : auction'[b] = auction[b]
      PROVE  DepositInv'
  <2>1. \A b \in Auctions \ {a} : UnsettledAt(b)' <=> UnsettledAt(b)
    BY <1>7 DEF UnsettledAt
  <2>2. CASE UnsettledAt(a)
    <3>1. DepositOwed(a) = CreatorDeposit /\ a \in Unsettled
      BY <2>2, UnsettledFinite DEF DepositOwed, UnsettledAt
    <3>2. deposit_vault' = [deposit_vault EXCEPT !.amount = @ - CreatorDeposit]
      BY <1>7, <3>1
    <3> QED  BY <1>7, <2>1, <3>1, <3>2, DepositRefunded
  <2>3. CASE ~ UnsettledAt(a)
    <3>1. DepositOwed(a) = 0
      BY <1>7, <2>3 DEF DepositOwed, UnsettledAt, Live
    <3>2. deposit_vault' = deposit_vault
      BY <1>7, <3>1 DEF TypeOK
    <3> QED  BY <1>7, <2>1, <2>3, <3>2, DepositUntouched
  <2> QED  BY <2>2, <2>3
<1>8. ASSUME NEW a \in Auctions, ClaimWinnings(a) PROVE DepositInv'
  <2>1. /\ Live(a) /\ deposit_vault.exists /\ deposit_stray' = deposit_stray
        /\ deposit_vault' = [deposit_vault EXCEPT !.amount = @ - DepositOwed(a)]
        /\ auction' = [auction EXCEPT ![a].creator_paid = TRUE]
    BY <1>8 DEF ClaimWinnings, history
  <2>2. ~ UnsettledAt(a)' /\ \A b \in Auctions \ {a} : auction'[b] = auction[b]
    BY <2>1, PaidFacts DEF UnsettledAt
  <2> QED  BY <1>7, <2>1, <2>2
<1>9. ASSUME NEW a \in Auctions, Cancel(a) PROVE DepositInv'
  <2>1. /\ Live(a) /\ deposit_vault.exists /\ deposit_stray' = deposit_stray
        /\ deposit_vault' = [deposit_vault EXCEPT !.amount = @ - DepositOwed(a)]
        /\ CloseAccounts(a)
    BY <1>9 DEF Cancel, CancelAuction, history
  <2>2. ~ UnsettledAt(a)' /\ \A b \in Auctions \ {a} : auction'[b] = auction[b]
    BY <2>1, ClosedFacts DEF UnsettledAt
  <2> QED  BY <1>7, <2>1, <2>2
\* A plain or a forced close needs the creator paid, deposit included.
<1>10. ASSUME NEW a \in Auctions, CloseAuction(a) \/ ForceCloseAuction(a)
       PROVE  DepositInv'
  <2>1. /\ auction[a].creator_paid /\ CloseAccounts(a)
        /\ deposit_vault' = deposit_vault /\ deposit_stray' = deposit_stray
    BY <1>10 DEF CloseAuction, ForceCloseAuction, history
  <2>2. \A b \in Auctions : UnsettledAt(b)' <=> UnsettledAt(b)
    BY <2>1, ClosedFacts DEF UnsettledAt
  <2> QED  BY <2>1, <2>2, DepositUntouched
<1>11. ASSUME NEW a \in Auctions, WithdrawABid(a) PROVE DepositInv'
  BY <1>1, <1>11 DEF WithdrawABid, Withdraw, history
<1>12. ASSUME NEW a \in Auctions, OnAuction(a) PROVE DepositInv'
  BY <1>5, <1>6, <1>8, <1>9, <1>10, <1>11, <1>12, BidsAreCurrent DEF OnAuction
<1> QED  BY <1>2, <1>3, <1>4, <1>12 DEF Next

\* For any number of auctions, of any schema, in any order of claims, cancels
\* and closes, the deposit vault holds what is owed: no deposit is refunded
\* twice and none is stuck.
THEOREM DepositsConserved == Spec => []DepositConserved
<1>1. DepositInv => DepositConserved
  BY DEF DepositInv
<1>2. Spec => []TypeOK
  BY TypeCorrect
<1> QED  BY <1>1, <1>2, DepositInit, DepositStep, PTL DEF Spec

----------------------------------------------------------------------------
(* The end time. *)

\* A bid moves the end back, never past the creator's cap, and if it changed
\* the set of winners it leaves the window or goes up to the cap.
LEMMA ExtendedEndBounds ==
    ASSUME TypeOK, Life, NEW a \in Auctions, NEW with_ext \in BOOLEAN,
           NEW changed \in BOOLEAN, CompanionAccepted(a, with_ext),
           ext[a].exists => auction[a].end_time <= ext[a].max_end_time
    PROVE  LET end == ExtendedEnd(a, with_ext, changed)
               want == now + AntisnipeWindow
               cap == ext[a].max_end_time
           IN  /\ end >= auction[a].end_time
               /\ ~ changed => end = auction[a].end_time
               /\ ext[a].exists => /\ end <= cap
                                   /\ changed => end >= IF want < cap THEN want ELSE cap
<1> DEFINE end == ExtendedEnd(a, with_ext, changed)
           want == now + AntisnipeWindow
           cap == ext[a].max_end_time
           old == auction[a].end_time
<1>1. want \in Nat /\ cap \in Nat /\ old \in Nat
  <2>1. now \in Nat
    BY BoundsAssumption DEF TypeOK
  <2>2. ext[a].max_end_time \in Nat /\ auction[a].end_time \in Nat
    BY DEF TypeOK, AuctionType
  <2> QED  BY <2>1, <2>2, LimitsAssumption
<1>2. (ext[a].exists => with_ext) /\ (with_ext => ext[a].exists)
  BY DEF Life, CompanionAccepted
<1>3. end = IF changed /\ with_ext /\ want > old
            THEN IF want < cap THEN want ELSE cap ELSE old
  BY DEF ExtendedEnd
<1> HIDE DEF end, want, cap, old
<1>4. /\ end >= old
      /\ ~ changed => end = old
      /\ ext[a].exists => end <= cap /\ (changed => end >= IF want < cap THEN want ELSE cap)
  <2>1. ext[a].exists => old <= cap
    BY DEF old, cap
  <2> QED  BY <1>1, <1>2, <1>3, <2>1
<1> QED  BY <1>4 DEF end, want, cap, old

LEMMA AntisnipeInit == Init => AntisnipeHolds
BY DEF Init, AntisnipeHolds

LEMMA AntisnipeStep == TypeOK /\ Life /\ AntisnipeHolds /\ [Next]_vars => AntisnipeHolds'
<1> SUFFICES ASSUME TypeOK, Life, AntisnipeHolds, [Next]_vars PROVE AntisnipeHolds'
  OBVIOUS
<1>1. ASSUME ext' = ext, last_change' = last_change,
             \A a \in Auctions : auction'[a].end_time = auction[a].end_time
      PROVE  AntisnipeHolds'
  BY <1>1 DEF AntisnipeHolds
<1>2. CASE UNCHANGED vars \/ Tick \/ Configure \/ Donate
  <2>1. auction' = auction /\ ext' = ext /\ last_change' = last_change
    BY <1>2 DEF vars, accounts, history, Tick, Configure, Initialize, SetConfig,
                InitDepositVault, Donate, DonateToVault, DonateToDepositVault
  <2> QED  BY <1>1, <2>1
<1>3. ASSUME NEW a \in Auctions, Create(a) PROVE AntisnipeHolds'
  <2>1. PICK creator \in Creators, duration \in Nat, extension \in Nat,
             schema \in {1, 2, 3}, r \in AuctionType :
             Created(a, creator, duration, extension, schema, r)
    BY <1>3, CreateFacts
  <2>2. /\ last_change' = last_change /\ ~ ext[a].exists /\ r.end_time = now + duration
        /\ last_change[a] = 0 - AntisnipeWindow
    <3>1. /\ last_change' = last_change /\ ~ ext[a].exists /\ r.end_time = now + duration
          /\ a = config.auction_count
      BY <2>1 DEF Created, history
    <3>2. ~ (a < config.auction_count)
      BY <3>1 DEF TypeOK, ConfigType
    <3>3. last_change[a] = 0 - AntisnipeWindow
      BY <3>2 DEF Life
    <3> QED  BY <3>1, <3>3
  <2>3. \A b \in Auctions : b # a => auction'[b] = auction[b] /\ ext'[b] = ext[b]
    BY <2>1 DEF Created, TypeOK
  <2>4. /\ auction'[a].end_time = now + duration
        /\ ext'[a].exists => ext'[a].max_end_time = now + duration + extension
    BY <2>1, <2>2 DEF Created, TypeOK
  <2>5. last_change[a] + AntisnipeWindow = 0 /\ now \in Nat
    BY <2>2, LimitsAssumption, BoundsAssumption DEF TypeOK
  <2> QED  BY <2>2, <2>3, <2>4, <2>5 DEF AntisnipeHolds
<1>4. ASSUME NEW a \in Auctions, BidStep(a) PROVE AntisnipeHolds'
  <2> PICK bidder \in Bidders, pid \in Proposals, amount \in Nat, old \in Nat,
           with_ext \in BOOLEAN, new_proposals \in {0, 1} :
           OneBid(a, bidder, pid, amount, old, with_ext, new_proposals)
    BY <1>4 DEF BidStep
  <2> DEFINE new_total == proposal_total[a][pid] + amount
             changed == SetChanged(auction[a].winners, auction[a].winner_count, pid, new_total)
             end == ExtendedEnd(a, with_ext, changed)
             want == now + AntisnipeWindow
             cap == ext[a].max_end_time
  <2>1. /\ BookBid(a, bidder, pid, new_total, amount, with_ext, new_proposals)
        /\ CompanionAccepted(a, with_ext)
    BY DEF OneBid
  <2>2. /\ auction'[a].end_time = end /\ ext' = ext
        /\ \A b \in Auctions : b # a => /\ auction'[b] = auction[b]
                                       /\ last_change'[b] = last_change[b]
        /\ changed => last_change'[a] = now
        /\ ~ changed => last_change' = last_change
    <3>1. /\ auction'[a].end_time = end
          /\ \A b \in Auctions : b # a => auction'[b] = auction[b]
      BY <2>1, BookFacts
    <3>2. /\ ext' = ext
          /\ last_change' = IF changed THEN [last_change EXCEPT ![a] = now] ELSE last_change
      BY <2>1 DEF BookBid
    <3> HIDE DEF end, changed, new_total
    <3> QED  BY <3>1, <3>2 DEF TypeOK
  <2>4. changed \in BOOLEAN
    BY DEF SetChanged
  <2>3. /\ end >= auction[a].end_time
        /\ ~ changed => end = auction[a].end_time
        /\ ext[a].exists => /\ end <= cap
                            /\ changed => end >= IF want < cap THEN want ELSE cap
    <3>1. ext[a].exists => auction[a].end_time <= ext[a].max_end_time
      BY DEF AntisnipeHolds
    <3> HIDE DEF changed
    <3> QED  BY <2>1, <2>4, <3>1, ExtendedEndBounds
  <2> HIDE DEF end, changed
  <2> QED  BY <2>2, <2>3 DEF AntisnipeHolds
<1>5. ASSUME NEW a \in Auctions,
             ClaimWinnings(a) \/ CloseAuction(a) \/ Cancel(a) \/ ForceCloseAuction(a)
      PROVE  AntisnipeHolds'
  <2>1. /\ ext' = ext /\ last_change' = last_change
        /\ auction' = [auction EXCEPT ![a].creator_paid = TRUE] \/ CloseAccounts(a)
    BY <1>5 DEF ClaimWinnings, CloseAuction, Cancel, CancelAuction, ForceCloseAuction,
                history
  <2> QED  BY <1>1, <2>1, PaidFacts, ClosedFacts DEF SameTerms
<1>6. ASSUME NEW a \in Auctions, WithdrawABid(a) PROVE AntisnipeHolds'
  BY <1>1, <1>6 DEF WithdrawABid, Withdraw, history
<1>7. ASSUME NEW a \in Auctions, OnAuction(a) PROVE AntisnipeHolds'
  BY <1>3, <1>4, <1>5, <1>6, <1>7, BidsAreCurrent DEF OnAuction
<1> QED  BY <1>2, <1>7 DEF Next

\* Whatever the bids, their timing and the creator's cap, the last change of
\* winners can be answered and the auction ends by its cap.
THEOREM AntisnipeAlwaysHolds == Spec => []AntisnipeHolds
BY TypeInit, TypeStep, LifeInit, LifeStep, AntisnipeInit, AntisnipeStep, PTL DEF Spec

----------------------------------------------------------------------------
(* Who wins. *)

\* A bid with the names of what it writes.
LEMMA BidFacts ==
    ASSUME TypeOK, NEW a \in Auctions, NEW bidder \in Bidders, NEW pid \in Proposals,
           NEW amount \in Nat, NEW old, NEW with_ext \in BOOLEAN, NEW new_proposals \in {0, 1},
           OneBid(a, bidder, pid, amount, old, with_ext, new_proposals)
    PROVE  LET new_total == proposal_total[a][pid] + amount
           IN  /\ new_total \in Nat /\ proposal_total[a][pid] <= new_total
               /\ proposal_total'[a][pid] = new_total
               /\ \A p \in Proposals : p # pid => proposal_total'[a][p] = proposal_total[a][p]
               /\ \A b \in Auctions : b # a => proposal_total'[b] = proposal_total[b]
<1> DEFINE new_total == proposal_total[a][pid] + amount
<1>1. proposal_total \in [Auctions -> [Proposals -> Nat]]
  BY DEF TypeOK
<1>2. new_total \in Nat /\ proposal_total[a][pid] <= new_total
  BY <1>1
<1>3. proposal_total' = [proposal_total EXCEPT ![a][pid] = new_total]
  BY DEF OneBid
<1> HIDE DEF new_total
<1>4. /\ proposal_total'[a][pid] = new_total
      /\ \A p \in Proposals : p # pid => proposal_total'[a][p] = proposal_total[a][p]
      /\ \A b \in Auctions : b # a => proposal_total'[b] = proposal_total[b]
  BY <1>1, <1>3
<1> QED  BY <1>2, <1>4 DEF new_total

----------------------------------------------------------------------------
(* The board is the top of the proposals. *)

\* WinnersAreTop, and only proposals that were placed have a total: a raise is
\* on a proposal the counter has passed.
TopInv ==
    /\ WinnersAreTop
    /\ \A a \in Auctions, p \in Proposals :
          proposal_total[a][p] > 0 => p < auction[a].proposal_count

LEMMA TopInit == Init => TopInv
BY DEF Init, TopInv, WinnersAreTop, NoAuction

\* The empty board of no proposals.
LEMMA EmptyBoard == ASSUME NEW n \in Nat, NEW totals PROVE IsLeaderBoard(<<>>, n, totals, 0)
<1>1. Len(<<>>) = 0 /\ DOMAIN <<>> = {}
  OBVIOUS
<1>2. Seats(n) \in Nat \ {0}
  BY MaxWinnersAssumption DEF Seats
<1> QED  BY <1>1, <1>2 DEF IsLeaderBoard

LEMMA TopBid ==
    ASSUME TypeOK, TopInv, NEW a \in Auctions, BidStep(a)
    PROVE  TopInv'
<1> PICK bidder \in Bidders, pid \in Proposals, amount \in Nat, old \in Nat,
         with_ext \in BOOLEAN, new_proposals \in {0, 1} :
         OneBid(a, bidder, pid, amount, old, with_ext, new_proposals)
  BY DEF BidStep
<1> DEFINE new_total == proposal_total[a][pid] + amount
           w == auction[a].winners
           n == auction[a].winner_count
           count == auction[a].proposal_count
           new_count == count + new_proposals
<1>1. /\ BookBid(a, bidder, pid, new_total, amount, with_ext, new_proposals)
      /\ Live(a)
      /\ \/ new_proposals = 1 /\ pid = count
         \/ new_proposals = 0 /\ proposal_total[a][pid] > 0
  BY DEF OneBid
<1>2. /\ w \in Seq(Slot) /\ n \in Nat /\ count \in Nat /\ pid \in Nat
      /\ proposal_total[a] \in [Proposals -> Nat]
  <2>1. auction[a] \in AuctionType
    BY DEF TypeOK
  <2> QED  BY <2>1, MaxWinnersAssumption, BoundsAssumption DEF TypeOK, AuctionType, Proposals
<1>3. /\ auction'[a].winners = UpdateTop(w, n, pid, new_total)
      /\ auction'[a].winner_count = n
      /\ auction'[a].proposal_count = new_count
      /\ \A b \in Auctions : b # a => auction'[b] = auction[b]
      /\ \A b \in Auctions : auction'[b].status = auction[b].status
  BY <1>1, BookFacts
<1>4. /\ new_total \in Nat /\ proposal_total[a][pid] <= new_total
      /\ proposal_total'[a][pid] = new_total
      /\ \A p \in Proposals : p # pid => proposal_total'[a][p] = proposal_total[a][p]
      /\ \A b \in Auctions : b # a => proposal_total'[b] = proposal_total[b]
  BY BidFacts
<1>5. IsLeaderBoard(w, n, proposal_total[a], count) /\ pid <= count
  <2>1. proposal_total[a][pid] > 0 => pid < count
    BY DEF TopInv
  <2>2. IsLeaderBoard(w, n, proposal_total[a], count)
    BY <1>1 DEF TopInv, WinnersAreTop, Live
  <2> QED  BY <1>1, <1>2, <2>1, <2>2
<1> HIDE DEF new_total, w, n
<1>6. new_count = IF pid = count THEN count + 1 ELSE count
  <2>1. proposal_total[a][pid] > 0 => pid < count
    BY DEF TopInv
  <2> QED  BY <1>1, <1>2, <2>1
<1>7. 0 .. count - 1 \subseteq Proposals
  <2>1. count \in 0 .. MaxProposals /\ MaxProposals \in Nat
    BY BoundsAssumption DEF TypeOK, AuctionType
  <2> QED  BY <2>1 DEF Proposals
<1> HIDE DEF new_count, count
<1>8. BidBooked(proposal_total[a], count, pid, new_total, proposal_total'[a], new_count)
  BY <1>2, <1>4, <1>6, <1>7 DEF BidBooked
<1>9. IsLeaderBoard(UpdateTop(w, n, pid, new_total), n, proposal_total'[a], new_count)
  BY <1>2, <1>4, <1>5, <1>8, UpdateTopKeepsTop
<1>10. WinnersAreTop'
  <2>1. ASSUME NEW b \in Auctions, auction'[b].status # "none"
        PROVE  IsLeaderBoard(auction'[b].winners, auction'[b].winner_count,
                             proposal_total'[b], auction'[b].proposal_count)
    <3>1. CASE b = a
      BY <1>3, <1>9, <3>1
    <3>2. CASE b # a
      BY <1>3, <1>4, <2>1, <3>2 DEF TopInv, WinnersAreTop
    <3> QED  BY <3>1, <3>2
  <2> QED  BY <2>1 DEF WinnersAreTop
<1>11. ASSUME NEW b \in Auctions, NEW p \in Proposals, proposal_total'[b][p] > 0
       PROVE  p < auction'[b].proposal_count
  <2>1. CASE b # a
    BY <1>3, <1>4, <1>11, <2>1 DEF TopInv
  <2>2. CASE b = a /\ p # pid
    <3>1. p < count /\ p \in Nat
      BY <1>4, <1>11, <2>2, BoundsAssumption DEF TopInv, count, Proposals
    <3> QED  BY <1>2, <1>3, <1>6, <2>2, <3>1
  <2>3. CASE b = a /\ p = pid
    BY <1>2, <1>3, <1>5, <1>6, <2>3
  <2> QED  BY <2>1, <2>2, <2>3
<1> QED  BY <1>10, <1>11 DEF TopInv

LEMMA TopStep == TypeOK /\ Life /\ TopInv /\ [Next]_vars => TopInv'
<1> SUFFICES ASSUME TypeOK, Life, TopInv, [Next]_vars PROVE TopInv'
  OBVIOUS
<1>1. ASSUME proposal_total' = proposal_total,
             \A a \in Auctions :
                /\ SameTerms(a)
                /\ auction'[a].status # "none" => auction[a].status # "none"
      PROVE  TopInv'
  BY <1>1 DEF TopInv, WinnersAreTop, SameTerms
<1>2. ASSUME UNCHANGED <<auction, proposal_total>> PROVE TopInv'
  BY <1>2 DEF TopInv, WinnersAreTop
<1>3. CASE UNCHANGED vars \/ Tick \/ Configure \/ Donate
  <2>1. auction' = auction /\ proposal_total' = proposal_total
    BY <1>3 DEF vars, accounts, Tick, Configure, Initialize, SetConfig, InitDepositVault,
                Donate, DonateToVault, DonateToDepositVault
  <2> QED  BY <1>2, <2>1
<1>4. ASSUME NEW a \in Auctions, Create(a) PROVE TopInv'
  <2>1. PICK creator \in Creators, duration \in Nat, extension \in Nat,
             schema \in {1, 2, 3}, r \in AuctionType :
             Created(a, creator, duration, extension, schema, r)
    BY <1>4, CreateFacts
  <2>2. /\ auction' = [auction EXCEPT ![a] = r] /\ proposal_total' = proposal_total
        /\ a = config.auction_count /\ r.winners = <<>> /\ r.proposal_count = 0
    BY <2>1 DEF Created
  <2>3. \A b \in Auctions : auction'[b] = IF b = a THEN r ELSE auction[b]
    BY <2>2 DEF TypeOK
  <2>4. auction[a].status = "none"
    BY <2>2 DEF Life, TypeOK, ConfigType
  <2>5. \A p \in Proposals : ~ (proposal_total[a][p] > 0)
    <3>1. auction[a].proposal_count = 0
      BY <2>4 DEF Life, NoAuction
    <3> QED  BY <3>1, BoundsAssumption DEF TopInv, Proposals
  <2>6. IsLeaderBoard(r.winners, r.winner_count, proposal_total[a], r.proposal_count)
    <3>1. r.winner_count \in Nat
      BY MaxWinnersAssumption DEF AuctionType
    <3> QED  BY <2>2, <3>1, EmptyBoard
  <2> QED  BY <2>2, <2>3, <2>5, <2>6 DEF TopInv, WinnersAreTop
<1>5. ASSUME NEW a \in Auctions,
             ClaimWinnings(a) \/ CloseAuction(a) \/ Cancel(a) \/ ForceCloseAuction(a)
      PROVE  TopInv'
  <2>1. /\ proposal_total' = proposal_total /\ Live(a)
        /\ auction' = [auction EXCEPT ![a].creator_paid = TRUE] \/ CloseAccounts(a)
    BY <1>5 DEF ClaimWinnings, CloseAuction, Cancel, CancelAuction, ForceCloseAuction
  <2>2. /\ \A b \in Auctions : SameTerms(b)
        /\ \A b \in Auctions : b # a => auction'[b] = auction[b]
    BY <2>1, PaidFacts, ClosedFacts
  <2> QED  BY <1>1, <2>1, <2>2 DEF Live
<1>6. ASSUME NEW a \in Auctions, WithdrawABid(a) PROVE TopInv'
  BY <1>2, <1>6 DEF WithdrawABid, Withdraw
<1>7. ASSUME NEW a \in Auctions, OnAuction(a) PROVE TopInv'
  BY <1>4, <1>5, <1>6, <1>7, BidsAreCurrent, TopBid DEF OnAuction
<1> QED  BY <1>3, <1>7 DEF Next

\* Whatever bids land in whatever order, with whatever stale contents their
\* senders read, the winners that update_top keeps on chain are the top N.
THEOREM WinnersAlwaysTop == Spec => []WinnersAreTop
<1>1. TopInv => WinnersAreTop
  BY DEF TopInv
<1> QED  BY <1>1, TypeInit, TypeStep, LifeInit, LifeStep, TopInit, TopStep, PTL DEF Spec

----------------------------------------------------------------------------
(* The end freezes who wins. *)

FrozenAt(a) ==
    /\ auction'[a].end_time >= auction[a].end_time
    /\ Ended(a) => /\ auction'[a].end_time = auction[a].end_time
                   /\ auction'[a].winners = auction[a].winners
                   /\ proposal_total'[a] = proposal_total[a]

LEMMA FrozenStep ==
    TypeOK /\ Life /\ AntisnipeHolds /\ [Next]_vars =>
        \A a \in Auctions : Live(a) => FrozenAt(a)
<1> SUFFICES ASSUME TypeOK, Life, AntisnipeHolds, [Next]_vars,
                    NEW c \in Auctions, Live(c)
             PROVE  FrozenAt(c)
  OBVIOUS
<1>1. auction[c].end_time \in Nat /\ now \in Nat
  BY BoundsAssumption DEF TypeOK, AuctionType
<1>2. ASSUME proposal_total'[c] = proposal_total[c], auction'[c] = auction[c] \/ SameTerms(c)
      PROVE  FrozenAt(c)
  BY <1>1, <1>2 DEF FrozenAt, SameTerms
<1>3. CASE UNCHANGED vars \/ Tick \/ Configure \/ Donate
  <2>1. auction' = auction /\ proposal_total' = proposal_total
    BY <1>3 DEF vars, accounts, Tick, Configure, Initialize, SetConfig, InitDepositVault,
                Donate, DonateToVault, DonateToDepositVault
  <2> QED  BY <1>2, <2>1
<1>4. ASSUME NEW a \in Auctions, Create(a) PROVE FrozenAt(c)
  <2>1. PICK creator \in Creators, duration \in Nat, extension \in Nat,
             schema \in {1, 2, 3}, r \in AuctionType :
             Created(a, creator, duration, extension, schema, r)
    BY <1>4, CreateFacts
  <2>2. /\ a # c /\ proposal_total' = proposal_total
        /\ auction' = [auction EXCEPT ![a] = r]
    BY <2>1 DEF Created
  <2> QED  BY <1>2, <2>2 DEF TypeOK
<1>5. ASSUME NEW a \in Auctions, BidStep(a) PROVE FrozenAt(c)
  <2> PICK bidder \in Bidders, pid \in Proposals, amount \in Nat, old \in Nat,
           with_ext \in BOOLEAN, new_proposals \in {0, 1} :
           OneBid(a, bidder, pid, amount, old, with_ext, new_proposals)
    BY <1>5 DEF BidStep
  <2> DEFINE new_total == proposal_total[a][pid] + amount
             changed == SetChanged(auction[a].winners, auction[a].winner_count, pid, new_total)
  <2>1. /\ BookBid(a, bidder, pid, new_total, amount, with_ext, new_proposals)
        /\ CompanionAccepted(a, with_ext) /\ BiddingOpen(a)
    BY DEF OneBid
  <2>2. /\ auction'[a].end_time = ExtendedEnd(a, with_ext, changed)
        /\ \A b \in Auctions : b # a => auction'[b] = auction[b]
    BY <2>1, BookFacts
  <2>3. \A b \in Auctions : b # a => proposal_total'[b] = proposal_total[b]
    BY DEF OneBid, TypeOK
  <2>4. ExtendedEnd(a, with_ext, changed) >= auction[a].end_time
    <3>1. ext[a].exists => auction[a].end_time <= ext[a].max_end_time
      BY DEF AntisnipeHolds
    <3>2. changed \in BOOLEAN
      BY DEF SetChanged
    <3> HIDE DEF changed
    <3> QED  BY <2>1, <3>1, <3>2, ExtendedEndBounds
  <2> HIDE DEF changed
  <2>5. CASE a = c
    <3>1. ~ Ended(c)
      BY <1>1, <2>1, <2>5 DEF Ended, BiddingOpen
    <3> QED  BY <2>2, <2>4, <2>5, <3>1 DEF FrozenAt
  <2>6. CASE a # c
    BY <1>2, <2>2, <2>3, <2>6
  <2> QED  BY <2>5, <2>6
<1>6. ASSUME NEW a \in Auctions,
             ClaimWinnings(a) \/ CloseAuction(a) \/ Cancel(a) \/ ForceCloseAuction(a)
      PROVE  FrozenAt(c)
  <2>1. /\ proposal_total' = proposal_total
        /\ auction' = [auction EXCEPT ![a].creator_paid = TRUE] \/ CloseAccounts(a)
    BY <1>6 DEF ClaimWinnings, CloseAuction, Cancel, CancelAuction, ForceCloseAuction
  <2> QED  BY <1>2, <2>1, PaidFacts, ClosedFacts
<1>7. ASSUME NEW a \in Auctions, WithdrawABid(a) PROVE FrozenAt(c)
  BY <1>2, <1>7 DEF WithdrawABid, Withdraw
<1>8. ASSUME NEW a \in Auctions, OnAuction(a) PROVE FrozenAt(c)
  BY <1>4, <1>5, <1>6, <1>7, <1>8, BidsAreCurrent DEF OnAuction
<1> QED  BY <1>3, <1>8 DEF Next

\* From the end on nothing moves the board or the totals, so a claim and the
\* refunds agree on who won, however far apart they run.
THEOREM EndFreezes == Spec => PartitionFrozen
<1>1. TypeOK /\ Life /\ AntisnipeHolds /\ [Next]_vars =>
        [\A a \in Auctions : Live(a) =>
            /\ auction'[a].end_time >= auction[a].end_time
            /\ Ended(a) => /\ auction'[a].end_time = auction[a].end_time
                           /\ auction'[a].winners = auction[a].winners
                           /\ proposal_total'[a] = proposal_total[a]]_vars
  BY FrozenStep DEF FrozenAt
<1>2. Spec => [](TypeOK /\ Life /\ AntisnipeHolds)
  BY TypeInit, TypeStep, LifeInit, LifeStep, AntisnipeInit, AntisnipeStep, PTL DEF Spec
<1> QED  BY <1>1, <1>2, PTL DEF Spec, PartitionFrozen
=============================================================================
