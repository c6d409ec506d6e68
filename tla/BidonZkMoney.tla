---------------------------- MODULE BidonZkMoney ----------------------------
(***************************************************************************)
(* Where the money is, for every value of the constants: none is made or   *)
(* lost, every vault holds the stakes not yet settled, every payout is     *)
(* covered, the creator's share is the quoted one, bidders are whole.      *)
(***************************************************************************)
EXTENDS BidonZkProofs

\* What a credit and a debit do to the sum of all balances.
LEMMA CreditTotal ==
    ASSUME NEW S, IsFiniteSet(S), NEW w \in [S -> Nat], NEW who \in S, NEW amount \in Nat
    PROVE  Total(Credit(w, who, amount), S) = Total(w, S) + amount
<1> DEFINE c == Credit(w, who, amount)
<1>1. /\ \A x \in S : w[x] \in Nat
      /\ \A x \in S \ {who} : c[x] = w[x]
      /\ c[who] = w[who] + amount /\ c[who] \in Nat
  BY DEF Credit
<1> HIDE DEF c
<1>2. Total(c, S) = Total(w, S) - w[who] + c[who]
  BY <1>1, TotalChange
<1>3. Total(w, S) \in Nat /\ w[who] \in Nat
  BY <1>1, TotalType
<1> QED  BY <1>1, <1>2, <1>3 DEF c

LEMMA DebitTotal ==
    ASSUME NEW S, IsFiniteSet(S), NEW w \in [S -> Nat], NEW who \in S,
           NEW amount \in Nat, amount <= w[who]
    PROVE  /\ Total(Debit(w, who, amount), S) = Total(w, S) - amount
           /\ Total(w, S) \in Nat
<1> DEFINE c == Debit(w, who, amount)
<1>1. /\ \A x \in S : w[x] \in Nat
      /\ \A x \in S \ {who} : c[x] = w[x]
      /\ c[who] = w[who] - amount /\ c[who] \in Nat
  BY DEF Debit
<1> HIDE DEF c
<1>2. Total(c, S) = Total(w, S) - w[who] + c[who]
  BY <1>1, TotalChange
<1>3. Total(w, S) \in Nat /\ w[who] \in Nat
  BY <1>1, TotalType
<1> QED  BY <1>1, <1>2, <1>3 DEF c

LEMMA AuctionsFinite == IsFiniteSet(Auctions)
<1>1. 0 \in Int /\ MaxAuctions - 1 \in Int
  BY BoundsAssumption
<1> QED  BY <1>1, FS_Interval, Zenon DEF Auctions

LEMMA SumsType ==
    ASSUME TypeOK
    PROVE  Total(wallet, Owners) \in Nat /\ Total(vault, Auctions) \in Nat
<1>1. (\A o \in Owners : wallet[o] \in Nat) /\ (\A a \in Auctions : vault[a] \in Nat)
  BY DEF TypeOK
<1> QED  BY <1>1, TotalType, AuctionsFinite, OwnersAssumption

\* The same of the wallets and the vaults.
LEMMA MoveTotals ==
    ASSUME TypeOK, NEW amount \in Nat
    PROVE  /\ \A o \in Owners :
                 /\ Total(Credit(wallet, o, amount), Owners) = Total(wallet, Owners) + amount
                 /\ amount <= wallet[o] =>
                      Total(Debit(wallet, o, amount), Owners) = Total(wallet, Owners) - amount
           /\ \A a \in Auctions :
                 /\ Total(Credit(vault, a, amount), Auctions) = Total(vault, Auctions) + amount
                 /\ amount <= vault[a] =>
                      Total(Debit(vault, a, amount), Auctions) = Total(vault, Auctions) - amount
<1>1. wallet \in [Owners -> Nat] /\ vault \in [Auctions -> Nat]
  BY DEF TypeOK
<1>2. IsFiniteSet(Owners) /\ IsFiniteSet(Auctions)
  BY OwnersAssumption, AuctionsFinite
<1>3. ASSUME NEW o \in Owners
      PROVE  /\ Total(Credit(wallet, o, amount), Owners) = Total(wallet, Owners) + amount
             /\ amount <= wallet[o] =>
                  Total(Debit(wallet, o, amount), Owners) = Total(wallet, Owners) - amount
  BY <1>1, <1>2, CreditTotal, DebitTotal, Zenon
<1>4. ASSUME NEW a \in Auctions
      PROVE  /\ Total(Credit(vault, a, amount), Auctions) = Total(vault, Auctions) + amount
             /\ amount <= vault[a] =>
                  Total(Debit(vault, a, amount), Auctions) = Total(vault, Auctions) - amount
  BY <1>1, <1>2, CreditTotal, DebitTotal, Zenon
<1> QED  BY <1>3, <1>4

----------------------------------------------------------------------------
(* No unit of USDC is made or lost. *)

\* SupplyConserved, and what it rests on: whoever is paid is a known owner,
\* only a live auction has money in its vault, and an account that does not
\* exist has none.
SupplyInv ==
    /\ SupplyConserved
    /\ config.exists => config.fee_receiver \in Owners
    /\ \A a \in Auctions : /\ Live(a) => auction[a].creator \in Owners
                           /\ ~ Live(a) => vault[a] = 0
    /\ ~ deposit_vault.exists => deposit_vault.amount = 0

LEMMA SupplyInit == Init => SupplyInv
<1> SUFFICES ASSUME Init PROVE SupplyInv
  OBVIOUS
<1>1. Total(vault, Auctions) = 0
  <2>1. \A a \in Auctions : vault[a] = 0
    BY DEF Init
  <2>2. Units(vault, Auctions) = {}
    BY <2>1 DEF Units
  <2> QED  BY <2>2, FS_EmptySet, Zenon DEF Total
<1>2. Total(InitialWallet, Owners) \in Nat
  BY OwnersAssumption, TotalType
<1>3. wallet = InitialWallet /\ deposit_vault.amount = 0
  BY DEF Init
<1>4. SupplyConserved
  BY <1>1, <1>2, <1>3 DEF SupplyConserved
<1> QED  BY <1>4 DEF Init, SupplyInv, Live, NoAuction

\* A bid: from the bidder's wallet into the vault.
LEMMA SupplyBid ==
    ASSUME TypeOK, SupplyInv, NEW a \in Auctions, BidStep(a)
    PROVE  SupplyInv'
<1> PICK bidder \in Bidders, pid \in Proposals, amount \in Nat, old \in Nat,
         with_ext \in BOOLEAN, new_proposals \in {0, 1} :
         OneBid(a, bidder, pid, amount, old, with_ext, new_proposals)
  BY DEF BidStep
<1> DEFINE new_total == proposal_total[a][pid] + amount
<1>1. /\ BookBid(a, bidder, pid, new_total, amount, with_ext, new_proposals)
      /\ Live(a) /\ amount <= wallet[bidder]
  BY DEF OneBid
<1> HIDE DEF new_total
<1>2. /\ wallet' = Debit(wallet, bidder, amount) /\ vault' = Credit(vault, a, amount)
      /\ config' = config /\ deposit_vault' = deposit_vault
  BY <1>1 DEF BookBid
<1>3. \A b \in Auctions : /\ auction'[b].status = auction[b].status
                          /\ auction'[b].creator = auction[b].creator
  BY <1>1, BookFacts
<1>4. /\ Total(wallet', Owners) = Total(wallet, Owners) - amount
      /\ Total(vault', Auctions) = Total(vault, Auctions) + amount
  <2>1. bidder \in Owners
    BY DEF Owners
  <2> QED  BY <1>1, <1>2, <2>1, MoveTotals
<1>5. SupplyConserved'
  <2>1. deposit_vault.amount \in Nat
    BY DEF TypeOK
  <2> QED  BY <1>2, <1>4, <2>1, SumsType DEF SupplyInv, SupplyConserved
<1>6. \A b \in Auctions : b # a => vault'[b] = vault[b]
  BY <1>2 DEF Credit, TypeOK
<1> QED  BY <1>1, <1>2, <1>3, <1>5, <1>6 DEF SupplyInv, Live

\* A creation: the deposit goes from the creator's wallet to the deposit vault.
LEMMA SupplyCreate ==
    ASSUME TypeOK, SupplyInv, NEW a \in Auctions, Create(a)
    PROVE  SupplyInv'
<1>1. PICK creator \in Creators, duration \in Nat, extension \in Nat,
           schema \in {1, 2, 3}, r \in AuctionType :
           Created(a, creator, duration, extension, schema, r)
  BY CreateFacts
<1>2. /\ ~ Live(a) /\ vault[a] = 0 /\ vault' = [vault EXCEPT ![a] = 0]
      /\ r.creator = creator /\ r.status = "live"
      /\ auction' = [auction EXCEPT ![a] = r]
  BY <1>1 DEF Created, SupplyInv
<1>3. vault' = vault
  BY <1>2 DEF TypeOK
<1>4. \A b \in Auctions : auction'[b] = IF b = a THEN r ELSE auction[b]
  BY <1>2 DEF TypeOK
<1>5. config'.exists => config'.fee_receiver \in Owners
  <2>1. config' = [config EXCEPT !.auction_count = @ + 1] /\ config.exists
    BY DEF Create, CreateAuction, LegacyCreate
  <2> QED  BY <2>1 DEF SupplyInv, TypeOK, ConfigType
<1>6. /\ Total(wallet', Owners) + deposit_vault'.amount
             = Total(wallet, Owners) + deposit_vault.amount
      /\ ~ deposit_vault'.exists => deposit_vault'.amount = 0
  <2>1. CASE schema = 3
    <3>1. /\ wallet' = Debit(wallet, creator, CreatorDeposit)
          /\ CreatorDeposit <= wallet[creator] /\ deposit_vault.exists
          /\ deposit_vault' = [deposit_vault EXCEPT !.amount = @ + CreatorDeposit]
      BY <1>1, <2>1 DEF Created
    <3>2. /\ Total(wallet', Owners) = Total(wallet, Owners) - CreatorDeposit
          /\ Total(wallet, Owners) \in Nat
      BY <3>1, MoveTotals, SumsType, LimitsAssumption DEF Owners
    <3>3. deposit_vault'.amount = deposit_vault.amount + CreatorDeposit /\ deposit_vault'.exists
      BY <3>1 DEF TypeOK
    <3>4. deposit_vault.amount \in Nat /\ CreatorDeposit \in Nat
      BY LimitsAssumption DEF TypeOK
    <3> QED  BY <3>2, <3>3, <3>4
  <2>2. CASE schema # 3
    BY <1>1, <2>2 DEF Created, SupplyInv
  <2> QED  BY <2>1, <2>2
<1>7. SupplyConserved'
  <2>1. /\ deposit_vault.amount \in Nat /\ Total(vault, Auctions) \in Nat
        /\ Total(wallet, Owners) \in Nat
    BY SumsType DEF TypeOK
  <2>2. TypeOK'
    BY TypeCreate
  <2>3. deposit_vault'.amount \in Nat /\ Total(wallet', Owners) \in Nat
    <3>1. \A o \in Owners : wallet'[o] \in Nat
      BY <2>2 DEF TypeOK
    <3> QED  BY <2>2, <3>1, TotalType, OwnersAssumption DEF TypeOK
  <2> QED  BY <1>3, <1>6, <2>1, <2>3 DEF SupplyInv, SupplyConserved
<1> QED  BY <1>2, <1>3, <1>4, <1>5, <1>6, <1>7 DEF SupplyInv, Live, Owners

\* Settlement: pot units leave the vault and refund units the deposit vault,
\* and all of them arrive in two wallets.
LEMMA SupplyPaid ==
    ASSUME TypeOK, SupplyInv, NEW a \in Auctions, NEW pot \in Nat, pot <= vault[a],
           NEW refund \in Nat, refund <= deposit_vault.amount,
           NEW u \in Owners, NEW v \in Owners, NEW x \in Nat, NEW y \in Nat,
           x + y = pot + refund,
           vault' = Debit(vault, a, pot),
           wallet' = Credit(Credit(wallet, u, x), v, y),
           deposit_vault' = [deposit_vault EXCEPT !.amount = @ - refund]
    PROVE  /\ SupplyConserved'
           /\ \A b \in Auctions : b # a => vault'[b] = vault[b]
<1> DEFINE w == Credit(wallet, u, x)
<1>1. Total(vault', Auctions) = Total(vault, Auctions) - pot
  BY MoveTotals
<1>2. Total(w, Owners) = Total(wallet, Owners) + x /\ w \in [Owners -> Nat]
  <2>1. wallet \in [Owners -> Nat]
    BY DEF TypeOK
  <2>2. w \in [Owners -> Nat]
    BY <2>1, CreditType, Zenon
  <2>3. Total(w, Owners) = Total(wallet, Owners) + x
    BY MoveTotals, Zenon
  <2> QED  BY <2>2, <2>3
<1> HIDE DEF w
<1>3. Total(wallet', Owners) = Total(wallet, Owners) + x + y
  <2>1. IsFiniteSet(Owners) /\ wallet' = Credit(w, v, y)
    BY OwnersAssumption DEF w
  <2>2. Total(wallet', Owners) = Total(w, Owners) + y
    BY <1>2, <2>1, CreditTotal, Zenon
  <2> QED  BY <1>2, <2>2
<1>4. deposit_vault'.amount = deposit_vault.amount - refund /\ deposit_vault.amount \in Nat
  BY DEF TypeOK
<1>5. Total(wallet, Owners) \in Nat /\ Total(vault, Auctions) \in Nat
  BY SumsType
<1>6. SupplyConserved'
  BY <1>1, <1>3, <1>4, <1>5 DEF SupplyInv, SupplyConserved
<1> QED  BY <1>6 DEF Debit, TypeOK

LEMMA SupplyClaim ==
    ASSUME TypeOK, SupplyInv, NEW a \in Auctions, ClaimWinnings(a)
    PROVE  SupplyInv'
<1> DEFINE pot    == WinnersPot(a)
           refund == DepositOwed(a)
<1>1. auction[a].fee_bps \in 0 .. MaxFeeBps /\ auction[a].winners \in Seq(Slot)
  BY DEF TypeOK, AuctionType
<1>2. pot \in Nat /\ refund \in Nat
  BY <1>1, PotType, LimitsAssumption DEF DepositOwed
<1>3. /\ pot <= vault[a] /\ refund <= deposit_vault.amount
      /\ vault' = Debit(vault, a, pot)
      /\ wallet' = Credit(Credit(wallet, auction[a].creator, Payout(a, pot) + refund),
                         config.fee_receiver, Fee(a, pot))
      /\ deposit_vault' = [deposit_vault EXCEPT !.amount = @ - refund]
      /\ auction' = [auction EXCEPT ![a].creator_paid = TRUE]
      /\ config' = config /\ Live(a) /\ config.exists /\ deposit_vault.exists
  BY DEF ClaimWinnings, PotCovered
<1> HIDE DEF pot, refund
<1>4. /\ Payout(a, pot) + refund \in Nat /\ Fee(a, pot) \in Nat
      /\ Payout(a, pot) + refund + Fee(a, pot) = pot + refund
  <2>1. Fee(a, pot) \in 0 .. pot /\ Payout(a, pot) \in 0 .. pot
    BY <1>1, <1>2, FeeWithinPot
  <2> DEFINE fee == Fee(a, pot)
  <2>2. Payout(a, pot) = pot - fee
    BY DEF Payout
  <2> HIDE DEF fee
  <2> QED  BY <1>2, <2>1, <2>2 DEF fee
<1>5. auction[a].creator \in Owners /\ config.fee_receiver \in Owners
  BY <1>3 DEF SupplyInv
<1>6. SupplyConserved' /\ \A b \in Auctions : b # a => vault'[b] = vault[b]
  <2> DEFINE x == Payout(a, pot) + refund
             y == Fee(a, pot)
  <2>1. x \in Nat /\ y \in Nat /\ x + y = pot + refund
    BY <1>4
  <2>2. wallet' = Credit(Credit(wallet, auction[a].creator, x), config.fee_receiver, y)
    BY <1>3
  <2> HIDE DEF x, y
  <2> QED  BY <1>2, <1>3, <1>5, <2>1, <2>2, SupplyPaid
<1>7. /\ \A b \in Auctions : /\ auction'[b].status = auction[b].status
                             /\ auction'[b].creator = auction[b].creator
      /\ deposit_vault'.exists
  <2>1. /\ \A b \in Auctions : b # a => auction'[b] = auction[b]
        /\ auction'[a].status = auction[a].status /\ SameTerms(a)
    BY <1>3, PaidFacts
  <2> QED  BY <1>3, <2>1 DEF SameTerms, TypeOK
<1> QED  BY <1>3, <1>6, <1>7 DEF SupplyInv, Live

LEMMA SupplyWithdraw ==
    ASSUME TypeOK, SupplyInv, NEW a \in Auctions, WithdrawABid(a)
    PROVE  SupplyInv'
<1> PICK pid \in Proposals, bidder \in Bidders, b \in Auctions :
         \E seen_bid \in BidsRead(b, <<pid, bidder>>) : Withdraw(a, pid, bidder, b, seen_bid)
  BY DEF WithdrawABid
<1> PICK seen_bid \in BidsRead(b, <<pid, bidder>>) : Withdraw(a, pid, bidder, b, seen_bid)
  OBVIOUS
<1>1. /\ vault' = Debit(vault, a, seen_bid) /\ wallet' = Credit(wallet, bidder, seen_bid)
      /\ seen_bid <= vault[a] /\ Live(a)
      /\ auction' = auction /\ config' = config /\ deposit_vault' = deposit_vault
  BY DEF Withdraw
<1>2. seen_bid \in Nat
  BY DEF BidsRead
<1>3. /\ Total(wallet', Owners) = Total(wallet, Owners) + seen_bid
      /\ Total(vault', Auctions) = Total(vault, Auctions) - seen_bid
  <2>1. bidder \in Owners
    BY DEF Owners
  <2> QED  BY <1>1, <1>2, <2>1, MoveTotals
<1>4. SupplyConserved'
  <2>1. deposit_vault.amount \in Nat
    BY DEF TypeOK
  <2> QED  BY <1>1, <1>2, <1>3, <2>1, SumsType DEF SupplyInv, SupplyConserved
<1>5. \A c \in Auctions : c # a => vault'[c] = vault[c]
  BY <1>1 DEF Debit, TypeOK
<1> QED  BY <1>1, <1>4, <1>5 DEF SupplyInv, Live

\* Closing moves no money: an account goes only when it is empty.
LEMMA SupplyClose ==
    ASSUME TypeOK, SupplyInv, NEW a \in Auctions,
           CloseAuction(a) \/ Cancel(a) \/ ForceCloseAuction(a)
    PROVE  SupplyInv'
<1>1. CloseAccounts(a) /\ vault' = vault /\ config' = config /\ Live(a)
  BY DEF CloseAuction, Cancel, CancelAuction, ForceCloseAuction
<1>2. /\ vault[a] = 0 /\ auction'[a].status = "closed"
      /\ \A b \in Auctions : b # a => auction'[b] = auction[b]
  BY <1>1, ClosedFacts
<1>3. /\ SupplyConserved'
      /\ ~ deposit_vault'.exists => deposit_vault'.amount = 0
  <2>1. CASE wallet' = wallet /\ deposit_vault' = deposit_vault
    BY <1>1, <2>1 DEF SupplyInv, SupplyConserved
  <2>2. CASE Cancel(a)
    <3> DEFINE owed == DepositOwed(a)
    <3>1. /\ wallet' = Credit(wallet, auction[a].creator, owed)
          /\ deposit_vault' = [deposit_vault EXCEPT !.amount = @ - owed]
          /\ owed <= deposit_vault.amount /\ deposit_vault.exists
      BY <2>2 DEF Cancel, CancelAuction
    <3>2. owed \in Nat
      BY LimitsAssumption DEF DepositOwed
    <3> HIDE DEF owed
    <3>3. auction[a].creator \in Owners
      BY <1>1 DEF SupplyInv
    <3>4. Total(wallet', Owners) = Total(wallet, Owners) + owed
      BY <3>1, <3>2, <3>3, MoveTotals
    <3>5. /\ deposit_vault'.amount = deposit_vault.amount - owed /\ deposit_vault'.exists
          /\ deposit_vault.amount \in Nat
      BY <3>1 DEF TypeOK
    <3> QED  BY <1>1, <3>2, <3>4, <3>5, SumsType DEF SupplyInv, SupplyConserved
  <2>3. Cancel(a) \/ (wallet' = wallet /\ deposit_vault' = deposit_vault)
    BY DEF CloseAuction, ForceCloseAuction
  <2> QED  BY <2>1, <2>2, <2>3
<1> QED  BY <1>1, <1>2, <1>3 DEF SupplyInv, Live

LEMMA SupplyDonate == ASSUME TypeOK, SupplyInv, Donate PROVE SupplyInv'
<1> PICK donor \in Donors, amount \in StrayAmounts :
         \/ \E a \in Auctions : DonateToVault(donor, a, amount)
         \/ DonateToDepositVault(donor, amount)
  BY DEF Donate
<1>1. /\ amount \in Nat /\ amount <= wallet[donor]
      /\ wallet' = Debit(wallet, donor, amount)
      /\ config' = config /\ auction' = auction
  BY InputsAssumption DEF DonateToVault, DonateToDepositVault
<1>2. Total(wallet', Owners) = Total(wallet, Owners) - amount /\ Total(wallet, Owners) \in Nat
  BY <1>1, MoveTotals, SumsType DEF Owners
<1>3. ASSUME NEW a \in Auctions, DonateToVault(donor, a, amount) PROVE SupplyInv'
  <2>1. vault' = Credit(vault, a, amount) /\ deposit_vault' = deposit_vault /\ Live(a)
    BY <1>3 DEF DonateToVault
  <2>2. Total(vault', Auctions) = Total(vault, Auctions) + amount
    BY <1>1, <2>1, MoveTotals
  <2>3. SupplyConserved'
    <3>1. deposit_vault.amount \in Nat
      BY DEF TypeOK
    <3> QED  BY <1>1, <1>2, <2>1, <2>2, <3>1, SumsType DEF SupplyInv, SupplyConserved
  <2>4. \A b \in Auctions : b # a => vault'[b] = vault[b]
    BY <2>1 DEF Credit, TypeOK
  <2> QED  BY <1>1, <2>1, <2>3, <2>4 DEF SupplyInv, Live
<1>4. CASE DonateToDepositVault(donor, amount)
  <2>1. /\ deposit_vault' = [deposit_vault EXCEPT !.amount = @ + amount]
        /\ deposit_vault.exists /\ vault' = vault
    BY <1>4 DEF DonateToDepositVault
  <2>2. /\ deposit_vault'.amount = deposit_vault.amount + amount /\ deposit_vault'.exists
        /\ deposit_vault.amount \in Nat
    BY <2>1 DEF TypeOK
  <2>3. SupplyConserved'
    BY <1>1, <1>2, <2>1, <2>2, SumsType DEF SupplyInv, SupplyConserved
  <2> QED  BY <1>1, <2>1, <2>2, <2>3 DEF SupplyInv, Live
<1> QED  BY <1>3, <1>4

LEMMA SupplyStep == TypeOK /\ SupplyInv /\ [Next]_vars => SupplyInv'
<1> SUFFICES ASSUME TypeOK, SupplyInv, [Next]_vars PROVE SupplyInv'
  OBVIOUS
<1>1. CASE UNCHANGED vars \/ Tick
  BY <1>1 DEF vars, Tick, accounts, history, SupplyInv, SupplyConserved, Live
<1>2. CASE Configure
  <2>1. wallet' = wallet /\ vault' = vault /\ auction' = auction
    BY <1>2 DEF Configure, Initialize, SetConfig, InitDepositVault
  <2>2. config'.exists => config'.fee_receiver \in Owners
    <3>1. ASSUME NEW owner, NEW receiver \in Receivers, NEW fee, Initialize(owner, fee, receiver)
          PROVE  config'.fee_receiver = receiver
      BY <3>1 DEF Initialize
    <3>2. ASSUME NEW signer, NEW receiver \in Receivers, NEW fee, SetConfig(signer, fee, receiver)
          PROVE  config'.fee_receiver = receiver
      BY <3>2 DEF SetConfig, TypeOK, ConfigType
    <3>3. CASE InitDepositVault
      BY <3>3 DEF InitDepositVault, SupplyInv
    <3> QED  BY <1>2, <3>1, <3>2, <3>3 DEF Configure, Owners
  <2>3. deposit_vault'.amount = deposit_vault.amount
        /\ (~ deposit_vault'.exists => deposit_vault'.amount = 0)
    <3>1. CASE InitDepositVault
      BY <3>1 DEF InitDepositVault, SupplyInv
    <3>2. CASE ~ InitDepositVault
      <4>1. deposit_vault' = deposit_vault
        BY <1>2, <3>2 DEF Configure, Initialize, SetConfig
      <4> QED  BY <4>1 DEF SupplyInv
    <3> QED  BY <3>1, <3>2
  <2> QED  BY <2>1, <2>2, <2>3 DEF SupplyInv, SupplyConserved, Live
<1>3. ASSUME NEW a \in Auctions, OnAuction(a) PROVE SupplyInv'
  BY <1>3, SupplyCreate, SupplyBid, BidsAreCurrent, SupplyClaim, SupplyWithdraw, SupplyClose
     DEF OnAuction
<1> QED  BY <1>1, <1>2, <1>3, SupplyDonate DEF Next

\* No instruction makes or loses USDC, whatever the fee rates and the order.
THEOREM SupplyAlwaysConserved == Spec => []SupplyConserved
<1>1. SupplyInv => SupplyConserved
  BY DEF SupplyInv
<1> QED  BY <1>1, TypeInit, TypeStep, SupplyInit, SupplyStep, PTL DEF Spec

----------------------------------------------------------------------------
(* Positions, totals and vaults. *)

\* What has to hold of one auction: TotalsMatchBids and VaultBacksBids of it,
\* and what they rest on.  The creator is paid after the end only, so no bid
\* follows; nothing was staked on an auction before it is created; and a Bid
\* leaf that was never written counts as a position of nothing.
TotalsAt(a) ==
    /\ auction[a].total_staked = Total(proposal_total[a], Proposals)
    /\ \A p \in Proposals :
          ~ Ended(a) \/ p \in Seated(auction[a].winners) =>
              proposal_total[a][p] = Total(Staked(a), {p} \X Bidders)

BackedAt(a) ==
    vault[a] = stray[a] + Total(Staked(a), IF auction[a].creator_paid
                                           THEN LosingKeys(a) ELSE Keys)

LeavesAt(a) ==
    /\ auction[a].creator_paid => Ended(a)
    /\ auction[a].status = "none" =>
          /\ \A k \in Keys : bid[a][k].amount = 0
          /\ \A p \in Proposals : proposal_total[a][p] = 0
    /\ \A k \in Keys : bid[a][k].leaf = "none" => bid[a][k].amount = 0

StakeAt(a) == TotalsAt(a) /\ BackedAt(a) /\ LeavesAt(a)

StakeInv == \A a \in Auctions : StakeAt(a)

LEMMA KeysFinite ==
    /\ IsFiniteSet(Proposals) /\ IsFiniteSet(Bidders) /\ IsFiniteSet(Keys)
    /\ \A S \in SUBSET Keys : IsFiniteSet(S)
<1>1. IsFiniteSet(Proposals)
  <2>1. 0 \in Int /\ MaxProposals - 1 \in Int
    BY BoundsAssumption
  <2> QED  BY <2>1, FS_Interval, Zenon DEF Proposals
<1>2. IsFiniteSet(Bidders)
  <2>1. Bidders \in SUBSET Owners
    BY DEF Owners
  <2> QED  BY <2>1, OwnersAssumption, FS_Subset
<1>3. IsFiniteSet(Keys)
  BY <1>1, <1>2, FS_Product DEF Keys
<1> QED  BY <1>1, <1>2, <1>3, FS_Subset

LEMMA StakedFacts ==
    ASSUME TypeOK, NEW a \in Auctions
    PROVE  /\ \A k \in Keys : Staked(a)[k] = bid[a][k].amount /\ Staked(a)[k] \in Nat
           /\ \A S \in SUBSET Keys : Total(Staked(a), S) \in Nat
<1>1. \A k \in Keys : Staked(a)[k] = bid[a][k].amount /\ bid[a][k] \in BidType
  BY DEF Staked, TypeOK
<1>2. \A k \in Keys : Staked(a)[k] \in Nat
  BY <1>1 DEF BidType
<1>3. ASSUME NEW S \in SUBSET Keys PROVE Total(Staked(a), S) \in Nat
  BY <1>2, KeysFinite, TotalType
<1> QED  BY <1>1, <1>2, <1>3

\* Writing one Bid leaf changes the sums it is part of, and no other.
LEMMA StakeChange ==
    ASSUME TypeOK, NEW a \in Auctions, NEW key \in Keys, NEW r \in BidType,
           bid' = [bid EXCEPT ![a][key] = r]
    PROVE  /\ \A S \in SUBSET Keys :
                 /\ key \in S => Total(Staked(a)', S)
                                    = Total(Staked(a), S) - bid[a][key].amount + r.amount
                 /\ key \notin S => Total(Staked(a)', S) = Total(Staked(a), S)
           /\ \A b \in Auctions : b # a => bid'[b] = bid[b]
           /\ \A k \in Keys : bid'[a][k] = IF k = key THEN r ELSE bid[a][k]
<1>1. bid \in [Auctions -> [Keys -> BidType]]
  BY DEF TypeOK
<1>2. /\ \A b \in Auctions : b # a => bid'[b] = bid[b]
      /\ \A k \in Keys : bid'[a][k] = IF k = key THEN r ELSE bid[a][k]
  BY <1>1
<1> DEFINE f == Staked(a)
           g == Staked(a)'
<1>3. \A k \in Keys : g[k] = IF k = key THEN r.amount ELSE f[k]
  BY <1>2 DEF Staked
<1>4. (\A k \in Keys : f[k] \in Nat) /\ r.amount \in Nat /\ f[key] = bid[a][key].amount
  BY StakedFacts DEF BidType
<1> HIDE DEF f, g
<1>5. ASSUME NEW S \in SUBSET Keys, key \in S PROVE Total(g, S) = Total(f, S) - f[key] + r.amount
  <2>1. /\ IsFiniteSet(S) /\ \A k \in S : f[k] \in Nat
        /\ \A k \in S \ {key} : g[k] = f[k]
        /\ g[key] = r.amount /\ g[key] \in Nat
    BY <1>3, <1>4, <1>5, KeysFinite
  <2>2. Total(g, S) = Total(f, S) - f[key] + g[key]
    BY <1>5, <2>1, TotalChange
  <2> QED  BY <2>1, <2>2
<1>6. ASSUME NEW S \in SUBSET Keys, key \notin S PROVE Total(g, S) = Total(f, S)
  <2>1. \A k \in S : g[k] = f[k]
    BY <1>3, <1>6
  <2> QED  BY <2>1, TotalSame
<1> QED  BY <1>2, <1>4, <1>5, <1>6 DEF f, g

LEMMA StakeInit == Init => StakeInv
<1> SUFFICES ASSUME Init, NEW a \in Auctions PROVE StakeAt(a)
  BY DEF StakeInv
<1>1. /\ vault[a] = 0 /\ stray[a] = 0 /\ auction[a] = NoAuction
      /\ \A k \in Keys : bid[a][k].amount = 0 /\ Staked(a)[k] = 0
      /\ \A p \in Proposals : proposal_total[a][p] = 0
  BY DEF Init, Staked
<1>2. \A S \in SUBSET Keys : Total(Staked(a), S) = 0
  BY <1>1, TotalZero
<1>3. Total(proposal_total[a], Proposals) = 0
  BY <1>1, TotalZero
<1>4. (\A p \in Proposals : {p} \X Bidders \in SUBSET Keys) /\ LosingKeys(a) \in SUBSET Keys
  BY DEF Keys, LosingKeys
<1>5. TotalsAt(a) /\ BackedAt(a)
  BY <1>1, <1>2, <1>3, <1>4 DEF TotalsAt, BackedAt, NoAuction
<1>6. now = 0 /\ auction[a].end_time = 0
  BY <1>1 DEF Init, NoAuction
<1> QED  BY <1>1, <1>5, <1>6 DEF StakeAt, LeavesAt, Ended, NoAuction

\* An auction whose money, leaves and terms a step leaves alone.
LEMMA StakeSame ==
    ASSUME TypeOK, now' >= now, now' \in Nat, NEW a \in Auctions, StakeAt(a),
           bid'[a] = bid[a], proposal_total'[a] = proposal_total[a],
           vault'[a] - stray'[a] = vault[a] - stray[a],
           vault'[a] \in Nat, stray'[a] \in Nat,
           auction'[a] = auction[a] \/ SameTerms(a),
           auction'[a].creator_paid = auction[a].creator_paid,
           auction'[a].status = "none" => auction[a].status = "none"
    PROVE  StakeAt(a)'
<1>1. /\ Staked(a)' = Staked(a) /\ LosingKeys(a)' = LosingKeys(a)
      /\ auction'[a].winners = auction[a].winners
      /\ auction'[a].total_staked = auction[a].total_staked
      /\ auction'[a].end_time = auction[a].end_time
  BY DEF Staked, LosingKeys, SameTerms
<1>2. Ended(a) => Ended(a)'
  <2>1. now \in Nat /\ auction[a].end_time \in Nat
    BY BoundsAssumption DEF TypeOK, AuctionType
  <2> QED  BY <1>1, <2>1 DEF Ended
<1>3. TotalsAt(a)'
  BY <1>1, <1>2 DEF StakeAt, TotalsAt
<1>4. BackedAt(a)'
  <2>1. LosingKeys(a) \in SUBSET Keys /\ vault[a] \in Nat /\ stray[a] \in Nat
    BY DEF LosingKeys, TypeOK
  <2> DEFINE owed == Total(Staked(a), IF auction[a].creator_paid THEN LosingKeys(a) ELSE Keys)
  <2>2. owed \in Nat
    BY <2>1, StakedFacts
  <2>3. vault[a] = stray[a] + owed
    BY DEF StakeAt, BackedAt
  <2>4. BackedAt(a)' <=> vault'[a] = stray'[a] + owed
    BY <1>1 DEF BackedAt
  <2> HIDE DEF owed
  <2> QED  BY <2>1, <2>2, <2>3, <2>4
<1>5. LeavesAt(a)'
  BY <1>1, <1>2 DEF StakeAt, LeavesAt
<1> QED  BY <1>3, <1>4, <1>5 DEF StakeAt

\* A bid: one position, its proposal, the auction and its vault grow alike.
LEMMA StakeBid ==
    ASSUME TypeOK, TypeOK', StakeInv, NEW a \in Auctions, BidStep(a)
    PROVE  StakeInv'
<1> PICK bidder \in Bidders, pid \in Proposals, amount \in Nat, old \in Nat,
         with_ext \in BOOLEAN, new_proposals \in {0, 1} :
         OneBid(a, bidder, pid, amount, old, with_ext, new_proposals)
  BY DEF BidStep
<1> DEFINE key == <<pid, bidder>>
           new_total == proposal_total[a][pid] + amount
           r == [leaf |-> "live", amount |-> old + amount]
<1>1. /\ BookBid(a, bidder, pid, new_total, amount, with_ext, new_proposals)
      /\ Live(a) /\ BiddingOpen(a)
      /\ bid' = [bid EXCEPT ![a][key] = r]
      /\ \/ bid[a][key].leaf = "none" /\ old = 0
         \/ old = bid[a][key].amount
  BY DEF OneBid
<1>2. key \in Keys /\ r \in BidType /\ old = bid[a][key].amount
  <2>1. key \in Keys
    BY DEF Keys
  <2>2. old = bid[a][key].amount
    BY <1>1, <2>1 DEF StakeInv, StakeAt, LeavesAt
  <2> QED  BY <2>1, <2>2 DEF BidType
<1>3. /\ \A S \in SUBSET Keys :
            /\ key \in S => Total(Staked(a)', S) = Total(Staked(a), S) + amount
            /\ key \notin S => Total(Staked(a)', S) = Total(Staked(a), S)
      /\ \A b \in Auctions : b # a => bid'[b] = bid[b]
      /\ \A k \in Keys : bid'[a][k] = IF k = key THEN r ELSE bid[a][k]
  <2>1. \A S \in SUBSET Keys : Total(Staked(a), S) \in Nat
    BY StakedFacts
  <2> HIDE DEF key
  <2>2. /\ \A S \in SUBSET Keys :
              /\ key \in S => Total(Staked(a)', S)
                                 = Total(Staked(a), S) - bid[a][key].amount + r.amount
              /\ key \notin S => Total(Staked(a)', S) = Total(Staked(a), S)
        /\ \A b \in Auctions : b # a => bid'[b] = bid[b]
        /\ \A k \in Keys : bid'[a][k] = IF k = key THEN r ELSE bid[a][k]
    <3> HIDE DEF r
    <3> QED  BY <1>1, <1>2, StakeChange
  <2> QED  BY <1>2, <2>1, <2>2
<1>4. /\ new_total \in Nat /\ proposal_total'[a][pid] = new_total
      /\ \A p \in Proposals : p # pid => proposal_total'[a][p] = proposal_total[a][p]
      /\ \A b \in Auctions : b # a => proposal_total'[b] = proposal_total[b]
  BY BidFacts
<1>5. /\ \A b \in Auctions : b # a => auction'[b] = auction[b]
      /\ \A b \in Auctions : /\ auction'[b].status = auction[b].status
                             /\ auction'[b].creator_paid = auction[b].creator_paid
      /\ auction'[a].total_staked = auction[a].total_staked + amount
  <2> HIDE DEF new_total
  <2> QED  BY <1>1, BookFacts
<1>6. /\ vault' = Credit(vault, a, amount) /\ stray' = stray /\ now' = now
  BY <1>1 DEF BookBid
<1>7. /\ vault'[a] = vault[a] + amount /\ vault[a] \in Nat /\ stray[a] \in Nat
      /\ \A b \in Auctions : b # a => vault'[b] = vault[b]
  BY <1>6 DEF Credit, TypeOK
<1>8. now \in Nat /\ ~ Ended(a) /\ ~ auction[a].creator_paid
  <2>1. now \in Nat /\ auction[a].end_time \in Nat
    BY BoundsAssumption DEF TypeOK, AuctionType
  <2>2. ~ Ended(a)
    BY <1>1, <2>1 DEF Ended, BiddingOpen
  <2> QED  BY <2>1, <2>2 DEF StakeInv, StakeAt, LeavesAt
<1>9. TotalsAt(a)'
  <2>1. auction'[a].total_staked = Total(proposal_total'[a], Proposals)
    <3>1. /\ \A p \in Proposals : proposal_total[a][p] \in Nat
          /\ \A p \in Proposals \ {pid} : proposal_total'[a][p] = proposal_total[a][p]
          /\ proposal_total'[a][pid] \in Nat
      BY <1>4 DEF TypeOK
    <3>2. Total(proposal_total'[a], Proposals)
              = Total(proposal_total[a], Proposals) - proposal_total[a][pid]
                    + proposal_total'[a][pid]
      BY <3>1, KeysFinite, TotalChange
    <3>3. auction[a].total_staked = Total(proposal_total[a], Proposals)
          /\ Total(proposal_total[a], Proposals) \in Nat
      BY <3>1, KeysFinite, TotalType DEF StakeInv, StakeAt, TotalsAt
    <3> QED  BY <1>4, <1>5, <3>1, <3>2, <3>3
  <2>2. ASSUME NEW p \in Proposals
        PROVE  proposal_total'[a][p] = Total(Staked(a)', {p} \X Bidders)
    <3>1. {p} \X Bidders \in SUBSET Keys /\ (key \in {p} \X Bidders <=> p = pid)
      BY DEF Keys
    <3>2. proposal_total[a][p] = Total(Staked(a), {p} \X Bidders)
      BY <1>8 DEF StakeInv, StakeAt, TotalsAt
    <3> HIDE DEF key
    <3> QED  BY <1>3, <1>4, <3>1, <3>2
  <2> QED  BY <2>1, <2>2 DEF TotalsAt
<1>10. BackedAt(a)'
  <2>1. vault[a] = stray[a] + Total(Staked(a), Keys) /\ Total(Staked(a), Keys) \in Nat
    BY <1>8, StakedFacts DEF StakeInv, StakeAt, BackedAt
  <2>2. Total(Staked(a)', Keys) = Total(Staked(a), Keys) + amount
    BY <1>2, <1>3
  <2> QED  BY <1>5, <1>6, <1>7, <1>8, <2>1, <2>2 DEF BackedAt
<1>11. LeavesAt(a)'
  BY <1>1, <1>2, <1>3, <1>5, <1>8 DEF StakeInv, StakeAt, LeavesAt, Live
<1>12. ASSUME NEW b \in Auctions, b # a PROVE StakeAt(b)'
  <2>1. vault'[b] - stray'[b] = vault[b] - stray[b] /\ vault'[b] \in Nat /\ stray'[b] \in Nat
    BY <1>6, <1>7, <1>12 DEF TypeOK
  <2>2. now' >= now /\ now' \in Nat
    BY <1>6, <1>8
  <2>3. StakeAt(b)
    BY DEF StakeInv
  <2> QED  BY <1>3, <1>4, <1>5, <1>12, <2>1, <2>2, <2>3, StakeSame
<1> QED  BY <1>9, <1>10, <1>11, <1>12 DEF StakeInv, StakeAt

\* The pot is what was staked on the winners: every slot carries the total of
\* its proposal, no proposal has two, and that total is the sum of the positions.
LEMMA PotIsWinningStakes ==
    ASSUME TypeOK, TopInv, NEW a \in Auctions, StakeAt(a), auction[a].status # "none"
    PROVE  Total(Staked(a), Keys) = WinnersPot(a) + Total(Staked(a), LosingKeys(a))
<1> DEFINE w == auction[a].winners
           f == [i \in DOMAIN w |-> w[i].total]
           winners == Seated(w)
           totals == proposal_total[a]
           mine == Keys \ LosingKeys(a)
<1>1. /\ w \in Seq(Slot) /\ DOMAIN w = 1 .. Len(w) /\ Len(w) \in Nat
      /\ \A i \in DOMAIN w : w[i] \in Slot
  <2>1. w \in Seq(Slot)
    BY DEF TypeOK, AuctionType
  <2> QED  BY <2>1, LenProperties, ElementOfSeq
<1>2. /\ \A i \in DOMAIN w : w[i].proposal_id \in Proposals /\ w[i].total = totals[w[i].proposal_id]
      /\ \A i, j \in DOMAIN w : w[i].proposal_id = w[j].proposal_id => i = j
  <2>1. IsLeaderBoard(w, auction[a].winner_count, totals, auction[a].proposal_count)
    BY DEF TopInv, WinnersAreTop
  <2>2. auction[a].proposal_count \in 0 .. MaxProposals /\ MaxProposals \in Nat
    BY BoundsAssumption DEF TypeOK, AuctionType
  <2> HIDE DEF w, totals
  <2>3. \A i \in DOMAIN w : w[i].proposal_id \in Nat
    BY <1>1 DEF Slot
  <2> QED  BY <2>1, <2>2, <2>3 DEF IsLeaderBoard, Proposals
<1>3. \A p \in Proposals : totals[p] \in Nat
  BY DEF TypeOK
<1>4. \A p \in winners : totals[p] = Total(Staked(a), {p} \X Bidders)
  <2>1. winners \subseteq Proposals
    BY <1>2 DEF Seated
  <2> QED  BY <2>1 DEF StakeAt, TotalsAt
<1>5. /\ mine \in SUBSET Keys /\ LosingKeys(a) \in SUBSET Keys
      /\ \A k \in Keys : k \in mine <=> k[1] \in winners
      /\ \A p \in winners : p \in Proposals
  BY <1>2 DEF LosingKeys, Seated
<1>6. IsFiniteSet(DOMAIN w) /\ IsFiniteSet(winners) /\ IsFiniteSet(mine)
      /\ IsFiniteSet(LosingKeys(a))
  <2> HIDE DEF w, winners, mine
  <2>1. IsFiniteSet(DOMAIN w)
    BY <1>1, FS_Interval
  <2>2. winners \in SUBSET Proposals
    BY <1>5
  <2> QED  BY <1>5, <2>1, <2>2, KeysFinite, FS_Subset
<1>7. \A i \in DOMAIN w : w[i].proposal_id \in winners
  BY DEF Seated
<1>8. \A p \in winners : \E i \in DOMAIN w : w[i].proposal_id = p
  BY DEF Seated
<1> HIDE DEF w, totals, winners, mine
<1>9. Total(totals, winners) = Total(f, DOMAIN w)
  <2> DEFINE g == [i \in DOMAIN w |-> w[i].proposal_id]
             group == [p \in winners |-> {i \in DOMAIN w : g[i] = p}]
  <2>1. g \in [DOMAIN w -> winners]
    BY <1>7
  <2>2. \A i \in DOMAIN w : f[i] = w[i].total /\ f[i] \in Nat
    BY <1>1 DEF Slot
  <2> HIDE DEF f
  <2>3. ASSUME NEW p \in winners PROVE totals[p] = Total(f, group[p])
    <3>1. PICK i \in DOMAIN w : w[i].proposal_id = p
      BY <1>8
    <3>2. group[p] = {i}
      BY <1>2, <3>1
    <3>3. Total(f, {i}) = f[i]
      BY <2>2, TotalPoint
    <3>4. f[i] = totals[p]
      BY <1>2, <2>2, <3>1
    <3> QED  BY <3>2, <3>3, <3>4
  <2>4. \A p \in winners : totals[p] \in Nat
    BY <1>3, <1>5
  <2>5. \A p \in winners : /\ group[p] \in SUBSET DOMAIN w
                            /\ \A i \in DOMAIN w : i \in group[p] <=> g[i] = p
    OBVIOUS
  <2> HIDE DEF g, group
  <2> QED  BY <1>6, <2>1, <2>2, <2>3, <2>4, <2>5, TotalGrouped
<1>10. Total(totals, winners) = Total(Staked(a), mine)
  <2> DEFINE g == [k \in mine |-> k[1]]
             group == [p \in winners |-> {k \in mine : g[k] = p}]
  <2>1. g \in [mine -> winners]
    BY <1>5
  <2>2. \A k \in mine : Staked(a)[k] \in Nat
    BY <1>5, StakedFacts
  <2>3. ASSUME NEW p \in winners PROVE totals[p] = Total(Staked(a), group[p])
    <3>1. group[p] = {p} \X Bidders
      BY <1>5 DEF Keys
    <3> QED  BY <1>4, <3>1
  <2>4. \A p \in winners : totals[p] \in Nat
    BY <1>3, <1>5
  <2>5. \A p \in winners : /\ group[p] \in SUBSET mine
                            /\ \A k \in mine : k \in group[p] <=> g[k] = p
    OBVIOUS
  <2> HIDE DEF g, group
  <2> QED  BY <1>6, <2>1, <2>2, <2>3, <2>4, <2>5, TotalGrouped
<1>11. Total(Staked(a), Keys) = Total(Staked(a), mine) + Total(Staked(a), LosingKeys(a))
  <2>1. mine \cup LosingKeys(a) = Keys /\ mine \cap LosingKeys(a) = {}
    BY DEF mine, LosingKeys
  <2>2. \A k \in Keys : Staked(a)[k] \in Nat
    BY StakedFacts
  <2> QED  BY <1>6, <2>1, <2>2, TotalDisjoint
<1>12. WinnersPot(a) = Total(f, DOMAIN w)
  BY DEF WinnersPot, w
<1> QED  BY <1>9, <1>10, <1>11, <1>12

\* A claim takes the winning stakes and leaves the losing ones.
LEMMA StakeClaim ==
    ASSUME TypeOK, TypeOK', TopInv, StakeInv, NEW a \in Auctions, ClaimWinnings(a)
    PROVE  StakeInv'
<1> DEFINE pot == WinnersPot(a)
<1>1. /\ Live(a) /\ Ended(a) /\ ~ auction[a].creator_paid /\ pot <= vault[a]
      /\ vault' = Debit(vault, a, pot)
      /\ auction' = [auction EXCEPT ![a].creator_paid = TRUE]
      /\ UNCHANGED <<now, proposal_total, bid, stray>>
  BY DEF ClaimWinnings, PotCovered, history
<1>2. /\ \A b \in Auctions : b # a => auction'[b] = auction[b]
      /\ SameTerms(a) /\ auction'[a].status = auction[a].status /\ auction'[a].creator_paid
  BY <1>1, PaidFacts
<1>3. /\ vault'[a] = vault[a] - pot /\ vault[a] \in Nat /\ stray[a] \in Nat
      /\ \A b \in Auctions : b # a => vault'[b] = vault[b]
  BY <1>1 DEF Debit, TypeOK
<1>4. /\ Staked(a)' = Staked(a) /\ LosingKeys(a)' = LosingKeys(a)
      /\ (Ended(a)' <=> Ended(a)) /\ auction'[a].winners = auction[a].winners
  BY <1>1, <1>2 DEF Staked, LosingKeys, SameTerms, Ended
<1>5. TotalsAt(a)'
  BY <1>1, <1>2, <1>4 DEF StakeInv, StakeAt, TotalsAt, SameTerms
<1>6. BackedAt(a)'
  <2>1. vault[a] = stray[a] + Total(Staked(a), Keys)
    BY <1>1 DEF StakeInv, StakeAt, BackedAt
  <2>2. Total(Staked(a), Keys) = pot + Total(Staked(a), LosingKeys(a))
    <3>1. StakeAt(a) /\ auction[a].status # "none"
      BY <1>1 DEF StakeInv, Live
    <3> QED  BY <3>1, PotIsWinningStakes
  <2>3. pot \in Nat /\ Total(Staked(a), LosingKeys(a)) \in Nat
    <3>1. auction[a].winners \in Seq(Slot) /\ LosingKeys(a) \in SUBSET Keys
      BY DEF TypeOK, AuctionType, LosingKeys
    <3> QED  BY <3>1, PotType, StakedFacts
  <2> HIDE DEF pot
  <2>4. vault'[a] = stray[a] + Total(Staked(a), LosingKeys(a))
    BY <1>3, <2>1, <2>2, <2>3
  <2> QED  BY <1>1, <1>2, <1>4, <2>4 DEF BackedAt
<1>7. LeavesAt(a)'
  BY <1>1, <1>2, <1>4 DEF StakeInv, StakeAt, LeavesAt
<1>8. ASSUME NEW b \in Auctions, b # a PROVE StakeAt(b)'
  <2>1. vault'[b] - stray'[b] = vault[b] - stray[b] /\ vault'[b] \in Nat /\ stray'[b] \in Nat
    BY <1>1, <1>3, <1>8 DEF TypeOK
  <2>2. now' >= now /\ now' \in Nat
    BY <1>1, BoundsAssumption DEF TypeOK
  <2>3. StakeAt(b)
    BY DEF StakeInv
  <2> QED  BY <1>1, <1>2, <1>8, <2>1, <2>2, <2>3, StakeSame
<1> QED  BY <1>5, <1>6, <1>7, <1>8 DEF StakeInv, StakeAt

\* A refund takes one losing position out of the vault and off the books.
LEMMA StakeWithdraw ==
    ASSUME TypeOK, TypeOK', StakeInv, NEW a \in Auctions, WithdrawABid(a)
    PROVE  StakeInv'
<1> PICK pid \in Proposals, bidder \in Bidders, b \in Auctions :
         \E seen_bid \in BidsRead(b, <<pid, bidder>>) : Withdraw(a, pid, bidder, b, seen_bid)
  BY DEF WithdrawABid
<1> PICK seen_bid \in BidsRead(b, <<pid, bidder>>) : Withdraw(a, pid, bidder, b, seen_bid)
  OBVIOUS
<1> DEFINE key == <<pid, bidder>>
           r == ClosedBid(bid[a][key])
<1>1. /\ Live(a) /\ Ended(a) /\ ~ IsWinner(a, pid) /\ seen_bid <= vault[a]
      /\ b = a /\ bid[a][key] = [leaf |-> "live", amount |-> seen_bid]
      /\ vault' = Debit(vault, a, seen_bid)
      /\ bid' = [bid EXCEPT ![a][key] = r]
      /\ UNCHANGED <<now, auction, proposal_total, stray>>
  BY DEF Withdraw, BidBound, BidProved, history
<1>2. /\ key \in Keys /\ key \in LosingKeys(a) /\ r \in BidType
      /\ r.amount = 0 /\ r.leaf = "closed" /\ seen_bid \in Nat /\ seen_bid = bid[a][key].amount
  BY <1>1 DEF Keys, LosingKeys, IsWinner, ClosedBid, BidType, BidsRead
<1> HIDE DEF r
<1>3. /\ \A S \in SUBSET Keys :
            /\ key \in S => Total(Staked(a)', S) = Total(Staked(a), S) - seen_bid
            /\ key \notin S => Total(Staked(a)', S) = Total(Staked(a), S)
      /\ \A c \in Auctions : c # a => bid'[c] = bid[c]
      /\ \A k \in Keys : bid'[a][k] = IF k = key THEN r ELSE bid[a][k]
  <2>1. \A S \in SUBSET Keys : Total(Staked(a), S) \in Nat
    BY StakedFacts
  <2> HIDE DEF key
  <2>2. /\ \A S \in SUBSET Keys :
              /\ key \in S => Total(Staked(a)', S)
                                 = Total(Staked(a), S) - bid[a][key].amount + r.amount
              /\ key \notin S => Total(Staked(a)', S) = Total(Staked(a), S)
        /\ \A c \in Auctions : c # a => bid'[c] = bid[c]
        /\ \A k \in Keys : bid'[a][k] = IF k = key THEN r ELSE bid[a][k]
    BY <1>1, <1>2, StakeChange
  <2> QED  BY <1>2, <2>1, <2>2
<1>4. /\ vault'[a] = vault[a] - seen_bid /\ vault[a] \in Nat /\ stray[a] \in Nat
      /\ \A c \in Auctions : c # a => vault'[c] = vault[c]
  BY <1>1 DEF Debit, TypeOK
<1>5. Ended(a)' /\ LosingKeys(a)' = LosingKeys(a)
  BY <1>1 DEF Ended, LosingKeys
<1>6. TotalsAt(a)'
  <2>1. ASSUME NEW p \in Proposals, p \in Seated(auction[a].winners)
        PROVE  proposal_total[a][p] = Total(Staked(a)', {p} \X Bidders)
    <3>1. {p} \X Bidders \in SUBSET Keys /\ key \notin {p} \X Bidders
      BY <1>1, <2>1 DEF Keys, IsWinner
    <3>2. proposal_total[a][p] = Total(Staked(a), {p} \X Bidders)
      BY <2>1 DEF StakeInv, StakeAt, TotalsAt
    <3> QED  BY <1>3, <3>1, <3>2
  <2>2. auction[a].total_staked = Total(proposal_total[a], Proposals)
    BY DEF StakeInv, StakeAt, TotalsAt
  <2> QED  BY <1>1, <1>5, <2>1, <2>2 DEF TotalsAt
<1>7. BackedAt(a)'
  <2> DEFINE owed == IF auction[a].creator_paid THEN LosingKeys(a) ELSE Keys
  <2>1. owed \in SUBSET Keys /\ key \in owed
    BY <1>2 DEF LosingKeys
  <2>2. vault[a] = stray[a] + Total(Staked(a), owed)
    BY DEF StakeInv, StakeAt, BackedAt
  <2>3. BackedAt(a)' <=> vault'[a] = stray[a] + Total(Staked(a)', owed)
    BY <1>1, <1>5 DEF BackedAt
  <2> HIDE DEF owed
  <2>4. Total(Staked(a)', owed) = Total(Staked(a), owed) - seen_bid
        /\ Total(Staked(a), owed) \in Nat
    BY <1>3, <2>1, StakedFacts
  <2> QED  BY <1>2, <1>4, <2>2, <2>3, <2>4
<1>8. LeavesAt(a)'
  BY <1>1, <1>2, <1>3, <1>5 DEF StakeInv, StakeAt, LeavesAt, Live
<1>9. ASSUME NEW c \in Auctions, c # a PROVE StakeAt(c)'
  <2>1. vault'[c] - stray'[c] = vault[c] - stray[c] /\ vault'[c] \in Nat /\ stray'[c] \in Nat
    BY <1>1, <1>4, <1>9 DEF TypeOK
  <2>2. now' >= now /\ now' \in Nat
    BY <1>1, BoundsAssumption DEF TypeOK
  <2>3. StakeAt(c)
    BY DEF StakeInv
  <2> QED  BY <1>1, <1>3, <1>9, <2>1, <2>2, <2>3, StakeSame
<1> QED  BY <1>6, <1>7, <1>8, <1>9 DEF StakeInv, StakeAt

\* A creation finds nothing staked on the new id.
LEMMA StakeCreate ==
    ASSUME TypeOK, TypeOK', Life, SupplyInv, StakeInv, NEW a \in Auctions, Create(a)
    PROVE  StakeInv'
<1> PICK creator \in Creators, duration \in Nat, extension \in Nat,
         schema \in {1, 2, 3}, r \in AuctionType :
         Created(a, creator, duration, extension, schema, r)
  BY CreateFacts
<1>1. /\ a = config.auction_count
      /\ r.status = "live" /\ ~ r.creator_paid /\ r.winners = <<>> /\ r.total_staked = 0
      /\ auction' = [auction EXCEPT ![a] = r] /\ vault' = [vault EXCEPT ![a] = 0]
      /\ UNCHANGED <<now, proposal_total, bid, stray>>
  BY DEF Created, history
<1>2. \A b \in Auctions : /\ auction'[b] = IF b = a THEN r ELSE auction[b]
                          /\ vault'[b] = IF b = a THEN 0 ELSE vault[b]
  BY <1>1 DEF TypeOK
<1>3. auction[a].status = "none" /\ auction[a] = NoAuction
  <2>1. config.auction_count \in Nat /\ a \in Nat
    BY BoundsAssumption DEF TypeOK, ConfigType, Auctions
  <2>2. auction[a].status = "none"
    BY <1>1, <2>1 DEF Life
  <2> QED  BY <2>2 DEF Life
<1>4. /\ \A k \in Keys : bid[a][k].amount = 0 /\ Staked(a)'[k] = 0
      /\ \A p \in Proposals : proposal_total'[a][p] = 0
  BY <1>1, <1>3 DEF StakeInv, StakeAt, LeavesAt, Staked
<1>5. \A S \in SUBSET Keys : Total(Staked(a), S) = 0 /\ Total(Staked(a)', S) = 0
  <2>1. \A k \in Keys : Staked(a)[k] = 0
    BY <1>4 DEF Staked
  <2> QED  BY <1>4, <2>1, TotalZero
<1>6. TotalsAt(a)'
  <2>1. Total(proposal_total'[a], Proposals) = 0
    BY <1>4, TotalZero
  <2>2. \A p \in Proposals : {p} \X Bidders \in SUBSET Keys
    BY DEF Keys
  <2> QED  BY <1>1, <1>2, <1>4, <1>5, <2>1, <2>2 DEF TotalsAt
<1>7. BackedAt(a)'
  <2>1. vault[a] = stray[a] + Total(Staked(a), Keys) /\ stray[a] \in Nat
    BY <1>3 DEF StakeInv, StakeAt, BackedAt, NoAuction, TypeOK
  <2>2. vault[a] = stray[a]
    BY <1>5, <2>1
  <2>3. vault[a] = 0
    BY <1>3 DEF SupplyInv, Live
  <2> QED  BY <1>1, <1>2, <1>5, <2>2, <2>3 DEF BackedAt
<1>8. LeavesAt(a)'
  BY <1>1, <1>2 DEF StakeInv, StakeAt, LeavesAt
<1>9. ASSUME NEW b \in Auctions, b # a PROVE StakeAt(b)'
  <2>1. vault'[b] - stray'[b] = vault[b] - stray[b] /\ vault'[b] \in Nat /\ stray'[b] \in Nat
    BY <1>1, <1>2, <1>9 DEF TypeOK
  <2>2. now' >= now /\ now' \in Nat
    BY <1>1, BoundsAssumption DEF TypeOK
  <2>3. StakeAt(b)
    BY DEF StakeInv
  <2> QED  BY <1>1, <1>2, <1>9, <2>1, <2>2, <2>3, StakeSame
<1> QED  BY <1>6, <1>7, <1>8, <1>9 DEF StakeInv, StakeAt

\* Closing, donations and the rest take nothing from a vault that is owed.
LEMMA StakeStep ==
    TypeOK /\ TypeOK' /\ Life /\ TopInv /\ SupplyInv /\ StakeInv /\ [Next]_vars => StakeInv'
<1> SUFFICES ASSUME TypeOK, TypeOK', Life, TopInv, SupplyInv, StakeInv, [Next]_vars
             PROVE  StakeInv'
  OBVIOUS
<1>1. ASSUME now' >= now, UNCHANGED <<bid, proposal_total>>,
             \A a \in Auctions :
                /\ vault'[a] - stray'[a] = vault[a] - stray[a]
                /\ auction'[a] = auction[a] \/ SameTerms(a)
                /\ auction'[a].creator_paid = auction[a].creator_paid
                /\ auction'[a].status = "none" => auction[a].status = "none"
      PROVE  StakeInv'
  <2>1. now' \in Nat /\ \A a \in Auctions : vault'[a] \in Nat /\ stray'[a] \in Nat
    BY BoundsAssumption DEF TypeOK
  <2>2. ASSUME NEW a \in Auctions PROVE StakeAt(a)'
    <3>1. StakeAt(a)
      BY DEF StakeInv
    <3> QED  BY <1>1, <2>1, <3>1, StakeSame
  <2> QED  BY <2>2 DEF StakeInv
<1>2. now \in Nat /\ \A a \in Auctions : vault[a] \in Nat /\ stray[a] \in Nat
  BY BoundsAssumption DEF TypeOK
<1>3. CASE UNCHANGED vars \/ Tick \/ Configure
  <2>1. UNCHANGED <<bid, proposal_total, vault, stray, auction>>
    BY <1>3 DEF vars, accounts, history, Tick, Configure, Initialize, SetConfig,
                InitDepositVault
  <2>2. now' = now \/ now' = now + 1
    BY <1>3 DEF vars, Tick, Configure, Initialize, SetConfig, InitDepositVault
  <2> QED  BY <1>1, <1>2, <2>1, <2>2
<1>4. CASE Donate
  <2> PICK donor \in Donors, amount \in StrayAmounts :
           \/ \E a \in Auctions : DonateToVault(donor, a, amount)
           \/ DonateToDepositVault(donor, amount)
    BY <1>4 DEF Donate
  <2>1. amount \in Nat
    BY InputsAssumption
  <2>2. UNCHANGED <<now, bid, proposal_total, auction>>
    BY DEF DonateToVault, DonateToDepositVault
  <2>3. \A a \in Auctions : vault'[a] - stray'[a] = vault[a] - stray[a]
    <3>1. ASSUME NEW b \in Auctions, DonateToVault(donor, b, amount)
          PROVE  \A a \in Auctions : vault'[a] - stray'[a] = vault[a] - stray[a]
      <4>1. vault' = Credit(vault, b, amount) /\ stray' = Credit(stray, b, amount)
        BY <3>1 DEF DonateToVault
      <4>2. \A a \in Auctions :
               /\ vault'[a] = IF a = b THEN vault[a] + amount ELSE vault[a]
               /\ stray'[a] = IF a = b THEN stray[a] + amount ELSE stray[a]
        BY <4>1 DEF Credit, TypeOK
      <4> QED  BY <1>2, <2>1, <4>2
    <3>2. CASE DonateToDepositVault(donor, amount)
      BY <3>2 DEF DonateToDepositVault
    <3> QED  BY <3>1, <3>2
  <2> QED  BY <1>1, <1>2, <2>2, <2>3
<1>5. ASSUME NEW a \in Auctions, CloseAuction(a) \/ Cancel(a) \/ ForceCloseAuction(a)
      PROVE  StakeInv'
  <2>1. /\ UNCHANGED <<now, bid, proposal_total, vault, stray>>
        /\ CloseAccounts(a)
    BY <1>5 DEF CloseAuction, Cancel, CancelAuction, ForceCloseAuction, history
  <2>2. \A b \in Auctions : /\ SameTerms(b)
                            /\ auction'[b].creator_paid = auction[b].creator_paid
                            /\ auction'[b].status = "none" => auction[b].status = "none"
    BY <2>1, ClosedFacts
  <2> QED  BY <1>1, <1>2, <2>1, <2>2
<1>6. ASSUME NEW a \in Auctions, OnAuction(a) PROVE StakeInv'
  BY <1>5, <1>6, BidsAreCurrent, StakeCreate, StakeBid, StakeClaim, StakeWithdraw DEF OnAuction
<1> QED  BY <1>3, <1>4, <1>6 DEF Next

\* All that the money invariants rest on.
MoneyInv == TypeOK /\ Life /\ TopInv /\ SupplyInv /\ StakeInv

LEMMA MoneyAlways == Spec => []MoneyInv
<1>1. Init => MoneyInv
  BY TypeInit, LifeInit, TopInit, SupplyInit, StakeInit DEF MoneyInv
<1>2. MoneyInv /\ [Next]_vars => MoneyInv'
  BY TypeStep, LifeStep, TopStep, SupplyStep, StakeStep DEF MoneyInv
<1> QED  BY <1>1, <1>2, PTL DEF Spec

\* Every vault holds exactly what is still owed out of it, before and after the
\* claim, whatever bids, claims, refunds and donations came in whatever order.
THEOREM VaultsBackBids == Spec => []VaultBacksBids
<1>1. MoneyInv => VaultBacksBids
  BY DEF MoneyInv, StakeInv, StakeAt, BackedAt, VaultBacksBids
<1> QED  BY <1>1, MoneyAlways, PTL

\* Every running total that decides anything is the sum of the positions, with
\* whatever stale or foreign leaves callers sent.
THEOREM TotalsAreCurrent == Spec => []TotalsMatchBids
<1>1. MoneyInv => TotalsMatchBids
  BY DEF MoneyInv, StakeInv, StakeAt, TotalsAt, TotalsMatchBids
<1> QED  BY <1>1, MoneyAlways, PTL

----------------------------------------------------------------------------
(* Nothing stands in the way of a payout. *)

\* The gates of claim_winnings and withdraw that look at money: the pot is in the
\* vault, the deposit in the deposit vault, every losing stake in the vault.
PayoutsCovered ==
    \A a \in Auctions :
        Live(a) =>
            /\ ~ auction[a].creator_paid => PotCovered(a, WinnersPot(a))
            /\ DepositOwed(a) <= deposit_vault.amount
            /\ \A k \in LosingKeys(a) : bid[a][k].amount <= vault[a]

LEMMA MoneyCovers == MoneyInv /\ DepositInv => PayoutsCovered
<1> SUFFICES ASSUME MoneyInv, DepositInv, NEW a \in Auctions, Live(a)
             PROVE  /\ ~ auction[a].creator_paid => PotCovered(a, WinnersPot(a))
                    /\ DepositOwed(a) <= deposit_vault.amount
                    /\ \A k \in LosingKeys(a) : bid[a][k].amount <= vault[a]
  BY DEF PayoutsCovered
<1>1. /\ StakeAt(a) /\ TypeOK /\ TopInv
      /\ vault[a] \in Nat /\ stray[a] \in Nat /\ LosingKeys(a) \in SUBSET Keys
  BY DEF MoneyInv, StakeInv, TypeOK, LosingKeys
<1>2. /\ Total(Staked(a), Keys) \in Nat /\ Total(Staked(a), LosingKeys(a)) \in Nat
      /\ WinnersPot(a) \in Nat
  <2>1. auction[a].winners \in Seq(Slot)
    BY <1>1 DEF TypeOK, AuctionType
  <2> QED  BY <1>1, <2>1, StakedFacts, PotType
<1>3. Total(Staked(a), Keys) = WinnersPot(a) + Total(Staked(a), LosingKeys(a))
  BY <1>1, PotIsWinningStakes DEF Live
<1>4. vault[a] >= Total(Staked(a), LosingKeys(a))
  BY <1>1, <1>2, <1>3 DEF StakeAt, BackedAt
<1>5. ~ auction[a].creator_paid => PotCovered(a, WinnersPot(a))
  BY <1>1, <1>2, <1>3 DEF StakeAt, BackedAt, PotCovered
<1>6. ASSUME NEW k \in LosingKeys(a) PROVE bid[a][k].amount <= vault[a]
  <2>1. /\ \A j \in LosingKeys(a) : Staked(a)[j] \in Nat
        /\ Staked(a)[k] = bid[a][k].amount /\ IsFiniteSet(LosingKeys(a))
    BY <1>1, StakedFacts, KeysFinite
  <2>2. Staked(a)[k] <= Total(Staked(a), LosingKeys(a))
    BY <2>1, TotalBound
  <2> QED  BY <1>1, <1>2, <1>4, <2>1, <2>2
<1>7. DepositOwed(a) <= deposit_vault.amount
  <2> DEFINE n == Cardinality(Unsettled)
  <2>1. /\ deposit_vault.amount = deposit_stray + CreatorDeposit * n
        /\ deposit_stray \in Nat /\ CreatorDeposit \in Nat /\ n \in Nat
    BY <1>1, UnsettledFinite, LimitsAssumption DEF DepositInv, DepositConserved, TypeOK
  <2>2. CASE a \in Unsettled
    <3>1. n # 0
      BY <2>2, UnsettledFinite, FS_EmptySet
    <3>2. DepositOwed(a) = CreatorDeposit
      BY <2>2 DEF DepositOwed, Unsettled
    <3> HIDE DEF n
    <3>3. CreatorDeposit * n >= CreatorDeposit
      BY <2>1, <3>1
    <3>4. CreatorDeposit * n \in Nat
      BY <2>1
    <3> QED  BY <2>1, <3>2, <3>3, <3>4
  <2>3. CASE a \notin Unsettled
    <3>1. DepositOwed(a) = 0
      BY <2>3 DEF DepositOwed, Unsettled
    <3> HIDE DEF n
    <3>2. CreatorDeposit * n \in Nat
      BY <2>1
    <3> QED  BY <2>1, <3>1, <3>2
  <2> QED  BY <2>2, <2>3
<1> QED  BY <1>5, <1>6, <1>7

\* No claim fails with InvariantViolation and no refund for lack of funds: who
\* is paid first, and how many claims and refunds came before, makes no difference.
THEOREM PayoutsAlwaysCovered == Spec => []PayoutsCovered
<1>1. MoneyInv => TypeOK
  BY DEF MoneyInv
<1> QED  BY <1>1, MoneyCovers, MoneyAlways, DepositInit, DepositStep, PTL DEF Spec

----------------------------------------------------------------------------
(* The creator's share. *)

\* The fee is the floor of its share of the pot.
LEMMA FeeRoundedDown ==
    ASSUME NEW pot \in Nat, NEW a, auction[a].fee_bps \in 0 .. MaxFeeBps
    PROVE  BpsDenominator * (pot - Fee(a, pot)) >= pot * (BpsDenominator - auction[a].fee_bps)
<1> DEFINE rate == auction[a].fee_bps
           B == BpsDenominator
           x == pot * rate
           q == x \div B
<1>1. rate \in Nat /\ B \in Nat \ {0} /\ rate <= B
  BY LimitsAssumption
<1> HIDE DEF rate, B
<1>2. x \in Nat
  BY <1>1
<1>3. q \in Nat /\ B * q <= x
  <2> HIDE DEF x
  <2> QED  BY <1>1, <1>2
<1> HIDE DEF q
<1>4. B * (pot - q) = B * pot - B * q /\ pot * (B - rate) = pot * B - x
  BY <1>1, <1>2, <1>3
<1>5. B * pot = pot * B /\ B * pot \in Nat /\ B * q \in Nat
  BY <1>1, <1>3
<1>6. B * (pot - q) >= pot * (B - rate)
  <2> HIDE DEF x
  <2> QED  BY <1>2, <1>3, <1>4, <1>5
<1> QED  BY <1>6 DEF Fee, q, x, rate, B

\* What one step may pay the creator of c.
FeeQuotedAt(c) ==
    ~ auction[c].creator_paid /\ auction'[c].creator_paid =>
        LET pot    == vault[c] - vault'[c]
            gained == wallet'[auction[c].creator] - wallet[auction[c].creator]
            kept   == gained - (deposit_vault.amount - deposit_vault'.amount)
        IN  BpsDenominator * kept >= pot * (BpsDenominator - auction[c].fee_bps)

LEMMA ClaimPaysQuoted ==
    ASSUME TypeOK, SupplyInv, NEW a \in Auctions, ClaimWinnings(a)
    PROVE  FeeQuotedAt(a)
<1> DEFINE pot    == WinnersPot(a)
           refund == DepositOwed(a)
           u      == auction[a].creator
           v      == config.fee_receiver
           x      == Payout(a, pot) + refund
           y      == Fee(a, pot)
<1>1. auction[a].fee_bps \in 0 .. MaxFeeBps /\ auction[a].winners \in Seq(Slot)
  BY DEF TypeOK, AuctionType
<1>2. pot \in Nat /\ refund \in Nat
  BY <1>1, PotType, LimitsAssumption DEF DepositOwed
<1>3. /\ vault' = Debit(vault, a, pot) /\ wallet' = Credit(Credit(wallet, u, x), v, y)
      /\ deposit_vault' = [deposit_vault EXCEPT !.amount = @ - refund]
      /\ u \in Owners /\ pot <= vault[a]
  BY DEF ClaimWinnings, SupplyInv, PotCovered
<1>4. y \in 0 .. pot /\ Payout(a, pot) = pot - y
  BY <1>1, <1>2, FeeWithinPot DEF Payout
<1>5. BpsDenominator * (pot - y) >= pot * (BpsDenominator - auction[a].fee_bps)
  BY <1>1, <1>2, FeeRoundedDown
<1> HIDE DEF pot, refund, u, v, y
<1>6. vault'[a] = vault[a] - pot /\ vault[a] \in Nat
  BY <1>3 DEF Debit, TypeOK
<1>7. deposit_vault'.amount = deposit_vault.amount - refund /\ deposit_vault.amount \in Nat
  BY <1>3 DEF TypeOK
<1>8. wallet[u] \in Nat
      /\ wallet'[u] = wallet[u] + x + (IF u = v THEN y ELSE 0)
  <2>1. wallet \in [Owners -> Nat] /\ x \in Nat
    BY <1>2, <1>4 DEF TypeOK
  <2> HIDE DEF x
  <2> QED  BY <1>3, <2>1 DEF Credit
<1> DEFINE extra == IF u = v THEN y ELSE 0
<1>9. extra \in Nat /\ y \in Nat /\ y <= pot
  BY <1>2, <1>4
<1> DEFINE kept == (wallet'[u] - wallet[u]) - (deposit_vault.amount - deposit_vault'.amount)
<1>10. kept = (pot - y) + extra
  <2> HIDE DEF extra
  <2>1. wallet'[u] - wallet[u] = (pot - y) + refund + extra
    BY <1>2, <1>4, <1>8, <1>9 DEF extra
  <2> QED  BY <1>2, <1>7, <1>9, <2>1
<1> HIDE DEF extra, kept
<1>11. BpsDenominator * kept = BpsDenominator * (pot - y) + BpsDenominator * extra
       /\ BpsDenominator * (pot - y) \in Nat /\ BpsDenominator * extra \in Nat
  <2>1. pot - y \in Nat /\ BpsDenominator \in Nat
    BY <1>2, <1>9, LimitsAssumption
  <2> DEFINE net == pot - y
  <2> HIDE DEF net
  <2>2. kept = net + extra /\ net \in Nat
    BY <1>10, <2>1 DEF net
  <2>3. BpsDenominator * (net + extra) = BpsDenominator * net + BpsDenominator * extra
    BY <1>9, <2>1, <2>2
  <2>4. BpsDenominator * net \in Nat /\ BpsDenominator * extra \in Nat
    BY <1>9, <2>1, <2>2
  <2> QED  BY <2>2, <2>3, <2>4 DEF net
<1>12. BpsDenominator * kept >= pot * (BpsDenominator - auction[a].fee_bps)
  <2>1. pot * (BpsDenominator - auction[a].fee_bps) \in Int
    BY <1>1, <1>2, LimitsAssumption
  <2> QED  BY <1>5, <1>11, <2>1
<1>13. vault[a] - vault'[a] = pot
  BY <1>2, <1>6
<1> QED  BY <1>12, <1>13 DEF FeeQuotedAt, kept, u

LEMMA FeeStep == TypeOK /\ SupplyInv /\ [Next]_vars => \A c \in Auctions : FeeQuotedAt(c)
<1> SUFFICES ASSUME TypeOK, SupplyInv, [Next]_vars, NEW c \in Auctions PROVE FeeQuotedAt(c)
  OBVIOUS
<1>1. ASSUME auction'[c].creator_paid => auction[c].creator_paid PROVE FeeQuotedAt(c)
  BY <1>1 DEF FeeQuotedAt
<1>2. CASE UNCHANGED vars \/ Tick \/ Configure \/ Donate
  <2>1. auction' = auction
    BY <1>2 DEF vars, accounts, Tick, Configure, Initialize, SetConfig, InitDepositVault,
                Donate, DonateToVault, DonateToDepositVault
  <2> QED  BY <1>1, <2>1
<1>3. ASSUME NEW a \in Auctions, Create(a) PROVE FeeQuotedAt(c)
  <2>1. PICK creator \in Creators, duration \in Nat, extension \in Nat,
             schema \in {1, 2, 3}, r \in AuctionType :
             Created(a, creator, duration, extension, schema, r)
    BY <1>3, CreateFacts
  <2>2. auction'[c] = IF c = a THEN r ELSE auction[c]
    BY <2>1 DEF Created, TypeOK
  <2>3. ~ r.creator_paid
    BY <2>1 DEF Created
  <2> QED  BY <1>1, <2>2, <2>3
<1>4. ASSUME NEW a \in Auctions, BidStep(a) PROVE FeeQuotedAt(c)
  <2> PICK bidder \in Bidders, pid \in Proposals, amount \in Nat, old \in Nat,
           with_ext \in BOOLEAN, new_proposals \in {0, 1} :
           OneBid(a, bidder, pid, amount, old, with_ext, new_proposals)
    BY <1>4 DEF BidStep
  <2>1. auction'[c].creator_paid = auction[c].creator_paid
    BY BookFacts DEF OneBid
  <2> QED  BY <1>1, <2>1
<1>5. ASSUME NEW a \in Auctions, ClaimWinnings(a) PROVE FeeQuotedAt(c)
  <2>1. CASE c = a
    BY <1>5, <2>1, ClaimPaysQuoted
  <2>2. CASE c # a
    BY <1>1, <1>5, <2>2, PaidFacts DEF ClaimWinnings
  <2> QED  BY <2>1, <2>2
<1>6. ASSUME NEW a \in Auctions, WithdrawABid(a) PROVE FeeQuotedAt(c)
  BY <1>1, <1>6 DEF WithdrawABid, Withdraw
<1>7. ASSUME NEW a \in Auctions, CloseAuction(a) \/ Cancel(a) \/ ForceCloseAuction(a)
      PROVE  FeeQuotedAt(c)
  <2>1. CloseAccounts(a)
    BY <1>7 DEF CloseAuction, Cancel, CancelAuction, ForceCloseAuction
  <2>2. auction'[c].creator_paid = auction[c].creator_paid
    BY <2>1, ClosedFacts
  <2> QED  BY <1>1, <2>2
<1>8. ASSUME NEW a \in Auctions, OnAuction(a) PROVE FeeQuotedAt(c)
  BY <1>3, <1>4, <1>5, <1>6, <1>7, <1>8, BidsAreCurrent DEF OnAuction
<1> QED  BY <1>2, <1>8 DEF Next

\* The creator's share follows the rate of the auction's creation, for every
\* rate, pot and change of the configuration in between.
THEOREM FeesAsQuoted == Spec => FeeAsQuoted
<1>1. MoneyInv /\ [Next]_vars =>
        [\A a \in Auctions :
           ~ auction[a].creator_paid /\ auction'[a].creator_paid =>
              LET pot    == vault[a] - vault'[a]
                  gained == wallet'[auction[a].creator] - wallet[auction[a].creator]
                  kept   == gained - (deposit_vault.amount - deposit_vault'.amount)
              IN  BpsDenominator * kept >= pot * (BpsDenominator - auction[a].fee_bps)]_vars
  BY FeeStep DEF FeeQuotedAt, MoneyInv
<1> QED  BY <1>1, MoneyAlways, PTL DEF Spec, FeeAsQuoted

----------------------------------------------------------------------------
(* Bidders. *)

Outsiders == Bidders \ (Creators \cup Receivers \cup Donors)

\* The open positions of u, auction by auction.
Positions(u) == [a \in Auctions |-> Total(Staked(a), Proposals \X {u})]

\* BiddersWhole, and that what is not a stake is never paid to somebody who only
\* bids: fees go to receivers, payouts and deposits to creators.
WholeInv ==
    /\ \A u \in Outsiders :
          wallet[u] + Total(Positions(u), Auctions) = InitialWallet[u]
    /\ config.exists => config.fee_receiver \in Receivers
    /\ \A a \in Auctions : Live(a) => auction[a].creator \in Creators

LEMMA PositionsFacts ==
    ASSUME TypeOK, NEW u \in Bidders
    PROVE  /\ Proposals \X {u} \in SUBSET Keys
           /\ \A a \in Auctions : /\ Positions(u)[a] = Total(Staked(a), Proposals \X {u})
                                  /\ Positions(u)[a] \in Nat
           /\ Total(Positions(u), Auctions) \in Nat
<1>1. Proposals \X {u} \in SUBSET Keys
  BY DEF Keys
<1>2. \A a \in Auctions : /\ Positions(u)[a] = Total(Staked(a), Proposals \X {u})
                          /\ Positions(u)[a] \in Nat
  BY <1>1, StakedFacts DEF Positions
<1> QED  BY <1>1, <1>2, AuctionsFinite, TotalType

\* A written Bid leaf changes the positions of its bidder by as much.
LEMMA PositionsChange ==
    ASSUME TypeOK, TypeOK', NEW a \in Auctions, NEW key \in Keys,
           NEW r \in BidType, bid' = [bid EXCEPT ![a][key] = r], NEW u \in Bidders
    PROVE  /\ key[2] = u => Total(Positions(u)', Auctions)
                               = Total(Positions(u), Auctions) - bid[a][key].amount + r.amount
           /\ key[2] # u => Total(Positions(u)', Auctions) = Total(Positions(u), Auctions)
<1> DEFINE mine == Proposals \X {u}
           f == Positions(u)
           g == Positions(u)'
           was == bid[a][key].amount
<1>1. /\ mine \in SUBSET Keys
      /\ key \in mine <=> key[2] = u
  BY DEF Keys
<1>2. was \in Nat /\ r.amount \in Nat
  BY <1>1 DEF TypeOK, BidType
<1>3. /\ \A S \in SUBSET Keys :
            /\ key \in S => Total(Staked(a)', S) = Total(Staked(a), S) - was + r.amount
            /\ key \notin S => Total(Staked(a)', S) = Total(Staked(a), S)
      /\ \A b \in Auctions : b # a => bid'[b] = bid[b]
  BY StakeChange
<1>4. /\ \A b \in Auctions : f[b] = Total(Staked(b), mine) /\ f[b] \in Nat
      /\ Total(f, Auctions) \in Nat
  BY PositionsFacts
<1>5. \A b \in Auctions : g[b] = Total(Staked(b)', mine)
  BY DEF Positions
<1>6. \A b \in Auctions \ {a} : g[b] = f[b]
  <2>1. \A b \in Auctions \ {a} : Staked(b)' = Staked(b)
    BY <1>3 DEF Staked
  <2> QED  BY <1>4, <1>5, <2>1
<1>7. g[a] \in Nat
  <2>1. \A S \in SUBSET Keys : Total(Staked(a)', S) \in Nat
    <3>1. \A k \in Keys : Staked(a)'[k] \in Nat
      BY DEF Staked, TypeOK, BidType
    <3> QED  BY <3>1, KeysFinite, TotalType
  <2> QED  BY <1>1, <1>5, <2>1
<1>8. g[a] = IF key[2] = u THEN f[a] - was + r.amount ELSE f[a]
  BY <1>1, <1>3, <1>4, <1>5
<1> HIDE DEF f, g, mine
<1>9. Total(g, Auctions) = Total(f, Auctions) - f[a] + g[a]
  BY <1>4, <1>6, <1>7, AuctionsFinite, TotalChange
<1>10. f[a] \in Nat /\ was \in Nat
  BY <1>2, <1>4
<1> HIDE DEF was
<1>11. Total(g, Auctions) = IF key[2] = u THEN Total(f, Auctions) - was + r.amount
                                          ELSE Total(f, Auctions)
  BY <1>2, <1>4, <1>7, <1>8, <1>9, <1>10
<1> QED  BY <1>11 DEF f, g, was

LEMMA WholeInit == Init => WholeInv
<1> SUFFICES ASSUME Init PROVE WholeInv
  OBVIOUS
<1>1. \A u \in Bidders, a \in Auctions : Positions(u)[a] = 0
  <2> SUFFICES ASSUME NEW u \in Bidders, NEW a \in Auctions
               PROVE  Total(Staked(a), Proposals \X {u}) = 0
    BY DEF Positions
  <2>1. \A k \in Proposals \X {u} : Staked(a)[k] = 0
    BY DEF Init, Staked, Keys
  <2> QED  BY <2>1, TotalZero
<1>2. \A u \in Bidders : Total(Positions(u), Auctions) = 0
  BY <1>1, TotalZero
<1>3. \A u \in Bidders : InitialWallet[u] \in Nat
  BY OwnersAssumption DEF Owners
<1> QED  BY <1>2, <1>3 DEF Init, WholeInv, Outsiders, Live, NoAuction

\* A step that writes no Bid leaf and no outsider's wallet.
LEMMA WholeSame ==
    ASSUME TypeOK, TypeOK', WholeInv, bid' = bid,
           \A u \in Outsiders : wallet'[u] = wallet[u],
           config'.exists => config'.fee_receiver \in Receivers,
           \A a \in Auctions : Live(a)' => auction'[a].creator \in Creators
    PROVE  WholeInv'
<1>1. \A u \in Outsiders : Positions(u)' = Positions(u)
  BY DEF Positions, Staked
<1> QED  BY <1>1 DEF WholeInv, Live

LEMMA WholeStep ==
    TypeOK /\ TypeOK' /\ Life /\ StakeInv /\ WholeInv /\ [Next]_vars => WholeInv'
<1> SUFFICES ASSUME TypeOK, TypeOK', Life, StakeInv, WholeInv, [Next]_vars
             PROVE  WholeInv'
  OBVIOUS
<1>1. CASE UNCHANGED vars \/ Tick
  <2>1. UNCHANGED <<bid, wallet, config, auction>>
    BY <1>1 DEF vars, accounts, Tick
  <2> QED  BY <2>1, WholeSame DEF WholeInv, Live
<1>2. CASE Configure
  <2>1. UNCHANGED <<bid, wallet, auction>>
    BY <1>2 DEF Configure, Initialize, SetConfig, InitDepositVault
  <2>2. config'.exists => config'.fee_receiver \in Receivers
    <3>1. ASSUME NEW owner, NEW receiver \in Receivers, NEW fee, Initialize(owner, fee, receiver)
          PROVE  config'.fee_receiver = receiver
      BY <3>1 DEF Initialize
    <3>2. ASSUME NEW signer, NEW receiver \in Receivers, NEW fee, SetConfig(signer, fee, receiver)
          PROVE  config'.fee_receiver = receiver
      BY <3>2 DEF SetConfig, TypeOK, ConfigType
    <3>3. CASE InitDepositVault
      BY <3>3 DEF InitDepositVault, WholeInv
    <3> QED  BY <1>2, <3>1, <3>2, <3>3 DEF Configure
  <2> QED  BY <2>1, <2>2, WholeSame DEF WholeInv, Live
<1>3. CASE Donate
  <2> PICK donor \in Donors, amount \in StrayAmounts :
           \/ \E a \in Auctions : DonateToVault(donor, a, amount)
           \/ DonateToDepositVault(donor, amount)
    BY <1>3 DEF Donate
  <2>1. UNCHANGED <<bid, config, auction>> /\ wallet' = Debit(wallet, donor, amount)
    BY DEF DonateToVault, DonateToDepositVault
  <2>2. \A u \in Outsiders : wallet'[u] = wallet[u]
    BY <2>1 DEF Outsiders, Owners, Debit, TypeOK
  <2> QED  BY <2>1, <2>2, WholeSame DEF WholeInv, Live
<1>4. ASSUME NEW a \in Auctions, Create(a) PROVE WholeInv'
  <2>1. PICK creator \in Creators, duration \in Nat, extension \in Nat,
             schema \in {1, 2, 3}, r \in AuctionType :
             Created(a, creator, duration, extension, schema, r)
    BY <1>4, CreateFacts
  <2>2. /\ bid' = bid /\ r.creator = creator
        /\ \A b \in Auctions : auction'[b] = IF b = a THEN r ELSE auction[b]
    BY <2>1 DEF Created, TypeOK
  <2>3. \A u \in Outsiders : wallet'[u] = wallet[u]
    BY <2>1 DEF Created, Outsiders, Owners, Debit, TypeOK
  <2>4. config' = [config EXCEPT !.auction_count = @ + 1] /\ config.exists
    BY <1>4 DEF Create, CreateAuction, LegacyCreate
  <2>5. config'.fee_receiver = config.fee_receiver
    BY <2>4 DEF TypeOK, ConfigType
  <2> QED  BY <2>1, <2>2, <2>3, <2>4, <2>5, WholeSame DEF WholeInv, Live
<1>5. ASSUME NEW a \in Auctions, BidStep(a) PROVE WholeInv'
  <2> PICK bidder \in Bidders, pid \in Proposals, amount \in Nat, old \in Nat,
           with_ext \in BOOLEAN, new_proposals \in {0, 1} :
           OneBid(a, bidder, pid, amount, old, with_ext, new_proposals)
    BY <1>5 DEF BidStep
  <2> DEFINE r == [leaf |-> "live", amount |-> old + amount]
             new_total == proposal_total[a][pid] + amount
  <2>1. /\ BookBid(a, bidder, pid, new_total, amount, with_ext, new_proposals)
        /\ bid' = [bid EXCEPT ![a][<<pid, bidder>>] = r] /\ amount <= wallet[bidder]
        /\ \/ bid[a][<<pid, bidder>>].leaf = "none" /\ old = 0
           \/ old = bid[a][<<pid, bidder>>].amount
    BY DEF OneBid
  <2>2. old = bid[a][<<pid, bidder>>].amount /\ r \in BidType /\ r.amount = old + amount
    BY <2>1 DEF StakeInv, StakeAt, LeavesAt, Keys, BidType
  <2>3. wallet' = Debit(wallet, bidder, amount) /\ config' = config
    BY <2>1 DEF BookBid
  <2>4. \A b \in Auctions : /\ auction'[b].status = auction[b].status
                            /\ auction'[b].creator = auction[b].creator
    <3> HIDE DEF new_total
    <3> QED  BY <2>1, BookFacts
  <2> HIDE DEF r
  <2>5. ASSUME NEW u \in Outsiders
        PROVE  wallet'[u] + Total(Positions(u)', Auctions) = InitialWallet[u]
    <3>1. u \in Bidders /\ u \in Owners /\ bidder \in Owners
      BY DEF Outsiders, Owners
    <3>2. Total(Positions(u)', Auctions)
             = IF u = bidder THEN Total(Positions(u), Auctions) - old + (old + amount)
                             ELSE Total(Positions(u), Auctions)
      <4> DEFINE key == <<pid, bidder>>
      <4>1. key \in Keys /\ key[2] = bidder
        BY DEF Keys
      <4>2. bid' = [bid EXCEPT ![a][key] = r] /\ r \in BidType
        BY <2>1, <2>2
      <4> HIDE DEF key
      <4>3. /\ bidder = u => Total(Positions(u)', Auctions)
                               = Total(Positions(u), Auctions) - bid[a][key].amount + r.amount
            /\ bidder # u => Total(Positions(u)', Auctions) = Total(Positions(u), Auctions)
        BY <3>1, <4>1, <4>2, PositionsChange
      <4> QED  BY <2>2, <4>3 DEF key
    <3>3. /\ wallet[u] \in Nat /\ Total(Positions(u), Auctions) \in Nat
          /\ wallet'[u] = IF u = bidder THEN wallet[u] - amount ELSE wallet[u]
      BY <2>3, <3>1, PositionsFacts DEF Debit, TypeOK
    <3>4. wallet[u] + Total(Positions(u), Auctions) = InitialWallet[u]
      BY DEF WholeInv
    <3> QED  BY <3>2, <3>3, <3>4
  <2> QED  BY <2>3, <2>4, <2>5 DEF WholeInv, Live
<1>6. ASSUME NEW a \in Auctions, ClaimWinnings(a) PROVE WholeInv'
  <2>1. /\ bid' = bid /\ config' = config /\ config.exists /\ Live(a)
        /\ auction' = [auction EXCEPT ![a].creator_paid = TRUE]
        /\ wallet' = Credit(Credit(wallet, auction[a].creator,
                                   Payout(a, WinnersPot(a)) + DepositOwed(a)),
                            config.fee_receiver, Fee(a, WinnersPot(a)))
    BY <1>6 DEF ClaimWinnings
  <2>2. \A b \in Auctions : auction'[b].status = auction[b].status
                            /\ auction'[b].creator = auction[b].creator
    <3>1. /\ \A b \in Auctions : b # a => auction'[b] = auction[b]
          /\ auction'[a].status = auction[a].status /\ SameTerms(a)
      BY <2>1, PaidFacts
    <3> QED  BY <3>1 DEF SameTerms
  <2>3. auction[a].creator \in Creators /\ config.fee_receiver \in Receivers
    BY <2>1 DEF WholeInv
  <2>4. \A u \in Outsiders : wallet'[u] = wallet[u]
    BY <2>1, <2>3 DEF Outsiders, Owners, Credit, TypeOK
  <2> QED  BY <2>1, <2>2, <2>4, WholeSame DEF WholeInv, Live
<1>7. ASSUME NEW a \in Auctions, WithdrawABid(a) PROVE WholeInv'
  <2> PICK pid \in Proposals, bidder \in Bidders, b \in Auctions :
           \E seen_bid \in BidsRead(b, <<pid, bidder>>) : Withdraw(a, pid, bidder, b, seen_bid)
    BY <1>7 DEF WithdrawABid
  <2> PICK seen_bid \in BidsRead(b, <<pid, bidder>>) : Withdraw(a, pid, bidder, b, seen_bid)
    OBVIOUS
  <2> DEFINE r == ClosedBid(bid[a][<<pid, bidder>>])
  <2>1. /\ wallet' = Credit(wallet, bidder, seen_bid) /\ config' = config /\ auction' = auction
        /\ bid' = [bid EXCEPT ![a][<<pid, bidder>>] = r]
        /\ seen_bid = bid[a][<<pid, bidder>>].amount
    BY DEF Withdraw, BidBound, BidProved
  <2>2. r \in BidType /\ r.amount = 0 /\ seen_bid \in Nat
    BY DEF ClosedBid, BidType, BidsRead
  <2> HIDE DEF r
  <2>3. ASSUME NEW u \in Outsiders
        PROVE  wallet'[u] + Total(Positions(u)', Auctions) = InitialWallet[u]
    <3>1. u \in Bidders /\ u \in Owners /\ bidder \in Owners
      BY DEF Outsiders, Owners
    <3>2. Total(Positions(u)', Auctions)
             = IF u = bidder THEN Total(Positions(u), Auctions) - seen_bid + 0
                             ELSE Total(Positions(u), Auctions)
      <4> DEFINE key == <<pid, bidder>>
      <4>1. key \in Keys /\ key[2] = bidder
        BY DEF Keys
      <4>2. bid' = [bid EXCEPT ![a][key] = r] /\ r \in BidType
        BY <2>1, <2>2
      <4> HIDE DEF key
      <4>3. /\ bidder = u => Total(Positions(u)', Auctions)
                               = Total(Positions(u), Auctions) - bid[a][key].amount + r.amount
            /\ bidder # u => Total(Positions(u)', Auctions) = Total(Positions(u), Auctions)
        BY <3>1, <4>1, <4>2, PositionsChange
      <4> QED  BY <2>1, <2>2, <4>3 DEF key
    <3>3. /\ wallet[u] \in Nat /\ Total(Positions(u), Auctions) \in Nat
          /\ wallet'[u] = IF u = bidder THEN wallet[u] + seen_bid ELSE wallet[u]
      BY <2>1, <3>1, PositionsFacts DEF Credit, TypeOK
    <3>4. wallet[u] + Total(Positions(u), Auctions) = InitialWallet[u]
      BY DEF WholeInv
    <3> QED  BY <2>2, <3>2, <3>3, <3>4
  <2> QED  BY <2>1, <2>3 DEF WholeInv, Live
<1>8. ASSUME NEW a \in Auctions, CloseAuction(a) \/ Cancel(a) \/ ForceCloseAuction(a)
      PROVE  WholeInv'
  <2>1. CloseAccounts(a) /\ bid' = bid /\ config' = config /\ Live(a)
    BY <1>8 DEF CloseAuction, Cancel, CancelAuction, ForceCloseAuction
  <2>2. \A b \in Auctions : Live(b)' => Live(b) /\ auction'[b].creator = auction[b].creator
    BY <2>1, ClosedFacts DEF Live
  <2>3. wallet' = wallet \/ wallet' = Credit(wallet, auction[a].creator, DepositOwed(a))
    BY <1>8 DEF CloseAuction, Cancel, CancelAuction, ForceCloseAuction
  <2>4. \A u \in Outsiders : wallet'[u] = wallet[u]
    <3>1. auction[a].creator \in Creators
      BY <2>1 DEF WholeInv
    <3> QED  BY <2>3, <3>1 DEF Outsiders, Owners, Credit, TypeOK
  <2> QED  BY <2>1, <2>2, <2>4, WholeSame DEF WholeInv
<1>9. ASSUME NEW a \in Auctions, OnAuction(a) PROVE WholeInv'
  BY <1>4, <1>5, <1>6, <1>7, <1>8, <1>9, BidsAreCurrent DEF OnAuction
<1> QED  BY <1>1, <1>2, <1>3, <1>9 DEF Next

\* Whoever only bids has, in the wallet and in open positions, what they started
\* with: no second refund, and no refund at somebody else's expense.
THEOREM BiddersAlwaysWhole == Spec => []BiddersWhole
<1>1. WholeInv => BiddersWhole
  BY DEF WholeInv, BiddersWhole, Outsiders, Positions
<1>2. MoneyInv /\ MoneyInv' /\ WholeInv /\ [Next]_vars => WholeInv'
  BY WholeStep DEF MoneyInv
<1> QED  BY <1>1, <1>2, MoneyAlways, WholeInit, PTL DEF Spec
=============================================================================
