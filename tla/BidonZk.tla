------------------------------ MODULE BidonZk -------------------------------
(***************************************************************************)
(* The on-chain program bidon_zk (programs/bidon-zk/src/lib.rs): every     *)
(* instruction handler is one action, with the constraints of its accounts *)
(* struct among the guards.  A Solana transaction is atomic, so a failed   *)
(* require! or CPI is a step that is not taken.                            *)
(*                                                                         *)
(* Accounts of an auction a: the Auction PDA (auction[a]), its companion   *)
(* AuctionExt (ext[a]), its SPL vault (vault[a]), the compressed           *)
(* ProposalTotal leaves (proposal_total[a]) and the compressed Bid leaves  *)
(* (bid[a], keyed by proposal and bidder: the seeds of the Bid address).   *)
(* Global accounts: Config, the deposit vault, the USDC token accounts     *)
(* (wallet).                                                               *)
(*                                                                         *)
(* An Auction account that was closed keeps status "closed" and its last   *)
(* contents as a history; no handler reads them, each one needs "live".    *)
(***************************************************************************)
EXTENDS Integers, Sequences, FiniteSets, UnitSum, TopN

CONSTANTS
    Creators,          \* owners that create auctions
    Bidders,           \* owners that bid
    Receivers,         \* owners that set_config may name as fee_receiver
    Donors,            \* owners that may send USDC straight to a vault
    NoOwner,           \* the default Pubkey of an account not yet written
    InitialWallet,     \* USDC of every owner at deployment
    MaxFeeBps,         \* MAX_FEE_BPS
    BpsDenominator,    \* the literal 10_000 of claim_winnings
    AntisnipeWindow,   \* ANTISNIPE_WINDOW_SECS
    MinAntisnipeCap,   \* MIN_ANTISNIPE_CAP_SECS
    MaxAntisnipeCap,   \* MAX_ANTISNIPE_CAP_SECS
    MaxDuration,       \* MAX_DURATION_SECS
    CloseGrace,        \* CLOSE_GRACE_SECS
    CreatorDeposit,    \* CREATOR_DEPOSIT
    U64Max             \* the greatest u64

CONSTANTS  \* what callers pass
    FeeRates, MinBids, Durations, WinnerCounts, Extensions, Amounts,
    StrayAmounts, LegacySchemas

CONSTANTS  \* bounds of the model
    MaxAuctions,       \* auctions ever created
    MaxProposals,      \* proposals in an auction
    LastCreate,        \* no auction is created after this time
    MaxTime            \* the clock stops here

Owners    == Creators \cup Bidders \cup Receivers \cup Donors
Auctions  == 0 .. MaxAuctions - 1
Proposals == 0 .. MaxProposals - 1
Keys      == Proposals \X Bidders          \* Bid addresses of one auction

ASSUME OwnersAssumption ==
    IsFiniteSet(Owners) /\ NoOwner \notin Owners /\ InitialWallet \in [Owners -> Nat]
ASSUME LimitsAssumption ==
    /\ {MaxFeeBps, MinAntisnipeCap, MaxAntisnipeCap, MaxDuration} \subseteq Nat
    /\ {CloseGrace, CreatorDeposit, U64Max} \subseteq Nat
    /\ AntisnipeWindow \in Nat \ {0}
    /\ BpsDenominator \in Nat \ {0}
    /\ MaxFeeBps <= BpsDenominator
ASSUME InputsAssumption ==
    /\ FeeRates \subseteq Nat /\ MinBids \subseteq Nat /\ Amounts \subseteq Nat
    /\ Durations \subseteq Int /\ Extensions \subseteq Int
    /\ WinnerCounts \subseteq Nat /\ StrayAmounts \subseteq Nat
    /\ LegacySchemas \subseteq {1, 2}
ASSUME BoundsAssumption == {MaxAuctions, MaxProposals, LastCreate, MaxTime} \subseteq Nat

VARIABLES
    now,              \* Clock::get()?.unix_timestamp
    config,           \* the singleton Config
    deposit_vault,    \* the GLOBAL creator-deposit vault
    auction, ext, vault, proposal_total, bid, wallet,
    stray,            \* history: USDC sent straight to each vault
    deposit_stray,    \* history: USDC sent straight to the deposit vault
    last_change       \* history: when a bid last changed the set of winners

accounts == <<config, deposit_vault, auction, ext, vault, proposal_total, bid, wallet>>
history  == <<stray, deposit_stray, last_change>>
vars     == <<now, accounts, history>>

----------------------------------------------------------------------------
(* Contents of the accounts. *)

ConfigType ==
    [exists : BOOLEAN, owner : Owners \cup {NoOwner}, fee_bps : 0 .. MaxFeeBps,
     fee_receiver : Owners \cup {NoOwner}, auction_count : 0 .. MaxAuctions]

AuctionType ==
    [status : {"none", "live", "closed"}, creator : Owners \cup {NoOwner},
     min_bid : Nat, fee_bps : 0 .. MaxFeeBps, end_time : Nat,
     creator_paid : BOOLEAN, total_staked : Nat, proposal_count : 0 .. MaxProposals,
     winner_count : 0 .. MaxWinners, winners : Seq(Slot), schema_version : 0 .. 3]

BidType == [leaf : {"none", "live", "closed"}, amount : Nat]

NoAuction ==
    [status |-> "none", creator |-> NoOwner, min_bid |-> 0, fee_bps |-> 0,
     end_time |-> 0, creator_paid |-> FALSE, total_staked |-> 0,
     proposal_count |-> 0, winner_count |-> 0, winners |-> <<>>,
     schema_version |-> 0]

SCHEMA_VERSION_ANTISNIPE == 2
SCHEMA_VERSION_DEPOSIT   == 3

Live(a)   == auction[a].status = "live"
Ended(a)  == now >= auction[a].end_time

\* Mutant: the gates accept schema 1 only.
MigratedOnce(a) == auction[a].schema_version = 1

\* A migrated auction: the schemas the money gates accept.
Migrated(a) == auction[a].schema_version \in {1, 2, 3}

Credit(w, who, amount) == [w EXCEPT ![who] = @ + amount]
Debit(w, who, amount)  == [w EXCEPT ![who] = @ - amount]

Init ==
    /\ now = 0
    /\ config = [exists |-> FALSE, owner |-> NoOwner, fee_bps |-> 0,
                 fee_receiver |-> NoOwner, auction_count |-> 0]
    /\ deposit_vault = [exists |-> FALSE, amount |-> 0]
    /\ auction = [a \in Auctions |-> NoAuction]
    /\ ext = [a \in Auctions |-> [exists |-> FALSE, max_end_time |-> 0]]
    /\ vault = [a \in Auctions |-> 0]
    /\ proposal_total = [a \in Auctions |-> [p \in Proposals |-> 0]]
    /\ bid = [a \in Auctions |-> [k \in Keys |-> [leaf |-> "none", amount |-> 0]]]
    /\ wallet = InitialWallet
    /\ stray = [a \in Auctions |-> 0]
    /\ deposit_stray = 0
    /\ last_change = [a \in Auctions |-> 0 - AntisnipeWindow]

----------------------------------------------------------------------------
(* Configuration. *)

Initialize(owner, fee_bps, fee_receiver) ==
    /\ ~ config.exists
    /\ fee_bps <= MaxFeeBps
    /\ config' = [exists |-> TRUE, owner |-> owner, fee_bps |-> fee_bps,
                  fee_receiver |-> fee_receiver, auction_count |-> 0]
    /\ UNCHANGED <<now, deposit_vault, auction, ext, vault, proposal_total, bid,
                   wallet, history>>

SetConfig(signer, fee_bps, fee_receiver) ==
    /\ config.exists
    /\ signer = config.owner
    /\ fee_bps <= MaxFeeBps
    /\ config' = [config EXCEPT !.fee_bps = fee_bps, !.fee_receiver = fee_receiver]
    /\ UNCHANGED <<now, deposit_vault, auction, ext, vault, proposal_total, bid,
                   wallet, history>>

InitDepositVault ==
    /\ config.exists
    /\ ~ deposit_vault.exists
    /\ deposit_vault' = [exists |-> TRUE, amount |-> 0]
    /\ UNCHANGED <<now, config, auction, ext, vault, proposal_total, bid, wallet,
                   history>>

----------------------------------------------------------------------------
(* Creation. *)

\* The account that create_auction writes.
NewAuction(creator, min_bid, duration, winner_count, schema) ==
    [status |-> "live", creator |-> creator, min_bid |-> min_bid,
     fee_bps |-> config.fee_bps, end_time |-> now + duration,
     creator_paid |-> FALSE, total_staked |-> 0, proposal_count |-> 0,
     winner_count |-> winner_count, winners |-> <<>>, schema_version |-> schema]

\* Mutant: winner_count has no upper bound.
AnyWinnerCount(duration, winner_count, max_extension) ==
    /\ duration > 0 /\ duration <= MaxDuration
    /\ winner_count >= 1
    /\ max_extension >= MinAntisnipeCap /\ max_extension <= MaxAntisnipeCap

\* The terms a creator may choose.
TermsAccepted(duration, winner_count, max_extension) ==
    /\ duration > 0 /\ duration <= MaxDuration
    /\ winner_count >= 1 /\ winner_count <= MaxWinners
    /\ max_extension >= MinAntisnipeCap /\ max_extension <= MaxAntisnipeCap

\* Mutant: any id up to the counter is accepted.
IdSeen(id) == id <= config.auction_count

\* The one id that create_auction accepts.
IdIsNext(id) == id = config.auction_count

CreateAuction(creator, id, min_bid, duration, winner_count, max_extension) ==
    /\ config.exists /\ deposit_vault.exists
    /\ ~ Live(id) /\ ~ ext[id].exists        \* init: the PDAs must not exist
    /\ IdIsNext(id)
    /\ TermsAccepted(duration, winner_count, max_extension)
    /\ wallet[creator] >= CreatorDeposit
    /\ now <= LastCreate
    /\ auction' = [auction EXCEPT ![id] =
          NewAuction(creator, min_bid, duration, winner_count, SCHEMA_VERSION_DEPOSIT)]
    /\ ext' = [ext EXCEPT ![id] =
          [exists |-> TRUE, max_end_time |-> now + duration + max_extension]]
    /\ vault' = [vault EXCEPT ![id] = 0]
    /\ config' = [config EXCEPT !.auction_count = @ + 1]
    /\ wallet' = Debit(wallet, creator, CreatorDeposit)
    /\ deposit_vault' = [deposit_vault EXCEPT !.amount = @ + CreatorDeposit]
    /\ UNCHANGED <<now, proposal_total, bid, history>>

\* An auction that an earlier version of the program created: without a
\* deposit, and without a companion if it is of schema 1.  The deposit vault
\* came with schema 3, so none is created once it exists.
LegacyCreate(creator, id, min_bid, duration, winner_count, max_extension, schema) ==
    /\ config.exists /\ ~ deposit_vault.exists
    /\ ~ Live(id) /\ ~ ext[id].exists
    /\ IdIsNext(id)
    /\ TermsAccepted(duration, winner_count, max_extension)
    /\ now <= LastCreate
    /\ auction' = [auction EXCEPT ![id] =
          NewAuction(creator, min_bid, duration, winner_count, schema)]
    /\ ext' = IF schema = 1 THEN ext
              ELSE [ext EXCEPT ![id] =
                      [exists |-> TRUE, max_end_time |-> now + duration + max_extension]]
    /\ vault' = [vault EXCEPT ![id] = 0]
    /\ config' = [config EXCEPT !.auction_count = @ + 1]
    /\ UNCHANGED <<now, deposit_vault, proposal_total, bid, wallet, history>>

----------------------------------------------------------------------------
(* Bids.  A caller sends, with the instruction, the contents and address   *)
(* ("meta") of each compressed leaf it uses, as it last read them; the     *)
(* validity proof checks that such a leaf exists with these contents, and  *)
(* the handler that its address is that of the auction and proposal named. *)

\* antisnipe_cap: a companion is mandatory from schema 2 on, and can only be
\* supplied if it exists.
CompanionAccepted(a, with_ext) ==
    /\ auction[a].schema_version >= SCHEMA_VERSION_ANTISNIPE => with_ext
    /\ with_ext => ext[a].exists

\* Mutant: the creator's cap is forgotten.
UncappedEnd(a, with_ext, set_changed) ==
    LET want == now + AntisnipeWindow
    IN  IF set_changed /\ with_ext /\ want > auction[a].end_time
        THEN want ELSE auction[a].end_time

\* extend_if_sniped: the end time after a bid that did or did not change the set.
ExtendedEnd(a, with_ext, set_changed) ==
    LET want == now + AntisnipeWindow
        cap  == ext[a].max_end_time
    IN  IF set_changed /\ with_ext /\ want > auction[a].end_time
        THEN IF want < cap THEN want ELSE cap
        ELSE auction[a].end_time

\* Mutant: bids are taken at the very end time.
OpenAtTheEnd(a) == now <= auction[a].end_time

BiddingOpen(a) == now < auction[a].end_time

\* The checks that the three bid handlers share, the SPL transfer's included.
BidAccepted(a, bidder, amount, with_ext) ==
    /\ config.exists /\ Live(a)
    /\ BiddingOpen(a)
    /\ amount > 0
    /\ amount >= auction[a].min_bid
    /\ wallet[bidder] >= amount
    /\ auction[a].total_staked + amount <= U64Max
    /\ CompanionAccepted(a, with_ext)

\* What they share after the compressed leaves are written: money into the
\* vault, totals, leader board, end time and proposal counter.
BookBid(a, bidder, pid, new_total, amount, with_ext, new_proposals) ==
    LET w       == auction[a].winners
        n       == auction[a].winner_count
        changed == SetChanged(w, n, pid, new_total)
    IN  /\ auction' = [auction EXCEPT
              ![a].total_staked = @ + amount,
              ![a].winners = UpdateTop(w, n, pid, new_total),
              ![a].end_time = ExtendedEnd(a, with_ext, changed),
              ![a].proposal_count = @ + new_proposals]
        /\ wallet' = Debit(wallet, bidder, amount)
        /\ vault' = Credit(vault, a, amount)
        /\ last_change' = IF changed THEN [last_change EXCEPT ![a] = now] ELSE last_change
        /\ UNCHANGED <<now, config, deposit_vault, ext, stray, deposit_stray>>

\* Mutant: a total that was once right is accepted.
ProvedOnce(meta, seen_total) == seen_total \in 1 .. proposal_total[meta[1]][meta[2]]

\* The ProposalTotal leaf meta exists and holds the total the caller read.
ProposalProved(meta, seen_total) ==
    proposal_total[meta[1]][meta[2]] = seen_total /\ seen_total > 0

\* The Bid leaf of auction b for this key exists and holds the amount read.
BidProved(b, key, seen_bid) == bid[b][key] = [leaf |-> "live", amount |-> seen_bid]

\* Mutant: the address of the Bid leaf is not bound to the auction.
BoundToNothing(b, a) == TRUE

\* The address of the Bid leaf supplied is one of auction a.
BidBound(b, a) == b = a

\* A bid on a new proposal: its id is the proposal counter.
PlaceBid(a, bidder, amount, with_ext) ==
    LET pid == auction[a].proposal_count
    IN  /\ BidAccepted(a, bidder, amount, with_ext)
        /\ pid < MaxProposals
        /\ proposal_total[a][pid] = 0 /\ bid[a][<<pid, bidder>>].leaf = "none"
        /\ proposal_total' = [proposal_total EXCEPT ![a][pid] = amount]
        /\ bid' = [bid EXCEPT ![a][<<pid, bidder>>] = [leaf |-> "live", amount |-> amount]]
        /\ BookBid(a, bidder, pid, amount, amount, with_ext, 1)

\* A first bid on an existing proposal.  meta = <<auction, proposal>> is the
\* ProposalTotal leaf the caller supplies, seen_total the total it read.
RaiseBid(a, pid, bidder, amount, with_ext, meta, seen_total) ==
    LET new_total == seen_total + amount
    IN  /\ BidAccepted(a, bidder, amount, with_ext)
        /\ ProposalProved(meta, seen_total)
        /\ new_total <= U64Max
        /\ meta = <<a, pid>>                           \* ProposalIdMismatch
        /\ bid[a][<<pid, bidder>>].leaf = "none"
        /\ proposal_total' = [proposal_total EXCEPT ![meta[1]][meta[2]] = new_total]
        /\ bid' = [bid EXCEPT ![a][<<pid, bidder>>] = [leaf |-> "live", amount |-> amount]]
        /\ BookBid(a, bidder, pid, new_total, amount, with_ext, 0)

\* A further bid on the bidder's own position.  The Bid leaf of auction
\* bid_auction is named by its contents, so only its auction is free.
TopUpBid(a, pid, bidder, amount, with_ext, meta, seen_total, bid_auction, seen_bid) ==
    LET new_total == seen_total + amount
        key       == <<pid, bidder>>
    IN  /\ BidAccepted(a, bidder, amount, with_ext)
        /\ ProposalProved(meta, seen_total)
        /\ BidProved(bid_auction, key, seen_bid)
        /\ new_total <= U64Max /\ seen_bid + amount <= U64Max
        /\ meta = <<a, pid>>
        /\ BidBound(bid_auction, a)
        /\ proposal_total' = [proposal_total EXCEPT ![meta[1]][meta[2]] = new_total]
        /\ bid' = [bid EXCEPT ![bid_auction][key].amount = seen_bid + amount]
        /\ BookBid(a, bidder, pid, new_total, amount, with_ext, 0)

----------------------------------------------------------------------------
(* Settlement. *)

\* Mutant: the pot is everything staked.
EverythingStaked(a) == auction[a].total_staked

\* Sum of the totals in the occupied slots, u64 as long as it is below the vault.
WinnersPot(a) == LET w == auction[a].winners
                 IN  Total([i \in DOMAIN w |-> w[i].total], DOMAIN w)

\* Mutant: today's rate instead of the one at creation.
FeeOfToday(a, pot) == (pot * config.fee_bps) \div BpsDenominator

Fee(a, pot) == (pot * auction[a].fee_bps) \div BpsDenominator

\* Mutant: the payout is rounded on its own and the dust stays nowhere.
RoundedPayout(a, pot) == (pot * (BpsDenominator - auction[a].fee_bps)) \div BpsDenominator

Payout(a, pot) == pot - Fee(a, pot)

\* Mutant: the gate expects the vault to hold exactly what was staked.
VaultUntouched(a, pot) == vault[a] = auction[a].total_staked

\* The gate behind InvariantViolation.
PotCovered(a, pot) == pot <= vault[a]

\* Mutant: cancel refunds a deposit that claim has refunded.
DepositAlwaysOwed(a) ==
    IF auction[a].schema_version = SCHEMA_VERSION_DEPOSIT THEN CreatorDeposit ELSE 0

\* The deposit that claim_winnings and cancel_auction still owe the creator.
DepositOwed(a) ==
    IF auction[a].schema_version = SCHEMA_VERSION_DEPOSIT /\ ~ auction[a].creator_paid
    THEN CreatorDeposit ELSE 0

ClaimWinnings(a) ==
    LET pot    == WinnersPot(a)
        refund == DepositOwed(a)
    IN  /\ config.exists /\ deposit_vault.exists /\ Live(a)
        /\ Ended(a)
        /\ ~ auction[a].creator_paid
        /\ Migrated(a)
        /\ PotCovered(a, pot)
        /\ pot * auction[a].fee_bps <= U64Max
        /\ refund <= deposit_vault.amount
        /\ vault' = Debit(vault, a, pot)
        /\ wallet' = Credit(Credit(wallet, auction[a].creator, Payout(a, pot) + refund),
                            config.fee_receiver, Fee(a, pot))
        /\ deposit_vault' = [deposit_vault EXCEPT !.amount = @ - refund]
        /\ auction' = [auction EXCEPT ![a].creator_paid = TRUE]
        /\ UNCHANGED <<now, config, ext, proposal_total, bid, history>>

\* Mutant: the default proposal id 0 of the empty tail slots counts as seated.
WinsOrDefault(a, pid) == pid \in Seated(auction[a].winners) \cup {0}

\* Mutant: the gate misses the last occupied slot.
WinsButLast(a, pid) ==
    LET w == auction[a].winners
    IN  pid \in {w[i].proposal_id : i \in 1 .. Len(w) - 1}

\* The proposals that winners[0..filled] seats, whose bids are not refunded.
IsWinner(a, pid) == pid \in Seated(auction[a].winners)

\* Mutant: the refunded Bid leaf survives.
Unchanged(b) == b

\* What is left of a Bid leaf that was refunded.
ClosedBid(b) == [leaf |-> "closed", amount |-> 0]

\* Anyone returns the stake of a losing bid; bid_auction is the auction in the
\* address of the Bid leaf supplied, seen_bid the amount in it.
Withdraw(a, pid, bidder, bid_auction, seen_bid) ==
    LET key == <<pid, bidder>>
    IN  /\ config.exists /\ Live(a)
        /\ Ended(a)
        /\ Migrated(a)
        /\ ~ IsWinner(a, pid)                           \* WinnerCannotWithdraw
        /\ BidProved(bid_auction, key, seen_bid)
        /\ BidBound(bid_auction, a)                     \* ProposalIdMismatch
        /\ seen_bid <= vault[a]
        /\ vault' = Debit(vault, a, seen_bid)
        /\ wallet' = Credit(wallet, bidder, seen_bid)
        /\ bid' = [bid EXCEPT ![bid_auction][key] = ClosedBid(@)]
        /\ UNCHANGED <<now, config, deposit_vault, auction, ext, proposal_total, history>>

\* Mutant: the vault is closed with whatever it holds.
ClosedWithRest(a) == auction' = [auction EXCEPT ![a].status = "closed"]

\* The vault and the Auction account are closed, their rent goes to the relayer.
\* SPL closes a token account only when it is empty.
CloseAccounts(a) ==
    /\ vault[a] = 0
    /\ auction' = [auction EXCEPT ![a].status = "closed"]

CloseAuction(a) ==
    /\ Live(a)
    /\ Ended(a)
    /\ auction[a].creator_paid
    /\ CloseAccounts(a)
    /\ UNCHANGED <<now, config, deposit_vault, ext, vault, proposal_total, bid,
                   wallet, history>>

CancelAuction(a, signer) ==
    /\ config.exists /\ deposit_vault.exists /\ Live(a)
    /\ signer = auction[a].creator
    /\ auction[a].proposal_count = 0
    /\ DepositOwed(a) <= deposit_vault.amount
    /\ deposit_vault' = [deposit_vault EXCEPT !.amount = @ - DepositOwed(a)]
    /\ wallet' = Credit(wallet, auction[a].creator, DepositOwed(a))
    /\ CloseAccounts(a)
    /\ UNCHANGED <<now, config, ext, vault, proposal_total, bid, history>>

ForceCloseAuction(a) ==
    /\ config.exists /\ Live(a)
    /\ now >= auction[a].end_time + CloseGrace
    /\ auction[a].creator_paid
    /\ CloseAccounts(a)
    /\ UNCHANGED <<now, config, deposit_vault, ext, vault, proposal_total, bid,
                   wallet, history>>

----------------------------------------------------------------------------
(* Around the program: the clock, and plain SPL transfers into its vaults. *)

Tick ==
    /\ now < MaxTime
    /\ now' = now + 1
    /\ UNCHANGED <<accounts, history>>

DonateToVault(donor, a, amount) ==
    /\ Live(a)
    /\ amount <= wallet[donor]
    /\ vault' = Credit(vault, a, amount)
    /\ stray' = Credit(stray, a, amount)
    /\ wallet' = Debit(wallet, donor, amount)
    /\ UNCHANGED <<now, config, deposit_vault, auction, ext, proposal_total, bid,
                   deposit_stray, last_change>>

DonateToDepositVault(donor, amount) ==
    /\ deposit_vault.exists
    /\ amount <= wallet[donor]
    /\ deposit_vault' = [deposit_vault EXCEPT !.amount = @ + amount]
    /\ deposit_stray' = deposit_stray + amount
    /\ wallet' = Debit(wallet, donor, amount)
    /\ UNCHANGED <<now, config, auction, ext, vault, proposal_total, bid, stray,
                   last_change>>

----------------------------------------------------------------------------
(* What a caller may send, and the whole program. *)

Companions == BOOLEAN                       \* auction_ext supplied or not
Leaves     == Auctions \X Proposals         \* addresses of ProposalTotal leaves

\* Totals only grow, so a total that was ever read is at most the current one.
TotalsRead(leaf) == 0 .. proposal_total[leaf[1]][leaf[2]]
BidsRead(a, key) == 0 .. bid[a][key].amount

Configure ==
    \/ \E owner, receiver \in Receivers, fee \in FeeRates : Initialize(owner, fee, receiver)
    \/ \E signer \in Owners, receiver \in Receivers, fee \in FeeRates :
          SetConfig(signer, fee, receiver)
    \/ InitDepositVault

Create(a) ==
    \E creator \in Creators, min_bid \in MinBids, duration \in Durations,
       n \in WinnerCounts, extension \in Extensions :
        \/ CreateAuction(creator, a, min_bid, duration, n, extension)
        \/ \E schema \in LegacySchemas :
              LegacyCreate(creator, a, min_bid, duration, n, extension, schema)

PlaceABid(a) ==
    \E bidder \in Bidders, amount \in Amounts, with_ext \in Companions :
        PlaceBid(a, bidder, amount, with_ext)

RaiseABid(a) ==
    \E pid \in Proposals, bidder \in Bidders, amount \in Amounts,
       with_ext \in Companions, meta \in Leaves :
        \E seen_total \in TotalsRead(meta) :
            RaiseBid(a, pid, bidder, amount, with_ext, meta, seen_total)

TopUpABid(a) ==
    \E pid \in Proposals, bidder \in Bidders, amount \in Amounts,
       with_ext \in Companions, meta \in Leaves, b \in Auctions :
        \E seen_total \in TotalsRead(meta), seen_bid \in BidsRead(b, <<pid, bidder>>) :
            TopUpBid(a, pid, bidder, amount, with_ext, meta, seen_total, b, seen_bid)

WithdrawABid(a) ==
    \E pid \in Proposals, bidder \in Bidders, b \in Auctions :
        \E seen_bid \in BidsRead(b, <<pid, bidder>>) :
            Withdraw(a, pid, bidder, b, seen_bid)

Cancel(a) == \E signer \in Owners : CancelAuction(a, signer)

Donate ==
    \E donor \in Donors, amount \in StrayAmounts :
        \/ \E a \in Auctions : DonateToVault(donor, a, amount)
        \/ DonateToDepositVault(donor, amount)

OnAuction(a) ==
    \/ Create(a)
    \/ PlaceABid(a)
    \/ RaiseABid(a)
    \/ TopUpABid(a)
    \/ ClaimWinnings(a)
    \/ WithdrawABid(a)
    \/ CloseAuction(a)
    \/ Cancel(a)
    \/ ForceCloseAuction(a)

Next ==
    \/ Tick
    \/ Configure
    \/ \E a \in Auctions : OnAuction(a)
    \/ Donate

Spec == Init /\ [][Next]_vars

\* The clock runs, and claim, withdraw and close are permissionless cranks that
\* somebody (the keeper, or any party with a stake) keeps trying.
Cranks ==
    /\ WF_vars(Tick)
    /\ \A a \in Auctions : /\ WF_vars(ClaimWinnings(a))
                           /\ WF_vars(WithdrawABid(a))
                           /\ WF_vars(CloseAuction(a))

FairSpec == Spec /\ Cranks

----------------------------------------------------------------------------
(* Properties. *)

\* Type correctness: every account holds values of the type it declares, and
\* no counter leaves its range.
TypeOK ==
    /\ now \in 0 .. MaxTime
    /\ config \in ConfigType
    /\ deposit_vault \in [exists : BOOLEAN, amount : Nat]
    /\ auction \in [Auctions -> AuctionType]
    /\ \A a \in Auctions : Len(auction[a].winners) <= MaxWinners
    /\ ext \in [Auctions -> [exists : BOOLEAN, max_end_time : Nat]]
    /\ vault \in [Auctions -> Nat]
    /\ proposal_total \in [Auctions -> [Proposals -> Nat]]
    /\ bid \in [Auctions -> [Keys -> BidType]]
    /\ wallet \in [Owners -> Nat]
    /\ stray \in [Auctions -> Nat]
    /\ deposit_stray \in Nat
    /\ last_change \in [Auctions -> Int]

Staked(a) == [k \in Keys |-> bid[a][k].amount]

\* Bids on proposals outside the leader board.
LosingKeys(a) == {k \in Keys : k[1] \notin Seated(auction[a].winners)}

\* The auctions whose deposit nobody has had back yet.
Unsettled == {a \in Auctions : /\ Live(a)
                               /\ auction[a].schema_version = SCHEMA_VERSION_DEPOSIT
                               /\ ~ auction[a].creator_paid}

\* The commingled deposit vault always holds exactly one deposit for every
\* schema-3 auction that was neither claimed nor cancelled, so no sequence of
\* claims and cancels (an empty auction allows both) and no legacy auction can
\* take another auction's deposit.
DepositConserved ==
    deposit_vault.amount = deposit_stray + CreatorDeposit * Cardinality(Unsettled)

\* The vault of every auction holds exactly what is still owed out of it: all
\* stakes before the claim, the losing stakes after it, nothing once it is
\* closed (so nobody's refund is stranded), and what was donated.
VaultBacksBids ==
    \A a \in Auctions :
        vault[a] = stray[a] + Total(Staked(a), IF auction[a].creator_paid
                                               THEN LosingKeys(a) ELSE Keys)

\* Closing or cancelling strands nobody: the positions still open in a closed
\* auction are those of the winners, and their creator was paid before.
NobodyStranded ==
    \A a \in Auctions, k \in Keys :
        auction[a].status = "closed" /\ bid[a][k].leaf = "live" =>
            auction[a].creator_paid /\ k \notin LosingKeys(a)

\* The running total of a proposal is the sum of the positions on it, for as
\* long as it decides who wins and what the pot is, and total_staked is the sum
\* of the proposals: no update computed from a stale read gets in, and none
\* lands on another proposal's aggregate.
TotalsMatchBids ==
    \A a \in Auctions :
        /\ auction[a].total_staked = Total(proposal_total[a], Proposals)
        /\ \A p \in Proposals :
              ~ Ended(a) \/ p \in Seated(auction[a].winners) =>
                  proposal_total[a][p] = Total(Staked(a), {p} \X Bidders)

\* The on-chain winners are the top N of the proposals, incumbents kept on a tie.
WinnersAreTop ==
    \A a \in Auctions :
        auction[a].status # "none" =>
            IsLeaderBoard(auction[a].winners, auction[a].winner_count,
                          proposal_total[a], auction[a].proposal_count)

\* No USDC is made or lost by any instruction, rounding of the fee included.
SupplyConserved ==
    Total(wallet, Owners) + Total(vault, Auctions) + deposit_vault.amount
        = Total(InitialWallet, Owners)

\* Whoever only bids never ends up with more or less than they started with,
\* counting their open positions: no second refund, and no refund at another's
\* expense.
BiddersWhole ==
    \A u \in Bidders \ (Creators \cup Receivers \cup Donors) :
        wallet[u] + Total([a \in Auctions |-> Total(Staked(a), Proposals \X {u})], Auctions)
            = InitialWallet[u]

\* After the end nobody has to wait for anybody: the claim and the refund of
\* every losing bid can be executed at once, in any order, by anyone.
PayoutsNeverBlocked ==
    \A a \in Auctions :
        Live(a) /\ Ended(a) /\ deposit_vault.exists =>
            /\ ~ auction[a].creator_paid => ENABLED ClaimWinnings(a)
            /\ \A k \in LosingKeys(a) :
                  bid[a][k].leaf = "live" =>
                      ENABLED Withdraw(a, k[1], k[2], a, bid[a][k].amount)

\* Whoever is pushed off the board has the anti-snipe window to answer, unless
\* the creator's cap cuts it short; and the end never passes that cap.
AntisnipeHolds ==
    \A a \in Auctions :
        ext[a].exists =>
            LET window == last_change[a] + AntisnipeWindow
                cap    == ext[a].max_end_time
            IN  /\ auction[a].end_time >= IF window < cap THEN window ELSE cap
                /\ auction[a].end_time <= cap

\* From the end on, the board and the totals that claim and withdraw both read
\* are frozen, and before it the end only moves back.
PartitionFrozen ==
    [][\A a \in Auctions : Live(a) =>
         /\ auction'[a].end_time >= auction[a].end_time
         /\ Ended(a) => /\ auction'[a].end_time = auction[a].end_time
                        /\ auction'[a].winners = auction[a].winners
                        /\ proposal_total'[a] = proposal_total[a]]_vars

\* A closed auction's id is never used again: its Bid leaves that were never
\* withdrawn stay provable, and would draw on a new vault at the same address.
NeverReopened ==
    [][\A a \in Auctions : auction[a].status = "closed" =>
                              auction'[a].status = "closed"]_vars

\* The creator is paid by the fee rate of the auction's creation, whatever the
\* owner of Config does in between, and the platform gets the rest of the pot.
FeeAsQuoted ==
    [][\A a \in Auctions :
         ~ auction[a].creator_paid /\ auction'[a].creator_paid =>
            LET pot    == vault[a] - vault'[a]
                gained == wallet'[auction[a].creator] - wallet[auction[a].creator]
                kept   == gained - (deposit_vault.amount - deposit_vault'.amount)
            IN  BpsDenominator * kept >= pot * (BpsDenominator - auction[a].fee_bps)]_vars

\* Every losing bid is refunded in the end.
LosersRefunded ==
    \A a \in Auctions, k \in Keys :
        Live(a) /\ Ended(a) /\ bid[a][k].leaf = "live" /\ k \in LosingKeys(a)
            ~> bid[a][k].leaf = "closed"

\* Every auction that is not cluttered by donations is closed in the end, and
\* its rent recovered.
AuctionsClose ==
    \A a \in Auctions : Live(a) ~> (auction[a].status = "closed" \/ stray[a] > 0)

----------------------------------------------------------------------------
(* A promise of the documentation that the code does not keep. *)

\* "After end_time + CLOSE_GRACE_SECS and once the creator is paid, this sweeps
\* the residual to the fee_receiver and closes the vault + Auction, always
\* recovering the relayer's rent" (doc comment of force_close_auction).
ForceCloseRecovers ==
    \A a \in Auctions :
        /\ Live(a) /\ auction[a].creator_paid
        /\ now >= auction[a].end_time + CloseGrace
        => ENABLED ForceCloseAuction(a)
=============================================================================
