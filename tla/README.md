# Verification of bidon-solana

bidon is a crowd auction on Solana. Backers stake USDC on *proposals*; at the end
of an auction the top N proposals (1 to 10) win, the creator is paid the winners'
pot less a platform fee, and every stake on a losing proposal goes back to its
backer. This directory holds TLA+ models of it, TLC runs of the models on small
instances, and proofs of the main safety properties, for every value of the
constants, that TLAPS checks.

Paths below are relative to the repository; `lib.rs` is
`bidon-zk/programs/bidon-zk/src/lib.rs`, and the clients are in
`bidon-zk/client/`.

## 1. Inventory

| component | state it keeps | operations | hard behaviour |
|---|---|---|---|
| program `bidon_zk` (`lib.rs`) | `Config`; per auction `Auction`, `AuctionExt`, an SPL vault; one global deposit vault | 12 instructions | every instruction may run between any two others, permissionlessly; settlement in any order; one commingled vault |
| leader board (`Auction::update_top`) | `winners[0..filled]` | `update_top` | two different tie rules in one array, a bubbling loop that assumes the array sorted, persistent `winner_count` |
| compressed leaves (Light Protocol) | `ProposalTotal` and `Bid` leaves | create, update, close under a validity proof | a caller supplies contents and address of a leaf as it read them earlier, perhaps stale, perhaps of another auction |
| keeper (`keeper.mjs`) | resolved ids in memory and in an optional store; the locals of each tick | tick, resolve, refund, restart | stale RPC reads, overlapping ticks, transient or permanent failure of one of many refunds, a permanent "done", two clocks |
| light client (`light.mjs`) | none that lasts | build a bid or a withdraw | optimistic reads of an indexer that lags, a lost confirmation and a retry |
| builders and decoders (`lib.mjs`) | none | encode, decode, send | account lists that must match the program's |
| Telegram hub (`tg.mjs`, part of `keeper.mjs`) | last count seen, update offset, balance flags | announce, answer, alert | counts compared out of order, lost polls, memory lost in a restart |
| Kora relayer (`kora/kora.toml`, `kora-client.mjs`) | configuration | sign and send | external |
| scripts and e2e tests | none | linear scripts | contention on one proposal (`testConcurrency`) |

Interactions. Clients and the keeper talk to the program only through
transactions, which are atomic: a failed `require!` or CPI undoes the whole
transaction. They read the accounts through an RPC node and the leaves through an
indexer, both of which may lag. The program calls SPL Token (transfer, close
account) and the Light system program (leaf updates). All the auctions share
`Config` and the deposit vault; an auction shares nothing else with another one,
except that a caller may *name* a leaf of another auction.

What makes each part correct:

* **money**: every base unit in a vault is owed to somebody, a stake is paid out
  once (to the creator's side if it won, to the backer if it lost), nobody's
  refund waits for anybody, and no auction reaches another auction's vault or
  deposit;
* **winners**: the board is the top N of the current totals, and claim and
  withdraw, which read it independently and in any order, agree;
* **time**: bidding and settlement never overlap, a sniped winner has time to
  answer, and the creator's cap holds;
* **settlement**: every losing bid is refunded and every auction closes in the end
  under permissionless cranks, and the keeper, which is one of them, calls an auction
  done that is not only where an answer of a node, of the indexer or of an error's text
  misled it;
* **clients**: what a bidder has asked for is staked, once, however often it is sent;
* **operators**: a new auction is announced once and a command answered once.

The hazards, each at its line, and the properties that cover them, are listed in
`PROJECT.json`.

## 2. Modules

| module | models | how |
|---|---|---|
| `UnitSum` | sums of token amounts | `Total(f, S)`: the number of base units, by `Cardinality`, so that a sum can be reasoned about without recursion |
| `TopN` | `WinnerSlot`, `Auction::update_top` | pure operators; a board is a sequence, the occupied prefix of the array; the bubbling loop is `Landing`, the place it stops at |
| `BidonZk` | all of `lib.rs` | one action per instruction, see below |
| `TopSet` | abstract: the promise to bidders | the set of winners, without order |
| `Board` | the sequence of calls of `update_top` of one auction | refines `TopSet` |
| `MCBidonZk` | - | wallets and symmetry for TLC |
| `Settlement` | abstract: the promise of the program to whoever settles auctions | accounts and `Bid` leaves without money, ranks or proofs |
| `Settles` | - | the refinement of `Settlement` by `BidonZk` |
| `Keeper` | `keeper.mjs`, but for the Telegram hub | the keeper's processes on a chain that is `Settlement` (`INSTANCE`), see below |
| `MCKeeper` | - | the bids for TLC |
| `BidClient` | `light.mjs`, `sendIx`, `sendViaKora` and the retry of `e2e.mjs` | clients, network and indexer on top of `BidonZk` (`EXTENDS`), see below |
| `MCBidClient` | - | two bidders and what they ask for |
| `AccountLists` | the account lists of `lib.mjs` and `light.mjs`, the Accounts structs of `lib.rs` | tables, and what it means for a list to fit a struct |
| `MCAccountLists` | - | one instruction after another is built |
| `OpsHub` | the announcements and the command loop of `keeper.mjs` and `tg.mjs` | ticks, Telegram and the operator |
| `OperatorProofs` | - | lemmas on sums (`UnitSum`) and on one call of `update_top` (`TopN`) |
| `BoardProofs` | - | theorems about `Board`, its refinement of `TopSet` included |
| `BidonZkProofs` | - | theorems about `BidonZk`: types, ids, deposits, time and who wins |
| `BidonZkMoney` | - | where the money is; extends `BidonZkProofs` |
| `SettlesProofs` | - | the refinement of `Settlement`, and the guards of the payouts; extends `BidonZkMoney` |
| `KeeperProofs` | - | theorems about `Keeper` |
| `OpsHubProofs` | - | theorems about `OpsHub` |
| `BidClientProofs` | - | theorems about `BidClient`; extends `BidonZkMoney` |

### BidonZk and the code

Variables are the accounts: `config` (`Config`), `deposit_vault`, `auction[a]`,
`ext[a]` (`AuctionExt`), `vault[a]`, `proposal_total[a][p]` and
`bid[a][<<p, bidder>>]` (the compressed leaves, keyed by the seeds of their
addresses), `wallet[o]` (the owners' USDC accounts) and `now` (the Clock). Three
history variables record what no account says: USDC sent straight to a vault
(`stray`, `deposit_stray`) and when the set of winners last changed
(`last_change`). No action reads them.

| action | handler | action | handler |
|---|---|---|---|
| `Initialize` | `initialize` | `TopUpBid` | `top_up_bid` |
| `SetConfig` | `set_config` | `ClaimWinnings` | `claim_winnings` |
| `InitDepositVault` | `init_deposit_vault` | `Withdraw` | `withdraw` |
| `CreateAuction` | `create_auction` | `CloseAuction` | `close_auction` |
| `PlaceBid` | `place_bid` | `CancelAuction` | `cancel_auction` |
| `RaiseBid` | `raise_bid` | `ForceCloseAuction` | `force_close_auction` |

A guard is a `require!`, an account constraint, or the failure of a CPI (balance
too small, token account not empty). The shared tail of the three bid handlers is
`BookBid`. Around the program there are `Tick` (the clock), `DonateToVault` and
`DonateToDepositVault` (anyone can send USDC to a vault) and `LegacyCreate`
(auctions of schema 1 and 2 that an older version of the program left behind, which
today's handlers still have to settle).

Callers are not trusted. A raise or top-up supplies a `ProposalTotal` leaf, any
leaf of any auction, with any total it may once have held; a top-up or withdraw
supplies a `Bid` leaf of any auction with any amount it may once have held. What
the proof guarantees is one condition (`ProposalProved`, `BidProved`: the leaf
exists now with these contents), what the handler checks is another (`meta =
<<a, pid>>`, `BidBound`: it is a leaf of this auction and proposal). The lemma
`BidsAreCurrent` shows what the two come to.

What is abstracted:

* Addresses are keys: an Auction is its id, a `Bid` leaf its auction, proposal and
  bidder. Hash and PDA collisions are not modelled.
* Lamports, rent, the fee payer and the relayer's keys; only whether an account
  exists matters.
* The token accounts of creator, receiver and bidders exist. The runs do not cover
  an owner closing a token account before a refund.
* Time is an unbounded integer: i64 saturation of `end_time` is out of reach of
  durations of at most `MAX_DURATION_SECS`. u64 amounts are checked
  against `U64Max` where the code uses checked arithmetic. The fee of a claim is a
  checked product, `pot * fee_bps`, which fails for a pot above 2^64 / 1000 base units
  (18.4 billion USDC) at the greatest fee; the code has no bound on a pot, so that a
  claim can always be executed rests on the supply of the mint (`FeesNeverOverflow`).
  `reconfigured` has `U64Max` at the greatest product it can reach: with one less
  `PayoutsNeverBlocked` is violated.
* The default tail of `winners`, `content_hash`, events, and the deprecated
  `winner_proposal` and `winner_amount`, which only copy the first slot.
* Schema 0 accounts have the old layout, which `Account<Auction>` does not
  deserialize, so no handler ever runs on one.

A closed account keeps its last contents with status `"closed"`, as a history that
no handler reads.

### How the modules compose

`BidonZk` is the program in full. Nobody who settles auctions needs all of it, so
`Settlement` states what they rely on: an account lives, ends, is paid, is closed;
a bid may change winners and end only before the end; a claim happens once, a refund
only to a loser, after the end, once; only an auction that owes nothing is closed.
`many_auctions` checks that every instruction of `BidonZk` is a step of `Settlement`
under the mapping of `Settles`, and `Keeper` then runs against `Settlement`, with
`Others` taking any step of it at any time. `BidClient` instead extends `BidonZk`
itself, because the contents of leaves are what matters there.

### Keeper and the code

A tick is the sequence of awaited calls of `tick()` and `resolveAuction`, one step per
call, kept in `tick[t]` for each of several `Slots`: `setInterval` and `GET /resolve`
start a tick whether or not another one is awaiting (`keeper.mjs:458, 466`).

| action | code | action | code |
|---|---|---|---|
| `StartTick` | the config is read, `now` is `Date.now()` | `RefundOne` | `buildWithdraw`, `sendIx`, `isTransient` |
| `SkipResolved`, `VisitAuction` | pass 1 | `CloseOne` | `close_auction` |
| `Enumerate` | `fetchProgramBids` | `CheckVault` | the vault balance, `return {done}`, `markDone` |
| `SendClaim`, `Reread` | `claim_winnings` and its `catch` | `AbortTick` | the outer `catch`, a failed enumeration |
| `Post` | `markResolvedInStore` | `Crash`, `Restart` | `loadResolved` |

A call that goes out may be executed and confirmed, executed without the keeper
hearing of it, rejected by the program, or lost. What is abstracted:

* A read of an account may be stale by anything that happened since its end
  (`Views`): the claim or the close is not seen yet. A node may not have an auction at all yet
  (`Answers`, for the auctions in `Unseen`), which pass 1 takes for an auction that was closed.
  A node that has an auction but lags behind its end is not modelled.
* The indexer that serves the enumeration may not have closed a leaf yet, and may not
  have seen a bid: each time it misses any of `Unindexed`, a constant set of bids.
* An error is known by its text alone, and `isTransient` may or may not match it, whatever
  went wrong: `RefundOne` leaves the class of every failure open. A refund the program would
  pay may fail with a text that is not matched (HTTP 500, a relayer without lamports, a proof
  out of date, `decodeBid` of the null an indexer that is behind returns), and a rejection may
  be matched by digits in its text (`429`, `50[234]`). `AfterError` is what the code makes of
  the class.
* Two variables are history, read by the properties alone (`lapses`): `passed_over`, the open
  bids that a tick did not list or whose refund failed with an error it took for an answer of the
  program, and `overlooked`, the auctions taken for closed that a node only did not have.
* The first tick is awaited alone at startup; the model lets ticks overlap from the start.
* `KEEPER_CLOSE`, off by default, is a choice of `CloseOne`.
* Schema 0 accounts (`keeper.mjs:420`) and the paging of the enumeration.

The comment in `markResolvedInStore` says that a failed POST is rewritten on the next tick; a
resolved id is skipped on the next tick, and only a restart writes it again. No money
depends on it.

### BidClient and the code

A bidder works through the bids and withdraws it asks for. Each is built from the
indexer's copy (`ReadProposal`, `ReadBid`, one awaited read each), proved against what the
copy is by then (`Prove`), sent, and then either confirmed, or given up as lost,
rejected or unknown. `Retried` and `BuildAgain` are what `testConcurrency` does, repeated:
wait for the indexer, build afresh, send. A place, a raise and a withdraw are
protected by the program (the address of the first attempt is taken, the leaf is
gone); a top-up is not, and no caller in the repository sends one again.
A place keeps its proposal id in every attempt. After a bid that landed without
the client hearing of it, the builder of the next attempt throws, or its proof is
refused, for ever; that is how the client finds out.
Callers put the `auction_ext` account among those of the builder: without it
no bid is accepted, which is the finding of `account_lists`. Proofs fit a leaf as it is,
an address that is free, and nothing else; Merkle trees are external.

### OpsHub and the code

`ReadCount` and `CompareCount` are the two halves of the part of a tick that
announces auctions: the await lies between them. `Drain`, `Poll` and `Handle` are
`runCommandLoop`. To announce or to answer is to try once: `alertNewAuction` and
`tgCall` swallow every error. `tgGetUpdates` never throws, so the pause of three
seconds in `runCommandLoop` is only reached when answering throws, and a Telegram that
refuses at once is polled in a tight loop; nothing depends on it.

## 3. Runs

| run | instance | shows |
|---|---|---|
| `one_auction` | 1 auction, 3 proposals, 2 seats, 2 symmetric bidders with 3 units, every usable and unusable duration, seat count and cap, times 0..6 | `TypeOK`, `VaultBacksBids`, `TotalsMatchBids`, `WinnersAreTop`, `AntisnipeHolds`, `PayoutsNeverBlocked`, `PartitionFrozen` |
| `many_auctions` | 2 auctions of schema 1, 2 or 3 one after the other or at once, 1 bidder | `DepositConserved`, `VaultBacksBids`, `BiddersWhole`, `NobodyStranded`, `NeverReopened`, `ImplementsSettlement` |
| `reconfigured` | the fee (legal and too great) and the receiver change at any time; a creator who bids and receives fees; a donor; `FairSpec` | `SupplyConserved`, `PayoutsNeverBlocked`, `FeeAsQuoted`, `LosersRefunded`, `AuctionsClose` |
| `board` | the board alone: 4 proposals, 1 to 3 seats and unusable seat counts, totals to 5 | `BoardIsTop`, `ChangeReported`, `ImplementsTopSet` |
| `force_close` | as `reconfigured`, no donor | finding: `ForceCloseRecovers` is violated |
| `keeper` | 1 auction, 2 ticks at a time, a winner, a loser with a token account, whose bid the indexer may miss, and one without, a node that may not have the auction, one fault (a lost call or answer, a refund that fails, a node that is behind, a crash) | `TypeOK`, `DoneUnlessLapsed`, `NeverPaidBlindly`, `SettledForGood`, `AllSettled` |
| `keeper_refunds` | as `keeper`, with indexer and nodes up to date: one refund may fail | finding: `DoneIsSettled` is violated |
| `keeper_index` | as `keeper`, with no fault and nodes up to date: the indexer may miss the bid | finding: `RestIsUnpayable` is violated |
| `keeper_clock` | with no fault, indexer and nodes up to date, but `Date.now()` up to 1 ahead of the chain | finding: `DoneWhenOver` is violated |
| `bid_client` | 2 bidders, 5 requests of all four kinds on 2 proposals, 3 tries each, 1 loss | `ClientTypeOK`, `StakedAsAsked`, `RaisesLand` |
| `account_lists` | the 11 instructions that the clients build | finding: `BuiltAsDeclared` is violated |
| `ops_hub` | 2 auctions, 3 updates (2 of the operator), pages of 2, 2 restarts, 2 lost polls | `AnnouncedOnce`, `AnsweredOnce`, `CommandsKept`, `NoneSkipped`, `CreationsAnnounced`, `CommandsAnswered` |

Why the bounds are enough. Two seats and three proposals (board: three and four)
give every case of `update_top`: an append, a reorder, an eviction, a tie, a lost
challenge. Two bidders give a proposal backed by both, the stale total and the
position a top-up must find. The anti-snipe window is 2 and the caps 1 and 2, so an
extension is reached that the cap cuts and one it does not, and an auction can be
extended twice. Six time units hold the longest auction, its extension, the grace and
a time after it. Two auctions are what cross-auction claims need. The clock stops at
`MaxTime` and no auction is created after `LastCreate`: both bound the model, not
the code; the last state stutters through `SetConfig`, so deadlock stays checked.
`Board` really stops when every total is at its bound.

`Keeper`: one auction suffices because a tick keeps nothing of one auction for the next
but its time and its enumeration, and the theorems hold for any number; two ticks are the overlap
the code allows, and every pair of calls of theirs meets in some order. One end time
suffices for `keeper`: a tick reads its clock first (`keeper.mjs:398`), so an end it
finds over can no longer be moved by a bid, unless its clock is ahead, which is
`keeper_clock`, with two end times. One
fault is a lost claim, a lost confirmation, a refund that fails with any text, a failed reread, a
failed balance, an answer of a node that does not have the auction, or a crash with
POSTs still out; a store that does not answer and bids the indexer misses are not
counted. Again the safety theorems hold for any number.
`BidClient`: two bidders are what contention needs, one of them with a later request
that depends on an earlier one; the wallets hold enough for any bid to be made twice, so
a double stake would be seen. `OpsHub`: a page is smaller than the backlog, so a batch
can be cut; no two ticks wait with the same count at the same time, as comparing a count
a second time changes nothing.

Fairness (`FairSpec`). The clock runs. `claim_winnings`, `withdraw` and
`close_auction` take no signature of anyone with a stake; the keeper, and anybody
who wants their money, keeps trying them, so each is weakly fair *per auction*. Which
bid a fair `WithdrawABid` refunds is left open; as every refund closes its leaf, all of
them happen. Nothing is assumed of `create_auction`, bids, cancel or force close.
`AuctionsClose` exempts auctions somebody donated to: one stray unit keeps the
vault non-empty for ever, and the code accepts that. Both liveness properties are checked
where every auction is of the current schema: a claim names the deposit vault whatever the
schema, so an auction that an older version left behind is settled only once the owner has
called `init_deposit_vault`, which no fairness can assume.
`Keeper`: a tick in progress goes on and a new one starts (awaited calls return or
throw, `setInterval`), the host restarts the process, the clock runs. The other cranks are *not*
fair: `AllSettled` is the keeper's own work, so it exempts what an answer hid from the keeper
(`SettledUnlessLapsed`): such an auction is marked done, and nothing but the owner of the
bid, or somebody else's `withdraw`, settles it. `BidClient`: clients go on, transactions arrive or
expire, the indexer catches up (`FairClientSpec`); the clock is not fair and nobody is forced to bid.
`OpsHub`: ticks and the command loop go on.

Findings.

* `force_close_auction` requires an empty vault (`lib.rs:888`), while its doc
  comment, the comment on `CLOSE_GRACE_SECS` and that on the accounts struct still
  describe the sweep to the fee receiver that was removed (the comment in its body
  says why). The code is the safer of the two; the comments are stale.
* `keeper.mjs` decides by the host's clock that an auction is over and takes one
  without bids for paid; if that clock is ahead of the chain's, whose
  `unix_timestamp` may trail real time, an auction can be marked done while it still takes
  bids, for ever. `keeper_clock` shows it.
* The `catch` around a withdraw (`keeper.mjs:218-219`) keeps an auction from being done only if
  `isTransient` matches the text of the error; with any other text the refund counts as made,
  although the program would still pay it. Nor is there the guard the comment at lines
  250-251 describes, an auction with losers that are still listed and money in the vault is
  not held back: the code logs there and returns `paid && allRefunded`. `keeper_refunds` shows an
  auction marked done, for ever, with a stake that its owner, or whoever else sends the
  `withdraw`, must get out.
* The comment at `keeper.mjs:255` says that what is left in the vault when no loser is left
  to list belongs to losers without a token account. It may also be the stake of a
  bid that the indexer had not seen when the tick enumerated the leaves: the auction is marked
  done without it. `keeper_index` shows it.
* These last two, and a node that does not have an auction yet (`keeper.mjs:417`, whose
  `null` is taken for a closed account), are all that errors, lags and crashes can do
  to "done" while the clock is not ahead: `DoneMeansSettled` proves it, of reads that are
  no older than an auction's end (section 5).
* `light.mjs` lists eight accounts for a bid where `PlaceBid` and `RaiseBid` have nine
  fields since the anti-snipe companion: the other builders are right
  (`ListsComplete`), and so are these with the companion put in.
* Not runs, because nothing but wording is concerned: no instruction closes `AuctionExt`,
  while the doc comments of `close_auction` and `cancel_auction` (`lib.rs:778-780, 807-808`)
  say that all rent is returned; `lib.rs:140` says there is no upper
  cap on the duration (there is `MAX_DURATION_SECS`), and `lib.rs:1491` says the gates
  require schema 1 (they accept 1, 2 and 3).

## 4. Proofs

All theorems hold for every number of auctions, proposals, seats, bidders and
amounts, under the `ASSUME`s of the modules, which only say that constants are
naturals (or sets of them), that there are finitely many owners, that the window is positive,
that the fee limit is at most the denominator and, in `BidClient`, that the auction bid on
is one and that what is asked for is what a caller may send. TLC evaluates them in every run.

* `BidonZkProofs!TypeCorrect`: `TypeOK` is inductive on its own. It is not
  shape-only: natural balances mean no subtraction underflows, which needs that the
  fee is within the pot (`FeeWithinPot`) and each guard before its transfer.
* `BidonZkProofs!NoReopening`, from `Life`: ids below `auction_count` were created,
  the others are untouched and have no companion. `NeverReopened` alone is not
  inductive: it is the counter that keeps a closed id from coming back.
* `BidonZkProofs!DepositsConserved`: the deposit invariant is `DepositConserved`
  and that the vault does not hold anything before it exists, on top of
  `Life` (a new id was not among the unsettled auctions). Each step adds one auction
  to `Unsettled`, removes one, or leaves the set alone; the product with
  `CreatorDeposit` follows from the cardinality of the changed set.
* `BidonZkProofs!AntisnipeAlwaysHolds`: from `Life` (before creation the last
  change lies a window back) and `ExtendedEndBounds`, the lemma on
  `extend_if_sniped`.
* `OperatorProofs!UpdateTopKeepsTop`: from a correct board, one bid gives a correct
  board. `BubbleUpSorts` is its core: overwriting one slot of a sorted board with
  something that ranks higher and bubbling it up sorts the board again;
  `LandingPlace` shows that the loop stops somewhere unique (least number
  principle), and `AllSeated` that a board below its seats seats everybody.
* `BoardProofs!BoardAlwaysTop`: hence every board reached by bids is the top N.
* `BoardProofs!ChangesReported`, an action property: `UpdateTopSeats` says whom one
  call of `update_top` seats and unseats, whatever it does to the order, and
  `SeatedCardinality` that a sorted board has as many proposals as slots.
* `BoardProofs!BoardImplementsTopSet`, the refinement: the slot that is evicted holds
  the `Last` of the set (`LastSeat`), and the slots are all taken exactly when the set
  has as many members as there are seats. Neither follows from `BoardIsTop` alone: that a
  proposal off the board, placed later, has no total yet needs `UnplacedEmpty`.
* `BidonZkProofs!WinnersAlwaysTop`: the same in the whole program. The
  strengthening `TopInv` adds that only placed proposals have a total: a raise, which
  is checked only against a leaf, can then not name a proposal beyond the counter.
* `BidonZkProofs!EndFreezes`: from `AntisnipeHolds` (an extension never makes the
  end earlier, since the cap is not before it) and because every bid needs
  `now < end_time`.
* `BidonZkMoney!SupplyAlwaysConserved`: the strengthening `SupplyInv` adds that
  whoever is paid is a known owner, and that an auction that is not live has an empty
  vault (so that a creation, which initialises the vault, burns nothing).
  `MoveTotals` says what one transfer does to a sum.
* `BidonZkMoney!TotalsAreCurrent` and `VaultsBackBids`, together, from `StakeInv`, which
  says in addition that a leaf that was never written holds nothing (so a first bid adds
  to zero), that an auction not yet created has no stakes, and that a creator is paid
  only after the end (so no bid reaches a vault whose winning stakes are gone). A
  bid adds the same to one leaf, one total and the vault; a claim takes out exactly the
  winning stakes, because the pot is the sum of the totals on the board
  (`PotIsWinningStakes`, from `WinnersAreTop`), each the sum of its proposal's leaves
  (`TotalGrouped`: a sum by groups is the sum of the whole; it is proved by
  a bijection between the two sets of base units, as induction is out of reach).
* `BidonZkMoney!PayoutsAlwaysCovered`: the money part of `PayoutsNeverBlocked`. Whenever the
  guards of a claim or a refund hold, the vault has the pot or the stake, the fee is
  within the pot, and the deposit vault has the deposit.
* `BidonZkMoney!FeesAsQuoted`: rounding down is in the creator's favour, and the fee is
  that of the creation, whatever the configuration says by now.
* `BidonZkMoney!BiddersAlwaysWhole`, from `WholeInv`: it adds that creators and fee
  receivers are who they should be, so that nothing but stakes ever moves into or out of
  an outsider's wallet.

* `SettlesProofs!ProgramSettles`, the refinement of `Settlement` by the whole program,
  for any number of auctions: what `many_auctions` checks for two. Its invariant
  `SettleInv` is all of the above and `LeafInv`: the leaves of an auction are those of
  its placed proposals, every placed proposal has a backer, a live leaf holds
  something, no leaf is closed before the end, every id below the counter was given
  out, and every end is below a bound. Each part is needed by one step: a bid has to
  show a live leaf behind every winner, including those it does not touch; a close
  reads only that the vault is empty, and that nobody is owed follows because the
  vault covers every losing stake (`MoneyCovers`) and a live leaf is never of
  zero; a cancel reads only `proposal_count = 0`; and a creation has to be of the
  lowest free id. `AccountWritten` says how a write to the account shows in the promise.
* `SettlesProofs!NobodyIsStranded`: an auction that is gone holds no open position but those
  of its winners, whose creator was paid. The handlers read no leaf when they close an
  account: it takes that a closed auction's vault is empty (`SupplyInv`), that the
  vault covers what is owed (`BackedAt`), and that a live leaf is never of zero (`LeafInv`).
* `SettlesProofs!GuardsStayOpen` and `FeesNeverOverflow`: what `PayoutsNeverBlocked` says,
  without `ENABLED`. Every guard of a claim and of the refund of every losing
  leaf holds from the end on; `ClaimNeedsNoMore` and `RefundNeedsNoMore` show that the
  handlers have no other. The checked product of the fee is apart because it alone
  rests on something outside the program, the supply of the mint: a vault never
  holds more than the supply, by `SupplyConserved`.

* `OpsHubProofs`: `AnnouncedAtMostOnce`, `NoneIsSkipped`, `AnsweredAtMostOnce` and
  `NoCommandDropped`, together from `HubInv`. An announced id lies below the base, or below whatever a tick
  may make the base (`AnnounceInv`): counts that were read before a restart are
  gone with the process, and those read since are not below it. A command that was
  answered more often than drains have failed is behind what the next poll and the
  next drain will return (`CommandInv` with `Passed`), which needs that a batch was not
  dropped by Telegram yet (`BatchInv`). None of them is inductive on its own. `NoneIsSkipped` is an action property, the
  safety half of `CreationsAnnounced`: the base passes an auction only by announcing it, and
  that this is the first time needs `AnnounceInv`.

* `KeeperProofs`, for any number of overlapping ticks, auctions, bidders, faults and crashes.
  Without an assumption on clock or indexer: `KeeperTypeCorrect`; `KeeperObeysChain` (the
  chain's side of `Keeper` is a behaviour of `Settlement`, so what the keeper is proved
  against is what `ProgramSettles` gives it, and no keeper can make the program break it);
  and `SettledStaysSettled`, an action property: what is settled stays settled whatever anybody
  does afterwards, which is what lets "done" be for ever.
  Under `MaxAhead = 0`, a clock not ahead of the chain's, and nothing else: `DoneMeansSettled`
  (`DoneUnlessLapsed`, for errors of any text, any lag of the indexer and any auctions a node
  does not have), `OnlyLapsesUnsettle` (as long as nothing was passed over or overlooked, "done"
  means settled) and `CreatorsNotTakenForPaid`.
  The inductive invariant `KeeperInv` adds to `TypeOK` and `DoneUnlessLapsed` what a
  tick may believe (`TickInv`): every snapshot in `to_resolve` is of an auction that is
  over, with its final winners and a `paid` that is not more than the truth; every
  leaf still owed is in the enumeration or was passed over; while `all_refunded`
  holds, only the bidders in `refunds`, and those who are unpayable or passed over, are
  still owed. The invariant survives everybody else's steps because after the end a
  settlement step only makes more true, and what was passed over is not forgotten. Without
  `MaxAhead = 0` the first of these fails, which is the finding of `keeper_clock`.

* `BidClientProofs!StakesAreAsked`, `ClientTypeCorrect` and `ClientsCallTheProgram`, of
  `ClientSpec` (no fairness), from `CInv`: the money invariants of the program, and four
  parts about the clients. `FlyingInv`: a transaction under way is a try, that has not
  landed, of a request its sender has reached, and no two are the same try.
  `LandedInv`: what has landed leaves a trace, because the address of a first bid is taken
  from then on, and a top-up is only ever tried once. `ClientInv`: a client moves on only when
  a try has landed. `StakeCarried`: until a bidder takes something back, the sum of
  its leaves is the sum of the requests that landed. `StakedAsAsked` follows by
  comparing sums over three nested sets of requests, and is not inductive without any of the
  four. `CarriedOnce` is where a second try is refused: a place or a raise by the program,
  a top-up only because nobody sends it again, which is why `Retried` leaves it out.
  `ClientsCallTheProgram` needs `FlyingInv` too: that the instruction under way is one a caller
  may send.

Layout: each action is first reduced to what it does to the variables a property
reads (`BidStep`, `Created`, `PaidFacts`, `ClosedFacts`), and each preservation
proof has one step per such form. `BidsAreCurrent` is the step where the callers'
stale or foreign leaves are disposed of: a bid that goes through is a bid on the
current contents of the leaves of its own auction.

Only model-checked: `PayoutsNeverBlocked` as it stands, because it needs `ENABLED` (the
two theorems of `SettlesProofs` are its content); the liveness properties `LosersRefunded`,
`AuctionsClose`, `AllSettled`, `RaisesLand`, `CreationsAnnounced` and `CommandsAnswered`,
which are out of the prover's reach.

## 5. What is not modelled

The Kora configuration, the devnet scripts and tests (read as documentation), byte layouts of
instructions and accounts, the texts of messages and `/status`, and an RPC node that lags
behind the end of an auction: the keeper has no defence there, and a model could only
repeat that. The balance alerts of the hub are left out too: two flags per key,
independent of everything else in it; that a send that fails is not repeated is listed as
a hazard, and no property would say more than the line does.
