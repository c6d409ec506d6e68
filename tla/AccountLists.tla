--------------------------- MODULE AccountLists -----------------------------
(***************************************************************************)
(* The accounts that the builders of client/lib.mjs and client/light.mjs   *)
(* list in an instruction, against the Accounts structs of lib.rs that     *)
(* Anchor reads them into: in order, one account per field, a field of     *)
(* type Option<Account> included.  What is left over (remaining_accounts)  *)
(* is for Light, which expects its system program first.                   *)
(***************************************************************************)
EXTENDS Sequences, Naturals

Read(x)  == [account |-> x, signer |-> FALSE, writable |-> FALSE]
Write(x) == [account |-> x, signer |-> FALSE, writable |-> TRUE]
Sign(x)  == [account |-> x, signer |-> TRUE,  writable |-> FALSE]
Pay(x)   == [account |-> x, signer |-> TRUE,  writable |-> TRUE]

Bids == {"place_bid", "raise_bid", "top_up_bid"}

----------------------------------------------------------------------------
(* The client. *)

ixInitialize == <<Write("config"), Pay("owner"), Read("system_program")>>

ixSetConfig == <<Write("config"), Sign("owner")>>

ixInitDepositVault ==
    <<Read("config"), Read("usdc_mint"), Write("deposit_vault"), Pay("payer"),
      Read("token_program"), Read("system_program")>>

ixCreateAuction ==
    <<Write("config"), Write("auction"), Read("usdc_mint"), Write("vault"),
      Write("deposit_vault"), Write("auction_ext"), Sign("creator"),
      Write("creator_token"), Pay("payer"), Read("token_program"), Read("system_program")>>

ixClaimWinnings ==
    <<Read("config"), Write("auction"), Write("vault"), Write("deposit_vault"),
      Write("creator_token"), Write("fee_receiver_token"), Read("usdc_mint"),
      Read("token_program")>>

ixCloseAuction ==
    <<Write("auction"), Write("vault"), Write("rent_recipient"), Read("token_program")>>

ixCancelAuction ==
    <<Read("config"), Write("auction"), Write("vault"), Write("deposit_vault"),
      Read("usdc_mint"), Write("creator_token"), Sign("creator"),
      Write("rent_recipient"), Read("token_program")>>

bidAccounts ==
    <<Read("config"), Write("auction"), Write("vault"), Read("usdc_mint"),
      Write("bidder_token"), Sign("bidder"), Pay("payer"), Read("token_program")>>

withdrawAccounts ==
    <<Read("config"), Read("auction"), Write("vault"), Write("bidder_token"),
      Read("usdc_mint"), Pay("payer"), Read("token_program")>>

\* PackedAccounts.newWithSystemAccountsV2, and the trees of the leaves.
remainingAccounts == <<Read("light_system_program"), Write("trees")>>

\* The keys of a built instruction.
Listed ==
    [initialize         |-> ixInitialize,
     set_config         |-> ixSetConfig,
     init_deposit_vault |-> ixInitDepositVault,
     create_auction     |-> ixCreateAuction,
     place_bid          |-> bidAccounts \o remainingAccounts,
     raise_bid          |-> bidAccounts \o remainingAccounts,
     top_up_bid         |-> bidAccounts \o remainingAccounts,
     claim_winnings     |-> ixClaimWinnings,
     withdraw           |-> withdrawAccounts \o remainingAccounts,
     close_auction      |-> ixCloseAuction,
     cancel_auction     |-> ixCancelAuction]

Instructions == DOMAIN Listed

\* The keys of an instruction once the caller has put the companion into a bid.
Completed(ix) ==
    IF ix \in Bids THEN bidAccounts \o <<Read("auction_ext")>> \o remainingAccounts
    ELSE Listed[ix]

----------------------------------------------------------------------------
(* The program. *)

PlaceBidStruct ==
    <<Read("config"), Write("auction"), Write("vault"), Read("usdc_mint"),
      Write("bidder_token"), Sign("bidder"), Pay("payer"), Read("token_program"),
      Read("auction_ext")>>

\* What the fields of the Accounts structs ask for; mut, init and close write.
AccountsStruct ==
    [initialize         |-> <<Write("config"), Pay("owner"), Read("system_program")>>,
     set_config         |-> <<Write("config"), Sign("owner")>>,
     init_deposit_vault |->
        <<Read("config"), Read("usdc_mint"), Write("deposit_vault"), Pay("payer"),
          Read("token_program"), Read("system_program")>>,
     create_auction     |->
        <<Write("config"), Write("auction"), Read("usdc_mint"), Write("vault"),
          Write("deposit_vault"), Write("auction_ext"), Sign("creator"),
          Write("creator_token"), Pay("payer"), Read("token_program"),
          Read("system_program")>>,
     place_bid          |-> PlaceBidStruct,
     raise_bid          |-> PlaceBidStruct,  \* RaiseBid, "same shape"
     top_up_bid         |-> PlaceBidStruct,
     claim_winnings     |->
        <<Read("config"), Write("auction"), Write("vault"), Write("deposit_vault"),
          Write("creator_token"), Write("fee_receiver_token"), Read("usdc_mint"),
          Read("token_program")>>,
     withdraw           |->
        <<Read("config"), Read("auction"), Write("vault"), Write("bidder_token"),
          Read("usdc_mint"), Pay("payer"), Read("token_program")>>,
     close_auction      |->
        <<Write("auction"), Write("vault"), Write("rent_recipient"), Read("token_program")>>,
     cancel_auction     |->
        <<Read("config"), Write("auction"), Write("vault"), Write("deposit_vault"),
          Read("usdc_mint"), Write("creator_token"), Sign("creator"),
          Write("rent_recipient"), Read("token_program")>>]

\* An account fits a field: it is the one that the seeds, the address or the
\* type of the field ask for, and it signs and is writable where it must.
Fits(meta, field) ==
    /\ meta.account = field.account
    /\ field.signer => meta.signer
    /\ field.writable => meta.writable

\* What the Light handlers want left over.
Remaining(ix) == IF ix \in Bids \cup {"withdraw"} THEN remainingAccounts ELSE <<>>

\* Anchor fills every field, and Light finds its accounts after them.  A field
\* that is optional takes an account too: the program's own id for None.
Accepted(ix, keys) ==
    LET n == Len(AccountsStruct[ix])
    IN  /\ Len(keys) >= n
        /\ \A i \in 1 .. n : Fits(keys[i], AccountsStruct[ix][i])
        /\ SubSeq(keys, n + 1, Len(keys)) = Remaining(ix)

\* Every list is right, those of the bids once the companion is put in.
ASSUME ListsComplete == \A ix \in Instructions : Accepted(ix, Completed(ix))
=============================================================================
