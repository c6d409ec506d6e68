----------------------------- MODULE BidClient ------------------------------
(***************************************************************************)
(* The Light client (client/light.mjs, and the way e2e.mjs and             *)
(* kora-client.mjs send what it builds) on top of the program of BidonZk.  *)
(* A builder reads leaves from the indexer (Photon), asks it for a         *)
(* validity proof and puts what it read into an instruction; by the time   *)
(* the transaction arrives the leaves may have changed.  The indexer lags  *)
(* the chain; a transaction may be lost, may land late, and may land       *)
(* without the sender hearing of it, who then builds and sends again.      *)
(*                                                                         *)
(* Callers put the companion of the auction among the accounts (see module *)
(* AccountLists: without it no bid is accepted).                           *)
(***************************************************************************)
EXTENDS BidonZk, AccountLists

CONSTANTS
    Requests,          \* what each bidder asks for, in order
    MaxSends,          \* bound: transactions a bidder sends for one request
    MaxFaults          \* bound: transactions and answers that are lost

ASSUME RequestsAssumption ==
    /\ Requests \in [Bidders -> Seq([op : {"place_bid", "raise_bid", "top_up_bid", "withdraw"},
                                     pid : Proposals, amount : Amounts])]
    /\ {MaxSends, MaxFaults} \subseteq Nat

VARIABLES
    indexed,           \* the indexer's copy of the leaves
    client,            \* the bidders' clients
    flying,            \* transactions sent that have neither landed nor expired
    landed,            \* history: transactions that landed
    faults             \* lost so far

clients == <<indexed, client, flying, landed, faults>>
all     == <<vars, clients>>

The == 0                                    \* the one auction of this model

ASSUME TheAssumption == The \in Auctions

Leaf == [total : [Proposals -> Nat], bid : [Keys -> BidType]]

\* What the indexer has seen when it has caught up.
OnChain == [total |-> proposal_total[The], bid |-> bid[The]]

Instruction == [op : {"place_bid", "raise_bid", "top_up_bid", "withdraw"},
                bidder : Bidders, pid : Proposals, amount : Nat,
                seen_total : Nat, seen_bid : Nat]

Transaction == [ix : Instruction, request : Nat, try : Nat]

Client == [pc : {"build", "build_bid", "prove", "send", "await", "wait", "gave_up"},
           request : Nat, try : Nat, seen_total : Nat, seen_bid : Nat]

Start(i) == [pc |-> "build", request |-> i, try |-> 0, seen_total |-> 0, seen_bid |-> 0]

Working(u) == client[u].request \in DOMAIN Requests[u]
Request(u) == Requests[u][client[u].request]

\* The proposal is the caller's, in every attempt.
Pid(u) == Request(u).pid

Key(u) == <<Pid(u), u>>

Fault   == faults < MaxFaults /\ faults' = faults + 1
NoFault == UNCHANGED faults

Becomes(u, c) == client' = [client EXCEPT ![u] = c]

ClientInit ==
    /\ Init
    /\ indexed = OnChain
    /\ client = [u \in Bidders |-> Start(1)]
    /\ flying = {} /\ landed = {}
    /\ faults = 0

----------------------------------------------------------------------------
(* Building: buildPlaceBid, buildRaiseBid, buildTopUpBid, buildWithdraw.   *)

\* A request is worked on from the moment the auction exists.
At(u, pc) == Live(The) /\ Working(u) /\ client[u].pc = pc

ReadsTotal(u) == Request(u).op \in {"raise_bid", "top_up_bid"}
ReadsBid(u)   == Request(u).op \in {"top_up_bid", "withdraw"}

\* A ProposalTotal that is to be updated must be indexed; else the builder throws.
ReadProposal(u) ==
    LET total == indexed.total[Pid(u)]
    IN  /\ At(u, "build")
        /\ ReadsTotal(u) => total > 0
        /\ Becomes(u, [client[u] EXCEPT
              !.pc = IF ReadsBid(u) THEN "build_bid" ELSE "prove",
              !.seen_total = IF ReadsTotal(u) THEN total ELSE 0])
        /\ UNCHANGED <<vars, indexed, flying, landed, faults>>

\* The Bid is read in a call of its own.
ReadBid(u) ==
    LET b == indexed.bid[Key(u)]
    IN  /\ At(u, "build_bid")
        /\ b.leaf = "live"
        /\ Becomes(u, [client[u] EXCEPT !.pc = "prove", !.seen_bid = b.amount])
        /\ UNCHANGED <<vars, indexed, flying, landed, faults>>

NewBid(u)      == indexed.bid[Key(u)].leaf = "none"
NewProposal(u) == indexed.total[Pid(u)] = 0
SameTotal(u)   == indexed.total[Pid(u)] = client[u].seen_total
SameBid(u)     == indexed.bid[Key(u)] = [leaf |-> "live", amount |-> client[u].seen_bid]

\* getValidityProofV0: the leaves read are still there, the new addresses are not.
Provable(u) ==
    /\ Request(u).op = "place_bid" => NewProposal(u)
    /\ ReadsTotal(u) => SameTotal(u)
    /\ IF ReadsBid(u) THEN SameBid(u) ELSE NewBid(u)

\* A builder that throws is called again, and reads again.
Prove(u) ==
    /\ At(u, "prove")
    /\ Becomes(u, [client[u] EXCEPT !.pc = IF Provable(u) THEN "send" ELSE "wait"])
    /\ UNCHANGED <<vars, indexed, flying, landed, faults>>

Built(u) == [op |-> Request(u).op, bidder |-> u, pid |-> Pid(u),
             amount |-> Request(u).amount, seen_total |-> client[u].seen_total,
             seen_bid |-> client[u].seen_bid]

----------------------------------------------------------------------------
(* Sending: sendIx, or sendViaKora. *)

\* Mutant: one transaction too many.
TriesOne(u) == client[u].try <= MaxSends

TriesLeft(u) == client[u].try < MaxSends

Send(u) ==
    /\ At(u, "send")
    /\ TriesLeft(u)
    /\ flying' = flying \cup {[ix |-> Built(u), request |-> client[u].request,
                               try |-> client[u].try + 1]}
    /\ Becomes(u, [client[u] EXCEPT !.pc = "await", !.try = @ + 1])
    /\ UNCHANGED <<vars, indexed, landed, faults>>

Id(tx)  == <<tx.ix.bidder, tx.request, tx.try>>
Last(u) == <<u, client[u].request, client[u].try>>

\* The instructions whose accounts the program can read.
Readable == {op \in Instructions : Accepted(op, Completed(op))}

\* The program takes the instruction as it was built.
Executes(ix) ==
    LET meta == <<The, ix.pid>>
    IN  /\ ix.op \in Readable
        /\ \/ /\ ix.op = "place_bid" /\ ix.pid = auction[The].proposal_count
              /\ PlaceBid(The, ix.bidder, ix.amount, TRUE)
           \/ /\ ix.op = "raise_bid"
              /\ RaiseBid(The, ix.pid, ix.bidder, ix.amount, TRUE, meta, ix.seen_total)
           \/ /\ ix.op = "top_up_bid"
              /\ TopUpBid(The, ix.pid, ix.bidder, ix.amount, TRUE, meta, ix.seen_total,
                          The, ix.seen_bid)
           \/ /\ ix.op = "withdraw"
              /\ Withdraw(The, ix.pid, ix.bidder, The, ix.seen_bid)

Land(tx) ==
    /\ Executes(tx.ix)
    /\ flying' = flying \ {tx}
    /\ landed' = landed \cup {Id(tx)}
    /\ UNCHANGED <<indexed, client, faults>>

\* The program would take the instruction now.
Executable(ix) == ENABLED Executes(ix)

\* A transaction that the program rejects, or that is lost, is gone for good:
\* its blockhash expires.
Expire(tx) ==
    /\ IF Executable(tx.ix) THEN Fault ELSE NoFault
    /\ flying' = flying \ {tx}
    /\ UNCHANGED <<vars, indexed, client, landed>>

Confirmed(u) ==
    /\ At(u, "await")
    /\ Last(u) \in landed
    /\ Becomes(u, Start(client[u].request + 1))
    /\ UNCHANGED <<vars, indexed, flying, landed, faults>>

\* Mutant: everything is sent again.
AllRetried == {"place_bid", "raise_bid", "top_up_bid", "withdraw"}

\* What is built and sent again after a failure.  A second place_bid or
\* raise_bid needs the address of the first, a second withdraw its leaf.
Retried == {"place_bid", "raise_bid", "withdraw"}

\* Mutant: the same instruction is sent once more.
SendAgain(c) == [c EXCEPT !.pc = "send"]

\* Wait for the indexer, then build a new one.
BuildAgain(c) == [c EXCEPT !.pc = "wait"]

\* The transaction was rejected or has expired; or nobody knows.
Unconfirmed(u) ==
    /\ At(u, "await")
    /\ IF Last(u) \in landed \cup {Id(tx) : tx \in flying} THEN Fault ELSE NoFault
    /\ Becomes(u, IF Request(u).op \in Retried THEN BuildAgain(client[u])
                  ELSE [client[u] EXCEPT !.pc = "gave_up"])
    /\ UNCHANGED <<vars, indexed, flying, landed>>

\* waitCompressed: the indexer catches up, or the tries run out before it does.
Wait(u) ==
    /\ At(u, "wait")
    /\ IF indexed = OnChain THEN NoFault ELSE Fault
    /\ Becomes(u, [client[u] EXCEPT !.pc = "build"])
    /\ UNCHANGED <<vars, indexed, flying, landed>>

Index ==
    /\ indexed # OnChain
    /\ indexed' = OnChain
    /\ UNCHANGED <<vars, client, flying, landed, faults>>

----------------------------------------------------------------------------

ClientStep(u) ==
    \/ ReadProposal(u) \/ ReadBid(u) \/ Prove(u) \/ Send(u)
    \/ Confirmed(u) \/ Unconfirmed(u) \/ Wait(u)

Delivery(u) == \E tx \in flying : tx.ix.bidder = u /\ (Land(tx) \/ Expire(tx))

\* The clock, the owner, the creator, and whoever settles the auction.
Surroundings ==
    /\ \/ Tick \/ Configure \/ Create(The)
       \/ ClaimWinnings(The) \/ WithdrawABid(The) \/ CloseAuction(The)
    /\ UNCHANGED clients

ClientNext ==
    \/ \E u \in Bidders : ClientStep(u) \/ Delivery(u)
    \/ Index
    \/ Surroundings

ClientSpec == ClientInit /\ [][ClientNext]_all

\* Clients run, what was sent arrives or expires, and the indexer catches up.
FairClientSpec ==
    /\ ClientSpec
    /\ \A u \in Bidders : WF_all(ClientStep(u)) /\ WF_all(Delivery(u))
    /\ WF_all(Index)

----------------------------------------------------------------------------
(* Properties. *)

\* Clients, transactions and the indexer's copy hold values of their types.
ClientTypeOK ==
    /\ indexed \in Leaf
    /\ client \in [Bidders -> Client] /\ \A u \in Bidders : client[u].try <= MaxSends
    /\ \A tx \in flying : tx \in Transaction
    /\ landed \subseteq Bidders \X Nat \X Nat
    /\ faults \in 0 .. MaxFaults

\* What u has asked to stake up to request n.
Asked(u, n) ==
    Total([i \in DOMAIN Requests[u] |-> Requests[u][i].amount],
          {i \in DOMAIN Requests[u] : i <= n /\ Requests[u][i].op # "withdraw"})

\* However often a bid is built and sent again, from however stale a copy, the
\* bidder has staked all that was confirmed and no more than was asked for.
StakedAsAsked ==
    \A u \in Bidders :
        (\A k \in Proposals \X {u} : bid[The][k].leaf # "closed") =>
            LET stake == Total(Staked(The), Proposals \X {u})
            IN  /\ Asked(u, client[u].request - 1) <= stake
                /\ stake <= Asked(u, client[u].request)

\* Contention on a proposal is latency, not a cap (testConcurrency): a raise
\* that keeps being built again lands in the end, if bidding stays open.
RaisesLand ==
    \A u \in Bidders : \A i \in DOMAIN Requests[u] :
        client[u].request = i /\ Requests[u][i].op = "raise_bid" /\ Live(The)
            ~> ~ BiddingOpen(The) \/ \E try \in 1 .. MaxSends : <<u, i, try>> \in landed
=============================================================================
