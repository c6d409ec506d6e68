-------------------------- MODULE BidClientProofs ---------------------------
(***************************************************************************)
(* What a bidder may rely on, for every value of the constants: clients    *)
(* use the program as any caller may, and however often a bid is built and *)
(* sent again, over whatever network and from however stale an indexer,    *)
(* what is staked is what was asked for.                                   *)
(***************************************************************************)
EXTENDS BidClient, BidonZkMoney

\* The amounts of the requests of u, and those that ask to stake something.
AmountOf(u) == [i \in DOMAIN Requests[u] |-> Requests[u][i].amount]
Stakes(u)   == {i \in DOMAIN Requests[u] : Requests[u][i].op # "withdraw"}

\* The requests of u that a transaction has carried out.
Carried(u) == {i \in Stakes(u) : \E try \in Nat : <<u, i, try>> \in landed}

\* A transaction is one try of a request that its sender has reached, and has
\* not landed yet; a top-up is tried once only.
TxOK(tx) ==
    LET u == tx.ix.bidder
        i == tx.request
    IN  /\ i \in DOMAIN Requests[u] /\ i <= client[u].request
        /\ tx.ix.op = Requests[u][i].op
        /\ tx.ix.pid = Requests[u][i].pid /\ tx.ix.amount = Requests[u][i].amount
        /\ i = client[u].request => tx.try <= client[u].try
        /\ tx.ix.op = "top_up_bid" => tx.try = 1
        /\ Id(tx) \notin landed

FlyingInv ==
    /\ \A tx \in flying : TxOK(tx)
    /\ \A tx, other \in flying : Id(tx) = Id(other) => tx = other

\* What has landed leaves a trace that keeps a second try from landing: the
\* address of a first bid is taken, and of a top-up there is no second try.
LandedInv ==
    \A u \in Bidders, i, try \in Nat :
        <<u, i, try>> \in landed =>
            /\ i \in DOMAIN Requests[u] /\ i <= client[u].request
            /\ i = client[u].request => try <= client[u].try
            /\ Requests[u][i].op = "top_up_bid" => try = 1
            /\ Requests[u][i].op \in {"place_bid", "raise_bid"} =>
                  bid[The][<<Requests[u][i].pid, u>>].leaf # "none"

\* A client begins a request when the one before has landed, and after a top-up
\* was sent it only waits for it or gives up.
ClientInv ==
    \A u \in Bidders :
        /\ Working(u) /\ Request(u).op = "top_up_bid" =>
              \/ client[u].try = 0 /\ client[u].pc # "await"
              \/ client[u].try = 1 /\ client[u].pc \in {"await", "gave_up"}
        /\ \A i \in DOMAIN Requests[u] :
              i < client[u].request => \E try \in Nat : <<u, i, try>> \in landed

\* As long as u has taken nothing back, what it has staked is what landed.
StakeCarried ==
    \A u \in Bidders :
        (\A k \in Proposals \X {u} : bid[The][k].leaf # "closed") =>
            Total(Staked(The), Proposals \X {u}) = Total(AmountOf(u), Carried(u))
----------------------------------------------------------------------------
(* Types, and the program underneath. *)

LEMMA RequestType ==
    ASSUME NEW u \in Bidders, NEW i \in DOMAIN Requests[u]
    PROVE  /\ i \in Nat /\ i > 0
           /\ Requests[u][i].op \in {"place_bid", "raise_bid", "top_up_bid", "withdraw"}
           /\ Requests[u][i].pid \in Proposals
           /\ Requests[u][i].amount \in Amounts /\ Requests[u][i].amount \in Nat
<1> DEFINE R == [op : {"place_bid", "raise_bid", "top_up_bid", "withdraw"},
                 pid : Proposals, amount : Amounts]
<1>1. Requests[u] \in Seq(R)
  BY RequestsAssumption
<1>2. i \in 1 .. Len(Requests[u]) /\ Len(Requests[u]) \in Nat
  BY <1>1, LenProperties
<1>3. Requests[u][i] \in R
  BY <1>1, <1>2, ElementOfSeq
<1>4. i \in Nat /\ i > 0
  BY <1>2
<1>5. Amounts \subseteq Nat
  BY InputsAssumption
<1> QED  BY <1>3, <1>4, <1>5

\* The request a client works on.
LEMMA WorkType ==
    ASSUME ClientTypeOK, NEW u \in Bidders, Working(u)
    PROVE  /\ client[u].request \in Nat
           /\ Request(u).op \in {"place_bid", "raise_bid", "top_up_bid", "withdraw"}
           /\ Pid(u) \in Proposals /\ Request(u).amount \in Amounts
           /\ Request(u).amount \in Nat /\ Key(u) \in Keys
<1>1. client[u].request \in DOMAIN Requests[u]
  BY DEF Working
<1> QED  BY <1>1, RequestType DEF Request, Pid, Key, Keys

LEMMA OnChainType == TypeOK => OnChain \in Leaf
BY TheAssumption DEF TypeOK, OnChain, Leaf

LEMMA ClientTypeInit == ClientInit => ClientTypeOK
<1> SUFFICES ASSUME ClientInit PROVE ClientTypeOK
  OBVIOUS
<1>1. indexed \in Leaf
  BY OnChainType, TypeInit DEF ClientInit
<1>2. \A u \in Bidders : Start(1) \in Client /\ Start(1).try = 0
  BY DEF Start, Client
<1>3. MaxSends \in Nat /\ MaxFaults \in Nat
  BY RequestsAssumption
<1>4. client \in [Bidders -> Client] /\ \A u \in Bidders : client[u].try <= MaxSends
  BY <1>2, <1>3 DEF ClientInit
<1>5. flying = {} /\ landed = {} /\ faults = 0
  BY DEF ClientInit
<1> QED  BY <1>1, <1>3, <1>4, <1>5 DEF ClientTypeOK

\* A client that writes its own state.
LEMMA BecomesType ==
    ASSUME ClientTypeOK, NEW u \in Bidders, NEW c \in Client, c.try <= MaxSends,
           Becomes(u, c)
    PROVE  client' \in [Bidders -> Client] /\ \A v \in Bidders : client'[v].try <= MaxSends
BY DEF ClientTypeOK, Becomes

\* What an instruction that the program takes is to the program.
LEMMA ExecutesIsNext ==
    ASSUME TypeOK, NEW ix \in Instruction, ix.amount \in Amounts, Executes(ix)
    PROVE  Next
<1>1. /\ The \in Auctions /\ ix.pid \in Proposals /\ ix.bidder \in Bidders
      /\ <<The, ix.pid>> \in Leaves /\ TRUE \in Companions
      /\ <<ix.pid, ix.bidder>> \in Keys
      /\ ix.seen_total \in Nat /\ ix.seen_bid \in Nat
  BY TheAssumption DEF Instruction, Leaves, Companions, Keys
<1>2. /\ proposal_total[The][ix.pid] \in Nat
      /\ bid[The][<<ix.pid, ix.bidder>>].amount \in Nat
  BY <1>1 DEF TypeOK, BidType
<1>3. CASE PlaceBid(The, ix.bidder, ix.amount, TRUE)
  BY <1>1, <1>3 DEF Next, OnAuction, PlaceABid
<1>4. CASE RaiseBid(The, ix.pid, ix.bidder, ix.amount, TRUE, <<The, ix.pid>>, ix.seen_total)
  <2>1. ix.seen_total \in TotalsRead(<<The, ix.pid>>)
    BY <1>2, <1>4 DEF RaiseBid, ProposalProved, TotalsRead
  <2> QED  BY <1>1, <1>4, <2>1 DEF Next, OnAuction, RaiseABid
<1>5. CASE TopUpBid(The, ix.pid, ix.bidder, ix.amount, TRUE, <<The, ix.pid>>, ix.seen_total,
                    The, ix.seen_bid)
  <2>1. ix.seen_total \in TotalsRead(<<The, ix.pid>>)
    BY <1>2, <1>5 DEF TopUpBid, ProposalProved, TotalsRead
  <2>2. ix.seen_bid \in BidsRead(The, <<ix.pid, ix.bidder>>)
    BY <1>1, <1>2, <1>5 DEF TopUpBid, BidProved, BidsRead
  <2> QED  BY <1>1, <1>5, <2>1, <2>2 DEF Next, OnAuction, TopUpABid
<1>6. CASE Withdraw(The, ix.pid, ix.bidder, The, ix.seen_bid)
  <2>1. ix.seen_bid \in BidsRead(The, <<ix.pid, ix.bidder>>)
    BY <1>1, <1>2, <1>6 DEF Withdraw, BidProved, BidsRead
  <2> QED  BY <1>1, <1>6, <2>1 DEF Next, OnAuction, WithdrawABid
<1> QED  BY <1>3, <1>4, <1>5, <1>6 DEF Executes

\* An instruction as it is built is well formed.
LEMMA BuiltType ==
    ASSUME ClientTypeOK, NEW u \in Bidders, Working(u)
    PROVE  /\ Built(u) \in Instruction
           /\ Built(u).op = Request(u).op /\ Built(u).pid = Pid(u)
           /\ Built(u).amount = Request(u).amount /\ Built(u).bidder = u
<1>1. client[u].seen_total \in Nat /\ client[u].seen_bid \in Nat
  BY DEF ClientTypeOK, Client
<1> QED  BY <1>1, WorkType DEF Built, Instruction

\* What a client does to its own state, as far as its types go.
LEMMA ClientStepType ==
    ASSUME ClientTypeOK, NEW u \in Bidders, ClientStep(u)
    PROVE  ClientTypeOK'
<1>1. /\ client \in [Bidders -> Client] /\ client[u] \in Client
      /\ client[u].request \in Nat /\ client[u].try \in Nat /\ client[u].try <= MaxSends
      /\ indexed \in Leaf /\ faults \in 0 .. MaxFaults /\ MaxFaults \in Nat
      /\ MaxSends \in Nat
  BY RequestsAssumption DEF ClientTypeOK, Client
<1>2. Working(u)
  BY DEF ClientStep, ReadProposal, ReadBid, Prove, Send, Confirmed, Unconfirmed, Wait, At
<1>3. indexed' = indexed /\ landed' = landed
  BY DEF ClientStep, ReadProposal, ReadBid, Prove, Send, Confirmed, Unconfirmed, Wait
<1>4. faults' \in 0 .. MaxFaults
  <2>1. faults' = faults \/ Fault
    BY DEF ClientStep, ReadProposal, ReadBid, Prove, Send, Confirmed, Unconfirmed, Wait, NoFault
  <2> QED  BY <1>1, <2>1 DEF Fault
<1>5. ASSUME NEW c \in Client, c.try <= MaxSends, Becomes(u, c), \A tx \in flying' : tx \in Transaction
      PROVE  ClientTypeOK'
  <2>1. client' \in [Bidders -> Client] /\ \A v \in Bidders : client'[v].try <= MaxSends
    BY <1>5, BecomesType
  <2>2. landed' \subseteq Bidders \X Nat \X Nat
    BY <1>3 DEF ClientTypeOK
  <2> QED  BY <1>1, <1>3, <1>4, <1>5, <2>1, <2>2 DEF ClientTypeOK
<1>6. flying' = flying => \A tx \in flying' : tx \in Transaction
  BY DEF ClientTypeOK
<1>7. CASE ReadProposal(u)
  <2>1. indexed.total[Pid(u)] \in Nat
    BY <1>1, <1>2, WorkType DEF Leaf
  <2> DEFINE total == IF ReadsTotal(u) THEN indexed.total[Pid(u)] ELSE 0
             pc == IF ReadsBid(u) THEN "build_bid" ELSE "prove"
             c == [client[u] EXCEPT !.pc = pc, !.seen_total = total]
  <2>2. total \in Nat /\ pc \in {"build_bid", "prove"}
    BY <2>1
  <2>3. Becomes(u, c) /\ flying' = flying
    BY <1>7 DEF ReadProposal
  <2> HIDE DEF total, pc
  <2>4. c \in Client /\ c.try = client[u].try
    BY <1>1, <2>2 DEF Client
  <2> QED  BY <1>1, <1>5, <1>6, <2>3, <2>4
<1>8. CASE ReadBid(u)
  <2> DEFINE c == [client[u] EXCEPT !.pc = "prove", !.seen_bid = indexed.bid[Key(u)].amount]
  <2>1. indexed.bid[Key(u)].amount \in Nat
    BY <1>1, <1>2, WorkType DEF Leaf, BidType
  <2>2. Becomes(u, c) /\ flying' = flying
    BY <1>8 DEF ReadBid
  <2>3. c \in Client /\ c.try = client[u].try
    BY <1>1, <2>1 DEF Client
  <2> QED  BY <1>1, <1>5, <1>6, <2>2, <2>3
<1>9. CASE Prove(u)
  <2> DEFINE pc == IF Provable(u) THEN "send" ELSE "wait"
             c == [client[u] EXCEPT !.pc = pc]
  <2>1. pc \in {"send", "wait"}
    OBVIOUS
  <2>2. Becomes(u, c) /\ flying' = flying
    BY <1>9 DEF Prove
  <2> HIDE DEF pc
  <2>3. c \in Client /\ c.try = client[u].try
    BY <1>1, <2>1 DEF Client
  <2> QED  BY <1>1, <1>5, <1>6, <2>2, <2>3
<1>10. CASE Send(u)
  <2> DEFINE try == client[u].try + 1
             c == [client[u] EXCEPT !.pc = "await", !.try = try]
             tx == [ix |-> Built(u), request |-> client[u].request, try |-> try]
  <2>1. Becomes(u, c) /\ flying' = flying \cup {tx} /\ client[u].try < MaxSends
    BY <1>10 DEF Send, TriesLeft
  <2>2. try \in Nat /\ try <= MaxSends
    BY <1>1, <2>1
  <2> HIDE DEF try
  <2>3. c \in Client /\ c.try = try
    BY <1>1, <2>2 DEF Client
  <2>4. tx \in Transaction
    BY <1>1, <1>2, <2>2, BuiltType DEF Transaction
  <2>5. \A x \in flying' : x \in Transaction
    BY <2>1, <2>4 DEF ClientTypeOK
  <2> QED  BY <1>5, <2>1, <2>2, <2>3, <2>5
<1>11. CASE Confirmed(u)
  <2>1. /\ Start(client[u].request + 1) \in Client
        /\ Start(client[u].request + 1).try <= MaxSends
    BY <1>1 DEF Start, Client
  <2> QED  BY <1>5, <1>6, <1>11, <2>1 DEF Confirmed
<1>12. CASE Unconfirmed(u) \/ Wait(u)
  <2> PICK pc \in {"wait", "gave_up", "build"} : Becomes(u, [client[u] EXCEPT !.pc = pc])
    BY <1>12 DEF Unconfirmed, Wait, BuildAgain
  <2> DEFINE c == [client[u] EXCEPT !.pc = pc]
  <2>1. c \in Client /\ c.try = client[u].try
    BY <1>1 DEF Client
  <2>2. flying' = flying
    BY <1>12 DEF Unconfirmed, Wait
  <2> QED  BY <1>1, <1>5, <1>6, <2>1, <2>2
<1> QED  BY <1>7, <1>8, <1>9, <1>10, <1>11, <1>12 DEF ClientStep

\* The instruction of a transaction that lands, as a step of the program.
LEMMA LandIsNext ==
    ASSUME TypeOK, ClientTypeOK, FlyingInv, NEW tx \in flying, Land(tx)
    PROVE  Next
<1>1. tx.ix \in Instruction
  BY DEF ClientTypeOK, Transaction
<1>2. tx.ix.amount \in Amounts
  <2>1. tx.ix.bidder \in Bidders
    BY <1>1 DEF Instruction
  <2>2. /\ tx.request \in DOMAIN Requests[tx.ix.bidder]
        /\ tx.ix.amount = Requests[tx.ix.bidder][tx.request].amount
    BY DEF FlyingInv, TxOK
  <2> QED  BY <2>1, <2>2, RequestType
<1>3. Executes(tx.ix)
  BY DEF Land
<1> QED  BY <1>1, <1>2, <1>3, ExecutesIsNext

\* Clients, network and surroundings do nothing to the program but to call it.
LEMMA ClientNextIsNext ==
    TypeOK /\ ClientTypeOK /\ FlyingInv /\ [ClientNext]_all => [Next]_vars
<1> SUFFICES ASSUME TypeOK, ClientTypeOK, FlyingInv, [ClientNext]_all PROVE Next \/ UNCHANGED vars
  OBVIOUS
<1>1. CASE UNCHANGED all
  BY <1>1 DEF all
<1>2. ASSUME NEW u \in Bidders, ClientStep(u) PROVE UNCHANGED vars
  BY <1>2 DEF ClientStep, ReadProposal, ReadBid, Prove, Send, Confirmed, Unconfirmed, Wait
<1>3. ASSUME NEW u \in Bidders, Delivery(u) PROVE Next \/ UNCHANGED vars
  <2> PICK tx \in flying : tx.ix.bidder = u /\ (Land(tx) \/ Expire(tx))
    BY <1>3 DEF Delivery
  <2> QED  BY LandIsNext DEF Expire
<1>4. CASE Index
  BY <1>4 DEF Index
<1>5. CASE Surroundings
  BY <1>5, TheAssumption DEF Surroundings, Next, OnAuction
<1> QED  BY <1>1, <1>2, <1>3, <1>4, <1>5 DEF ClientNext

LEMMA ClientTypeStep ==
    TypeOK /\ TypeOK' /\ ClientTypeOK /\ [ClientNext]_all => ClientTypeOK'
<1> SUFFICES ASSUME TypeOK, TypeOK', ClientTypeOK, [ClientNext]_all PROVE ClientTypeOK'
  OBVIOUS
<1>1. CASE UNCHANGED all \/ Surroundings
  <2>1. UNCHANGED clients
    BY <1>1 DEF all, Surroundings
  <2> QED  BY <2>1 DEF clients, ClientTypeOK
<1>2. ASSUME NEW u \in Bidders, ClientStep(u) PROVE ClientTypeOK'
  BY <1>2, ClientStepType
<1>3. ASSUME NEW u \in Bidders, Delivery(u) PROVE ClientTypeOK'
  <2> PICK tx \in flying : tx.ix.bidder = u /\ (Land(tx) \/ Expire(tx))
    BY <1>3 DEF Delivery
  <2>1. indexed' = indexed /\ client' = client /\ flying' = flying \ {tx}
    BY DEF Land, Expire
  <2>2. landed' \subseteq Bidders \X Nat \X Nat
    <3>1. Id(tx) \in Bidders \X Nat \X Nat
      BY DEF ClientTypeOK, Transaction, Instruction, Id
    <3>2. landed' = landed \/ landed' = landed \cup {Id(tx)}
      BY DEF Land, Expire
    <3> QED  BY <3>1, <3>2 DEF ClientTypeOK
  <2>3. faults' \in 0 .. MaxFaults
    <3>1. faults' = faults \/ Fault
      BY DEF Land, Expire, NoFault
    <3>2. MaxFaults \in Nat
      BY RequestsAssumption
    <3> QED  BY <3>1, <3>2 DEF ClientTypeOK, Fault
  <2> QED  BY <2>1, <2>2, <2>3 DEF ClientTypeOK
<1>4. CASE Index
  <2>1. indexed' \in Leaf
    BY <1>4, OnChainType DEF Index
  <2> QED  BY <1>4, <2>1 DEF Index, ClientTypeOK
<1> QED  BY <1>1, <1>2, <1>3, <1>4 DEF ClientNext

----------------------------------------------------------------------------
(* What a client, and what a transaction, comes to. *)

NewTx(u) == [ix |-> Built(u), request |-> client[u].request, try |-> client[u].try + 1]

\* Another try is sent.
Sends(u) ==
    /\ flying' = flying \cup {NewTx(u)}
    /\ client'[u].request = client[u].request /\ client'[u].try = client[u].try + 1
    /\ client[u].pc = "send" /\ client'[u].pc = "await"

\* Work on the same request goes on, or ends for good with a top-up unconfirmed.
Thinks(u) ==
    /\ flying' = flying
    /\ client'[u].request = client[u].request /\ client'[u].try = client[u].try
    /\ client[u].pc # "gave_up" /\ client'[u].pc # "await"
    /\ client[u].pc = "await" /\ Request(u).op = "top_up_bid" => client'[u].pc = "gave_up"

\* A try was confirmed, and the next request begins.
GoesOn(u) ==
    /\ flying' = flying
    /\ client'[u].request = client[u].request + 1 /\ client'[u].try = 0
    /\ client'[u].pc = "build"
    /\ Last(u) \in landed

LEMMA ClientMoves ==
    ASSUME ClientTypeOK, NEW u \in Bidders, ClientStep(u)
    PROVE  /\ Working(u) /\ landed' = landed /\ bid' = bid
           /\ \A v \in Bidders : v # u => client'[v] = client[v]
           /\ Sends(u) \/ Thinks(u) \/ GoesOn(u)
<1>1. Working(u) /\ landed' = landed /\ bid' = bid
  BY DEF ClientStep, ReadProposal, ReadBid, Prove, Send, Confirmed, Unconfirmed, Wait, At,
         vars, accounts
<1>2. client \in [Bidders -> Client]
  BY DEF ClientTypeOK
<1>3. ASSUME NEW c, Becomes(u, c)
      PROVE  client'[u] = c /\ \A v \in Bidders : v # u => client'[v] = client[v]
  BY <1>2, <1>3 DEF Becomes
<1>4. client[u] \in Client
  BY <1>2
<1>5. ASSUME NEW c, Becomes(u, c), flying' = flying,
             c.request = client[u].request, c.try = client[u].try,
             client[u].pc # "gave_up", c.pc # "await",
             client[u].pc = "await" /\ Request(u).op = "top_up_bid" => c.pc = "gave_up"
      PROVE  Thinks(u) /\ \A v \in Bidders : v # u => client'[v] = client[v]
  BY <1>3, <1>5 DEF Thinks
<1>6. CASE ReadProposal(u)
  <2> DEFINE pc == IF ReadsBid(u) THEN "build_bid" ELSE "prove"
             total == IF ReadsTotal(u) THEN indexed.total[Pid(u)] ELSE 0
             c == [client[u] EXCEPT !.pc = pc, !.seen_total = total]
  <2>1. /\ Becomes(u, c) /\ flying' = flying /\ client[u].pc = "build" /\ pc # "await"
    BY <1>6 DEF ReadProposal, At
  <2> HIDE DEF pc, total
  <2>2. c.request = client[u].request /\ c.try = client[u].try /\ c.pc = pc
    BY <1>4 DEF Client
  <2> HIDE DEF c
  <2> QED  BY <1>1, <1>5, <2>1, <2>2
<1>7. CASE ReadBid(u)
  <2> DEFINE amount == indexed.bid[Key(u)].amount
             c == [client[u] EXCEPT !.pc = "prove", !.seen_bid = amount]
  <2>1. /\ Becomes(u, c) /\ flying' = flying /\ client[u].pc = "build_bid"
    BY <1>7 DEF ReadBid, At
  <2> HIDE DEF amount
  <2>2. c.request = client[u].request /\ c.try = client[u].try /\ c.pc = "prove"
    BY <1>4 DEF Client
  <2> HIDE DEF c
  <2> QED  BY <1>1, <1>5, <2>1, <2>2
<1>8. CASE Prove(u)
  <2> DEFINE pc == IF Provable(u) THEN "send" ELSE "wait"
             c == [client[u] EXCEPT !.pc = pc]
  <2>1. /\ Becomes(u, c) /\ flying' = flying /\ client[u].pc = "prove" /\ pc # "await"
    BY <1>8 DEF Prove, At
  <2> HIDE DEF pc
  <2>2. c.request = client[u].request /\ c.try = client[u].try /\ c.pc = pc
    BY <1>4 DEF Client
  <2> HIDE DEF c
  <2> QED  BY <1>1, <1>5, <2>1, <2>2
<1>9. CASE Unconfirmed(u)
  <2> PICK pc : /\ pc = IF Request(u).op \in Retried THEN "wait" ELSE "gave_up"
                /\ Becomes(u, [client[u] EXCEPT !.pc = pc])
    BY <1>9 DEF Unconfirmed, BuildAgain
  <2> DEFINE c == [client[u] EXCEPT !.pc = pc]
  <2>1. /\ flying' = flying /\ client[u].pc = "await" /\ pc # "await"
        /\ Request(u).op = "top_up_bid" => pc = "gave_up"
    BY <1>9 DEF Unconfirmed, At, Retried
  <2>2. c.request = client[u].request /\ c.try = client[u].try /\ c.pc = pc
    BY <1>4 DEF Client
  <2>3. Becomes(u, c)
    OBVIOUS
  <2> HIDE DEF c
  <2> QED  BY <1>1, <1>5, <2>1, <2>2, <2>3
<1>10. CASE Wait(u)
  <2> DEFINE c == [client[u] EXCEPT !.pc = "build"]
  <2>1. Becomes(u, c) /\ flying' = flying /\ client[u].pc = "wait"
    BY <1>10 DEF Wait, At
  <2>2. c.request = client[u].request /\ c.try = client[u].try /\ c.pc = "build"
    BY <1>4 DEF Client
  <2> HIDE DEF c
  <2> QED  BY <1>1, <1>5, <2>1, <2>2
<1>11. CASE Send(u)
  <2> DEFINE try == client[u].try + 1
             c == [client[u] EXCEPT !.pc = "await", !.try = try]
  <2>1. Becomes(u, c) /\ flying' = flying \cup {NewTx(u)} /\ client[u].pc = "send"
    BY <1>11 DEF Send, NewTx, At
  <2> HIDE DEF try
  <2>2. c.request = client[u].request /\ c.try = try /\ c.pc = "await"
    BY <1>4 DEF Client
  <2> HIDE DEF c
  <2> QED  BY <1>1, <1>3, <2>1, <2>2 DEF Sends, try
<1>12. CASE Confirmed(u)
  <2> DEFINE c == Start(client[u].request + 1)
  <2>1. Becomes(u, c) /\ flying' = flying /\ Last(u) \in landed
    BY <1>12 DEF Confirmed
  <2>2. c.request = client[u].request + 1 /\ c.try = 0 /\ c.pc = "build"
    BY DEF Start
  <2> HIDE DEF c
  <2> QED  BY <1>1, <1>3, <2>1, <2>2 DEF GoesOn
<1> QED  BY <1>1, <1>6, <1>7, <1>8, <1>9, <1>10, <1>11, <1>12 DEF ClientStep

\* A transaction that lands writes the leaf of its sender and proposal: it adds
\* its amount, to nothing if it is a first bid, or closes the leaf.
Lands(tx, r) ==
    LET key == <<tx.ix.pid, tx.ix.bidder>>
    IN  /\ key \in Keys /\ r \in BidType
        /\ bid' = [bid EXCEPT ![The][key] = r]
        /\ tx.ix.op = "withdraw" => r.leaf = "closed"
        /\ tx.ix.op # "withdraw" =>
              /\ r.leaf = "live" /\ r.amount = bid[The][key].amount + tx.ix.amount
              /\ bid[The][key].leaf # "closed"
        /\ tx.ix.op \in {"place_bid", "raise_bid"} => bid[The][key].leaf = "none"

LEMMA LandFacts ==
    ASSUME TypeOK, StakeInv, ClientTypeOK, NEW tx \in flying, Land(tx)
    PROVE  \E r : Lands(tx, r)
<1> DEFINE ix == tx.ix
           key == <<tx.ix.pid, tx.ix.bidder>>
<1>1. /\ key \in Keys /\ The \in Auctions /\ ix.amount \in Nat /\ Executes(ix)
  BY TheAssumption DEF ClientTypeOK, Transaction, Instruction, Keys, Land
<1>2. /\ bid \in [Auctions -> [Keys -> BidType]] /\ bid[The][key] \in BidType
      /\ bid[The][key].amount \in Nat
      /\ bid[The][key].leaf = "none" => bid[The][key].amount = 0
  BY <1>1 DEF TypeOK, BidType, StakeInv, StakeAt, LeavesAt
<1> HIDE DEF key
<1>3. ASSUME bid[The][key].leaf = "none", ix.op # "withdraw",
             bid' = [bid EXCEPT ![The][key] = [leaf |-> "live", amount |-> ix.amount]]
      PROVE  \E r : Lands(tx, r)
  <2> PICK r : r = [leaf |-> "live", amount |-> ix.amount]
    OBVIOUS
  <2>1. r \in BidType /\ r.leaf = "live" /\ r.amount = bid[The][key].amount + ix.amount
    BY <1>1, <1>2, <1>3 DEF BidType
  <2>2. Lands(tx, r)
    BY <1>1, <1>3, <2>1 DEF Lands, key
  <2> QED  BY <2>2
<1>4. CASE /\ ix.op = "place_bid" /\ ix.pid = auction[The].proposal_count
           /\ PlaceBid(The, ix.bidder, ix.amount, TRUE)
  BY <1>3, <1>4 DEF PlaceBid, key
<1>5. CASE /\ ix.op = "raise_bid"
           /\ RaiseBid(The, ix.pid, ix.bidder, ix.amount, TRUE, <<The, ix.pid>>, ix.seen_total)
  BY <1>3, <1>5 DEF RaiseBid, key
<1>6. CASE /\ ix.op = "top_up_bid"
           /\ TopUpBid(The, ix.pid, ix.bidder, ix.amount, TRUE, <<The, ix.pid>>, ix.seen_total,
                       The, ix.seen_bid)
  <2>1. /\ bid[The][key] = [leaf |-> "live", amount |-> ix.seen_bid]
        /\ bid' = [bid EXCEPT ![The][key].amount = ix.seen_bid + ix.amount]
    BY <1>6 DEF TopUpBid, BidProved, key
  <2> DEFINE r == [bid[The][key] EXCEPT !.amount = ix.seen_bid + ix.amount]
  <2>2. bid' = [bid EXCEPT ![The][key] = r]
    BY <2>1
  <2>3. /\ r.leaf = bid[The][key].leaf /\ r.amount = ix.seen_bid + ix.amount
        /\ bid[The][key].leaf = "live" /\ bid[The][key].amount = ix.seen_bid
    BY <1>2, <2>1 DEF BidType
  <2>4. r \in BidType
    BY <1>1, <1>2, <2>3 DEF BidType
  <2> HIDE DEF r
  <2>5. Lands(tx, r)
    BY <1>1, <1>6, <2>2, <2>3, <2>4 DEF Lands, key
  <2> QED  BY <2>5
<1>7. CASE ix.op = "withdraw" /\ Withdraw(The, ix.pid, ix.bidder, The, ix.seen_bid)
  <2> PICK r : r = [leaf |-> "closed", amount |-> 0]
    OBVIOUS
  <2>1. bid' = [bid EXCEPT ![The][key] = r]
    BY <1>7 DEF Withdraw, ClosedBid, key
  <2>2. r \in BidType /\ r.leaf = "closed"
    BY DEF BidType
  <2>3. Lands(tx, r)
    BY <1>1, <1>7, <2>1, <2>2 DEF Lands, key
  <2> QED  BY <2>3
<1> QED  BY <1>1, <1>4, <1>5, <1>6, <1>7 DEF Executes

\* Anybody else's refund closes a leaf.
LEMMA RefundFacts ==
    ASSUME WithdrawABid(The)
    PROVE  \E key \in Keys, r \in BidType :
              r.leaf = "closed" /\ bid' = [bid EXCEPT ![The][key] = r]
<1> PICK pid \in Proposals, bidder \in Bidders, b \in Auctions :
         \E seen_bid \in BidsRead(b, <<pid, bidder>>) : Withdraw(The, pid, bidder, b, seen_bid)
  BY DEF WithdrawABid
<1> PICK r : r = [leaf |-> "closed", amount |-> 0]
  OBVIOUS
<1>1. <<pid, bidder>> \in Keys /\ r \in BidType /\ r.leaf = "closed"
  BY DEF Keys, BidType
<1>2. bid' = [bid EXCEPT ![The][<<pid, bidder>>] = r]
  BY DEF Withdraw, BidBound, ClosedBid
<1> QED  BY <1>1, <1>2

\* Whatever else happens: nobody's client moves, nothing lands, and at most
\* some leaf is closed.
Quiet ==
    /\ client' = client /\ landed' = landed /\ flying' \subseteq flying
    /\ \/ bid' = bid
       \/ \E key \in Keys, r \in BidType :
             r.leaf = "closed" /\ bid' = [bid EXCEPT ![The][key] = r]

LEMMA StepForms ==
    ASSUME [ClientNext]_all
    PROVE  \/ \E u \in Bidders : ClientStep(u)
           \/ \E tx \in flying : Land(tx)
           \/ Quiet
<1>1. CASE UNCHANGED all
  BY <1>1 DEF all, clients, vars, accounts, Quiet
<1>2. CASE Index
  BY <1>2 DEF Index, vars, accounts, Quiet
<1>3. CASE Surroundings
  <2>1. client' = client /\ landed' = landed /\ flying' = flying
    BY <1>3 DEF Surroundings, clients
  <2>2. CASE WithdrawABid(The)
    BY <2>1, <2>2, RefundFacts DEF Quiet
  <2>3. CASE Tick \/ Configure \/ Create(The) \/ ClaimWinnings(The) \/ CloseAuction(The)
    <3>1. Tick => bid' = bid
      BY DEF Tick, accounts
    <3>2. Configure => bid' = bid
      BY DEF Configure, Initialize, SetConfig, InitDepositVault
    <3>3. Create(The) => bid' = bid
      BY DEF Create, CreateAuction, LegacyCreate, history
    <3>4. ClaimWinnings(The) => bid' = bid
      BY DEF ClaimWinnings
    <3>5. CloseAuction(The) => bid' = bid
      BY DEF CloseAuction
    <3>6. bid' = bid
      BY <2>3, <3>1, <3>2, <3>3, <3>4, <3>5
    <3> QED  BY <2>1, <3>6 DEF Quiet
  <2> QED  BY <1>3, <2>2, <2>3 DEF Surroundings
<1>4. ASSUME NEW tx \in flying, Expire(tx) PROVE Quiet
  BY <1>4 DEF Expire, vars, accounts, Quiet
<1> QED  BY <1>1, <1>2, <1>3, <1>4 DEF ClientNext, Delivery

\* The types that the invariants of the clients use.
LEMMA Counters ==
    ASSUME ClientTypeOK
    PROVE  /\ \A u \in Bidders : client[u].request \in Nat /\ client[u].try \in Nat
           /\ \A tx \in flying : /\ tx.ix.bidder \in Bidders /\ tx.request \in Nat
                                 /\ tx.try \in Nat
BY DEF ClientTypeOK, Client, Transaction, Instruction

LEMMA FlyingStep ==
    ASSUME ClientTypeOK, FlyingInv, LandedInv, ClientInv, [ClientNext]_all
    PROVE  FlyingInv'
<1>1. CASE Quiet
  <2>1. ASSUME NEW tx \in flying' PROVE TxOK(tx)'
    BY <1>1, <2>1 DEF Quiet, FlyingInv, TxOK, Id
  <2>2. \A tx, other \in flying' : Id(tx)' = Id(other)' => tx = other
    BY <1>1 DEF Quiet, FlyingInv, Id
  <2> QED  BY <2>1, <2>2 DEF FlyingInv
<1>2. ASSUME NEW tx \in flying, Land(tx) PROVE FlyingInv'
  <2>1. client' = client /\ flying' = flying \ {tx} /\ landed' = landed \cup {Id(tx)}
    BY <1>2 DEF Land
  <2>2. ASSUME NEW other \in flying' PROVE TxOK(other)'
    <3>1. Id(other) # Id(tx)
      BY <2>1, <2>2 DEF FlyingInv
    <3> QED  BY <2>1, <2>2, <3>1 DEF FlyingInv, TxOK, Id
  <2>3. \A x, y \in flying' : Id(x)' = Id(y)' => x = y
    BY <2>1 DEF FlyingInv, Id
  <2> QED  BY <2>2, <2>3 DEF FlyingInv
<1>3. ASSUME NEW u \in Bidders, ClientStep(u) PROVE FlyingInv'
  <2>1. /\ Working(u) /\ landed' = landed
        /\ \A v \in Bidders : v # u => client'[v] = client[v]
        /\ Sends(u) \/ Thinks(u) \/ GoesOn(u)
    BY <1>3, ClientMoves
  <2>2. \A v \in Bidders : client[v].request \in Nat /\ client[v].try \in Nat
    BY Counters
  <2>3. ASSUME NEW tx \in flying PROVE TxOK(tx)'
    <3>1. /\ tx.ix.bidder \in Bidders /\ tx.request \in Nat /\ tx.try \in Nat
          /\ TxOK(tx)
      BY Counters DEF FlyingInv
    <3>2. CASE tx.ix.bidder # u
      BY <2>1, <3>1, <3>2 DEF TxOK, Id
    <3>3. CASE tx.ix.bidder = u
      <4>1. /\ tx.request <= client'[u].request
            /\ tx.request = client'[u].request => tx.try <= client'[u].try
        BY <2>1, <2>2, <3>1, <3>3 DEF TxOK, Sends, Thinks, GoesOn
      <4> QED  BY <2>1, <3>1, <3>3, <4>1 DEF TxOK, Id
    <3> QED  BY <3>2, <3>3
  <2>4. CASE flying' = flying
    <3>1. \A x, y \in flying' : Id(x)' = Id(y)' => x = y
      BY <2>4 DEF FlyingInv, Id
    <3> QED  BY <2>3, <2>4, <3>1 DEF FlyingInv
  <2>5. CASE Sends(u)
    <3> PICK new : new = NewTx(u)
      OBVIOUS
    <3>1. /\ new.ix = Built(u) /\ new.request = client[u].request
          /\ new.try = client[u].try + 1
          /\ new.ix.bidder = u /\ new.ix.op = Request(u).op /\ new.ix.pid = Request(u).pid
          /\ new.ix.amount = Request(u).amount
      BY <2>1, BuiltType DEF NewTx, Pid
    <3>2. Id(new) = <<u, client[u].request, client[u].try + 1>>
      BY <3>1 DEF Id
    <3>3. Id(new) \notin landed
      <4>1. client[u].try + 1 \in Nat /\ ~ (client[u].try + 1 <= client[u].try)
        BY <2>2
      <4> QED  BY <2>2, <3>2, <4>1 DEF LandedInv
    <3>4. ASSUME NEW tx \in flying PROVE Id(tx) # Id(new)
      <4>1. TxOK(tx) /\ tx.try \in Nat
        BY Counters DEF FlyingInv
      <4>2. ~ (tx.ix.bidder = u /\ tx.request = client[u].request
               /\ tx.try = client[u].try + 1)
        BY <2>2, <4>1 DEF TxOK
      <4> QED  BY <3>2, <4>2 DEF Id
    <3>5. TxOK(new)'
      <4>1. /\ new.request \in DOMAIN Requests[u] /\ new.request = client'[u].request
            /\ new.try = client'[u].try
        BY <2>1, <2>5, <3>1 DEF Working, Sends
      <4>2. new.ix.op = "top_up_bid" => new.try = 1
        <5>1. client[u].pc = "send"
          BY <2>5 DEF Sends
        <5>2. Request(u).op = "top_up_bid" => client[u].try = 0
          BY <2>1, <5>1 DEF ClientInv
        <5>3. new.ix.op = Request(u).op /\ new.try = client[u].try + 1
          BY <3>1
        <5> QED  BY <5>2, <5>3
      <4>3. new.request <= client'[u].request /\ new.try <= client'[u].try
        <5>1. new.request \in Nat /\ new.try \in Nat
          <6>1. new.request = client[u].request /\ new.try = client[u].try + 1
            BY <3>1
          <6> QED  BY <2>2, <6>1
        <5> QED  BY <4>1, <5>1
      <4> QED  BY <2>1, <3>1, <3>3, <4>1, <4>2, <4>3 DEF TxOK, Request, Id
    <3>6. flying' = flying \cup {new}
      BY <2>5 DEF Sends
    <3>7. \A x, y \in flying' : Id(x)' = Id(y)' => x = y
      BY <3>4, <3>6 DEF FlyingInv, Id
    <3> QED  BY <2>3, <3>5, <3>6, <3>7 DEF FlyingInv
  <2> QED  BY <2>1, <2>4, <2>5 DEF Thinks, GoesOn
<1> QED  BY <1>1, <1>2, <1>3, StepForms

\* A leaf that was written stays written.
LEMMA LeavesStay ==
    ASSUME TypeOK, StakeInv, ClientTypeOK, [ClientNext]_all
    PROVE  \A k \in Keys : bid[The][k].leaf # "none" => bid'[The][k].leaf # "none"
<1>1. ASSUME NEW key \in Keys, NEW r \in BidType, r.leaf # "none",
             bid' = [bid EXCEPT ![The][key] = r]
      PROVE  \A k \in Keys : bid[The][k].leaf # "none" => bid'[The][k].leaf # "none"
  BY <1>1, StakeChange, TheAssumption
<1>2. ASSUME NEW tx \in flying, Land(tx)
      PROVE  \A k \in Keys : bid[The][k].leaf # "none" => bid'[The][k].leaf # "none"
  <2> PICK r : Lands(tx, r)
    BY <1>2, LandFacts
  <2> DEFINE key == <<tx.ix.pid, tx.ix.bidder>>
  <2>1. /\ key \in Keys /\ r \in BidType /\ r.leaf # "none"
        /\ bid' = [bid EXCEPT ![The][key] = r]
    BY DEF Lands
  <2> HIDE DEF key
  <2> QED  BY <1>1, <2>1
<1>3. CASE Quiet
  <2>1. CASE bid' = bid
    BY <2>1
  <2>2. ASSUME NEW key \in Keys, NEW r \in BidType, r.leaf = "closed",
               bid' = [bid EXCEPT ![The][key] = r]
        PROVE  \A k \in Keys : bid[The][k].leaf # "none" => bid'[The][k].leaf # "none"
    <3>1. r.leaf # "none"
      BY <2>2
    <3> QED  BY <1>1, <2>2, <3>1
  <2> QED  BY <1>3, <2>1, <2>2 DEF Quiet
<1>4. ASSUME NEW u \in Bidders, ClientStep(u) PROVE bid' = bid
  BY <1>4, ClientMoves
<1> QED  BY <1>2, <1>3, <1>4, StepForms

\* A client never goes back to a request or to a try that it has left.
LEMMA ClientsAdvance ==
    ASSUME ClientTypeOK, [ClientNext]_all
    PROVE  \A u \in Bidders :
              /\ client[u].request <= client'[u].request
              /\ client'[u].request = client[u].request => client[u].try <= client'[u].try
              /\ client'[u].request \in Nat /\ client'[u].try \in Nat
<1>1. \A u \in Bidders : client[u].request \in Nat /\ client[u].try \in Nat
  BY Counters
<1>2. CASE client' = client
  BY <1>1, <1>2
<1>3. ASSUME NEW u \in Bidders, ClientStep(u), NEW v \in Bidders
      PROVE  /\ client[v].request <= client'[v].request
             /\ client'[v].request = client[v].request => client[v].try <= client'[v].try
             /\ client'[v].request \in Nat /\ client'[v].try \in Nat
  <2>1. /\ v # u => client'[v] = client[v]
        /\ Sends(u) \/ Thinks(u) \/ GoesOn(u)
    BY <1>3, ClientMoves
  <2> QED  BY <1>1, <2>1 DEF Sends, Thinks, GoesOn
<1> QED  BY <1>2, <1>3, StepForms DEF Quiet, Land

LEMMA LandedStep ==
    ASSUME TypeOK, StakeInv, ClientTypeOK, FlyingInv, LandedInv, [ClientNext]_all
    PROVE  LandedInv'
<1> DEFINE Fine(u, i, try) ==
             /\ i \in DOMAIN Requests[u] /\ i <= client'[u].request
             /\ i = client'[u].request => try <= client'[u].try
             /\ Requests[u][i].op = "top_up_bid" => try = 1
             /\ Requests[u][i].op \in {"place_bid", "raise_bid"} =>
                   bid'[The][<<Requests[u][i].pid, u>>].leaf # "none"
<1>1. ASSUME NEW u \in Bidders, NEW i \in Nat, NEW try \in Nat, <<u, i, try>> \in landed
      PROVE  Fine(u, i, try)
  <2>1. /\ i \in DOMAIN Requests[u] /\ i <= client[u].request
        /\ i = client[u].request => try <= client[u].try
        /\ Requests[u][i].op = "top_up_bid" => try = 1
        /\ Requests[u][i].op \in {"place_bid", "raise_bid"} =>
              bid[The][<<Requests[u][i].pid, u>>].leaf # "none"
    BY <1>1 DEF LandedInv
  <2>2. <<Requests[u][i].pid, u>> \in Keys
    BY <2>1, RequestType DEF Keys
  <2>3. Requests[u][i].op \in {"place_bid", "raise_bid"} =>
           bid'[The][<<Requests[u][i].pid, u>>].leaf # "none"
    BY <2>1, <2>2, LeavesStay
  <2>4. i <= client'[u].request /\ (i = client'[u].request => try <= client'[u].try)
    BY <2>1, ClientsAdvance, Counters
  <2> QED  BY <2>1, <2>3, <2>4
<1>2. ASSUME NEW tx \in flying, Land(tx), NEW u \in Bidders, NEW i \in Nat, NEW try \in Nat,
             <<u, i, try>> = Id(tx)
      PROVE  Fine(u, i, try)
  <2>1. u = tx.ix.bidder /\ i = tx.request /\ try = tx.try
    BY <1>2 DEF Id
  <2>2. TxOK(tx) /\ client' = client
    BY <1>2 DEF FlyingInv, Land
  <2>3. /\ i \in DOMAIN Requests[u] /\ i <= client'[u].request
        /\ i = client'[u].request => try <= client'[u].try
        /\ Requests[u][i].op = "top_up_bid" => try = 1
        /\ Requests[u][i].op = tx.ix.op /\ Requests[u][i].pid = tx.ix.pid
    BY <2>1, <2>2 DEF TxOK
  <2> PICK r : Lands(tx, r)
    BY <1>2, LandFacts
  <2> DEFINE key == <<tx.ix.pid, tx.ix.bidder>>
  <2>4. /\ key \in Keys /\ r \in BidType /\ bid' = [bid EXCEPT ![The][key] = r]
        /\ tx.ix.op \in {"place_bid", "raise_bid"} => r.leaf # "none"
    BY DEF Lands
  <2>5. <<Requests[u][i].pid, u>> = key
    BY <2>1, <2>3
  <2> HIDE DEF key
  <2>6. bid'[The][key] = r
    BY <2>4, TheAssumption DEF TypeOK
  <2> QED  BY <2>3, <2>4, <2>5, <2>6
<1> HIDE DEF Fine
<1>3. ASSUME NEW u \in Bidders, NEW i \in Nat, NEW try \in Nat, <<u, i, try>> \in landed'
      PROVE  Fine(u, i, try)
  <2>1. landed' = landed \/ \E tx \in flying : Land(tx) /\ landed' = landed \cup {Id(tx)}
    BY StepForms, ClientMoves DEF Quiet, Land
  <2> QED  BY <1>1, <1>2, <1>3, <2>1
<1> QED  BY <1>3 DEF LandedInv, Fine

LEMMA ClientInvStep ==
    ASSUME ClientTypeOK, ClientInv, [ClientNext]_all
    PROVE  ClientInv'
<1>1. ASSUME client' = client, landed \subseteq landed' PROVE ClientInv'
  <2>1. \A u \in Bidders : Working(u)' = Working(u) /\ Request(u)' = Request(u)
    BY <1>1 DEF Working, Request
  <2> QED  BY <1>1, <2>1 DEF ClientInv
<1>2. ASSUME NEW u \in Bidders, ClientStep(u) PROVE ClientInv'
  <2>1. /\ Working(u) /\ landed' = landed
        /\ \A v \in Bidders : v # u => client'[v] = client[v]
        /\ Sends(u) \/ Thinks(u) \/ GoesOn(u)
        /\ client[u].request \in Nat /\ client[u].try \in Nat
    BY <1>2, ClientMoves, Counters
  <2>2. ASSUME NEW v \in Bidders, v # u
        PROVE  /\ (Working(v) /\ Request(v).op = "top_up_bid" =>
                     \/ client[v].try = 0 /\ client[v].pc # "await"
                     \/ client[v].try = 1 /\ client[v].pc \in {"await", "gave_up"})'
               /\ \A i \in DOMAIN Requests[v] :
                     i < client'[v].request => \E try \in Nat : <<v, i, try>> \in landed'
    BY <2>1, <2>2 DEF ClientInv, Working, Request
  <2>3. (Working(u) /\ Request(u).op = "top_up_bid" =>
           \/ client[u].try = 0 /\ client[u].pc # "await"
           \/ client[u].try = 1 /\ client[u].pc \in {"await", "gave_up"})'
    <3>1. Request(u).op = "top_up_bid" =>
             \/ client[u].try = 0 /\ client[u].pc # "await"
             \/ client[u].try = 1 /\ client[u].pc \in {"await", "gave_up"}
      BY <2>1 DEF ClientInv
    <3>2. CASE GoesOn(u)
      BY <3>2 DEF GoesOn
    <3>3. CASE Sends(u)
      <4>1. Request(u)' = Request(u)
        BY <3>3 DEF Sends, Request
      <4> QED  BY <2>1, <3>1, <3>3, <4>1 DEF Sends
    <3>4. CASE Thinks(u)
      <4>1. Request(u)' = Request(u)
        BY <3>4 DEF Thinks, Request
      <4> QED  BY <3>1, <3>4, <4>1 DEF Thinks
    <3> QED  BY <2>1, <3>2, <3>3, <3>4
  <2>4. ASSUME NEW i \in DOMAIN Requests[u], i < client'[u].request
        PROVE  \E try \in Nat : <<u, i, try>> \in landed'
    <3>1. i < client[u].request => \E try \in Nat : <<u, i, try>> \in landed
      BY DEF ClientInv
    <3>2. CASE client'[u].request = client[u].request
      BY <2>1, <2>4, <3>1, <3>2
    <3>3. CASE GoesOn(u)
      <4>1. i \in Nat
        BY RequestType
      <4>2. i < client[u].request \/ i = client[u].request
        BY <2>1, <2>4, <3>3, <4>1 DEF GoesOn
      <4> QED  BY <2>1, <3>1, <3>3, <4>2 DEF GoesOn, Last
    <3> QED  BY <2>1, <3>2, <3>3 DEF Sends, Thinks
  <2> QED  BY <2>2, <2>3, <2>4 DEF ClientInv
<1> QED  BY <1>1, <1>2, StepForms DEF Quiet, Land

----------------------------------------------------------------------------
(* Stakes. *)

\* A sum over more summands is no less.
LEMMA TotalGrows ==
    ASSUME NEW T, IsFiniteSet(T), NEW S \in SUBSET T, NEW f, \A x \in T : f[x] \in Nat
    PROVE  Total(f, S) <= Total(f, T)
<1>1. IsFiniteSet(S) /\ IsFiniteSet(T \ S)
  BY FS_Subset
<1>2. S \cap (T \ S) = {} /\ S \cup (T \ S) = T
  OBVIOUS
<1>3. Total(f, T) = Total(f, S) + Total(f, T \ S)
  BY <1>1, <1>2, TotalDisjoint
<1>4. Total(f, S) \in Nat /\ Total(f, T \ S) \in Nat
  BY <1>1, TotalType
<1> QED  BY <1>3, <1>4

\* There are finitely many requests, each of some amount.
LEMMA AmountsFinite ==
    ASSUME NEW u \in Bidders
    PROVE  /\ \A S \in SUBSET DOMAIN Requests[u] : IsFiniteSet(S)
           /\ \A i \in DOMAIN Requests[u] :
                 AmountOf(u)[i] = Requests[u][i].amount /\ AmountOf(u)[i] \in Nat
<1> DEFINE R == [op : {"place_bid", "raise_bid", "top_up_bid", "withdraw"},
                 pid : Proposals, amount : Amounts]
<1>1. Requests[u] \in Seq(R)
  BY RequestsAssumption
<1>2. DOMAIN Requests[u] = 1 .. Len(Requests[u]) /\ Len(Requests[u]) \in Int /\ 1 \in Int
  BY <1>1, LenProperties
<1>3. IsFiniteSet(DOMAIN Requests[u])
  BY <1>2, FS_Interval, Zenon
<1>4. \A S \in SUBSET DOMAIN Requests[u] : IsFiniteSet(S)
  BY <1>3, FS_Subset
<1>5. \A i \in DOMAIN Requests[u] :
         AmountOf(u)[i] = Requests[u][i].amount /\ AmountOf(u)[i] \in Nat
  BY RequestType DEF AmountOf
<1> QED  BY <1>4, <1>5

\* A request that stakes something is carried out by one try only.
LEMMA CarriedOnce ==
    ASSUME ClientTypeOK, FlyingInv, LandedInv, NEW tx \in flying, NEW r, Lands(tx, r)
    PROVE  tx.request \notin Carried(tx.ix.bidder)
<1> DEFINE u == tx.ix.bidder
           i == tx.request
<1>1. /\ u \in Bidders /\ i \in Nat /\ tx.try \in Nat /\ TxOK(tx)
  BY Counters DEF FlyingInv
<1>2. /\ i \in DOMAIN Requests[u] /\ tx.ix.op = Requests[u][i].op
      /\ tx.ix.pid = Requests[u][i].pid
      /\ tx.ix.op = "top_up_bid" => tx.try = 1
      /\ <<u, i, tx.try>> \notin landed
  BY <1>1 DEF TxOK, Id
<1>3. tx.ix.op \in {"place_bid", "raise_bid"} => bid[The][<<tx.ix.pid, u>>].leaf = "none"
  BY DEF Lands
<1> HIDE DEF u, i
<1> SUFFICES ASSUME i \in Carried(u) PROVE FALSE
  BY DEF u, i
<1>4. PICK try \in Nat : <<u, i, try>> \in landed
  BY DEF Carried
<1>5. /\ Requests[u][i].op = "top_up_bid" => try = 1
      /\ Requests[u][i].op \in {"place_bid", "raise_bid"} =>
            bid[The][<<Requests[u][i].pid, u>>].leaf # "none"
  BY <1>1, <1>4 DEF LandedInv
<1>6. Requests[u][i].op \in {"place_bid", "raise_bid", "top_up_bid"}
  BY <1>1, <1>2, RequestType DEF Carried, Stakes
<1> QED  BY <1>2, <1>3, <1>4, <1>5, <1>6

LEMMA CarriedStep ==
    ASSUME TypeOK, StakeInv, ClientTypeOK, FlyingInv, LandedInv, StakeCarried, [ClientNext]_all
    PROVE  StakeCarried'
<1> SUFFICES ASSUME NEW u \in Bidders,
                    \A k \in Proposals \X {u} : bid'[The][k].leaf # "closed"
             PROVE  Total(Staked(The)', Proposals \X {u}) = Total(AmountOf(u), Carried(u)')
  BY DEF StakeCarried, AmountOf
<1> DEFINE Mine == Proposals \X {u}
           Open == \A k \in Mine : bid[The][k].leaf # "closed"
<1>1. Open => Total(Staked(The), Mine) = Total(AmountOf(u), Carried(u))
  BY DEF StakeCarried
<1>2. Mine \in SUBSET Keys
  BY DEF Keys
<1>3. landed' = landed => Carried(u)' = Carried(u)
  BY DEF Carried, Stakes
<1>4. CASE bid' = bid /\ landed' = landed
  <2>1. Staked(The)' = Staked(The)
    BY <1>4 DEF Staked
  <2> QED  BY <1>1, <1>3, <1>4, <2>1
<1>5. ASSUME NEW key \in Keys, NEW r \in BidType, bid' = [bid EXCEPT ![The][key] = r],
             key \notin Mine
      PROVE  Open /\ Total(Staked(The)', Mine) = Total(AmountOf(u), Carried(u))
  <2>1. /\ Total(Staked(The)', Mine) = Total(Staked(The), Mine)
        /\ \A k \in Keys : bid'[The][k] = IF k = key THEN r ELSE bid[The][k]
    BY <1>2, <1>5, StakeChange, TheAssumption
  <2>2. Open
    BY <1>2, <1>5, <2>1
  <2> QED  BY <1>1, <2>1, <2>2
<1>6. ASSUME NEW key \in Keys, NEW r \in BidType, bid' = [bid EXCEPT ![The][key] = r],
             r.leaf = "closed"
      PROVE  key \notin Mine
  <2>1. bid'[The][key] = r
    BY <1>6, TheAssumption DEF TypeOK
  <2> QED  BY <1>6, <2>1
<1>7. CASE Quiet
  BY <1>3, <1>4, <1>5, <1>6, <1>7 DEF Quiet
<1>8. ASSUME NEW tx \in flying, Land(tx)
      PROVE  Total(Staked(The)', Mine) = Total(AmountOf(u), Carried(u)')
  <2> PICK r : Lands(tx, r)
    BY <1>8, LandFacts
  <2> DEFINE w == tx.ix.bidder
             i == tx.request
             amount == tx.ix.amount
             key == <<tx.ix.pid, w>>
  <2>1. /\ key \in Keys /\ r \in BidType /\ bid' = [bid EXCEPT ![The][key] = r]
        /\ tx.ix.op = "withdraw" => r.leaf = "closed"
        /\ tx.ix.op # "withdraw" => /\ r.amount = bid[The][key].amount + amount
                                    /\ bid[The][key].leaf # "closed"
    BY DEF Lands
  <2>2. landed' = landed \cup {<<w, i, tx.try>>} /\ tx.try \in Nat
    BY <1>8, Counters DEF Land, Id
  <2>3. key \in Mine <=> w = u
    BY <2>1 DEF Keys
  <2>4. i \notin Carried(w)
    BY CarriedOnce
  <2>5. /\ i \in DOMAIN Requests[w] /\ tx.ix.op = Requests[w][i].op
        /\ amount = Requests[w][i].amount
    BY DEF FlyingInv, TxOK
  <2> HIDE DEF w, i, key, amount
  <2>6. CASE w # u
    <3>1. Carried(u)' = Carried(u)
      BY <2>2, <2>6 DEF Carried, Stakes
    <3> QED  BY <1>5, <2>1, <2>3, <2>6, <3>1
  <2>7. CASE w = u
    <3>1. tx.ix.op # "withdraw" /\ key \in Mine
      BY <1>6, <2>1, <2>3, <2>7
    <3>2. Carried(u)' = Carried(u) \cup {i}
      BY <2>2, <2>5, <2>7, <3>1 DEF Carried, Stakes
    <3>3. /\ Total(Staked(The)', Mine) = Total(Staked(The), Mine) - bid[The][key].amount
                                             + r.amount
          /\ \A k \in Keys : bid'[The][k] = IF k = key THEN r ELSE bid[The][k]
      <4>1. /\ \A S \in SUBSET Keys :
                  key \in S => Total(Staked(The)', S)
                                 = Total(Staked(The), S) - bid[The][key].amount + r.amount
            /\ \A k \in Keys : bid'[The][k] = IF k = key THEN r ELSE bid[The][k]
        BY <2>1, StakeChange, TheAssumption
      <4> HIDE DEF Mine
      <4> QED  BY <1>2, <3>1, <4>1
    <3>4. Open
      BY <1>2, <2>1, <3>1, <3>3
    <3>5. /\ r.amount = bid[The][key].amount + amount /\ bid[The][key].amount \in Nat
          /\ amount \in Nat /\ Total(Staked(The), Mine) \in Nat
      <4>1. amount \in Nat
        BY <2>5, <2>7, RequestType
      <4>2. bid[The][key].amount \in Nat
        BY <2>1, TheAssumption DEF TypeOK, BidType
      <4>3. Total(Staked(The), Mine) \in Nat
        BY <1>2, StakedFacts, TheAssumption
      <4> QED  BY <2>1, <3>1, <4>1, <4>2, <4>3
    <3>6. Total(AmountOf(u), Carried(u) \cup {i}) = Total(AmountOf(u), Carried(u)) + amount
      <4>1. /\ Carried(u) \in SUBSET DOMAIN Requests[u] /\ {i} \in SUBSET DOMAIN Requests[u]
            /\ Carried(u) \cap {i} = {}
        BY <2>4, <2>5, <2>7 DEF Carried, Stakes
      <4>2. /\ IsFiniteSet(Carried(u)) /\ IsFiniteSet({i})
            /\ \A x \in Carried(u) \cup {i} : AmountOf(u)[x] \in Nat
            /\ AmountOf(u)[i] = amount
        BY <2>5, <2>7, <4>1, AmountsFinite
      <4>3. Total(AmountOf(u), {i}) = amount
        BY <4>2, TotalPoint
      <4> QED  BY <4>1, <4>2, <4>3, TotalDisjoint
    <3>7. Total(Staked(The)', Mine) = Total(Staked(The), Mine) + amount
      BY <3>3, <3>5
    <3> QED  BY <1>1, <3>2, <3>4, <3>6, <3>7
  <2> QED  BY <2>6, <2>7
<1>9. ASSUME NEW v \in Bidders, ClientStep(v) PROVE bid' = bid /\ landed' = landed
  BY <1>9, ClientMoves
<1> QED  BY <1>4, <1>7, <1>8, <1>9, StepForms

----------------------------------------------------------------------------
(* Theorems. *)

\* The inductive invariant: of the program, of the clients, of what is under
\* way and what has landed, and the stakes that this adds up to.
CInv ==
    MoneyInv /\ ClientTypeOK /\ FlyingInv /\ LandedInv /\ ClientInv /\ StakeCarried

LEMMA CInit == ClientInit => CInv
<1> SUFFICES ASSUME ClientInit PROVE CInv
  OBVIOUS
<1>1. /\ flying = {} /\ landed = {} /\ Init
      /\ \A u \in Bidders : client[u].request = 1 /\ client[u].try = 0 /\ client[u].pc = "build"
  BY DEF ClientInit, Start
<1>2. MoneyInv
  BY <1>1, TypeInit, LifeInit, TopInit, SupplyInit, StakeInit DEF MoneyInv
<1>3. FlyingInv /\ LandedInv
  BY <1>1 DEF FlyingInv, LandedInv
<1>4. ClientInv
  <2>1. \A u \in Bidders : \A i \in DOMAIN Requests[u] : ~ (i < 1)
    BY RequestType
  <2> QED  BY <1>1, <2>1 DEF ClientInv
<1>5. StakeCarried
  <2>1. ASSUME NEW u \in Bidders
        PROVE  Total(Staked(The), Proposals \X {u}) = Total(AmountOf(u), Carried(u))
    <3>1. \A k \in Proposals \X {u} : Staked(The)[k] = 0
      BY <1>1, TheAssumption DEF Init, Staked, Keys
    <3>2. Carried(u) = {}
      BY <1>1 DEF Carried
    <3> QED  BY <3>1, <3>2, TotalZero, TotalEmpty
  <2> QED  BY <2>1 DEF StakeCarried
<1> QED  BY <1>2, <1>3, <1>4, <1>5, ClientTypeInit DEF CInv

LEMMA CNext == CInv /\ [ClientNext]_all => CInv'
<1> SUFFICES ASSUME CInv, [ClientNext]_all PROVE CInv'
  OBVIOUS
<1>1. /\ MoneyInv /\ TypeOK /\ StakeInv /\ ClientTypeOK
      /\ FlyingInv /\ LandedInv /\ ClientInv /\ StakeCarried
  BY DEF CInv, MoneyInv
<1>2. [Next]_vars
  BY <1>1, ClientNextIsNext
<1>3. MoneyInv' /\ TypeOK'
  BY <1>1, <1>2, TypeStep, LifeStep, TopStep, SupplyStep, StakeStep DEF MoneyInv
<1>4. ClientTypeOK'
  BY <1>1, <1>3, ClientTypeStep
<1>5. FlyingInv' /\ LandedInv' /\ ClientInv' /\ StakeCarried'
  BY <1>1, FlyingStep, LandedStep, ClientInvStep, CarriedStep
<1> QED  BY <1>3, <1>4, <1>5 DEF CInv

LEMMA CAlways == ClientSpec => []CInv
BY CInit, CNext, PTL DEF ClientSpec

\* Clients, network and indexer do to the program only what any caller may do:
\* all that is proved of Spec holds of auctions that are bid on through them.
THEOREM ClientsCallTheProgram == ClientSpec => Spec
<1>1. ClientInit => Init
  BY DEF ClientInit
<1>2. CInv /\ [ClientNext]_all => [Next]_vars
  BY ClientNextIsNext DEF CInv, MoneyInv
<1> QED  BY <1>1, <1>2, CAlways, PTL DEF ClientSpec, Spec

\* Whatever is lost, late or unconfirmed, clients and transactions stay well
\* formed, and nobody sends more often than the limit.
THEOREM ClientTypeCorrect == ClientSpec => []ClientTypeOK
<1>1. CInv => ClientTypeOK
  BY DEF CInv
<1> QED  BY <1>1, CAlways, PTL

\* What was asked up to some request, as a sum of amounts.
LEMMA AskedIsTotal ==
    ASSUME NEW u \in Bidders, NEW n
    PROVE  Asked(u, n) = Total(AmountOf(u), {i \in Stakes(u) : i <= n})
<1>1. {i \in DOMAIN Requests[u] : i <= n /\ Requests[u][i].op # "withdraw"}
         = {i \in Stakes(u) : i <= n}
  BY DEF Stakes
<1> QED  BY <1>1 DEF Asked, AmountOf

\* However often a bid is built and sent again, from however stale a copy, the
\* bidder has staked all that was confirmed and no more than was asked for.
THEOREM StakesAreAsked == ClientSpec => []StakedAsAsked
<1>1. CInv => StakedAsAsked
  <2> SUFFICES ASSUME CInv, NEW u \in Bidders,
                      \A k \in Proposals \X {u} : bid[The][k].leaf # "closed"
               PROVE  LET stake == Total(Staked(The), Proposals \X {u})
                      IN  /\ Asked(u, client[u].request - 1) <= stake
                          /\ stake <= Asked(u, client[u].request)
    BY DEF StakedAsAsked
  <2> DEFINE n == client[u].request
             Done == {i \in Stakes(u) : i <= n - 1}
             Begun == {i \in Stakes(u) : i <= n}
  <2>1. Total(Staked(The), Proposals \X {u}) = Total(AmountOf(u), Carried(u))
    BY DEF CInv, StakeCarried
  <2>2. n \in Nat
    BY Counters DEF CInv
  <2>3. Done \in SUBSET Carried(u)
    <3>1. ASSUME NEW i \in Stakes(u), i <= n - 1 PROVE i \in Carried(u)
      <4>1. i \in DOMAIN Requests[u] /\ i \in Nat
        BY RequestType DEF Stakes
      <4>2. i < n
        BY <2>2, <3>1, <4>1
      <4> QED  BY <4>1, <4>2 DEF CInv, ClientInv, Carried
    <3> QED  BY <3>1
  <2>4. Carried(u) \in SUBSET Begun
    <3>1. ASSUME NEW i \in Carried(u) PROVE i <= n
      <4>1. i \in Nat
        BY RequestType DEF Carried, Stakes
      <4> QED  BY <4>1 DEF CInv, LandedInv, Carried
    <3> QED  BY <3>1 DEF Carried
  <2>5. /\ Begun \in SUBSET DOMAIN Requests[u] /\ Carried(u) \in SUBSET DOMAIN Requests[u]
    BY DEF Stakes, Carried
  <2>6. /\ IsFiniteSet(Begun) /\ IsFiniteSet(Carried(u))
        /\ \A i \in Begun : AmountOf(u)[i] \in Nat
        /\ \A i \in Carried(u) : AmountOf(u)[i] \in Nat
    BY <2>5, AmountsFinite
  <2>7. Asked(u, n - 1) = Total(AmountOf(u), Done) /\ Asked(u, n) = Total(AmountOf(u), Begun)
    BY AskedIsTotal
  <2> HIDE DEF n, Done, Begun
  <2>8. Total(AmountOf(u), Done) <= Total(AmountOf(u), Carried(u))
    BY <2>3, <2>6, TotalGrows
  <2>9. Total(AmountOf(u), Carried(u)) <= Total(AmountOf(u), Begun)
    BY <2>4, <2>6, TotalGrows
  <2> QED  BY <2>1, <2>7, <2>8, <2>9 DEF n
<1> QED  BY <1>1, CAlways, PTL
=============================================================================
