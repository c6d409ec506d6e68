---------------------------- MODULE KeeperProofs ----------------------------
(***************************************************************************)
(* For any number of auctions, bidders, overlapping ticks, failures and    *)
(* crashes: what is settled stays so, and the keeper does nothing that     *)
(* Settlement does not allow; if its clock is not ahead of the chain's, it *)
(* records an auction as resolved only when nothing is left of it but bids *)
(* that it cannot refund or that a tick passed over, or when a node did    *)
(* not have the auction.                                                   *)
(***************************************************************************)
EXTENDS Keeper, TLAPS

\* An auction that is over: nothing of it moves but towards its settlement.
Over(a) == account[a].status # "none" /\ Chain!Ended(a)

\* What a tick has read of an auction still holds, or is older.
Backed(s) ==
    /\ Over(s.id)
    /\ s.winners = account[s.id].winners
    /\ s.paid => account[s.id].paid

\* Every stake the auction owes is in the list or was passed over.
Listed(s, all_bids) ==
    Chain!Live(s.id) => \A k \in Chain!Owed(s.id) : <<s.id, k>> \in all_bids \cup passed_over

\* Every stake the auction owes is still to be refunded or may be left over.
InHand(a, refunds) == Chain!Live(a) => Chain!Owed(a) \subseteq refunds \cup Left(a)

Resolves(T) == T.pc \in {"claim", "reread", "refund", "balance"}

TickInv(T) ==
    /\ T.pc = "scan" => /\ T.now <= clock
                        /\ \A a \in Auctions : a < T.count => account[a].status # "none"
    /\ \A s \in T.to_resolve : Backed(s)
    /\ T.paid => account[T.a.id].paid \/ account[T.a.id].winners = {}
    /\ T.paid => Resolves(T)
    /\ Resolves(T) => /\ Backed(T.a)
                      /\ \A s \in T.to_resolve : Listed(s, T.all_bids)
                      /\ T.all_refunded => InHand(T.a.id, T.refunds)
    /\ T.pc = "balance" => T.refunds = {}

KeeperInv ==
    /\ TypeOK
    /\ \A t \in Slots : TickInv(tick[t])
    /\ DoneUnlessLapsed

\* What a tick was ever made to give up is not forgotten.
LapsesGrow ==
    /\ passed_over \subseteq passed_over' /\ passed_over' \subseteq Auctions \X Keys
    /\ overlooked \subseteq overlooked' /\ overlooked' \subseteq Auctions

ChainTypeOK ==
    /\ clock \in 0 .. MaxTime
    /\ account \in [Auctions -> Chain!Account]
    /\ leaf \in [Auctions -> [Keys -> {"none", "live", "closed"}]]

\* An account that exists is never unmade, one that is closed stays so.
OneWay(a) ==
    /\ account[a].status = "closed" => account'[a].status = "closed"
    /\ account[a].status # "none" => account'[a].status # "none"

\* What a step of the chain does to an auction that is over.
Kept(a) ==
    /\ account[a].status = "closed" => account'[a].status = "closed"
    /\ account'[a].status # "none"
    /\ clock' >= account'[a].end_time
    /\ account'[a].winners = account[a].winners
    /\ account[a].paid => account'[a].paid
    /\ account'[a].status = "live" => account[a].status = "live"
    /\ Chain!Owed(a)' \subseteq Chain!Owed(a)

----------------------------------------------------------------------------
(* The chain. *)

\* One account is written.
LEMMA OneAccountWritten ==
    ASSUME ChainTypeOK, NEW a \in Auctions, NEW r \in Chain!Account,
           account[a].status # "closed", r.status # "none", account' = [account EXCEPT ![a] = r],
           clock' = clock, leaf' \in [Auctions -> [Keys -> {"none", "live", "closed"}]]
    PROVE  /\ ChainTypeOK'
           /\ clock <= clock'
           /\ \A b \in Auctions : OneWay(b)
<1>1. account' \in [Auctions -> Chain!Account]
  BY DEF ChainTypeOK
<1>2. clock' \in 0 .. MaxTime /\ clock <= clock'
  BY KeeperAssumption DEF ChainTypeOK
<1>3. ASSUME NEW b \in Auctions
      PROVE  OneWay(b)
  BY DEF ChainTypeOK, OneWay
<1> QED  BY <1>1, <1>2, <1>3 DEF ChainTypeOK

\* A step of the chain keeps its types and its clock, and a closed account.
LEMMA ChainTypes ==
    ASSUME ChainTypeOK, [Chain!Next]_chain
    PROVE  /\ ChainTypeOK'
           /\ clock <= clock'
           /\ \A a \in Auctions : OneWay(a)
<1> USE KeeperAssumption DEF ChainTypeOK, Auctions, Proposals
<1> DEFINE Goal == /\ ChainTypeOK'
                   /\ clock <= clock'
                   /\ \A a \in Auctions : OneWay(a)
<1>1. CASE UNCHANGED chain
  BY <1>1 DEF chain, OneWay
<1>2. CASE Chain!ClockTicks
  BY <1>2 DEF Chain!ClockTicks, OneWay
<1>3. ASSUME NEW a \in Auctions, NEW end \in EndTimes, Chain!Create(a, end)
      PROVE  Goal
  <2> DEFINE r == [account[a] EXCEPT !.status = "live", !.end_time = end]
  <2>1. r \in Chain!Account /\ account[a].status # "closed" /\ r.status # "none"
    BY <1>3 DEF Chain!Create, Chain!Account
  <2>2. account' = [account EXCEPT ![a] = r]
    BY <1>3 DEF Chain!Create
  <2>3. clock' = clock /\ leaf' \in [Auctions -> [Keys -> {"none", "live", "closed"}]]
    BY <1>3 DEF Chain!Create
  <2> HIDE DEF r
  <2> QED  BY <2>1, <2>2, <2>3, OneAccountWritten
<1>4. ASSUME NEW a \in Auctions, NEW k \in Keys, NEW top \in SUBSET Proposals,
             NEW end \in EndTimes, Chain!Bid(a, k, top, end)
      PROVE  Goal
  <2> DEFINE r == [account[a] EXCEPT !.winners = top, !.end_time = end]
  <2>1. r \in Chain!Account /\ account[a].status # "closed" /\ r.status # "none"
    <3>1. account[a] \in Chain!Account /\ end \in Nat
      OBVIOUS
    <3>2. top \in SUBSET Chain!Proposals
      OBVIOUS
    <3> QED  BY <1>4, <3>1, <3>2 DEF Chain!Bid, Chain!Live, Chain!Account
  <2>2. account' = [account EXCEPT ![a] = r]
    BY <1>4 DEF Chain!Bid, Chain!Live
  <2>3. clock' = clock /\ leaf' \in [Auctions -> [Keys -> {"none", "live", "closed"}]]
    BY <1>4 DEF Chain!Bid, Chain!Live
  <2> HIDE DEF r
  <2> QED  BY <2>1, <2>2, <2>3, OneAccountWritten
<1>5. ASSUME NEW a \in Auctions, NEW k \in Keys, Chain!Refund(a, k)
      PROVE  Goal
  BY <1>5 DEF Chain!Refund, OneWay
<1>6. ASSUME NEW a \in Auctions, Chain!Claim(a)
      PROVE  Goal
  <2> DEFINE r == [account[a] EXCEPT !.paid = TRUE]
  <2>1. r \in Chain!Account /\ account[a].status # "closed" /\ r.status # "none"
    BY <1>6 DEF Chain!Claim, Chain!Live, Chain!Account
  <2>2. account' = [account EXCEPT ![a] = r]
    BY <1>6 DEF Chain!Claim, Chain!Live
  <2>3. clock' = clock /\ leaf' \in [Auctions -> [Keys -> {"none", "live", "closed"}]]
    BY <1>6 DEF Chain!Claim, Chain!Live
  <2> HIDE DEF r
  <2> QED  BY <2>1, <2>2, <2>3, OneAccountWritten
<1>7. ASSUME NEW a \in Auctions, Chain!Close(a) \/ Chain!Cancel(a)
      PROVE  Goal
  <2> DEFINE r == [account[a] EXCEPT !.status = "closed"]
  <2>1. r \in Chain!Account /\ account[a].status # "closed" /\ r.status # "none"
    BY <1>7 DEF Chain!Close, Chain!Cancel, Chain!Live, Chain!Account
  <2>2. account' = [account EXCEPT ![a] = r]
    BY <1>7 DEF Chain!Close, Chain!Cancel, Chain!Live
  <2>3. clock' = clock /\ leaf' \in [Auctions -> [Keys -> {"none", "live", "closed"}]]
    BY <1>7 DEF Chain!Close, Chain!Cancel, Chain!Live
  <2> HIDE DEF r
  <2> QED  BY <2>1, <2>2, <2>3, OneAccountWritten
<1> QED
  BY <1>1, <1>2, <1>3, <1>4, <1>5, <1>6, <1>7 DEF Chain!Next, Chain!Auctions, Chain!Proposals

\* Whatever happens to an auction that is over brings it closer to settlement.
LEMMA AfterTheEnd ==
    ASSUME ChainTypeOK, [Chain!Next]_chain, NEW a \in Auctions, Over(a)
    PROVE  Kept(a)
<1> USE KeeperAssumption
    DEF ChainTypeOK, Auctions, Proposals, Chain!Account, Over, Kept, Chain!Ended, Chain!Owed
<1>1. CASE UNCHANGED chain
  BY <1>1 DEF chain
<1>2. CASE Chain!ClockTicks
  BY <1>2 DEF Chain!ClockTicks
<1>3. ASSUME NEW b \in Auctions, NEW end \in EndTimes, Chain!Create(b, end)
      PROVE  Kept(a)
  BY <1>3 DEF Chain!Create
<1>4. ASSUME NEW b \in Auctions, NEW k \in Keys, NEW top \in SUBSET Proposals,
             NEW end \in EndTimes, Chain!Bid(b, k, top, end)
      PROVE  Kept(a)
  BY <1>4 DEF Chain!Bid, Chain!Live
<1>5. ASSUME NEW b \in Auctions, NEW k \in Keys, Chain!Refund(b, k)
      PROVE  Kept(a)
  BY <1>5 DEF Chain!Refund
<1>6. ASSUME NEW b \in Auctions, Chain!Claim(b)
      PROVE  Kept(a)
  BY <1>6 DEF Chain!Claim
<1>7. ASSUME NEW b \in Auctions, Chain!Close(b) \/ Chain!Cancel(b)
      PROVE  Kept(a)
  <2> DEFINE r == [account[b] EXCEPT !.status = "closed"]
  <2>1. /\ r.status = "closed" /\ r.end_time = account[b].end_time
        /\ r.winners = account[b].winners /\ r.paid = account[b].paid
    OBVIOUS
  <2>2. account' = [account EXCEPT ![b] = r] /\ UNCHANGED <<clock, leaf>>
    BY <1>7 DEF Chain!Close, Chain!Cancel
  <2> HIDE DEF r
  <2> QED  BY <2>1, <2>2
<1> QED
  BY <1>1, <1>2, <1>3, <1>4, <1>5, <1>6, <1>7 DEF Chain!Next, Chain!Auctions, Chain!Proposals

----------------------------------------------------------------------------
(* What stays true when the chain moves. *)

\* What is settled stays settled, whoever acts on the chain.
LEMMA SettledStays ==
    ASSUME ChainTypeOK, [Chain!Next]_chain, NEW a \in Auctions, NEW left, SettledBut(a, left)
    PROVE  SettledBut(a, left)'
<1>1. CASE account[a].status = "closed"
  BY <1>1, ChainTypes DEF SettledBut, OneWay
<1>2. CASE Chain!Live(a) /\ Chain!Ended(a)
  <2>1. Over(a)
    BY <1>2 DEF Over, Chain!Live
  <2>2. Kept(a) /\ account'[a].status \in {"live", "closed"}
    BY <2>1, AfterTheEnd, ChainTypes DEF ChainTypeOK, Kept, Chain!Account
  <2>3. CASE account'[a].status = "closed"
    BY <2>3 DEF SettledBut
  <2>4. CASE account'[a].status = "live"
    <3>1. account[a].paid \/ account[a].winners = {}
      BY <2>4, <2>2, <1>2 DEF SettledBut, Chain!Live
    <3>2. account'[a].paid \/ account'[a].winners = {}
      BY <3>1, <2>2 DEF Kept
    <3>3. Chain!Owed(a)' \subseteq left
      BY <2>4, <2>2, <1>2 DEF SettledBut, Chain!Live, Kept
    <3>4. Chain!Live(a)' /\ Chain!Ended(a)'
      BY <2>4, <2>2 DEF Kept, Chain!Live, Chain!Ended
    <3> QED  BY <3>2, <3>3, <3>4 DEF SettledBut
  <2> QED  BY <2>2, <2>3, <2>4
<1> QED  BY <1>1, <1>2 DEF SettledBut

\* So does what is settled but for what was given up.
LEMMA LapsedStays ==
    ASSUME ChainTypeOK, [Chain!Next]_chain, LapsesGrow, NEW a \in Auctions,
           SettledUnlessLapsed(a)
    PROVE  SettledUnlessLapsed(a)'
<1>1. CASE a \in overlooked
  BY <1>1 DEF LapsesGrow, SettledUnlessLapsed
<1>2. CASE SettledBut(a, Left(a))
  <2>1. PICK left : left = Left(a)
    OBVIOUS
  <2>2. SettledBut(a, left)'
    BY <1>2, <2>1, SettledStays
  <2>3. left \subseteq Left(a)'
    BY <2>1 DEF Left, LapsesGrow
  <2> QED  BY <2>2, <2>3 DEF SettledUnlessLapsed, SettledBut
<1> QED  BY <1>1, <1>2 DEF SettledUnlessLapsed

\* What was read of an auction that is over is still good, or older, after any
\* step of the chain.
LEMMA BackedStays ==
    ASSUME ChainTypeOK, [Chain!Next]_chain, NEW s \in Snapshot, Backed(s)
    PROVE  Backed(s)'
<1>1. s.id \in Auctions /\ Over(s.id)
  BY DEF Snapshot, Backed
<1>2. Kept(s.id)
  BY <1>1, AfterTheEnd
<1> QED  BY <1>2 DEF Backed, Kept, Over, Chain!Ended

\* What a tick knows stays true while others, and other ticks, move the chain.
LEMMA TickInvStays ==
    ASSUME ChainTypeOK, [Chain!Next]_chain, LapsesGrow, NEW T \in Tick, TickInv(T)
    PROVE  TickInv(T)'
<1>1. T.a \in Snapshot /\ T.a.id \in Auctions /\ T.to_resolve \subseteq Snapshot /\ T.now \in Int
  BY DEF Tick, Snapshot
<1>2. T.pc = "scan" =>
        /\ T.now <= clock'
        /\ \A a \in Auctions : a < T.count => account'[a].status # "none"
  <2>1. clock \in Int /\ clock' \in Int /\ clock <= clock'
    BY ChainTypes DEF ChainTypeOK
  <2>2. \A a \in Auctions : account[a].status # "none" => account'[a].status # "none"
    BY ChainTypes DEF OneWay
  <2> QED  BY <1>1, <2>1, <2>2 DEF TickInv
<1>3. \A s \in T.to_resolve : Backed(s)'
  BY <1>1, BackedStays DEF TickInv
<1>4. ASSUME Resolves(T)
      PROVE  Backed(T.a) /\ Backed(T.a)' /\ Kept(T.a.id)
  <2>1. Backed(T.a)
    BY <1>4 DEF TickInv
  <2> QED  BY <2>1, <1>1, BackedStays, AfterTheEnd DEF Backed
<1>5. T.paid => account'[T.a.id].paid \/ account'[T.a.id].winners = {}
  BY <1>4 DEF TickInv, Kept
<1>6. ASSUME Resolves(T), NEW s \in T.to_resolve
      PROVE  Listed(s, T.all_bids)'
  <2>1. Backed(s) /\ Listed(s, T.all_bids) /\ s.id \in Auctions
    BY <1>6, <1>1 DEF TickInv, Snapshot
  <2>2. Kept(s.id)
    BY <2>1, AfterTheEnd DEF Backed
  <2> QED  BY <2>1, <2>2 DEF Listed, Kept, Chain!Live, LapsesGrow
<1>7. ASSUME Resolves(T), T.all_refunded
      PROVE  InHand(T.a.id, T.refunds)'
  <2>1. InHand(T.a.id, T.refunds)
    BY <1>7 DEF TickInv
  <2>2. Left(T.a.id) \subseteq Left(T.a.id)'
    BY DEF Left, LapsesGrow
  <2> QED  BY <2>1, <2>2, <1>4, <1>7 DEF InHand, Kept, Chain!Live
<1>8. Resolves(T)' <=> Resolves(T)
  BY DEF Resolves
<1> QED
  BY <1>2, <1>3, <1>4, <1>5, <1>6, <1>7, <1>8 DEF TickInv

----------------------------------------------------------------------------
(* One step of a tick. *)

\* A tick moved, and perhaps the chain with it: enough to show of the new tick
\* and of the auctions marked done.
LEMMA OneTickMoves ==
    ASSUME KeeperInv, [Chain!Next]_chain, LapsesGrow, NEW t \in Slots, NEW T \in Tick,
           tick' = [tick EXCEPT ![t] = T], TickInv(T) \/ TickInv(T)',
           up' = up, store' = store, faults' \in 0 .. MaxFaults,
           \/ NoneDone
           \/ \E a \in Auctions : /\ MarkDone(a)
                                  /\ SettledUnlessLapsed(a) \/ a \in overlooked'
    PROVE  KeeperInv'
<1>1. ChainTypeOK
  BY DEF KeeperInv, TypeOK, ChainTypeOK
<1>2. ChainTypeOK'
  BY <1>1, ChainTypes
<1>3. tick' \in [Slots -> Tick]
  BY DEF KeeperInv, TypeOK
<1>4. done' \subseteq Auctions /\ posting' \subseteq Auctions
  BY DEF KeeperInv, TypeOK, NoneDone, MarkDone
<1>5. TypeOK' /\ TickInv(T)'
  <2>1. TickInv(T)'
    BY <1>1, TickInvStays
  <2> QED
    BY <1>2, <1>3, <1>4, <2>1 DEF KeeperInv, TypeOK, ChainTypeOK, LapsesGrow
<1>6. (\A u \in Slots : TickInv(tick[u]))'
  <2> SUFFICES ASSUME NEW u \in Slots
               PROVE  TickInv(tick[u])'
    OBVIOUS
  <2>1. tick \in [Slots -> Tick] /\ TickInv(tick[u])
    BY DEF KeeperInv, TypeOK
  <2>2. PICK U \in Tick : tick'[u] = U /\ TickInv(U)'
    <3>1. CASE u = t
      BY <2>1, <3>1, <1>5
    <3>2. CASE u # t
      <4> DEFINE V == tick[u]
      <4>1. V \in Tick /\ tick'[u] = V
        BY <2>1, <3>2
      <4>2. PICK W \in Tick : W = V
        BY <4>1
      <4>3. TickInv(W)
        BY <4>2, <2>1
      <4> QED  BY <4>1, <4>2, <4>3, <1>1, TickInvStays
    <3> QED  BY <3>1, <3>2
  <2> QED
    BY <2>2 DEF TickInv, Backed, Listed, InHand, Left, Resolves, Over, Chain!Owed, Chain!Live, Chain!Ended
<1>7. DoneUnlessLapsed'
  <2>1. \A a \in done' \cup store' \cup posting' :
           a \in Auctions /\ (SettledUnlessLapsed(a) \/ a \in overlooked')
    BY DEF KeeperInv, TypeOK, DoneUnlessLapsed, NoneDone, MarkDone
  <2>2. \A a \in done' \cup store' \cup posting' : SettledUnlessLapsed(a)'
    BY <2>1, <1>1, LapsedStays DEF SettledUnlessLapsed
  <2> QED  BY <2>2 DEF DoneUnlessLapsed
<1> QED  BY <1>5, <1>6, <1>7 DEF KeeperInv

\* The same for a tick that only reads, or has its call rejected.
LEMMA OneTickReads ==
    ASSUME KeeperInv, UNCHANGED <<chain, up, store>>, LapsesGrow, NEW t \in Slots, NEW T \in Tick,
           Goes(t, T), TickInv(T) \/ TickInv(T)', faults' \in 0 .. MaxFaults,
           \/ NoneDone
           \/ \E a \in Auctions : /\ MarkDone(a)
                                  /\ SettledUnlessLapsed(a) \/ a \in overlooked'
    PROVE  KeeperInv'
BY OneTickMoves DEF Goes

\* The bound on failures is kept.
LEMMA FaultsCounted ==
    ASSUME KeeperInv, NoFault \/ Fault
    PROVE  faults' \in 0 .. MaxFaults
BY KeeperAssumption DEF KeeperInv, TypeOK, NoFault, Fault

\* A step that gives nothing up leaves the history as it is.
LEMMA LapsesKept ==
    ASSUME TypeOK, UNCHANGED lapses
    PROVE  LapsesGrow
BY DEF TypeOK, lapses, LapsesGrow

\* What the invariant says of one tick.
LEMMA TickFacts ==
    ASSUME KeeperInv, NEW t \in Slots
    PROVE  tick[t] \in Tick /\ TickInv(tick[t])
BY DEF KeeperInv, TypeOK

\* A slot without a tick knows nothing.
LEMMA IdleTick == Idle \in Tick /\ TickInv(Idle)
<1>1. 0 \in 0 .. MaxAuctions /\ 0 \in Auctions
  BY KeeperAssumption DEF Auctions, Chain!Auctions
<1>2. Nothing \in Snapshot
  BY <1>1 DEF Nothing, Snapshot
<1>3. Idle \in Tick
  BY <1>1, <1>2 DEF Idle, Tick
<1>4. TickInv(Idle)
  BY DEF TickInv, Idle, Resolves
<1> QED  BY <1>3, <1>4

\* A tick that starts reads a clock that is not ahead, and a count of auctions
\* that exist.
LEMMA StartTickKeeps ==
    ASSUME KeeperInv, MaxAhead = 0, NEW t \in Slots, StartTick(t)
    PROVE  KeeperInv'
<1> PICK count \in 0 .. MaxAuctions, now \in clock - MaxBehind .. clock + MaxAhead :
         IsAuctionCount(count) /\ Goes(t, [Idle EXCEPT !.pc = "scan", !.now = now, !.count = count])
  BY DEF StartTick
<1>1. clock \in Int /\ now \in Int /\ now <= clock
  BY KeeperAssumption DEF KeeperInv, TypeOK
<1> DEFINE T == [Idle EXCEPT !.pc = "scan", !.now = now, !.count = count]
<1>2. T \in Tick
  BY <1>1, IdleTick DEF Idle, Tick
<1>3. TickInv(T)
  BY <1>1 DEF TickInv, Idle, Resolves, IsAuctionCount
<1>4. faults' \in 0 .. MaxFaults /\ LapsesGrow
  BY FaultsCounted, LapsesKept DEF KeeperInv, StartTick
<1>5. Goes(t, T)
  OBVIOUS
<1> QED
  <2> HIDE DEF T
  <2> QED  BY <1>2, <1>3, <1>4, <1>5, OneTickReads DEF StartTick

\* An auction already recorded as resolved is passed over.
LEMMA SkipResolvedKeeps ==
    ASSUME KeeperInv, NEW t \in Slots, SkipResolved(t)
    PROVE  KeeperInv'
<1> DEFINE T0 == tick[t]
           T  == [T0 EXCEPT !.next = T0.next + 1]
<1>1. T0 \in Tick /\ TickInv(T0)
  BY TickFacts
<1>2. T \in Tick
  BY <1>1, KeeperAssumption DEF SkipResolved, Tick
<1>3. TickInv(T)
  BY <1>1 DEF TickInv, Tick, Resolves
<1>4. faults' \in 0 .. MaxFaults /\ LapsesGrow
  BY FaultsCounted, LapsesKept DEF KeeperInv, SkipResolved
<1>5. Goes(t, T)
  BY DEF SkipResolved
<1> QED
  <2> HIDE DEF T
  <2> QED  BY <1>2, <1>3, <1>4, <1>5, OneTickReads DEF SkipResolved

\* However stale, an answer is right about the end and the winners, and never
\* ahead of the chain about the payment.
LEMMA ViewsAreOlder ==
    ASSUME TypeOK, NEW a \in Auctions, NEW seen \in Views(a)
    PROVE  /\ seen.status \in {account[a].status, "live"}
           /\ seen.end_time = account[a].end_time
           /\ seen.winners = account[a].winners
           /\ seen.paid \in BOOLEAN
           /\ seen.paid => account[a].paid
<1>1. account[a] \in Chain!Account
  BY DEF TypeOK
<1>2. CASE seen = account[a]
  BY <1>1, <1>2 DEF Chain!Account
<1>3. CASE account[a].status # "none" /\ Chain!Ended(a)
  <2>1. PICK st \in {account[a].status, "live"}, p \in {account[a].paid, FALSE} :
             seen = [account[a] EXCEPT !.status = st, !.paid = p]
    BY <1>3 DEF Views
  <2> QED  BY <1>1, <2>1 DEF Chain!Account
<1> QED  BY <1>2, <1>3 DEF Views

\* An account seen closed is settled; one that is listed to be resolved is over.
LEMMA VisitAuctionKeeps ==
    ASSUME KeeperInv, NEW t \in Slots, VisitAuction(t)
    PROVE  KeeperInv'
<1> DEFINE T0 == tick[t]
           id == T0.next
<1>1. T0 \in Tick /\ TickInv(T0) /\ T0.pc = "scan" /\ id < T0.count
  BY TickFacts DEF VisitAuction
<1>2. id \in Auctions /\ account[id].status # "none" /\ id + 1 \in 0 .. MaxAuctions
  <2>1. id \in 0 .. MaxAuctions /\ T0.count \in 0 .. MaxAuctions
    BY <1>1 DEF Tick
  <2>2. id \in Auctions /\ id + 1 \in 0 .. MaxAuctions
    BY <2>1, <1>1, KeeperAssumption DEF Auctions, Chain!Auctions
  <2> QED  BY <1>1, <2>2 DEF TickInv
<1>3. faults' \in 0 .. MaxFaults /\ UNCHANGED <<chain, up, store>>
  BY FaultsCounted DEF VisitAuction
<1>4. PICK seen \in Answers(id) :
         /\ overlooked' = overlooked \cup IF seen.status = "none" THEN {id} ELSE {}
         /\ passed_over' = passed_over
         /\ \/ /\ seen.status # "live"
               /\ MarkDone(id)
               /\ Goes(t, [T0 EXCEPT !.next = id + 1])
            \/ /\ seen.status = "live" /\ seen.end_time > T0.now
               /\ NoneDone
               /\ Goes(t, [T0 EXCEPT !.next = id + 1])
            \/ /\ seen.status = "live" /\ seen.end_time <= T0.now
               /\ NoneDone
               /\ Goes(t, [T0 EXCEPT
                     !.next = id + 1,
                     !.to_resolve = @ \cup {[id |-> id, paid |-> seen.paid,
                                             winners |-> seen.winners]}])
  BY DEF VisitAuction
<1> DEFINE T1 == [T0 EXCEPT !.next = id + 1]
<1>5. T1 \in Tick /\ TickInv(T1)
  <2>1. T1 \in Tick
    BY <1>1, <1>2 DEF Tick
  <2> QED  BY <2>1, <1>1 DEF TickInv, Tick, Resolves
<1>6. LapsesGrow
  <2>1. passed_over \subseteq Auctions \X Keys /\ overlooked \subseteq Auctions
    BY DEF KeeperInv, TypeOK
  <2> HIDE DEF id
  <2> QED  BY <1>2, <1>4, <2>1 DEF LapsesGrow
<1>7. seen.status # "none" => seen \in Views(id)
  BY <1>4 DEF Answers, Chain!NoAccount
<1>8. CASE seen.status # "live" /\ MarkDone(id) /\ Goes(t, T1)
  <2>1. CASE seen.status = "none"
    <3>1. id \in overlooked'
      BY <1>4, <2>1
    <3> HIDE DEF T1, id
    <3> QED  BY <1>2, <1>3, <1>5, <1>8, <1>6, <3>1, OneTickReads
  <2>2. CASE seen.status # "none"
    <3>1. account[id] \in Chain!Account
      BY <1>2 DEF KeeperInv, TypeOK
    <3>2. account[id].status = "closed"
      BY <1>8, <1>2, <1>7, <2>2, <3>1, ViewsAreOlder DEF KeeperInv, Chain!Account
    <3>3. SettledUnlessLapsed(id)
      BY <3>2 DEF SettledUnlessLapsed, SettledBut
    <3> HIDE DEF T1, id
    <3> QED  BY <1>2, <1>3, <1>5, <1>8, <1>6, <3>3, OneTickReads
  <2> QED  BY <2>1, <2>2
<1>9. CASE NoneDone /\ Goes(t, T1)
  <2> HIDE DEF T1, id
  <2> QED  BY <1>2, <1>3, <1>5, <1>9, <1>6, OneTickReads
<1>10. CASE /\ seen.status = "live" /\ seen.end_time <= T0.now
           /\ NoneDone
           /\ Goes(t, [T0 EXCEPT
                 !.next = id + 1,
                 !.to_resolve = @ \cup {[id |-> id, paid |-> seen.paid,
                                         winners |-> seen.winners]}])
  <2> DEFINE s  == [id |-> id, paid |-> seen.paid, winners |-> seen.winners]
             T2 == [T0 EXCEPT !.next = id + 1, !.to_resolve = @ \cup {s}]
  <2>1. account[id] \in Chain!Account /\ clock \in Int
    BY <1>2 DEF KeeperInv, TypeOK
  <2>2. seen \in Views(id)
    BY <1>10, <1>7
  <2>3. s \in Snapshot
    BY <1>2, <2>1, <2>2, ViewsAreOlder DEF KeeperInv, Snapshot, Chain!Account, Proposals
  <2>4. account[id].end_time <= clock
    <3>1. T0.now \in Int /\ T0.now <= clock /\ account[id].end_time \in Int
      BY <1>1, <2>1 DEF TickInv, Tick, Chain!Account
    <3>2. seen.end_time = account[id].end_time
      BY <1>2, <2>2, ViewsAreOlder DEF KeeperInv
    <3> QED  BY <1>10, <2>1, <3>1, <3>2
  <2>5. Backed(s)
    BY <1>2, <2>1, <2>4, <2>2, ViewsAreOlder DEF KeeperInv, Backed, Over, Chain!Ended, Chain!Account
  <2>6. T2 \in Tick
    BY <1>1, <1>2, <2>3 DEF Tick
  <2>7. TickInv(T2)
    <3> HIDE DEF s
    <3> QED  BY <1>1, <2>5 DEF TickInv, Tick, Resolves
  <2>8. Goes(t, T2) /\ NoneDone
    BY <1>10
  <2> HIDE DEF T2, id
  <2> QED  BY <1>2, <1>3, <1>6, <2>6, <2>7, <2>8, OneTickReads
<1> QED  BY <1>4, <1>8, <1>9, <1>10

\* The start of resolveAuction is a tick.
LEMMA ResolvingTick ==
    ASSUME NEW a \in Snapshot, NEW rest \in SUBSET Snapshot,
           NEW all_bids \in SUBSET (Auctions \X Keys)
    PROVE  Resolving(a, rest, all_bids) \in Tick
<1> DEFINE T      == Resolving(a, rest, all_bids)
           losers == Losers(a, all_bids)
<1>1. a.paid \in BOOLEAN
  BY DEF Snapshot
<1>2. PICK p \in BOOLEAN : p = (a.paid \/ NoWinner(a))
  BY <1>1, Zenon DEF NoWinner
<1>3. T = [Idle EXCEPT !.pc = IF p THEN "refund" ELSE "claim",
                       !.to_resolve = rest, !.all_bids = all_bids, !.a = a,
                       !.paid = p, !.refunds = losers, !.all_refunded = TRUE]
  BY <1>2 DEF Resolving
<1>4. losers \in SUBSET Keys
  BY DEF Losers
<1>5. 0 \in 0 .. MaxAuctions /\ 0 \in Int
  BY KeeperAssumption
<1>6. PICK pc \in {"refund", "claim"} : pc = IF p THEN "refund" ELSE "claim"
  OBVIOUS
<1> HIDE DEF losers, T
<1>7. T = [pc |-> pc, now |-> 0, count |-> 0, next |-> 0, to_resolve |-> rest,
           all_bids |-> all_bids, a |-> a, paid |-> p, refunds |-> losers,
           all_refunded |-> TRUE]
  BY <1>3, <1>6 DEF Idle
<1>8. T \in Tick
  BY <1>4, <1>5, <1>7 DEF Tick
<1> QED  BY <1>8 DEF T

\* The loop over toResolve starts with an auction it has listed all stakes of.
LEMMA ResolveNextKeeps ==
    ASSUME KeeperInv, UNCHANGED <<chain, up, store>>, LapsesGrow, NEW t \in Slots,
           NEW to_resolve \in SUBSET Snapshot, NEW all_bids \in SUBSET (Auctions \X Keys),
           \A s \in to_resolve : Backed(s)' /\ Listed(s, all_bids)',
           ResolveNext(t, to_resolve, all_bids), faults' \in 0 .. MaxFaults,
           \/ NoneDone
           \/ \E a \in Auctions : /\ MarkDone(a)
                                  /\ SettledUnlessLapsed(a) \/ a \in overlooked'
    PROVE  KeeperInv'
<1>1. CASE Goes(t, Idle)
  BY <1>1, IdleTick, OneTickReads
<1>2. ASSUME NEW a \in to_resolve, Goes(t, Resolving(a, to_resolve \ {a}, all_bids))
      PROVE  KeeperInv'
  <2> DEFINE T == Resolving(a, to_resolve \ {a}, all_bids)
  <2>1. /\ a \in Snapshot /\ a.id \in Auctions /\ a.paid \in BOOLEAN
        /\ Backed(a)' /\ Listed(a, all_bids)'
    BY DEF Snapshot
  <2>2. PICK p \in BOOLEAN : p = (a.paid \/ NoWinner(a))
    BY <2>1, Zenon
  <2>3. T = [Idle EXCEPT !.pc = IF p THEN "refund" ELSE "claim",
                         !.to_resolve = to_resolve \ {a}, !.all_bids = all_bids, !.a = a,
                         !.paid = p, !.refunds = Losers(a, all_bids), !.all_refunded = TRUE]
    BY <2>2 DEF Resolving
  <2>4. T \in Tick
    BY <2>1, ResolvingTick
  <2>5. InHand(a.id, Losers(a, all_bids))'
    BY <2>1 DEF InHand, Left, Listed, Backed, Losers, Chain!Owed
  <2>6. p => account'[a.id].paid \/ account'[a.id].winners = {}
    BY <2>1, <2>2 DEF Backed, NoWinner
  <2>7. TickInv(T)'
    <3>1. /\ T.pc \in {"claim", "refund"} /\ T.a = a /\ T.paid = p
          /\ T.to_resolve = to_resolve \ {a} /\ T.all_bids = all_bids
          /\ T.refunds = Losers(a, all_bids)
      BY <2>3 DEF Idle
    <3> HIDE DEF T
    <3> QED  BY <2>1, <2>5, <2>6, <3>1 DEF TickInv, Resolves
  <2> HIDE DEF T
  <2> QED  BY <1>2, <2>4, <2>7, OneTickReads DEF T
<1> QED  BY <1>1, <1>2 DEF ResolveNext

\* The list of bids has every stake that is still open, or it is remembered that
\* it was passed over.
LEMMA EnumerateKeeps ==
    ASSUME KeeperInv, NEW t \in Slots, Enumerate(t)
    PROVE  KeeperInv'
<1> PICK T0 \in Tick : T0 = tick[t]
  BY TickFacts
<1>1. TickInv(T0) /\ T0.to_resolve \in SUBSET Snapshot
  BY TickFacts DEF Tick
<1> PICK ids \in SUBSET Auctions : ids = {a.id : a \in T0.to_resolve}
  BY <1>1 DEF Snapshot
<1> PICK listed \in {{"live"}, {"live", "closed"}}, missed \in SUBSET Unindexed :
         /\ ResolveNext(t, T0.to_resolve,
                        {b \in ids \X (Keys \ missed) : leaf[b[1]][b[2]] \in listed})
         /\ passed_over' = passed_over \cup {b \in ids \X missed : leaf[b[1]][b[2]] = "live"}
  BY DEF Enumerate
<1> PICK all_bids \in SUBSET (Auctions \X Keys) :
         all_bids = {b \in ids \X (Keys \ missed) : leaf[b[1]][b[2]] \in listed}
  OBVIOUS
<1>2. UNCHANGED <<chain, up, store>> /\ NoneDone /\ faults' \in 0 .. MaxFaults
  BY FaultsCounted DEF Enumerate
<1>3. LapsesGrow
  <2>1. passed_over \subseteq Auctions \X Keys /\ overlooked \subseteq Auctions
    BY DEF KeeperInv, TypeOK
  <2>2. overlooked' = overlooked /\ missed \subseteq Keys
    BY KeeperAssumption DEF Enumerate
  <2> QED  BY <2>1, <2>2 DEF LapsesGrow
<1>4. ASSUME NEW s \in T0.to_resolve
      PROVE  Backed(s)' /\ Listed(s, all_bids)'
  <2>1. Backed(s)
    BY <1>1 DEF TickInv
  <2>2. Backed(s)'
    BY <1>2, <2>1 DEF Backed, Over, Chain!Ended, chain
  <2>3. ASSUME NEW k \in Chain!Owed(s.id)
        PROVE  <<s.id, k>> \in all_bids \cup passed_over'
    <3>1. s.id \in ids /\ k \in Keys /\ leaf[s.id][k] = "live"
      BY DEF Chain!Owed
    <3>2. CASE k \in missed
      <4>1. <<s.id, k>> \in {b \in ids \X missed : leaf[b[1]][b[2]] = "live"}
        BY <3>1, <3>2
      <4> QED  BY <4>1
    <3>3. CASE k \notin missed
      BY <3>1, <3>3
    <3> QED  BY <3>2, <3>3
  <2>4. Chain!Owed(s.id)' = Chain!Owed(s.id)
    BY <1>2 DEF chain, Chain!Owed
  <2> QED  BY <2>2, <2>3, <2>4 DEF Listed
<1>5. ResolveNext(t, T0.to_resolve, all_bids)
  OBVIOUS
<1> QED  BY <1>1, <1>2, <1>3, <1>4, <1>5, ResolveNextKeeps

----------------------------------------------------------------------------
(* The calls of resolveAuction. *)

\* What the invariant says of a tick that resolves an auction.
LEMMA ResolvingFacts ==
    ASSUME KeeperInv, NEW t \in Slots, Resolves(tick[t])
    PROVE  /\ tick[t].a.id \in Auctions
           /\ Backed(tick[t].a) /\ Over(tick[t].a.id)
           /\ tick[t].refunds \in SUBSET Keys
           /\ tick[t].paid \in BOOLEAN /\ tick[t].all_refunded \in BOOLEAN
BY TickFacts DEF Tick, TickInv, Snapshot, Backed

\* A claim is taken for paid only where the chain has just paid it.
LEMMA SendClaimKeeps ==
    ASSUME KeeperInv, NEW t \in Slots, SendClaim(t)
    PROVE  KeeperInv'
<1> PICK T0 \in Tick : T0 = tick[t]
  BY TickFacts
<1> DEFINE id == T0.a.id
           T1 == [T0 EXCEPT !.pc = "refund", !.paid = TRUE]
           T2 == [T0 EXCEPT !.pc = "reread"]
<1>1. T0 \in Tick /\ TickInv(T0) /\ T0.pc = "claim" /\ id \in Auctions
  BY TickFacts, ResolvingFacts DEF SendClaim, Resolves
<1>2. faults' \in 0 .. MaxFaults /\ LapsesGrow
  BY FaultsCounted, LapsesKept DEF KeeperInv, SendClaim
<1>3. T2 \in Tick /\ TickInv(T2)
  BY <1>1 DEF Tick, TickInv, Resolves
<1>4. CASE Chain!Claim(id) /\ Goes(t, T1)
  <2>1. T1 \in Tick /\ ChainTypeOK
    BY <1>1 DEF Tick, KeeperInv, TypeOK, ChainTypeOK
  <2>2. [Chain!Next]_chain
    BY <1>4, <1>1 DEF Chain!Next, Auctions
  <2>3. account'[id].paid
    <3>1. account \in [Auctions -> Chain!Account] /\ account[id] \in Chain!Account
      BY <1>1, <2>1 DEF ChainTypeOK
    <3>2. account' = [account EXCEPT ![id] = [account[id] EXCEPT !.paid = TRUE]]
      BY <1>4 DEF Chain!Claim
    <3>3. account'[id] = [account[id] EXCEPT !.paid = TRUE]
      BY <3>1, <3>2, <1>1
    <3> QED  BY <3>1, <3>3 DEF Chain!Account
  <2>4. TickInv(T0)'
    BY <1>1, <1>2, <2>1, <2>2, TickInvStays
  <2>5. TickInv(T1)'
    BY <1>1, <2>3, <2>4 DEF TickInv, Tick, Resolves, Backed, Listed, InHand
  <2>6. tick' = [tick EXCEPT ![t] = T1] /\ up' = up /\ store' = store /\ NoneDone
    BY <1>4 DEF SendClaim, Goes
  <2> HIDE DEF T1
  <2> QED  BY <1>2, <2>1, <2>2, <2>5, <2>6, OneTickMoves
<1>5. CASE Chain!Claim(id) /\ Goes(t, T2)
  <2>1. [Chain!Next]_chain
    BY <1>5, <1>1 DEF Chain!Next, Auctions
  <2> HIDE DEF T2
  <2> QED  BY <1>2, <1>3, <1>5, <2>1, OneTickMoves DEF SendClaim, Goes
<1>6. CASE UNCHANGED chain /\ Goes(t, T2)
  <2> HIDE DEF T2
  <2> QED  BY <1>2, <1>3, <1>6, OneTickReads DEF SendClaim
<1> QED  BY <1>4, <1>5, <1>6 DEF SendClaim

\* After a claim that failed, only the flag on chain counts.
LEMMA RereadKeeps ==
    ASSUME KeeperInv, NEW t \in Slots, Reread(t)
    PROVE  KeeperInv'
<1> DEFINE T0 == tick[t]
           id == T0.a.id
<1>1. /\ T0 \in Tick /\ TickInv(T0) /\ T0.pc = "reread"
      /\ id \in Auctions /\ account[id].status # "none"
  BY TickFacts, ResolvingFacts DEF Reread, Resolves, Over
<1>2. faults' \in 0 .. MaxFaults /\ LapsesGrow
  BY FaultsCounted, LapsesKept DEF KeeperInv, Reread
<1>3. PICK p \in BOOLEAN : /\ Goes(t, [T0 EXCEPT !.pc = "refund", !.paid = p])
                           /\ p => account[id].paid
  <2>1. CASE \E fresh \in Views(id) :
                Goes(t, [T0 EXCEPT !.pc = "refund", !.paid = PaidOnChain(fresh)])
    <3> PICK fresh \in Views(id) :
             Goes(t, [T0 EXCEPT !.pc = "refund", !.paid = PaidOnChain(fresh)])
      BY <2>1
    <3> QED  BY <1>1, ViewsAreOlder DEF KeeperInv, PaidOnChain
  <2>2. CASE Goes(t, [T0 EXCEPT !.pc = "refund", !.paid = PaidOnChain(Chain!NoAccount)])
    BY <2>2 DEF PaidOnChain, Chain!NoAccount
  <2> QED  BY <2>1, <2>2 DEF Reread
<1> DEFINE T == [T0 EXCEPT !.pc = "refund", !.paid = p]
<1>4. T \in Tick
  BY <1>1 DEF Tick
<1>5. TickInv(T)
  BY <1>1, <1>3 DEF Tick, TickInv, Resolves
<1> HIDE DEF T
<1> QED  BY <1>2, <1>3, <1>4, <1>5, OneTickReads DEF Reread, T

\* A close changes nothing that the tick relies on.
LEMMA CloseOneKeeps ==
    ASSUME KeeperInv, NEW t \in Slots, CloseOne(t)
    PROVE  KeeperInv'
<1> DEFINE T0 == tick[t]
           id == T0.a.id
           T  == [T0 EXCEPT !.pc = "balance"]
<1>1. /\ T0 \in Tick /\ TickInv(T0) /\ T0.pc = "refund" /\ T0.refunds = {}
      /\ id \in Auctions
  BY TickFacts, ResolvingFacts DEF CloseOne, RefundsTried, Resolves
<1>2. faults' \in 0 .. MaxFaults /\ LapsesGrow
  BY FaultsCounted, LapsesKept DEF KeeperInv, CloseOne
<1>3. T \in Tick /\ TickInv(T)
  BY <1>1 DEF Tick, TickInv, Resolves
<1>4. [Chain!Next]_chain
  BY <1>1 DEF CloseOne, Chain!Next, Auctions
<1> HIDE DEF T
<1> QED  BY <1>2, <1>3, <1>4, OneTickMoves DEF CloseOne, Goes, T

\* An auction is marked done only when it was paid and every refund was answered:
\* then it is settled, but for the refunds that were passed over.
LEMMA CheckVaultKeeps ==
    ASSUME KeeperInv, NEW t \in Slots, CheckVault(t)
    PROVE  KeeperInv'
<1> PICK T0 \in Tick : T0 = tick[t]
  BY TickFacts
<1> DEFINE id == T0.a.id
<1>1. /\ T0 \in Tick /\ TickInv(T0) /\ Resolves(T0) /\ T0.refunds = {}
      /\ id \in Auctions /\ Backed(T0.a) /\ Over(id)
  BY TickFacts, ResolvingFacts DEF CheckVault, RefundsTried, Resolves, TickInv
<1>2. faults' \in 0 .. MaxFaults /\ LapsesGrow
  BY FaultsCounted, LapsesKept DEF KeeperInv, CheckVault
<1>3. ASSUME T0.paid, T0.all_refunded
      PROVE  SettledUnlessLapsed(id)
  <2>1. account[id].status \in {"live", "closed"}
    BY <1>1 DEF KeeperInv, TypeOK, Chain!Account, Over
  <2>2. account[id].paid \/ account[id].winners = {}
    BY <1>1, <1>3 DEF TickInv
  <2>3. InHand(id, {})
    BY <1>1, <1>3 DEF TickInv
  <2> QED  BY <1>1, <2>1, <2>2, <2>3 DEF SettledUnlessLapsed, SettledBut, InHand, Over, Chain!Live
<1>4. NoneDone \/ \E a \in Auctions : MarkDone(a) /\ SettledUnlessLapsed(a)
  BY <1>1, <1>3 DEF CheckVault
<1>5. /\ T0.to_resolve \in SUBSET Snapshot /\ T0.all_bids \in SUBSET (Auctions \X Keys)
      /\ \A s \in T0.to_resolve : Backed(s) /\ Listed(s, T0.all_bids)
  BY <1>1 DEF Tick, TickInv
<1>6. UNCHANGED <<chain, up, store, lapses>> /\ ResolveNext(t, T0.to_resolve, T0.all_bids)
  BY DEF CheckVault
<1>7. ASSUME NEW s \in T0.to_resolve
      PROVE  Backed(s)' /\ Listed(s, T0.all_bids)'
  BY <1>5, <1>6 DEF Backed, Over, Listed, chain, lapses, Chain!Live, Chain!Ended, Chain!Owed
<1> QED  BY <1>2, <1>4, <1>5, <1>6, <1>7, ResolveNextKeeps

\* A tick that is aborted marks nothing.
LEMMA AbortTickKeeps ==
    ASSUME KeeperInv, NEW t \in Slots, AbortTick(t)
    PROVE  KeeperInv'
<1>1. faults' \in 0 .. MaxFaults /\ LapsesGrow
  BY FaultsCounted, LapsesKept DEF KeeperInv, AbortTick
<1> QED  BY <1>1, IdleTick, OneTickReads DEF AbortTick

\* A refund that lands leaves nothing owed to k; one that fails was not owed, or
\* cannot be paid, or keeps the auction from being done, or was passed over.
LEMMA RefundOneKeeps ==
    ASSUME KeeperInv, NEW t \in Slots, RefundOne(t)
    PROVE  KeeperInv'
<1> PICK T0 \in Tick : T0 = tick[t]
  BY TickFacts
<1> DEFINE id == T0.a.id
           T(k, all_refunded) == [T0 EXCEPT !.refunds = @ \ {k},
                                            !.all_refunded = all_refunded]
<1>1. /\ TickInv(T0) /\ T0.pc = "refund" /\ Resolves(T0)
      /\ id \in Auctions /\ Over(id) /\ T0.refunds \in SUBSET Keys
      /\ T0.all_refunded \in BOOLEAN
  BY TickFacts, ResolvingFacts DEF RefundOne, Resolves
<1>2. faults' \in 0 .. MaxFaults
  BY FaultsCounted DEF RefundOne
<1>3. up' = up /\ store' = store /\ NoneDone /\ overlooked' = overlooked
  BY DEF RefundOne
<1>4. ChainTypeOK
  BY DEF KeeperInv, TypeOK, ChainTypeOK
<1>5. PICK k \in T0.refunds, b \in BOOLEAN :
         /\ Goes(t, T(k, b))
         /\ b => T0.all_refunded
         /\ \/ Chain!Refund(id, k) /\ UNCHANGED passed_over
            \/ UNCHANGED <<chain, passed_over>> /\ (~ b \/ ~ Refundable(id, k))
            \/ /\ UNCHANGED chain
               /\ b => passed_over' = passed_over \cup {<<id, k>>}
               /\ ~ b => passed_over' \in {passed_over, passed_over \cup {<<id, k>>}}
  <2> PICK k \in T0.refunds, transient \in BOOLEAN :
         \/ /\ Refundable(id, k) /\ Chain!Refund(id, k) /\ NoFault
            /\ Goes(t, T(k, T0.all_refunded))
            /\ UNCHANGED passed_over
         \/ /\ Refundable(id, k) /\ Chain!Refund(id, k) /\ Fault
            /\ Goes(t, T(k, AfterError(transient, T0.all_refunded)))
            /\ UNCHANGED passed_over
         \/ /\ Refundable(id, k) /\ Fault /\ UNCHANGED chain
            /\ Goes(t, T(k, AfterError(transient, T0.all_refunded)))
            /\ passed_over' = passed_over \cup IF transient THEN {} ELSE {<<id, k>>}
         \/ /\ ~ Refundable(id, k) /\ NoFault /\ UNCHANGED chain
            /\ Goes(t, T(k, AfterError(transient, T0.all_refunded)))
            /\ UNCHANGED passed_over
    BY DEF RefundOne
  <2> PICK c \in BOOLEAN : c = AfterError(transient, T0.all_refunded)
    BY DEF AfterError
  <2>1. c => ~ transient /\ T0.all_refunded
    BY DEF AfterError
  <2>2. passed_over \cup {} = passed_over
    OBVIOUS
  <2> HIDE DEF T, id
  <2> QED  BY <1>1, <2>1, <2>2
<1>6. k \in Keys /\ T(k, b) \in Tick
  BY <1>1 DEF Tick
<1>7. /\ T(k, b).pc = "refund" /\ T(k, b).paid = T0.paid /\ T(k, b).a = T0.a
      /\ T(k, b).all_bids = T0.all_bids /\ T(k, b).to_resolve = T0.to_resolve
      /\ T(k, b).refunds = T0.refunds \ {k} /\ T(k, b).all_refunded = b
  BY <1>1 DEF Tick
<1>8. LapsesGrow
  <2>1. passed_over \subseteq Auctions \X Keys /\ overlooked \subseteq Auctions
    BY DEF KeeperInv, TypeOK
  <2>2. passed_over' = passed_over \/ passed_over' = passed_over \cup {<<id, k>>}
    BY <1>5
  <2> HIDE DEF id
  <2> QED  BY <1>1, <1>3, <1>6, <2>1, <2>2 DEF LapsesGrow
<1>9. [Chain!Next]_chain
  BY <1>1, <1>5, <1>6 DEF Chain!Next, Auctions
<1>10. TickInv(T0)'
  BY <1>1, <1>4, <1>8, <1>9, TickInvStays
<1>11. b => InHand(id, T0.refunds \ {k})'
  <2> SUFFICES ASSUME b
               PROVE  InHand(id, T0.refunds \ {k})'
    OBVIOUS
  <2>1. InHand(id, T0.refunds)'
    BY <1>1, <1>5, <1>10 DEF TickInv, Resolves
  <2>2. Chain!Live(id)' => k \notin Chain!Owed(id)' \/ k \in Left(id)'
    <3>1. CASE Chain!Refund(id, k)
      <4>1. leaf'[id][k] = "closed"
        BY <3>1, <1>1, <1>4, <1>6 DEF Chain!Refund, ChainTypeOK
      <4> QED  BY <4>1 DEF Chain!Owed
    <3>2. CASE UNCHANGED chain /\ ~ Refundable(id, k)
      BY <3>2, <1>1, <1>6 DEF Refundable, Over, Left, Unpayable, chain, Chain!Live, Chain!Ended,
                              Chain!Owed
    <3>3. CASE passed_over' = passed_over \cup {<<id, k>>}
      BY <3>3, <1>6 DEF Left
    <3> QED  BY <1>5, <3>1, <3>2, <3>3
  <2> QED  BY <2>1, <2>2 DEF InHand
<1> PICK T1 \in Tick : T1 = T(k, b)
  BY <1>6
<1>12. TickInv(T1)'
  <2>1. /\ T1.pc = "refund" /\ T1.paid = T0.paid /\ T1.a = T0.a
        /\ T1.all_bids = T0.all_bids /\ T1.to_resolve = T0.to_resolve
        /\ T1.refunds = T0.refunds \ {k} /\ T1.all_refunded = b
    BY <1>7
  <2> QED  BY <2>1, <1>10, <1>11 DEF TickInv, Resolves
<1>13. tick' = [tick EXCEPT ![t] = T1]
  BY <1>5 DEF Goes
<1> QED  BY <1>2, <1>3, <1>8, <1>9, <1>12, <1>13, OneTickMoves

----------------------------------------------------------------------------
(* The process, the store and everybody else. *)

\* A crash, a restart and an answer of the store only lose records.
LEMMA ProcessKeeps ==
    ASSUME KeeperInv, Crash \/ Restart \/ (\E a \in Auctions : Post(a))
    PROVE  KeeperInv'
<1>1. faults' \in 0 .. MaxFaults
  BY FaultsCounted DEF Crash, Restart, Post, NoFault
<1>2. UNCHANGED <<clock, account, leaf, passed_over, overlooked>>
  BY DEF Crash, Restart, Post, chain, lapses
<1>3. TypeOK'
  <2>1. tick' \in [Slots -> Tick]
    BY IdleTick DEF KeeperInv, TypeOK, Crash, Restart, Post
  <2>2. up' \in BOOLEAN /\ done' \subseteq Auctions /\ store' \subseteq Auctions /\ posting' \subseteq Auctions
    BY DEF KeeperInv, TypeOK, Crash, Restart, Post
  <2> QED  BY <1>1, <1>2, <2>1, <2>2 DEF KeeperInv, TypeOK
<1>4. DoneUnlessLapsed'
  <2>1. done' \cup store' \cup posting' \subseteq done \cup store \cup posting
    BY DEF Crash, Restart, Post
  <2>2. \A a \in done \cup store \cup posting : SettledUnlessLapsed(a)'
    BY <1>2 DEF KeeperInv, DoneUnlessLapsed, SettledUnlessLapsed, Left, SettledBut,
                Chain!Live, Chain!Ended, Chain!Owed
  <2> QED  BY <2>1, <2>2 DEF DoneUnlessLapsed
<1>5. (\A u \in Slots : TickInv(tick[u]))'
  <2> SUFFICES ASSUME NEW u \in Slots
               PROVE  TickInv(tick[u])'
    OBVIOUS
  <2>1. PICK U \in Tick : tick'[u] = U /\ TickInv(U)
    <3>1. CASE tick' = tick
      BY <3>1, TickFacts
    <3>2. CASE tick' = [v \in Slots |-> Idle]
      BY <3>2, IdleTick
    <3> QED  BY <3>1, <3>2 DEF Crash, Restart, Post
  <2>2. TickInv(U)'
    BY <1>2, <2>1, TickInvStays DEF KeeperInv, TypeOK, ChainTypeOK, LapsesGrow, chain
  <2> QED
    BY <2>1, <2>2 DEF TickInv, Backed, Listed, InHand, Left, Resolves, Over, Chain!Owed, Chain!Live, Chain!Ended
<1> QED  BY <1>3, <1>4, <1>5 DEF KeeperInv

\* Bidders, creators and the clock only bring auctions closer to settlement.
LEMMA OthersKeep ==
    ASSUME KeeperInv, [Chain!Next]_chain /\ UNCHANGED keeper
    PROVE  KeeperInv'
<1>1. ChainTypeOK /\ ChainTypeOK'
  <2>1. ChainTypeOK
    BY DEF KeeperInv, TypeOK, ChainTypeOK
  <2> QED  BY <2>1, ChainTypes
<1>2. TypeOK' /\ LapsesGrow
  BY <1>1 DEF KeeperInv, TypeOK, ChainTypeOK, LapsesGrow, keeper, lapses
<1>3. DoneUnlessLapsed'
  <2>1. \A a \in done \cup store \cup posting : a \in Auctions /\ SettledUnlessLapsed(a)
    BY DEF KeeperInv, TypeOK, DoneUnlessLapsed
  <2>2. \A a \in done \cup store \cup posting : SettledUnlessLapsed(a)'
    BY <2>1, <1>1, <1>2, LapsedStays
  <2> QED  BY <2>2 DEF DoneUnlessLapsed, keeper
<1>4. (\A u \in Slots : TickInv(tick[u]))'
  <2> SUFFICES ASSUME NEW u \in Slots
               PROVE  TickInv(tick[u])'
    OBVIOUS
  <2>1. PICK U \in Tick : tick'[u] = U /\ TickInv(U)
    BY TickFacts DEF keeper
  <2>2. TickInv(U)'
    BY <1>1, <1>2, <2>1, TickInvStays
  <2> QED
    BY <2>1, <2>2 DEF TickInv, Backed, Listed, InHand, Left, Resolves, Over, Chain!Owed, Chain!Live, Chain!Ended
<1> QED  BY <1>2, <1>3, <1>4 DEF KeeperInv

----------------------------------------------------------------------------
(* Types, and what a tick does to the chain, whatever the keeper's clock says. *)

\* What a step of a tick comes to.
TickStep ==
    /\ tick' \in [Slots -> Tick]
    /\ done' \subseteq Auctions /\ posting' \subseteq Auctions
    /\ up' = up /\ store' = store
    /\ faults' \in 0 .. MaxFaults
    /\ [Chain!Next]_chain

\* A tick that goes on well typed, marks an auction done or none, and does what
\* anybody may do to the chain.
LEMMA TypedStep ==
    ASSUME TypeOK, NEW t \in Slots, NEW T \in Tick, Goes(t, T), UNCHANGED <<up, store>>,
           NoFault \/ Fault, NoneDone \/ (\E a \in Auctions : MarkDone(a)),
           [Chain!Next]_chain
    PROVE  TickStep
<1>1. faults' \in 0 .. MaxFaults
  BY KeeperAssumption DEF TypeOK, NoFault, Fault
<1>2. done' \subseteq Auctions /\ posting' \subseteq Auctions
  BY DEF TypeOK, NoneDone, MarkDone
<1>3. tick' \in [Slots -> Tick]
  BY DEF TypeOK, Goes
<1> QED  BY <1>1, <1>2, <1>3 DEF TickStep

\* The loop over toResolve takes up a snapshot that was listed.
LEMMA ResolveNextTyped ==
    ASSUME TypeOK, UNCHANGED <<chain, up, store>>, NEW t \in Slots,
           NEW to_resolve \in SUBSET Snapshot, NEW all_bids \in SUBSET (Auctions \X Keys),
           ResolveNext(t, to_resolve, all_bids), NoFault \/ Fault,
           NoneDone \/ (\E a \in Auctions : MarkDone(a))
    PROVE  TickStep
<1>1. CASE Goes(t, Idle)
  BY <1>1, IdleTick, TypedStep
<1>2. ASSUME NEW a \in to_resolve, Goes(t, Resolving(a, to_resolve \ {a}, all_bids))
      PROVE  TickStep
  <2>1. a \in Snapshot /\ to_resolve \ {a} \in SUBSET Snapshot
    OBVIOUS
  <2>2. Resolving(a, to_resolve \ {a}, all_bids) \in Tick
    BY <2>1, ResolvingTick
  <2> QED  BY <1>2, <2>2, TypedStep
<1> QED  BY <1>1, <1>2 DEF ResolveNext

\* Pass 1 counts up to the auctions there are.
LEMMA ScanTyped ==
    ASSUME TypeOK, NEW t \in Slots, StartTick(t) \/ SkipResolved(t) \/ VisitAuction(t)
    PROVE  TickStep
<1> PICK T0 \in Tick : T0 = tick[t]
  BY DEF TypeOK
<1>1. CASE StartTick(t)
  <2> PICK count \in 0 .. MaxAuctions, now \in clock - MaxBehind .. clock + MaxAhead :
           Goes(t, [Idle EXCEPT !.pc = "scan", !.now = now, !.count = count])
    BY <1>1 DEF StartTick
  <2> DEFINE T == [Idle EXCEPT !.pc = "scan", !.now = now, !.count = count]
  <2>1. now \in Int
    BY KeeperAssumption DEF TypeOK
  <2>2. T \in Tick
    BY <2>1, IdleTick DEF Idle, Tick
  <2>3. Goes(t, T)
    OBVIOUS
  <2> HIDE DEF T
  <2> QED  BY <1>1, <2>2, <2>3, TypedStep DEF StartTick
<1>2. ASSUME T0.next < T0.count
      PROVE  T0.next \in Auctions /\ T0.next + 1 \in 0 .. MaxAuctions
  BY <1>2, KeeperAssumption DEF Tick, Auctions, Chain!Auctions
<1> DEFINE T1 == [T0 EXCEPT !.next = T0.next + 1]
<1>3. ASSUME T0.next < T0.count
      PROVE  T1 \in Tick
  BY <1>2, <1>3 DEF Tick
<1>4. CASE SkipResolved(t)
  <2>1. T0.next < T0.count /\ Goes(t, T1)
    BY <1>4 DEF SkipResolved
  <2> HIDE DEF T1
  <2> QED  BY <1>3, <1>4, <2>1, TypedStep DEF SkipResolved
<1>5. CASE VisitAuction(t)
  <2> DEFINE id == T0.next
             s(seen) == [id |-> id, paid |-> seen.paid, winners |-> seen.winners]
             T2(seen) == [T0 EXCEPT !.next = id + 1, !.to_resolve = @ \cup {s(seen)}]
  <2>1. id \in Auctions /\ id + 1 \in 0 .. MaxAuctions /\ T1 \in Tick
    BY <1>2, <1>3, <1>5 DEF VisitAuction
  <2>2. PICK seen \in Answers(id) :
           \/ MarkDone(id) /\ Goes(t, T1)
           \/ NoneDone /\ Goes(t, T1)
           \/ NoneDone /\ Goes(t, T2(seen)) /\ seen.status = "live"
    BY <1>5 DEF VisitAuction
  <2>3. seen.status = "live" => seen \in Views(id)
    BY DEF Answers, Chain!NoAccount
  <2>4. ASSUME seen \in Views(id)
        PROVE  s(seen) \in Snapshot
    BY <2>1, <2>4, ViewsAreOlder DEF TypeOK, Snapshot, Chain!Account, Proposals
  <2>5. ASSUME seen \in Views(id)
        PROVE  T2(seen) \in Tick
    <3> PICK q \in Snapshot : q = s(seen)
      BY <2>4, <2>5
    <3>1. [T0 EXCEPT !.next = id + 1, !.to_resolve = @ \cup {q}] \in Tick
      BY <2>1 DEF Tick
    <3> QED  BY <3>1
  <2> HIDE DEF T1, T2, id
  <2> QED  BY <1>5, <2>1, <2>2, <2>5, <2>3, TypedStep DEF VisitAuction
<1> QED  BY <1>1, <1>4, <1>5

\* The enumeration and the end of resolveAuction lead to the next auction listed.
LEMMA LoopTyped ==
    ASSUME TypeOK, NEW t \in Slots, Enumerate(t) \/ CheckVault(t) \/ AbortTick(t)
    PROVE  TickStep
<1> PICK T0 \in Tick : T0 = tick[t]
  BY DEF TypeOK
<1>1. /\ T0.to_resolve \in SUBSET Snapshot /\ T0.all_bids \in SUBSET (Auctions \X Keys)
      /\ T0.a.id \in Auctions
  BY DEF Tick, Snapshot
<1>2. CASE Enumerate(t)
  <2> DEFINE ids == {a.id : a \in T0.to_resolve}
  <2>1. PICK listed \in {{"live"}, {"live", "closed"}}, missed \in SUBSET Unindexed :
           ResolveNext(t, T0.to_resolve,
                       {b \in ids \X (Keys \ missed) : leaf[b[1]][b[2]] \in listed})
    BY <1>2 DEF Enumerate
  <2> DEFINE all_bids == {b \in ids \X (Keys \ missed) : leaf[b[1]][b[2]] \in listed}
  <2>2. all_bids \in SUBSET (Auctions \X Keys)
    BY <1>1 DEF Snapshot
  <2>3. ResolveNext(t, T0.to_resolve, all_bids)
    BY <2>1
  <2> HIDE DEF all_bids, ids
  <2> QED  BY <1>1, <1>2, <2>2, <2>3, ResolveNextTyped DEF Enumerate
<1>3. CASE CheckVault(t)
  <2>1. NoneDone \/ (\E a \in Auctions : MarkDone(a))
    BY <1>1, <1>3 DEF CheckVault
  <2> QED  BY <1>1, <1>3, <2>1, ResolveNextTyped DEF CheckVault
<1>4. CASE AbortTick(t)
  BY <1>4, IdleTick, TypedStep DEF AbortTick
<1> QED  BY <1>2, <1>3, <1>4

\* The calls of resolveAuction are instructions that anybody may send.
LEMMA CallsTyped ==
    ASSUME TypeOK, NEW t \in Slots,
           SendClaim(t) \/ Reread(t) \/ RefundOne(t) \/ CloseOne(t)
    PROVE  TickStep
<1> PICK T0 \in Tick : T0 = tick[t]
  BY DEF TypeOK
<1> DEFINE id == T0.a.id
           T1(pc, p) == [T0 EXCEPT !.pc = pc, !.paid = p]
           T2(pc) == [T0 EXCEPT !.pc = pc]
           T3(k, b) == [T0 EXCEPT !.refunds = @ \ {k}, !.all_refunded = b]
<1>1. id \in Auctions /\ T0.refunds \in SUBSET Keys /\ T0.all_refunded \in BOOLEAN
  BY DEF Tick, Snapshot
<1>2. /\ \A p \in BOOLEAN : T1("refund", p) \in Tick
      /\ T2("reread") \in Tick /\ T2("balance") \in Tick
      /\ \A k \in Keys, b \in BOOLEAN : T3(k, b) \in Tick
  BY DEF Tick
<1>3. CASE SendClaim(t)
  <2>1. [Chain!Next]_chain
    BY <1>1, <1>3 DEF SendClaim, Chain!Next, Auctions
  <2>2. Goes(t, T1("refund", TRUE)) \/ Goes(t, T2("reread"))
    BY <1>3 DEF SendClaim
  <2>3. NoneDone /\ UNCHANGED <<up, store>> /\ (NoFault \/ Fault)
    BY <1>3 DEF SendClaim
  <2> HIDE DEF T1, T2
  <2> QED  BY <1>2, <2>1, <2>2, <2>3, TypedStep
<1>4. CASE Reread(t)
  <2>1. PICK p \in BOOLEAN : Goes(t, T1("refund", p))
    <3>1. \A fresh : PaidOnChain(fresh) \in BOOLEAN
      BY DEF PaidOnChain
    <3> QED  BY <1>4, <3>1 DEF Reread
  <2> HIDE DEF T1
  <2> QED  BY <1>2, <1>4, <2>1, TypedStep DEF Reread
<1>5. CASE RefundOne(t)
  <2>1. PICK k \in T0.refunds, b \in BOOLEAN :
           /\ Chain!Refund(id, k) \/ UNCHANGED chain
           /\ Goes(t, T3(k, b))
    BY <1>1, <1>5 DEF RefundOne, AfterError
  <2>2. k \in Keys
    BY <1>1
  <2>3. [Chain!Next]_chain
    BY <1>1, <2>1, <2>2 DEF Chain!Next, Auctions
  <2>4. NoneDone /\ UNCHANGED <<up, store>> /\ (NoFault \/ Fault)
    BY <1>5 DEF RefundOne
  <2> HIDE DEF T3
  <2> QED  BY <1>2, <2>1, <2>2, <2>3, <2>4, TypedStep
<1>6. CASE CloseOne(t)
  <2>1. [Chain!Next]_chain
    BY <1>1, <1>6 DEF CloseOne, Chain!Next, Auctions
  <2>2. Goes(t, T2("balance"))
    BY <1>6 DEF CloseOne
  <2>3. NoneDone /\ UNCHANGED <<up, store>> /\ (NoFault \/ Fault)
    BY <1>6 DEF CloseOne
  <2> HIDE DEF T2
  <2> QED  BY <1>2, <2>1, <2>2, <2>3, TypedStep
<1> QED  BY <1>3, <1>4, <1>5, <1>6

\* What a tick gives up is an auction, or a bid of one.
LEMMA LapsesTyped ==
    ASSUME TypeOK, NEW t \in Slots, KeeperStep(t)
    PROVE  passed_over' \subseteq Auctions \X Keys /\ overlooked' \subseteq Auctions
<1> PICK T0 \in Tick : T0 = tick[t]
  BY DEF TypeOK
<1>1. T0.to_resolve \subseteq Snapshot /\ T0.a.id \in Auctions /\ T0.refunds \subseteq Keys
  BY DEF Tick, Snapshot
<1>2. CASE UNCHANGED lapses
  BY <1>2 DEF TypeOK, lapses
<1>3. CASE VisitAuction(t)
  <2>1. T0.next \in Auctions
    BY <1>3, KeeperAssumption DEF VisitAuction, Tick, Auctions, Chain!Auctions
  <2>2. overlooked' \subseteq overlooked \cup {T0.next} /\ passed_over' = passed_over
    BY <1>3 DEF VisitAuction
  <2> QED  BY <2>1, <2>2 DEF TypeOK
<1>4. CASE Enumerate(t)
  <2> DEFINE ids == {a.id : a \in T0.to_resolve}
  <2>1. ids \subseteq Auctions
    BY <1>1 DEF Snapshot
  <2>2. PICK missed \in SUBSET Unindexed :
          passed_over' = passed_over \cup {b \in ids \X missed : leaf[b[1]][b[2]] = "live"}
    BY <1>4 DEF Enumerate
  <2>3. overlooked' = overlooked /\ missed \subseteq Keys
    BY <1>4, KeeperAssumption DEF Enumerate
  <2> HIDE DEF ids
  <2> QED  BY <2>1, <2>2, <2>3 DEF TypeOK
<1>5. CASE RefundOne(t)
  <2>1. PICK k \in T0.refunds : passed_over' \subseteq passed_over \cup {<<T0.a.id, k>>}
    BY <1>5 DEF RefundOne
  <2>2. overlooked' = overlooked
    BY <1>5 DEF RefundOne
  <2> QED  BY <1>1, <2>1, <2>2 DEF TypeOK
<1> QED
  BY <1>2, <1>3, <1>4, <1>5 DEF KeeperStep, StartTick, SkipResolved, SendClaim, Reread, CloseOne,
     CheckVault, AbortTick

\* Every step keeps the types and leaves the chain where anybody might have.
LEMMA NextTyped ==
    ASSUME TypeOK, [Next]_vars
    PROVE  TypeOK' /\ [Chain!Next]_chain
<1>1. ChainTypeOK
  BY DEF TypeOK, ChainTypeOK
<1>2. ASSUME NEW t \in Slots, KeeperStep(t)
      PROVE  TypeOK' /\ [Chain!Next]_chain
  <2>1. TickStep
    BY <1>2, ScanTyped, LoopTyped, CallsTyped DEF KeeperStep
  <2>2. ChainTypeOK'
    BY <1>1, <2>1, ChainTypes DEF TickStep
  <2>3. passed_over' \subseteq Auctions \X Keys /\ overlooked' \subseteq Auctions
    BY <1>2, LapsesTyped
  <2> QED  BY <2>1, <2>2, <2>3 DEF TickStep, TypeOK, ChainTypeOK
<1>3. CASE Others \/ UNCHANGED vars
  <2>1. [Chain!Next]_chain /\ UNCHANGED keeper
    BY <1>3 DEF Others, vars
  <2>2. ChainTypeOK'
    BY <1>1, <2>1, ChainTypes
  <2> QED  BY <2>1, <2>2 DEF keeper, lapses, TypeOK, ChainTypeOK
<1>4. CASE Crash \/ Restart \/ (\E a \in Auctions : Post(a))
  <2>1. UNCHANGED chain
    BY <1>4 DEF Crash, Restart, Post
  <2>2. faults' \in 0 .. MaxFaults
    BY <1>4, KeeperAssumption DEF TypeOK, Crash, Restart, Post, Fault
  <2>3. tick' \in [Slots -> Tick]
    BY <1>4, IdleTick DEF TypeOK, Crash, Restart, Post
  <2>4. up' \in BOOLEAN /\ done' \subseteq Auctions /\ store' \subseteq Auctions
        /\ posting' \subseteq Auctions
        /\ passed_over' \subseteq Auctions \X Keys /\ overlooked' \subseteq Auctions
    BY <1>4 DEF TypeOK, Crash, Restart, Post, lapses
  <2> QED  BY <2>1, <2>2, <2>3, <2>4 DEF TypeOK, chain
<1> QED  BY <1>2, <1>3, <1>4 DEF Next

----------------------------------------------------------------------------
(* The theorems. *)

\* Nothing is recorded at the start, by no tick.
LEMMA InitKeeperInv == Init => KeeperInv
<1> SUFFICES ASSUME Init
             PROVE  KeeperInv
  OBVIOUS
<1>1. Chain!NoAccount \in Chain!Account
  BY DEF Chain!NoAccount, Chain!Account
<1>2. TypeOK
  BY <1>1, IdleTick, KeeperAssumption
     DEF Init, Chain!Init, TypeOK, Auctions, Chain!Auctions
<1>3. \A t \in Slots : TickInv(tick[t])
  BY IdleTick DEF Init
<1> QED  BY <1>2, <1>3 DEF Init, KeeperInv, DoneUnlessLapsed

\* Every step keeps the invariant, when the keeper's clock is not ahead.
LEMMA NextKeeperInv ==
    ASSUME MaxAhead = 0, KeeperInv, [Next]_vars
    PROVE  KeeperInv'
<1>1. CASE UNCHANGED vars
  BY <1>1, OthersKeep DEF vars
<1>2. ASSUME NEW t \in Slots, KeeperStep(t)
      PROVE  KeeperInv'
  BY <1>2, StartTickKeeps, SkipResolvedKeeps, VisitAuctionKeeps, EnumerateKeeps,
     SendClaimKeeps, RereadKeeps, RefundOneKeeps, CloseOneKeeps, CheckVaultKeeps,
     AbortTickKeeps DEF KeeperStep
<1>3. CASE Crash \/ Restart \/ (\E a \in Auctions : Post(a))
  BY <1>3, ProcessKeeps
<1>4. CASE Others
  BY <1>4, OthersKeep DEF Others
<1> QED  BY <1>1, <1>2, <1>3, <1>4 DEF Next

\* The inductive invariant holds throughout, when the keeper's clock is not ahead.
LEMMA KeeperInvHolds ==
    ASSUME MaxAhead = 0
    PROVE  Spec => []KeeperInv
<1>1. Init => KeeperInv
  BY InitKeeperInv
<1>2. KeeperInv /\ [Next]_vars => KeeperInv'
  BY NextKeeperInv
<1> QED  BY <1>1, <1>2, PTL DEF Spec

\* The keeper, its ticks and its store hold values of their types, whatever its
\* clock says and however far the indexer lags.
THEOREM KeeperTypeCorrect == Spec => []TypeOK
<1>1. Init => TypeOK
  BY InitKeeperInv DEF KeeperInv
<1>2. TypeOK /\ [Next]_vars => TypeOK'
  BY NextTyped
<1> QED  BY <1>1, <1>2, PTL DEF Spec

\* The keeper has no power of its own: it and everybody else together do to the
\* chain only what Settlement lets anybody do.
THEOREM KeeperObeysChain == Spec => Chain!Spec
<1>1. Init => Chain!Init
  BY DEF Init
<1>2. TypeOK /\ [Next]_vars => [Chain!Next]_Chain!chain
  BY NextTyped DEF chain, Chain!chain
<1> QED  BY <1>1, <1>2, KeeperTypeCorrect, PTL DEF Spec, Chain!Spec

\* What was settled once stays settled, whoever acts on the chain and whatever
\* the keeper's clock says: that an auction is done may be remembered for ever.
THEOREM SettledStaysSettled == Spec => SettledForGood
<1> DEFINE Stays == \A a \in Auctions : Settled(a) => Settled(a)'
<1>1. TypeOK /\ [Next]_vars => Stays
  <2> SUFFICES ASSUME TypeOK, [Next]_vars, NEW a \in Auctions, Settled(a)
               PROVE  Settled(a)'
    OBVIOUS
  <2>1. ChainTypeOK /\ [Chain!Next]_chain
    BY NextTyped DEF TypeOK, ChainTypeOK
  <2>2. SettledBut(a, Unpayable)'
    BY <2>1, SettledStays DEF Settled
  <2> QED  BY <2>2 DEF Settled
<1>2. TypeOK /\ [Next]_vars => [Stays]_vars
  BY <1>1
<1> QED  BY <1>2, KeeperTypeCorrect, PTL DEF Spec, SettledForGood

\* Whatever an error says, however far the indexer is behind and whatever accounts
\* a node does not have yet, an auction is recorded as resolved, in memory, in the
\* store or on the way to it, only when nothing of it is left to pay but what such
\* an answer hid: a crash, an overlap, a lost or a transient failure costs nothing.
THEOREM DoneMeansSettled ==
    ASSUME MaxAhead = 0
    PROVE  Spec => []DoneUnlessLapsed
<1>1. KeeperInv => DoneUnlessLapsed
  BY DEF KeeperInv
<1> QED  BY <1>1, KeeperInvHolds, PTL

\* And an auction behind which no tick passed over a bid, and that no node left out,
\* is settled when it is recorded: nothing else stands between "done" and settled.
THEOREM OnlyLapsesUnsettle ==
    ASSUME MaxAhead = 0
    PROVE  Spec => [](passed_over = {} /\ overlooked = {} => DoneIsSettled)
<1>1. ASSUME passed_over = {}, NEW a PROVE Left(a) = Unpayable
  BY <1>1 DEF Left
<1>2. DoneUnlessLapsed => (passed_over = {} /\ overlooked = {} => DoneIsSettled)
  BY <1>1 DEF DoneUnlessLapsed, SettledUnlessLapsed, DoneIsSettled, Settled
<1> QED  BY <1>2, DoneMeansSettled, PTL

\* No tick takes a creator for paid unless the chain says so or nobody is to pay.
THEOREM CreatorsNotTakenForPaid ==
    ASSUME MaxAhead = 0
    PROVE  Spec => []NeverPaidBlindly
<1>1. KeeperInv => NeverPaidBlindly
  BY DEF KeeperInv, TickInv, NeverPaidBlindly
<1> QED  BY <1>1, KeeperInvHolds, PTL
=============================================================================
