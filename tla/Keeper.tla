------------------------------- MODULE Keeper -------------------------------
(***************************************************************************)
(* The settlement crank (client/keeper.mjs) against the chain of module    *)
(* Settlement.  A tick is a sequence of awaited calls, one step each; the  *)
(* interval timer and GET /resolve start a new tick whether or not one is  *)
(* still awaiting, and anybody else may bid, claim, refund or close between *)
(* two steps.                                                              *)
(*                                                                         *)
(* A read may be stale by anything that happened to an auction since its   *)
(* end (Views): a claim or a refund may still look open.  A node may not   *)
(* have some auctions yet, the indexer not some bids, and the text of an   *)
(* error, the only thing by which the keeper tells errors apart, may or    *)
(* may not be one that isTransient knows.  What such an answer makes a     *)
(* tick give up is remembered, for the properties alone.                   *)
(***************************************************************************)
EXTENDS Integers

CONSTANTS Keys, MaxAuctions, EndTimes, MaxTime   \* of Settlement

CONSTANTS
    Slots,             \* ticks that may be awaiting at the same time
    MaxBehind,         \* how far Date.now() may be behind the chain's clock
    MaxAhead,          \* and how far ahead of it
    NoAta,             \* bidders without a USDC token account
    Unindexed,         \* bids that the indexer may not list yet
    Unseen,            \* auctions that a node may not have yet
    MaxFaults          \* bound: calls that fail, go unanswered or meet
                       \* a node that is behind, and crashes

ASSUME KeeperAssumption ==
    /\ MaxAuctions \in Nat \ {0} /\ MaxTime \in Nat /\ EndTimes \subseteq Nat
    /\ {MaxBehind, MaxAhead, MaxFaults} \subseteq Nat
    /\ Unindexed \subseteq Keys /\ Unseen \subseteq 0 .. MaxAuctions - 1

VARIABLES
    clock, account, leaf,   \* of Settlement
    up,                     \* the process runs
    done,                   \* doneAuctions
    store,                  \* the ids that the store has saved
    posting,                \* ids in POSTs not answered yet
    tick,                   \* the ticks, by slot
    faults,
    passed_over,            \* history: open bids that a tick did not list or gave up
    overlooked              \* history: auctions taken for gone that were only unseen

Chain == INSTANCE Settlement

chain  == <<clock, account, leaf>>
lapses == <<passed_over, overlooked>>
keeper == <<up, done, store, posting, tick, faults, lapses>>
vars   == <<chain, keeper>>

Auctions  == Chain!Auctions
Proposals == Chain!Proposals

\* decodeAuction, as far as resolveAuction reads it.
Snapshot == [id : Auctions, paid : BOOLEAN, winners : SUBSET Proposals]

Nothing == [id |-> 0, paid |-> FALSE, winners |-> {}]

Idle == [pc |-> "idle", now |-> 0, count |-> 0, next |-> 0, to_resolve |-> {},
         all_bids |-> {}, a |-> Nothing, paid |-> FALSE, refunds |-> {},
         all_refunded |-> FALSE]

Tick ==
    [pc : {"idle", "scan", "claim", "reread", "refund", "balance"},
     now : Int, count : 0 .. MaxAuctions, next : 0 .. MaxAuctions,
     to_resolve : SUBSET Snapshot,         \* toResolve
     all_bids : SUBSET (Auctions \X Keys), \* allBids
     a : Snapshot, paid : BOOLEAN,         \* resolveAuction: a, paid,
     refunds : SUBSET Keys,                \* the bidders still to refund,
     all_refunded : BOOLEAN]               \* allRefunded

Init ==
    /\ Chain!Init
    /\ up = TRUE /\ done = {} /\ store = {} /\ posting = {}
    /\ tick = [t \in Slots |-> Idle]
    /\ faults = 0
    /\ passed_over = {} /\ overlooked = {}

\* A call fails, or its answer is lost or useless.
Fault   == faults < MaxFaults /\ faults' = faults + 1
NoFault == UNCHANGED faults

Goes(t, value) == tick' = [tick EXCEPT ![t] = value]

\* Mutant: the last auction is left out.
IsIndexOfLast(n) ==
    \A a \in Auctions : a < n <=> \E b \in Auctions : b > a /\ account[b].status # "none"

\* Config.auction_count is n: ids are handed out in order.
IsAuctionCount(n) == \A a \in Auctions : a < n <=> account[a].status # "none"

\* What getAccountInfo may answer: the account, or after its end an older one.
Views(a) ==
    IF account[a].status # "none" /\ Chain!Ended(a)
    THEN {[account[a] EXCEPT !.status = s, !.paid = p] :
            s \in {account[a].status, "live"}, p \in {account[a].paid, FALSE}}
    ELSE {account[a]}

\* A node that does not have the account yet answers as if there were none.
Answers(a) == Views(a) \cup IF a \in Unseen THEN {Chain!NoAccount} ELSE {}

MarkDone(a) ==
    /\ done' = done \cup {a}
    /\ posting' = posting \cup {a}

NoneDone == UNCHANGED <<done, posting>>

----------------------------------------------------------------------------
(* tick(): pass 1, which auctions are over? *)

StartTick(t) ==
    /\ up
    /\ tick[t].pc = "idle"
    /\ \E count \in 0 .. MaxAuctions, now \in clock - MaxBehind .. clock + MaxAhead :
          /\ IsAuctionCount(count)
          /\ Goes(t, [Idle EXCEPT !.pc = "scan", !.now = now, !.count = count])
    /\ NoneDone /\ NoFault
    /\ UNCHANGED <<chain, up, store, lapses>>

SkipResolved(t) ==
    LET id == tick[t].next
    IN  /\ tick[t].pc = "scan"
        /\ id < tick[t].count
        /\ id \in done
        /\ Goes(t, [tick[t] EXCEPT !.next = id + 1])
        /\ NoneDone /\ NoFault
        /\ UNCHANGED <<chain, up, store, lapses>>

\* An account that the node does not have is done, one that still runs is left
\* for later, one that is over is resolved in pass 2.
VisitAuction(t) ==
    LET id == tick[t].next
    IN  /\ tick[t].pc = "scan"
        /\ id < tick[t].count
        /\ id \notin done
        /\ \E seen \in Answers(id) :
           /\ overlooked' = overlooked \cup IF seen.status = "none" THEN {id} ELSE {}
           /\ IF seen.status = "none" THEN Fault ELSE NoFault
           /\ \/ /\ seen.status # "live"
                 /\ MarkDone(id)
                 /\ Goes(t, [tick[t] EXCEPT !.next = id + 1])
              \/ /\ seen.status = "live" /\ seen.end_time > tick[t].now
                 /\ NoneDone
                 /\ Goes(t, [tick[t] EXCEPT !.next = id + 1])
              \/ /\ seen.status = "live" /\ seen.end_time <= tick[t].now
                 /\ NoneDone
                 /\ Goes(t, [tick[t] EXCEPT
                       !.next = id + 1,
                       !.to_resolve = @ \cup {[id |-> id, paid |-> seen.paid,
                                               winners |-> seen.winners]}])
        /\ UNCHANGED <<chain, up, store, passed_over>>

\* Nobody has bid: there is nobody to pay.
NoWinner(a) == a.winners = {}

\* Mutant: proposal and bidder in the wrong order.
SwappedLosers(a, all_bids) ==
    {<<k[2], k[1]>> : k \in {j \in Keys : <<a.id, j>> \in all_bids /\ j[1] \notin a.winners}}

\* chainBidders, less the bids on winning proposals.
Losers(a, all_bids) ==
    {k \in Keys : <<a.id, k>> \in all_bids /\ k[1] \notin a.winners}

\* The start of resolveAuction(a).
Resolving(a, rest, all_bids) ==
    LET paid == a.paid \/ NoWinner(a)
    IN  [Idle EXCEPT !.pc = IF paid THEN "refund" ELSE "claim",
                     !.to_resolve = rest, !.all_bids = all_bids, !.a = a, !.paid = paid,
                     !.refunds = Losers(a, all_bids), !.all_refunded = TRUE]

\* The loop over toResolve, by id.
ResolveNext(t, to_resolve, all_bids) ==
    \/ to_resolve = {} /\ Goes(t, Idle)
    \/ \E a \in to_resolve :
          /\ \A b \in to_resolve : a.id <= b.id
          /\ Goes(t, Resolving(a, to_resolve \ {a}, all_bids))

\* fetchProgramBids, if there is something to resolve: the open Bid leaves that
\* the indexer has seen, and perhaps leaves that were closed meanwhile.
Enumerate(t) ==
    LET ids == {a.id : a \in tick[t].to_resolve}
    IN  /\ tick[t].pc = "scan" /\ tick[t].next = tick[t].count
        /\ \E listed \in {{"live"}, {"live", "closed"}}, missed \in SUBSET Unindexed :
              /\ ResolveNext(t, tick[t].to_resolve,
                             {b \in ids \X (Keys \ missed) : leaf[b[1]][b[2]] \in listed})
              /\ passed_over' = passed_over
                    \cup {b \in ids \X missed : leaf[b[1]][b[2]] = "live"}
        /\ NoneDone /\ NoFault
        /\ UNCHANGED <<chain, up, store, overlooked>>

----------------------------------------------------------------------------
(* resolveAuction(a) *)

Claimable(a) == Chain!Live(a) /\ Chain!Ended(a) /\ ~ account[a].paid

\* The claim is confirmed; or it lands and the confirmation is lost; or it is
\* rejected; or it never arrives.
SendClaim(t) ==
    LET a == tick[t].a.id
    IN  /\ tick[t].pc = "claim"
        /\ \/ /\ Chain!Claim(a) /\ NoFault
              /\ Goes(t, [tick[t] EXCEPT !.pc = "refund", !.paid = TRUE])
           \/ /\ Chain!Claim(a) /\ Fault
              /\ Goes(t, [tick[t] EXCEPT !.pc = "reread"])
           \/ /\ IF Claimable(a) THEN Fault ELSE NoFault
              /\ UNCHANGED chain
              /\ Goes(t, [tick[t] EXCEPT !.pc = "reread"])
        /\ NoneDone
        /\ UNCHANGED <<up, store, lapses>>

\* Mutant: a claim that fails has been made before.
PaidAnyway(fresh) == TRUE

\* Only the flag on chain says that the creator was paid.
PaidOnChain(fresh) == fresh.status = "live" /\ fresh.paid

\* The flag is read again; a read that fails, or finds no account, says nothing.
Reread(t) ==
    /\ tick[t].pc = "reread"
    /\ \/ NoFault /\ \E fresh \in Views(tick[t].a.id) :
             Goes(t, [tick[t] EXCEPT !.pc = "refund", !.paid = PaidOnChain(fresh)])
       \/ Fault /\ Goes(t, [tick[t] EXCEPT !.pc = "refund",
                                          !.paid = PaidOnChain(Chain!NoAccount)])
    /\ NoneDone
    /\ UNCHANGED <<chain, up, store, lapses>>

\* The program accepts a withdraw; without a token account it fails.
Refundable(a, k) ==
    Chain!Live(a) /\ Chain!Ended(a) /\ k \in Chain!Owed(a) /\ k[2] \notin NoAta

\* Mutant: the catch swallows every error.
ErrorIgnored(transient, all_refunded) == all_refunded

\* allRefunded after an error: one that isTransient knows is tried again in a
\* later tick, any other counts as an answer of the program.
AfterError(transient, all_refunded) == ~ transient /\ all_refunded

\* The refund is confirmed; or it lands and the confirmation is lost; or it
\* fails although the program would pay it (a proof out of date, an answer 500,
\* a relayer without lamports, a node behind); or the program rejects it.  No
\* failure determines the text of its error.
RefundOne(t) ==
    LET a == tick[t].a.id
    IN  /\ tick[t].pc = "refund"
        /\ \E k \in tick[t].refunds, transient \in BOOLEAN :
              LET after(all_refunded) ==
                    Goes(t, [tick[t] EXCEPT !.refunds = @ \ {k},
                                           !.all_refunded = all_refunded])
                  failed == after(AfterError(transient, tick[t].all_refunded))
              IN  \/ /\ Refundable(a, k) /\ Chain!Refund(a, k) /\ NoFault
                     /\ after(tick[t].all_refunded)
                     /\ UNCHANGED passed_over
                  \/ /\ Refundable(a, k) /\ Chain!Refund(a, k) /\ Fault
                     /\ failed
                     /\ UNCHANGED passed_over
                  \/ /\ Refundable(a, k) /\ Fault /\ UNCHANGED chain
                     /\ failed
                     /\ passed_over' = passed_over
                           \cup IF transient THEN {} ELSE {<<a, k>>}
                  \/ /\ ~ Refundable(a, k) /\ NoFault /\ UNCHANGED chain
                     /\ failed
                     /\ UNCHANGED passed_over
        /\ NoneDone
        /\ UNCHANGED <<up, store, overlooked>>

RefundsTried(t) == tick[t].pc = "refund" /\ tick[t].refunds = {}

\* close_auction, if KEEPER_CLOSE asks for it; its errors are swallowed.
CloseOne(t) ==
    /\ RefundsTried(t)
    /\ Chain!Close(tick[t].a.id) \/ UNCHANGED chain
    /\ Goes(t, [tick[t] EXCEPT !.pc = "balance"])
    /\ NoneDone /\ NoFault
    /\ UNCHANGED <<up, store, lapses>>

\* The balance of the vault is read, and unless that fails with a transient
\* error the auction is done if it was paid and no refund is to be retried; the
\* balance is only logged.
CheckVault(t) ==
    /\ RefundsTried(t) \/ tick[t].pc = "balance"
    /\ \/ /\ NoFault
          /\ IF tick[t].paid /\ tick[t].all_refunded
             THEN MarkDone(tick[t].a.id) ELSE NoneDone
       \/ Fault /\ NoneDone
    /\ ResolveNext(t, tick[t].to_resolve, tick[t].all_bids)
    /\ UNCHANGED <<chain, up, store, lapses>>

\* A call outside the inner try blocks fails, in pass 1, in the enumeration or
\* in the first use of the address tree: the tick ends as it is.
AbortTick(t) ==
    /\ \/ tick[t].pc = "scan"
       \/ /\ tick[t].pc = "refund"
          /\ tick[t].refunds = Losers(tick[t].a, tick[t].all_bids)
    /\ Fault
    /\ Goes(t, Idle)
    /\ NoneDone
    /\ UNCHANGED <<chain, up, store, lapses>>

----------------------------------------------------------------------------
(* The store, crashes, and everybody else. *)

\* markResolvedInStore, unawaited and best effort.
Post(a) ==
    /\ a \in posting
    /\ posting' = posting \ {a}
    /\ store' = store \cup {a} \/ store' = store
    /\ UNCHANGED <<chain, up, done, tick, faults, lapses>>

Crash ==
    /\ up /\ Fault
    /\ up' = FALSE
    /\ done' = {}
    /\ tick' = [t \in Slots |-> Idle]
    /\ UNCHANGED <<chain, store, posting, lapses>>

\* loadResolved, which the store may fail to answer.
Restart ==
    /\ ~ up
    /\ up' = TRUE
    /\ done' = store \/ done' = {}
    /\ UNCHANGED <<chain, store, posting, tick, faults, lapses>>

\* Mutant: the program takes bids after the end.
OthersBidLate ==
    /\ \/ Chain!Next
       \/ \E a \in Auctions, k \in Keys :
             /\ Chain!Live(a)
             /\ leaf' = [leaf EXCEPT ![a][k] = "live"]
             /\ UNCHANGED <<clock, account>>
    /\ UNCHANGED keeper

Others == Chain!Next /\ UNCHANGED keeper

KeeperStep(t) ==
    \/ StartTick(t) \/ SkipResolved(t) \/ VisitAuction(t) \/ Enumerate(t)
    \/ SendClaim(t) \/ Reread(t) \/ RefundOne(t) \/ CloseOne(t) \/ CheckVault(t)
    \/ AbortTick(t)

Next ==
    \/ \E t \in Slots : KeeperStep(t)
    \/ \E a \in Auctions : Post(a)
    \/ Crash \/ Restart
    \/ Others

Spec == Init /\ [][Next]_vars

\* The chain's clock runs, the host restarts the process, and every call the
\* keeper awaits returns or fails.
FairSpec ==
    /\ Spec
    /\ WF_vars(Chain!ClockTicks /\ UNCHANGED keeper)
    /\ WF_vars(Restart)
    /\ \A t \in Slots : WF_vars(KeeperStep(t))

----------------------------------------------------------------------------
(* Properties. *)

TypeOK ==
    /\ clock \in 0 .. MaxTime
    /\ account \in [Auctions -> Chain!Account]
    /\ leaf \in [Auctions -> [Keys -> {"none", "live", "closed"}]]
    /\ up \in BOOLEAN
    /\ done \subseteq Auctions /\ store \subseteq Auctions /\ posting \subseteq Auctions
    /\ tick \in [Slots -> Tick]
    /\ faults \in 0 .. MaxFaults
    /\ passed_over \subseteq Auctions \X Keys /\ overlooked \subseteq Auctions

\* Nothing is left to do: the account is gone, or the auction is over, its
\* creator paid and every loser refunded but those of `left`.
SettledBut(a, left) ==
    \/ account[a].status = "closed"
    \/ /\ Chain!Live(a) /\ Chain!Ended(a)
       /\ account[a].paid \/ account[a].winners = {}
       /\ Chain!Owed(a) \subseteq left

\* The bids that the keeper cannot refund.
Unpayable == {k \in Keys : k[2] \in NoAta}

Settled(a) == SettledBut(a, Unpayable)

\* "Done" is for ever, across restarts: that an auction is recorded as resolved,
\* in memory, in the store or on the way there, should mean that it is settled.
DoneIsSettled == \A a \in done \cup store \cup posting : Settled(a)

\* What the keeper leaves behind when its ticks do all they were told they could:
\* the bids it cannot refund, and those that it passed over.
Left(a) == Unpayable \cup {k \in Keys : <<a, k>> \in passed_over}

SettledUnlessLapsed(a) == a \in overlooked \/ SettledBut(a, Left(a))

\* Whatever order calls, failures, crashes and other ticks come in, an auction is
\* recorded as resolved only when it is settled but for what an answer hid: a bid
\* the indexer did not list, a refund that failed with an error that isTransient
\* does not know, a whole auction that a node did not have.  Nothing else is lost:
\* no claim, no other bid, and nothing by a transient error or a crash.
DoneUnlessLapsed == \A a \in done \cup store \cup posting : SettledUnlessLapsed(a)

\* And it may be for ever: what is settled once stays so, whoever bids, claims,
\* refunds or closes afterwards.
SettledForGood == [][\A a \in Auctions : Settled(a) => Settled(a)']_vars

\* What resolveAuction takes the rest in the vault for when it has refunded all
\* the losers it listed: stakes of losers without a token account.
RestIsUnpayable ==
    \A a \in done : Chain!Live(a) /\ Chain!Ended(a) => Chain!Owed(a) \subseteq Unpayable

\* What "done" means to resolveAuction, where it returns it: the winner paid and
\* the refunds gone through.  Once an auction is over, one that is done is so.
DoneWhenOver == \A a \in done : Chain!Live(a) /\ Chain!Ended(a) => Settled(a)

\* A tick never takes a creator for paid blindly: whatever the claim seemed to
\* do, the chain says so, or there is nobody to pay.
NeverPaidBlindly ==
    \A t \in Slots : tick[t].paid =>
        LET a == tick[t].a.id IN account[a].paid \/ account[a].winners = {}

\* No crash, overlap or lost call abandons an auction: each one is settled, but for
\* what an answer hid from the keeper.
AllSettled == \A a \in Auctions : Chain!Live(a) ~> SettledUnlessLapsed(a)
=============================================================================
