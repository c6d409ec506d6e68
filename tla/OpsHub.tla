------------------------------- MODULE OpsHub -------------------------------
(***************************************************************************)
(* The Telegram hub of the keeper (client/keeper.mjs, client/tg.mjs): the  *)
(* new auctions it announces and the commands it answers.  Ticks overlap,  *)
(* so the counts they read may be compared out of order; all of the hub's  *)
(* memory is lost in a restart; calls to Telegram that fail are not        *)
(* repeated, so to announce or to answer is to try once.                   *)
(*                                                                         *)
(* Bound: no two ticks wait with the same count at a time.                 *)
(***************************************************************************)
EXTENDS Integers, FiniteSets

CONSTANTS
    Operator,          \* updates that are messages from CHAT_ID
    Page,              \* updates that Telegram returns at once
    MaxAuctions,       \* bound on the auctions created
    MaxUpdates,        \* bound on the updates sent to the bot
    MaxRestarts,       \* bound on the restarts of the process
    MaxFaults          \* bound on the polls without an answer

ASSUME HubAssumption ==
    /\ {MaxAuctions, MaxUpdates, MaxRestarts, MaxFaults} \subseteq Nat
    /\ Page \in Nat \ {0}

VARIABLES
    count,             \* auction_count on chain
    updates,           \* updates sent to the bot so far
    confirmed,         \* Telegram has dropped the updates before this one
    last,              \* lastAuctionCount
    counts,            \* counts that ticks have read and not compared yet
    loop,              \* runCommandLoop: "drain", "poll" or "handle"
    offset,            \* nextOffset
    batch,             \* updates of the last poll still to be handled
    announced,         \* history: how often each auction was announced
    answered,          \* history: how often each update was answered
    skipped,           \* history: the updates drained at a start
    restarts, faults,
    undrained          \* history: starts whose drain got no answer

telegram == <<updates, confirmed>>
alerts   == <<last, counts, announced>>
commands == <<loop, offset, batch, answered, skipped, undrained>>
hub      == <<count, telegram, alerts, commands, restarts, faults>>

Ids     == 0 .. MaxAuctions - 1
Updates == 1 .. MaxUpdates

Init ==
    /\ count = 0 /\ updates = 0 /\ confirmed = 1
    /\ last = -1 /\ counts = {} /\ announced = [id \in Ids |-> 0]
    /\ loop = "drain" /\ offset = 0 /\ batch = {}
    /\ answered = [u \in Updates |-> 0] /\ skipped = {} /\ undrained = 0
    /\ restarts = 0 /\ faults = 0

----------------------------------------------------------------------------
(* The world. *)

Creation ==
    /\ count < MaxAuctions
    /\ count' = count + 1
    /\ UNCHANGED <<telegram, alerts, commands, restarts, faults>>

Message ==
    /\ updates < MaxUpdates
    /\ updates' = updates + 1
    /\ UNCHANGED <<count, confirmed, alerts, commands, restarts, faults>>

\* A crash and the start that follows it.
Restart ==
    /\ restarts < MaxRestarts
    /\ restarts' = restarts + 1
    /\ last' = -1 /\ counts' = {}
    /\ loop' = "drain" /\ offset' = 0 /\ batch' = {}
    /\ UNCHANGED <<count, telegram, announced, answered, skipped, undrained, faults>>

----------------------------------------------------------------------------
(* New auctions. *)

ReadCount ==
    /\ count \notin counts
    /\ counts' = counts \cup {count}
    /\ UNCHANGED <<count, telegram, last, announced, commands,
                   restarts, faults>>

\* Mutant: an answer that comes late takes the base back.
Differs(c) == c # last

\* Only a count that has grown is news.
Grown(c) == c > last

\* Mutant: the first new auction is left out.
NewButFirst(c) == {id \in Ids : id > last /\ id < c}

NewIds(c) == {id \in Ids : id >= last /\ id < c}

\* The first pass after a start only takes the base.
CompareCount(c) ==
    /\ c \in counts
    /\ counts' = counts \ {c}
    /\ IF last < 0 THEN last' = c /\ UNCHANGED announced
       ELSE IF Grown(c)
       THEN /\ announced' = [id \in Ids |-> announced[id] + IF id \in NewIds(c) THEN 1 ELSE 0]
            /\ last' = c
       ELSE UNCHANGED <<last, announced>>
    /\ UNCHANGED <<count, telegram, commands, restarts, faults>>

----------------------------------------------------------------------------
(* Commands: runCommandLoop and tgGetUpdates. *)

\* What getUpdates drops and returns when it is called with an offset.
Confirms(from) == IF from > confirmed THEN from ELSE confirmed

Returned(from) == {u \in Updates : Confirms(from) <= u /\ u <= updates /\ u < Confirms(from) + Page}

\* Mutant: the last update is asked for again.
LastAgain(from, result) ==
    IF result = {} THEN from ELSE CHOOSE u \in result : \A v \in result : v <= u

\* update_id + 1 of the last update returned.
NextOffset(from, result) ==
    IF result = {} THEN from ELSE 1 + CHOOSE u \in result : \A v \in result : v <= u

\* The backlog is skipped at the start, if Telegram answers.
Drain ==
    /\ loop = "drain"
    /\ loop' = "poll"
    /\ \/ /\ offset' = NextOffset(0, Returned(0))
          /\ skipped' = skipped \cup Returned(0)
          /\ UNCHANGED <<faults, undrained>>
       \/ /\ faults < MaxFaults /\ faults' = faults + 1
          /\ undrained' = undrained + 1
          /\ UNCHANGED <<offset, skipped>>
    /\ UNCHANGED <<count, telegram, alerts, batch, answered, restarts>>

\* Mutant: the offset moves on although the answer was lost.
PastEverything(from) == updates + 1

\* The offset after a poll without an answer.
SameOffset(from) == from

\* A poll: it is answered, or only reaches Telegram, or does not.
Poll ==
    /\ loop = "poll"
    /\ \/ /\ Returned(offset) # {}
          /\ confirmed' = Confirms(offset)
          /\ batch' = Returned(offset)
          /\ offset' = NextOffset(offset, Returned(offset))
          /\ loop' = "handle"
          /\ UNCHANGED faults
       \/ /\ confirmed' \in {confirmed, Confirms(offset)}
          /\ faults < MaxFaults /\ faults' = faults + 1
          /\ offset' = SameOffset(offset)
          /\ UNCHANGED <<batch, loop>>
    /\ UNCHANGED <<count, updates, alerts, answered, skipped,
                   restarts, undrained>>

\* The updates of a batch one by one; only the operator's are answered.
Handle ==
    /\ loop = "handle"
    /\ \E u \in batch :
          /\ \A v \in batch : u <= v
          /\ answered' = [answered EXCEPT ![u] = @ + IF u \in Operator THEN 1 ELSE 0]
          /\ batch' = batch \ {u}
          /\ loop' = IF batch = {u} THEN "poll" ELSE "handle"
    /\ UNCHANGED <<count, telegram, alerts, offset, skipped,
                   undrained, restarts, faults>>

----------------------------------------------------------------------------

Next ==
    \/ Creation \/ Message \/ Restart
    \/ ReadCount \/ Drain \/ Poll \/ Handle
    \/ \E c \in counts : CompareCount(c)

Spec == Init /\ [][Next]_hub

\* Ticks go on and their calls return; the command loop runs.
FairSpec ==
    /\ Spec
    /\ WF_hub(ReadCount) /\ \A c \in 0 .. MaxAuctions : WF_hub(CompareCount(c))
    /\ WF_hub(Drain) /\ WF_hub(Poll) /\ WF_hub(Handle)

----------------------------------------------------------------------------
(* Properties. *)

\* An auction is announced at most once, whatever order overlapping ticks
\* finish in and however often the process restarts: no backlog is announced.
AnnouncedOnce == \A id \in Ids : announced[id] <= 1

\* An auction created while the hub has its base is announced, unless the
\* process restarts.
CreationsAnnounced ==
    \A id \in Ids : last \in 0 .. id /\ count > id ~> announced[id] = 1 \/ last < 0

\* An auction that lies ahead of the base stays there until it is announced, once,
\* or the process restarts: no count, however late, takes the base past it.
NoneSkipped ==
    [][\A id \in Ids :
         last \in 0 .. id => last' \in 0 .. id \/ last' < 0 \/ announced'[id] = 1]_hub

\* A command is answered at most once, and once more for every start at which
\* Telegram did not answer the drain.
AnsweredOnce == \A u \in Updates : answered[u] <= 1 + undrained

\* What Telegram has dropped on the hub's word, the hub is done with: a crash in
\* the middle of a batch costs a second answer at most, never a command.
CommandsKept ==
    \A u \in Updates \cap Operator : u < confirmed => answered[u] > 0 \/ u \in skipped

\* No command of the operator is lost: each one is answered, or drained at a
\* start, whatever polls fail and whenever the process dies.
CommandsAnswered ==
    \A u \in Updates \cap Operator : u <= updates ~> answered[u] > 0 \/ u \in skipped
=============================================================================
