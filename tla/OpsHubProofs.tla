---------------------------- MODULE OpsHubProofs ----------------------------
(***************************************************************************)
(* The hub announces an auction once, answers a command once for every     *)
(* start that could not drain the backlog, and loses none, for any number  *)
(* of auctions, updates, overlapping ticks, lost polls and restarts and    *)
(* any page size.                                                          *)
(***************************************************************************)
EXTENDS OpsHub, TLAPS

HubType ==
    /\ count \in 0 .. MaxAuctions /\ updates \in 0 .. MaxUpdates
    /\ confirmed \in Nat \ {0} /\ offset \in Nat
    /\ last \in Int /\ counts \subseteq Nat
    /\ loop \in {"drain", "poll", "handle"}
    /\ announced \in [Ids -> Nat] /\ answered \in [Updates -> Nat]
    /\ undrained \in Nat

\* An auction that was announced lies below the base, or below whatever count
\* may become the base: every count in hand was read later than the announcement.
AnnounceInv ==
    /\ last <= count /\ \A c \in counts : c <= count
    /\ \A id \in Ids :
          /\ announced[id] <= 1
          /\ announced[id] > 0 => /\ id < count
                                  /\ last >= 0 => id < last
                                  /\ last < 0 => \A c \in counts : id < c

\* An update that the next poll, or the drain of the next start, passes over.
Passed(u) ==
    /\ u <= updates /\ u \notin batch
    /\ u < confirmed \/ u < offset \/ (loop = "drain" /\ u < confirmed + Page)

\* What is in hand was not dropped yet, and a drain reaches as far as any poll.
BatchInv ==
    /\ offset <= confirmed + Page
    /\ loop # "handle" => batch = {}
    /\ loop = "drain" => offset = 0
    /\ \A u \in batch : u \in Updates /\ u <= updates /\ confirmed <= u /\ u < offset

\* Updates answered more often than drains have failed are not seen again in
\* this life of the process; what is behind the offset is dealt with or in hand.
CommandInv ==
    \A u \in Updates :
        /\ answered[u] <= 1 + undrained
        /\ answered[u] > undrained => Passed(u)
        /\ u \in Operator /\ (u < confirmed \/ u < offset) =>
              u \in batch \/ u \in skipped \/ answered[u] > 0

HubInv == HubType /\ AnnounceInv /\ BatchInv /\ CommandInv

LEMMA HubInit == Init => HubInv
BY HubAssumption
   DEF Init, HubInv, HubType, AnnounceInv, BatchInv, CommandInv, Passed, Ids, Updates

----------------------------------------------------------------------------
(* Polls. *)

\* An answer is what lies between the point up to which Telegram has dropped
\* updates and the new offset, a page at most.
LEMMA AnswerFacts ==
    ASSUME HubType, NEW from \in Nat
    PROVE  LET lo   == Confirms(from)
               R    == Returned(from)
               next == NextOffset(from, R)
           IN  /\ lo \in Nat \ {0} /\ lo >= confirmed /\ lo >= from
               /\ lo = confirmed \/ lo = from
               /\ next \in Nat
               /\ R = {} => next = from
               /\ R # {} => /\ next <= lo + Page
                            /\ \A u \in Updates :
                                  u \in R <=> lo <= u /\ u < next
               /\ \A u \in R : u \in Updates /\ u <= updates
               /\ \A u \in Updates :
                     u <= updates /\ lo <= u /\ u < lo + Page => u \in R
<1> DEFINE lo   == Confirms(from)
           R    == Returned(from)
           next == NextOffset(from, R)
           top  == IF updates < lo + Page - 1 THEN updates ELSE lo + Page - 1
<1>1. /\ lo \in Nat \ {0} /\ lo >= confirmed /\ lo >= from
      /\ lo = confirmed \/ lo = from
  BY DEF Confirms, HubType
<1>2. R = {u \in Updates : lo <= u /\ u <= updates /\ u < lo + Page}
  BY DEF Returned
<1>3. Page \in Nat \ {0} /\ MaxUpdates \in Nat /\ updates \in 0 .. MaxUpdates
  BY HubAssumption DEF HubType
<1> HIDE DEF lo, R
<1> HIDE DEF next
<1>4. /\ next \in Nat
      /\ R = {} => next = from
      /\ R # {} => /\ next <= lo + Page
                   /\ \A u \in Updates : u \in R <=> lo <= u /\ u < next
  <2>1. CASE R # {}
    <3>1. top \in R /\ \A v \in R : v <= top
      BY <1>1, <1>2, <1>3, <2>1 DEF Updates
    <3>2. next = 1 + top
      <4> DEFINE IsLast(u) == \A v \in R : v <= u
      <4>1. next = 1 + CHOOSE u \in R : IsLast(u)
        BY <2>1 DEF NextOffset, next
      <4>2. \A u \in R : IsLast(u) => u = top
        BY <1>1, <1>2, <1>3, <3>1 DEF Updates
      <4>3. IsLast(top)
        BY <3>1
      <4> HIDE DEF IsLast, top
      <4>4. (CHOOSE u \in R : IsLast(u)) = top
        BY <3>1, <4>2, <4>3
      <4> QED  BY <4>1, <4>4
    <3> QED  BY <1>1, <1>2, <1>3, <2>1, <3>1, <3>2 DEF Updates
  <2>2. CASE R = {}
    BY <2>2 DEF NextOffset, next
  <2> QED  BY <2>1, <2>2
<1>5. /\ \A u \in R : u \in Updates /\ u <= updates
      /\ \A u \in Updates : u <= updates /\ lo <= u /\ u < lo + Page => u \in R
  BY <1>2
<1> QED  BY <1>1, <1>4, <1>5 DEF lo, R, next

----------------------------------------------------------------------------
(* Steps. *)

\* Steps that are none of the command loop's.
LEMMA CommandsSame ==
    ASSUME HubInv, UNCHANGED <<commands, confirmed>>, updates' >= updates, updates' \in 0 .. MaxUpdates
    PROVE  BatchInv' /\ CommandInv'
BY DEF HubInv, HubType, BatchInv, CommandInv, Passed, commands, Updates

LEMMA WorldStep == HubInv /\ (Creation \/ Message \/ UNCHANGED hub) => HubInv'
<1> SUFFICES ASSUME HubInv, Creation \/ Message \/ UNCHANGED hub PROVE HubInv'
  OBVIOUS
<1>1. /\ UNCHANGED <<commands, confirmed, alerts>>
      /\ count' >= count /\ count' \in 0 .. MaxAuctions
      /\ updates' >= updates /\ updates' \in 0 .. MaxUpdates
  BY HubAssumption DEF HubInv, HubType, Creation, Message, hub, telegram
<1>2. HubType'
  BY <1>1 DEF HubInv, HubType, commands, alerts
<1>3. AnnounceInv'
  BY <1>1 DEF HubInv, HubType, AnnounceInv, alerts, Ids
<1> QED  BY <1>1, <1>2, <1>3, CommandsSame DEF HubInv

\* After a restart the base is unknown, and no count is in hand.
LEMMA RestartStep == HubInv /\ Restart => HubInv'
<1> SUFFICES ASSUME HubInv, Restart PROVE HubInv'
  OBVIOUS
<1> USE DEF HubInv, HubType, Restart, telegram
<1>1. HubType'
  OBVIOUS
<1>2. AnnounceInv'
  BY DEF AnnounceInv
<1>3. BatchInv'
  BY HubAssumption DEF BatchInv
<1>4. CommandInv'
  BY HubAssumption DEF BatchInv, CommandInv, Passed, Updates
<1> QED  BY <1>1, <1>2, <1>3, <1>4

LEMMA AlertStep ==
    ASSUME HubInv, ReadCount \/ \E c \in counts : CompareCount(c)
    PROVE  HubInv'
<1> USE DEF HubInv, HubType
<1>1. UNCHANGED <<commands, telegram, count>>
  BY DEF ReadCount, CompareCount
<1>2. BatchInv' /\ CommandInv'
  BY <1>1, CommandsSame DEF telegram
<1>3. CASE ReadCount
  <2>1. UNCHANGED <<last, announced>> /\ counts' = counts \cup {count}
    BY <1>3 DEF ReadCount
  <2>2. HubType'
    BY <1>1, <2>1 DEF commands, telegram
  <2>3. AnnounceInv'
    BY <1>1, <2>1 DEF AnnounceInv, Ids
  <2> QED  BY <1>2, <2>2, <2>3
<1>4. ASSUME NEW c \in counts, CompareCount(c) PROVE HubInv'
  <2>1. c \in Nat /\ counts' = counts \ {c}
    BY <1>4 DEF CompareCount
  <2>2. CASE last < 0
    <3>1. last' = c /\ announced' = announced
      BY <1>4, <2>2 DEF CompareCount
    <3>2. HubType'
      BY <1>1, <2>1, <3>1 DEF commands, telegram
    <3>3. AnnounceInv'
      BY <1>1, <2>1, <2>2, <3>1 DEF AnnounceInv, Ids
    <3> QED  BY <1>2, <3>2, <3>3
  <2>3. CASE last >= 0 /\ c > last
    <3>1. /\ last' = c
          /\ announced' = [id \in Ids |-> announced[id] + IF id \in NewIds(c) THEN 1 ELSE 0]
      BY <1>4, <2>3 DEF CompareCount, Grown
    <3>2. HubType'
      BY <1>1, <2>1, <3>1 DEF commands, telegram
    <3>3. ASSUME NEW id \in Ids
          PROVE  announced'[id] = IF last <= id /\ id < c THEN announced[id] + 1
                                                          ELSE announced[id]
      BY <3>1, <3>3 DEF NewIds, Ids
    <3>4. AnnounceInv'
      BY <1>1, <2>1, <2>3, <3>1, <3>3 DEF AnnounceInv, Ids
    <3> QED  BY <1>2, <3>2, <3>4
  <2>4. CASE last >= 0 /\ ~ (c > last)
    <3>1. UNCHANGED <<last, announced>>
      BY <1>4, <2>4 DEF CompareCount, Grown
    <3>2. HubType'
      BY <1>1, <2>1, <3>1 DEF commands, telegram
    <3>3. AnnounceInv'
      BY <1>1, <2>1, <2>4, <3>1 DEF AnnounceInv, Ids
    <3> QED  BY <1>2, <3>2, <3>3
  <2> QED  BY <2>2, <2>3, <2>4
<1> QED  BY <1>3, <1>4

\* A drain passes over all that was answered in an earlier life; one without an
\* answer is counted.
LEMMA DrainStep == HubInv /\ Drain => HubInv'
<1> SUFFICES ASSUME HubInv, Drain PROVE HubInv'
  OBVIOUS
<1> USE DEF HubInv, HubType
<1>1. /\ UNCHANGED <<count, telegram, alerts, batch, answered>>
      /\ loop = "drain" /\ loop' = "poll"
  BY DEF Drain
<1>2. AnnounceInv'
  BY <1>1 DEF AnnounceInv, alerts
<1>3. batch = {} /\ offset = 0
  BY <1>1 DEF BatchInv
<1>4. CASE offset' = NextOffset(0, Returned(0)) /\ skipped' = skipped \cup Returned(0)
           /\ undrained' = undrained
  <2> DEFINE next == NextOffset(0, Returned(0))
             R    == Returned(0)
  <2>1. Confirms(0) = confirmed
    BY DEF Confirms
  <2>2. /\ next \in Nat
        /\ R = {} => next = 0
        /\ R # {} => /\ next <= confirmed + Page
                     /\ \A u \in Updates : u \in R <=> confirmed <= u /\ u < next
        /\ \A u \in R : u \in Updates /\ u <= updates
        /\ \A u \in Updates : u <= updates /\ confirmed <= u /\ u < confirmed + Page => u \in R
    BY <2>1, AnswerFacts
  <2> HIDE DEF next, R
  <2>3. offset' = next /\ skipped' = skipped \cup R
    BY <1>4 DEF next, R
  <2>4. HubType'
    BY <1>1, <1>4, <2>2, <2>3 DEF telegram, alerts
  <2>5. BatchInv'
    BY <1>1, <1>3, <2>2, <2>3, HubAssumption DEF BatchInv, telegram
  <2>6. CommandInv'
    <3> SUFFICES ASSUME NEW u \in Updates
                 PROVE  /\ answered'[u] <= 1 + undrained'
                        /\ answered'[u] > undrained' => Passed(u)'
                        /\ u \in Operator /\ (u < confirmed' \/ u < offset') =>
                              u \in batch' \/ u \in skipped' \/ answered'[u] > 0
      BY DEF CommandInv
    <3>1. u \in Nat
      BY DEF Updates
    <3>2. answered[u] > undrained => u <= updates /\ u < confirmed + Page
      BY <1>1, <1>3, <3>1, HubAssumption DEF CommandInv, Passed
    <3>3. answered'[u] > undrained' => Passed(u)'
      BY <1>1, <1>3, <1>4, <2>2, <2>3, <3>1, <3>2 DEF Passed, telegram
    <3>4. u \in Operator /\ (u < confirmed' \/ u < offset') =>
             u \in batch' \/ u \in skipped' \/ answered'[u] > 0
      BY <1>1, <1>3, <2>2, <2>3, <3>1 DEF CommandInv, telegram
    <3> QED  BY <1>1, <1>4, <3>3, <3>4 DEF CommandInv
  <2> QED  BY <1>2, <2>4, <2>5, <2>6
<1>5. CASE undrained' = undrained + 1 /\ UNCHANGED <<offset, skipped>>
  <2>1. HubType'
    BY <1>1, <1>5 DEF telegram, alerts
  <2>2. BatchInv'
    BY <1>1, <1>3, <1>5 DEF BatchInv, telegram
  <2>3. CommandInv'
    BY <1>1, <1>3, <1>5 DEF CommandInv, telegram
  <2> QED  BY <1>2, <2>1, <2>2, <2>3
<1> QED  BY <1>4, <1>5 DEF Drain

LEMMA PollStep == HubInv /\ Poll => HubInv'
<1> SUFFICES ASSUME HubInv, Poll PROVE HubInv'
  OBVIOUS
<1> USE DEF HubInv, HubType
<1>1. /\ UNCHANGED <<count, updates, alerts, answered, skipped, undrained>>
      /\ loop = "poll" /\ batch = {}
  BY DEF Poll, BatchInv
<1>2. AnnounceInv'
  BY <1>1 DEF AnnounceInv, alerts
<1> DEFINE lo   == Confirms(offset)
           R    == Returned(offset)
           next == NextOffset(offset, R)
<1>3. /\ lo \in Nat \ {0} /\ lo >= confirmed /\ lo >= offset
      /\ lo = confirmed \/ lo = offset
      /\ next \in Nat
      /\ R # {} => /\ next <= lo + Page
                   /\ \A u \in Updates : u \in R <=> lo <= u /\ u < next
      /\ \A u \in R : u \in Updates /\ u <= updates
  BY AnswerFacts
<1> HIDE DEF lo, R, next
<1>4. CASE R # {} /\ confirmed' = lo /\ batch' = R /\ offset' = next /\ loop' = "handle"
  <2>1. HubType'
    BY <1>1, <1>3, <1>4 DEF alerts
  <2>2. BatchInv'
    BY <1>3, <1>4, <1>1 DEF BatchInv, Updates
  <2>3. CommandInv'
    <3> SUFFICES ASSUME NEW u \in Updates
                 PROVE  /\ answered[u] > undrained => Passed(u)'
                        /\ u \in Operator /\ (u < confirmed' \/ u < offset') =>
                              u \in batch' \/ u \in skipped' \/ answered[u] > 0
      BY <1>1 DEF CommandInv
    <3>1. u \in Nat
      BY DEF Updates
    <3>2. answered[u] > undrained => u <= updates /\ u < lo
      BY <1>1, <1>3, <3>1 DEF CommandInv, Passed
    <3>3. answered[u] > undrained => Passed(u)'
      BY <1>1, <1>3, <1>4, <3>1, <3>2 DEF Passed
    <3>4. u \in Operator /\ u < lo => u \in skipped \/ answered[u] > 0
      BY <1>1, <1>3, <3>1 DEF CommandInv
    <3> QED  BY <1>1, <1>3, <1>4, <3>1, <3>3, <3>4
  <2> QED  BY <1>2, <2>1, <2>2, <2>3
<1>5. CASE confirmed' \in {confirmed, lo} /\ UNCHANGED <<offset, batch, loop>>
  <2>1. HubType'
    BY <1>1, <1>3, <1>5 DEF alerts
  <2>2. BatchInv'
    <3>1. confirmed' \in Nat /\ confirmed' >= confirmed /\ offset' = offset /\ batch' = {}
      BY <1>1, <1>3, <1>5
    <3>2. loop' = "poll" /\ offset <= confirmed + Page /\ Page \in Nat
      BY <1>1, <1>5, HubAssumption DEF BatchInv
    <3>3. \A x, y, z \in Nat : x <= y + Page /\ z >= y => x <= z + Page
      BY <3>2
    <3>4. offset' <= confirmed' + Page
      BY <3>1, <3>2, <3>3, Zenon
    <3> QED  BY <3>1, <3>2, <3>4, Zenon DEF BatchInv
  <2>3. CommandInv'
    BY <1>1, <1>3, <1>5 DEF CommandInv, Passed, Updates
  <2> QED  BY <1>2, <2>1, <2>2, <2>3
<1> QED  BY <1>4, <1>5 DEF Poll, SameOffset, lo, R, next

LEMMA HandleStep == HubInv /\ Handle => HubInv'
<1> SUFFICES ASSUME HubInv, Handle PROVE HubInv'
  OBVIOUS
<1> USE DEF HubInv, HubType
<1>1. PICK u \in batch :
          /\ answered' = [answered EXCEPT ![u] = @ + IF u \in Operator THEN 1 ELSE 0]
          /\ batch' = batch \ {u}
          /\ loop' = IF batch = {u} THEN "poll" ELSE "handle"
          /\ loop = "handle"
          /\ UNCHANGED <<count, telegram, alerts, offset, skipped, undrained>>
  BY DEF Handle
<1>2. u \in Updates /\ u <= updates /\ u < offset /\ u \in Nat
  BY DEF BatchInv, Updates
<1>3. \A v \in Updates : answered'[v] = IF v = u /\ u \in Operator THEN answered[v] + 1
                                                                   ELSE answered[v]
  BY <1>1, <1>2
<1>4. HubType'
  BY <1>1, <1>2 DEF telegram, alerts
<1>5. AnnounceInv'
  BY <1>1 DEF AnnounceInv, alerts
<1>6. BatchInv'
  BY <1>1 DEF BatchInv, telegram
<1>7. CommandInv'
  <2> SUFFICES ASSUME NEW v \in Updates
               PROVE  /\ answered'[v] <= 1 + undrained
                      /\ answered'[v] > undrained => Passed(v)'
                      /\ v \in Operator /\ (v < confirmed \/ v < offset) =>
                            v \in batch' \/ v \in skipped \/ answered'[v] > 0
    BY <1>1 DEF CommandInv, telegram
  <2>1. answered[u] <= undrained
    BY <1>1, <1>2 DEF CommandInv, Passed
  <2>2. CASE v = u
    BY <1>1, <1>2, <1>3, <2>1, <2>2 DEF Passed, telegram
  <2>3. CASE v # u
    BY <1>1, <1>3, <2>3 DEF CommandInv, Passed, telegram
  <2> QED  BY <2>2, <2>3
<1> QED  BY <1>4, <1>5, <1>6, <1>7

LEMMA HubStep == HubInv /\ [Next]_hub => HubInv'
BY WorldStep, RestartStep, AlertStep, DrainStep, PollStep, HandleStep DEF Next

LEMMA HubAlways == Spec => []HubInv
BY HubInit, HubStep, PTL DEF Spec

----------------------------------------------------------------------------
(* The theorems. *)

\* An auction is announced at most once, though ticks compare counts out of
\* order and a restart forgets the base.
THEOREM AnnouncedAtMostOnce == Spec => []AnnouncedOnce
<1>1. HubInv => AnnouncedOnce
  BY DEF HubInv, AnnounceInv, AnnouncedOnce
<1> QED  BY <1>1, HubAlways, PTL

\* A comparison moves the base to a count that has grown, and announces all that
\* it passes, none of which was announced before.
LEMMA BaseStep ==
    ASSUME HubInv, [Next]_hub, NEW id \in Ids, last \in 0 .. id
    PROVE  last' \in 0 .. id \/ last' < 0 \/ announced'[id] = 1
<1>1. /\ id \in Nat /\ announced \in [Ids -> Nat]
      /\ announced[id] = 0
  BY DEF HubInv, HubType, AnnounceInv, Ids
<1>2. ASSUME NEW c \in counts, CompareCount(c)
      PROVE  last' \in 0 .. id \/ announced'[id] = 1
  <2>1. c \in Nat
    BY DEF HubInv, HubType
  <2>2. CASE c > last
    <3>1. /\ last' = c
          /\ announced' = [i \in Ids |-> announced[i] + IF i \in NewIds(c) THEN 1 ELSE 0]
      BY <1>2, <2>2 DEF CompareCount, Grown
    <3>2. id < c => id \in NewIds(c)
      BY DEF NewIds
    <3> QED  BY <1>1, <2>1, <3>1, <3>2
  <2>3. CASE ~ (c > last)
    <3>1. last' = last
      BY <1>2, <2>3 DEF CompareCount, Grown
    <3> QED  BY <3>1
  <2> QED  BY <2>2, <2>3
<1>3. CASE Restart
  BY <1>3 DEF Restart
<1>4. CASE Creation \/ Message \/ ReadCount \/ Drain \/ Poll \/ Handle \/ UNCHANGED hub
  <2>1. last' = last
    BY <1>4 DEF Creation, Message, ReadCount, Drain, Poll, Handle, hub, alerts
  <2> QED  BY <2>1
<1> QED  BY <1>2, <1>3, <1>4 DEF Next

\* The base passes an auction only by announcing it: a restart is the one way to
\* miss one, whatever order ticks compare their counts in.
THEOREM NoneIsSkipped == Spec => NoneSkipped
<1>1. HubInv /\ [Next]_hub =>
        [\A id \in Ids :
           last \in 0 .. id => last' \in 0 .. id \/ last' < 0 \/ announced'[id] = 1]_hub
  BY BaseStep
<1> QED  BY <1>1, HubAlways, PTL DEF Spec, NoneSkipped

\* A command is answered again only after a start at which Telegram did not
\* answer the drain.
THEOREM AnsweredAtMostOnce == Spec => []AnsweredOnce
<1>1. HubInv => AnsweredOnce
  BY DEF HubInv, CommandInv, AnsweredOnce
<1> QED  BY <1>1, HubAlways, PTL

\* Telegram never drops a command that was neither answered nor drained,
\* whatever polls fail and whenever the process dies.
THEOREM NoCommandDropped == Spec => []CommandsKept
<1>1. HubInv => CommandsKept
  BY DEF HubInv, HubType, BatchInv, CommandInv, CommandsKept, Updates
<1> QED  BY <1>1, HubAlways, PTL
=============================================================================
