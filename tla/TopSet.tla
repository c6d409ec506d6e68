------------------------------- MODULE TopSet -------------------------------
(***************************************************************************)
(* What an auction's leader board promises to bidders, as a set of winners *)
(* and without any order kept in the state: a proposal enters while a seat *)
(* is free, or by strictly outbidding the lowest-ranked winner, which then *)
(* leaves; nothing else changes who wins.                                  *)
(***************************************************************************)
EXTENDS Naturals, FiniteSets

CONSTANTS Proposals, Raises, MaxSeats

VARIABLES total,   \* stake on every proposal, 0 before it is placed
          top,     \* the winning proposals
          seats    \* how many there may be

vars == <<total, top, seats>>

\* p is the last of the winners: least total, latest id among equals.
Last(p) ==
    /\ p \in top
    /\ \A q \in top \ {p} :
          \/ total[q] > total[p]
          \/ total[q] = total[p] /\ q < p

Init == /\ total = [p \in Proposals |-> 0]
        /\ top = {}
        /\ seats \in 1 .. MaxSeats

Bid(p, amount) ==
    LET reached == total[p] + amount
        full    == Cardinality(top) = seats
    IN  /\ total' = [total EXCEPT ![p] = reached]
        /\ UNCHANGED seats
        /\ \/ p \in top /\ top' = top
           \/ p \notin top /\ ~ full /\ top' = top \cup {p}
           \/ /\ p \notin top /\ full
              /\ \E q \in top :
                    /\ Last(q)
                    /\ top' = IF reached > total[q] THEN (top \ {q}) \cup {p} ELSE top

Next == \E p \in Proposals, amount \in Raises : Bid(p, amount)

Spec == Init /\ [][Next]_vars
=============================================================================
