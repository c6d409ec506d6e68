------------------------------ MODULE MCKeeper ------------------------------
(* Small instances of Keeper for TLC. *)
EXTENDS Keeper

\* Two proposals, one of them backed by both bidders: the smallest auction in
\* which a winner, a loser, and two losers of one lot can be told apart.
MCKeys == {<<"p", "bob">>, <<"q", "bob">>, <<"q", "dave">>}

\* The indexer may be late with one of the losers.
MCUnindexed == {<<"q", "bob">>}
=============================================================================
