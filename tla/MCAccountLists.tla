--------------------------- MODULE MCAccountLists ---------------------------
(* One instruction after another is built as the client builds it. *)
EXTENDS AccountLists

VARIABLE sent

SendInit == sent \in Instructions

SendNext == \E ix \in Instructions : sent' = ix

SendSpec == SendInit /\ [][SendNext]_sent

\* "accounts mirror lib.rs Accounts structs" (lib.mjs), "PlaceBid/RaiseBid
\* layout" (light.mjs): the program reads the accounts of a built instruction
\* as what they are.
BuiltAsDeclared == Accepted(sent, Listed[sent])
=============================================================================
