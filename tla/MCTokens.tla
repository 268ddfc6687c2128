------------------------------ MODULE MCTokens ------------------------------
EXTENDS Tokens, TLC

CONSTANTS V1, V2, U1, P1     \* two values, a user, some properties

(* A date in the server's time that is the epoch, one with another offset, *)
(* one that cannot be read; properties that are read and some with a gap;  *)
(* a value that is no string.                                              *)
BodiesMC == {[userId |-> U1, value |-> V1, expiration |-> [clock |-> Zone, offset |-> NoOffset],
              properties |-> [form |-> "list", map |-> P1]],
             [userId |-> U1, value |-> V2, expiration |-> [clock |-> 2, offset |-> 0], token |-> "k2"],
             [expiration |-> [clock |-> Unparsed, offset |-> NoOffset],
              properties |-> [form |-> "gaps", map |-> P1]],
             [value |-> Odd]}

ZeroTmMC == -1
ClocksMC == -1..2
BracedMC == Placeholders \cup {"{x}", "{"}

Symmetry == Permutations(Requests)

PathsMC == {<<"vaults", "v", "token", "k1">>, <<"vaults", "", "v", "token", "">>,
            <<"vaults", "{vault}", "token">>,
            <<"vaults", "v", "token", "k1", "x">>, <<"vaults", "{x}", "query">>,
            <<"vaults", "v", "query">>, <<"vaults", "v", "status", "">>,
            <<"vaults", "{", "token", "{token}">>, <<"metrics">>, <<"vaults">>, <<"">>}

(* Clean is the standard SelectSeq.                                        *)
ASSUME CleanAssumption ==
    \A path \in PathsMC : Clean(path) = SelectSeq(path, LAMBDA segment : segment # "")
=============================================================================
