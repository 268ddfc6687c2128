------------------------------ MODULE TokenMap ------------------------------
(***************************************************************************)
(* What the token routes promise: a map from tokens to the data that is    *)
(* kept under them.  A request keeps, shows or drops tokens, and tells its *)
(* client about each one exactly what the map holds.                       *)
(***************************************************************************)
CONSTANTS Clients     \* those who send requests, one at a time each

VARIABLES map,        \* a function from the tokens that exist to their data
          told        \* told[c]: pairs of a token and data, in the current answer of c

vars == <<map, told>>

Without(k) == [j \in DOMAIN map \ {k} |-> map[j]]

Tell(c, pairs) == told' = [told EXCEPT ![c] = @ \cup pairs]

Init == map = [k \in {} |-> {}] /\ told = [c \in Clients |-> {}]

(* A new request, or an answer that is thrown away.                        *)
Forget(c) == told' = [told EXCEPT ![c] = {}] /\ UNCHANGED map

(* The server ends, and with it all its answers; the map stays.            *)
Crash == told' = [c \in Clients |-> {}] /\ UNCHANGED map

(* Under a new token or an old one, data that the step chooses.            *)
Keep(c) == \E k \in DOMAIN map' :
              /\ map' = [j \in DOMAIN map \cup {k} |-> IF j = k THEN map'[k] ELSE map[j]]
              /\ Tell(c, {<<k, map'[k]>>})

Show(c, S) == Tell(c, {<<k, map[k]>> : k \in S}) /\ UNCHANGED map

Drop(c, k) == map' = Without(k) /\ Tell(c, {<<k, map[k]>>})

Next == \/ Crash
        \/ \E c \in Clients : \/ Forget(c)
                              \/ Keep(c)
                              \/ \E k \in DOMAIN map : Drop(c, k)
                              \/ \E S \in SUBSET DOMAIN map : Show(c, S)

Spec == Init /\ [][Next]_vars
=============================================================================
