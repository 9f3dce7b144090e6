--------------------------- MODULE MCUserAccounts ---------------------------
(* Instances of UserAccounts for TLC. *)
EXTENDS UserAccounts, TLC

EveryUser == {[action |-> <<"users", Wildcard>>, scope |-> Anything]}

EveryUserOneConnection ==
    EveryUser \cup {[action |-> <<"streams", Wildcard>>, scope |-> <<"stream", "c1", Wildcard>>]}

RequestSymmetry == Permutations(Client) \cup Permutations(Token)
=============================================================================
