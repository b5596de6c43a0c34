---------------------------- MODULE MCDelegation ----------------------------
(* An instance of Delegation for TLC. *)
EXTENDS Delegation, TLC

CONSTANTS alice, bob

\* The same words in three capabilities: only where the bars stand tells them apart.
api   == [type |-> <<"category">>, value |-> <<"api">>]
piped == [type |-> <<"category">>, value |-> <<"merchant", "|", "api">>]
gpu   == [type |-> <<"merchant">>, value |-> <<"api">>]

MCCaps == {api, piped, gpu}
MCRank == (gpu :> 1) @@ (api :> 2) @@ (piped :> 3)

\* Three leaves, so that a level of the tree is odd, and parts of them.
MCMandates == {{api, piped, gpu}, {api, piped}, {gpu, piped}}

symm == Permutations(Parties)
=============================================================================
