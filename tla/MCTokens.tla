------------------------------ MODULE MCTokens ------------------------------
(* Tokens on small instances.                                              *)
EXTENDS Tokens, TLC

CONSTANTS auth, slow, fast

Validators == {auth, slow, fast}
Skews == auth :> 0 @@ slow :> -1 @@ fast :> 1
NamesGiven == {"developer", "analyst", "guest"}
Protected == {<<"agent", "create">>, <<"analytics", "export">>}
=============================================================================
