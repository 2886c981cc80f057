------------------------------ MODULE MCCache -------------------------------
(* Cache on small instances.                                               *)
EXTENDS Cache, TLC

CONSTANTS c1, c2, c3, t

Clients == {c1, c2, c3}
Scopes == c1 :> t @@ c2 :> t @@ c3 :> Global
Keys == [scope : {t}, purpose : Purpose] \cup [scope : {Global}, purpose : {"item"}]
=============================================================================
