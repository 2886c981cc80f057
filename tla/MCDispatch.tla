----------------------------- MODULE MCDispatch -----------------------------
(* Dispatch on small instances.                                            *)
EXTENDS Dispatch, TLC

CONSTANTS outer, inner, other, write, find, w, p, r, b

Requests == {outer, inner, other}
Nested == {<<inner, outer>>}
Types == {write, find}
Asked == outer :> write @@ inner :> write @@ other :> find
Handlers == {w, p, r}
Made == write :> {w, p} @@ find :> {r}
Kinds == w :> "transactional" @@ p :> "plain" @@ r :> "read"
=============================================================================
