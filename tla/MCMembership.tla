---------------------------- MODULE MCMembership ----------------------------
(* Membership on small instances.                                          *)
EXTENDS Membership, TLC

CONSTANTS u1, u2, u3, a, b, c

Units == {u1, u2, u3}
Users3 == {a, b, c}

Asked(kind, user, role) == [kind |-> kind, user |-> user, role |-> role]
Create == Asked("create", a, "OWNER")
AddC == Asked("add", c, "OWNER")
Settings == Asked("settings", a, "MEMBER")
RemovalOf(user) == Asked("remove", user, "MEMBER")

Three(x, y, z) == u1 :> x @@ u2 :> y @@ u3 :> z

First(user, role) == [id |-> user, user |-> user, role |-> role]
Owners2 == {First(a, "OWNER"), First(b, "OWNER")}
OwnersAndC == Owners2 \cup {First(c, "MEMBER")}

Scenarios == {
    <<OwnersAndC, Three(RemovalOf(a), RemovalOf(b), RemovalOf(c))>>,
    <<Owners2, Three(RemovalOf(a), RemovalOf(b), AddC)>>,
    <<OwnersAndC, Three(RemovalOf(c), RemovalOf(c), AddC)>>,
    <<OwnersAndC, Three(RemovalOf(c), AddC, Settings)>>,
    <<Owners2, Three(RemovalOf(a), RemovalOf(a), RemovalOf(b))>>,
    <<Owners2, Three(AddC, AddC, Settings)>>,
    <<Owners2, Three(AddC, AddC, RemovalOf(a))>>,
    <<Owners2, Three(Settings, Settings, RemovalOf(a))>>,
    <<{}, Three(Create, Create, AddC)>>,
    <<{}, Three(Create, Create, RemovalOf(a))>>}
=============================================================================
