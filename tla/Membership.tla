----------------------------- MODULE Membership -----------------------------
(***************************************************************************)
(* The Organization aggregate and SqlOrganizationRepository: units of work *)
(* that load one organization, change it in memory and save it, each in a  *)
(* PostgreSQL transaction at READ COMMITTED.                               *)
(*                                                                         *)
(* The repository keeps no reference to the model that get_by_id loaded,   *)
(* and the session's identity map only a weak one: it is collected, and    *)
(* save()'s session.get selects the organization anew.  save() clears the  *)
(* members it finds then and appends new objects for those of the          *)
(* aggregate.  SQLAlchemy pairs the ones with the same ids: a member of    *)
(* both is an UPDATE of its row, one that is only found a DELETE, one that *)
(* is only in the aggregate an INSERT, in the order UPDATE, INSERT,        *)
(* DELETE.  An UPDATE of one row that is gone by then raises               *)
(* StaleDataError; asyncpg reports no row count for an UPDATE with several *)
(* parameter sets, so there nothing is noticed.  A statement waits for the *)
(* transaction that wrote its row.                                         *)
(***************************************************************************)
EXTENDS Naturals, Sequences, FiniteSets, SequencesExt

CONSTANTS
    Unit,       \* units of work, one change of the organization each
    User,       \* users
    Scenario    \* the members the organization may begin with, none when it is
                \* not there yet, and what each unit is asked to do

Role == {"OWNER", "MEMBER"}

\* A member's id: that of the unit that added it, or its user's for the
\* members of the first organization.
MemberId == Unit \cup User
Member == [id : MemberId, user : User, role : Role]
Operation == [kind : {"create", "add", "remove", "settings"}, user : User, role : Role]

ASSUME IdAssumption == Unit \cap User = {} /\ "organization" \notin MemberId
ASSUME ScenarioAssumption ==
    /\ Scenario \subseteq (SUBSET {m \in Member : m.id = m.user}) \X [Unit -> Operation]
    /\ \A s \in Scenario :
        /\ IsFiniteSet(s[1])
        /\ \A m, n \in s[1] : m.user = n.user => m = n
        /\ s[1] # {} => \E m \in s[1] : m.role = "OWNER"

VARIABLES
    exists,     \* the organization's row is committed
    rows,       \* its committed members
    settings,   \* its committed settings: the units whose key it has
    op,         \* op[u]: what u does
    pc,         \* pc[u]: where u's command runs
    members,    \* members[u]: the aggregate's list in u's memory
    loaded,     \* loaded[u]: the members, and the settings, u loaded
    found,      \* found[u]: those that its save() finds
    plan,       \* plan[u]: the statements its flush has left
    locks,      \* <<row, u>>: u's transaction wrote row
    missed,     \* units one of whose UPDATEs found its row gone, unnoticed
    seen        \* seen[u]: units that had committed when u loaded

memory == <<op, members, loaded, found, seen>>
database == <<exists, rows, settings>>
vars == <<database, memory, pc, plan, locks, missed>>

-----------------------------------------------------------------------------

PcStates == {"new", "loaded", "changed", "flush", "done", "failed"}
Ended == {"done", "failed"}
Row == {"organization"} \cup MemberId
Statement == [verb : {"insert", "update", "delete"}, row : Row]

Users(ms) == {m.user : m \in ms}
Owners(ms) == {m \in ms : m.role = "OWNER"}
Committed == {u \in Unit : pc[u] = "done"}

Nothing == [members |-> {}, settings |-> {}]

\* The session's objects go with the session.
Forget(u) ==
    /\ members' = [members EXCEPT ![u] = <<>>]
    /\ loaded' = [loaded EXCEPT ![u] = Nothing]
    /\ found' = [found EXCEPT ![u] = Nothing]

Goto(u, state) == pc' = [pc EXCEPT ![u] = state]

TypeOK ==
    /\ exists \in BOOLEAN
    /\ rows \subseteq Member
    /\ settings \subseteq Unit
    /\ op \in [Unit -> Operation]
    /\ pc \in [Unit -> PcStates]
    /\ members \in [Unit -> Seq(Member)]
    /\ {loaded, found} \subseteq [Unit -> [members : SUBSET Member, settings : SUBSET Unit]]
    /\ plan \in [Unit -> Seq(Statement)]
    /\ locks \subseteq Row \X Unit
    /\ missed \subseteq Unit
    /\ seen \in [Unit -> SUBSET Unit]

Init ==
    /\ \E s \in Scenario : rows = s[1] /\ op = s[2]
    /\ exists = (rows # {})
    /\ settings = {}
    /\ pc = [u \in Unit |-> "new"]
    /\ members = [u \in Unit |-> <<>>]
    /\ loaded = [u \in Unit |-> Nothing]
    /\ found = [u \in Unit |-> Nothing]
    /\ plan = [u \in Unit |-> <<>>]
    /\ locks = {}
    /\ missed = {}
    /\ seen = [u \in Unit |-> {}]

-----------------------------------------------------------------------------
(* What the steps are made of                                              *)

\* Organization.reconstitute, which the repository calls and does not have:
\* the members of the rows, in whatever order these come.
Reconstituted(ms) == SetToSeqs(ms)

\* The member that u adds; create() makes an owner of the user it is given.
NewMember(u) ==
    [id |-> u, user |-> op[u].user,
     role |-> IF op[u].kind = "create" THEN "OWNER" ELSE op[u].role]

\* The first member of that user decides, and owners are counted in memory.
IsLastOwner(list, user) ==
    /\ \E i \in DOMAIN list :
        /\ list[i].user = user /\ list[i].role = "OWNER"
        /\ \A j \in 1..(i - 1) : list[j].user # user
    /\ Cardinality(Owners(Range(list))) <= 1

\* Members ms, all of them in list, in the order list has them: the one such
\* sequence, since no list has a member twice.
InOrder(ms, list) ==
    {s \in SetToSeqs(ms) : \A i, j \in DOMAIN s : i < j =>
        \E k, l \in DOMAIN list : k < l /\ s[i] = list[k] /\ s[j] = list[l]}

\* A mutant: what clear() takes out is deleted, whatever is appended.
DroppedAll(u, there) == there

\* What save() makes of the aggregate: its members that are there, those that
\* are not, and the ones that are there and not in it.
Kept(u, there) == Range(members[u]) \cap there
Added(u, there) == Range(members[u]) \ there
Dropped(u, there) == there \ Range(members[u])

\* The aggregate's settings: dict.update on the loaded ones.
OwnSettings(u) == loaded[u].settings \cup (IF op[u].kind = "settings" THEN {u} ELSE {})

Ids(ms) == {m.id : m \in ms}
Statements(verb, ids) == [i \in DOMAIN ids |-> [verb |-> verb, row |-> ids[i]]]

IsThere(row) == IF row = "organization" THEN exists ELSE \E m \in rows : m.id = row

\* u's next statement, and the unit whose transaction it waits for.
Running(u, verb) == pc[u] = "flush" /\ plan[u] # <<>> /\ Head(plan[u]).verb = verb
WaitsFor(u, v) == u # v /\ pc[u] = "flush" /\ plan[u] # <<>> /\ <<Head(plan[u]).row, v>> \in locks
Granted(u) == \A v \in Unit : ~WaitsFor(u, v)

NextStatement(u) == plan' = [plan EXCEPT ![u] = Tail(@)]

\* Out of the block with an exception: __aexit__ rolls back.
RollBack(u) ==
    /\ Goto(u, "failed")
    /\ locks' = {l \in locks : l[2] # u}
    /\ plan' = [plan EXCEPT ![u] = <<>>]
    /\ Forget(u)
    /\ UNCHANGED <<database, op, seen, missed>>

-----------------------------------------------------------------------------
(* Mutants: plausible bugs, none of them a step of Next.                   *)

\* add_member without its check.
AddUnchecked(u) ==
    /\ pc[u] = "loaded"
    /\ op[u].kind \in {"create", "add"}
    /\ members' = [members EXCEPT ![u] = Append(@, NewMember(u))]
    /\ Goto(u, "changed")
    /\ UNCHANGED <<database, op, loaded, found, seen, plan, locks, missed>>

\* The "more robust approach" of the comment in save(), computed from what was
\* loaded: only differences.
SaveDifferences(u) ==
    /\ pc[u] = "changed"
    /\ found' = [found EXCEPT ![u] = loaded[u]]
    /\ plan' = [plan EXCEPT ![u] =
          IF op[u].kind = "create" THEN Statements("insert", <<"organization", u>>)
          ELSE Statements("insert", SetToSeq(Ids(Added(u, loaded[u].members))))
                   \o Statements("delete", SetToSeq(Ids(Dropped(u, loaded[u].members))))]
    /\ Goto(u, "flush")
    /\ UNCHANGED <<database, op, members, loaded, seen, locks, missed>>

\* An aborted unit leaves its transaction open.
DeadlockAgain(u) ==
    /\ \E S \in SUBSET Unit :
        /\ u \in S
        /\ \A v \in S : (\E w \in S : WaitsFor(v, w)) /\ (\E w \in S : WaitsFor(w, v))
    /\ Goto(u, "failed")
    /\ plan' = [plan EXCEPT ![u] = <<>>]
    /\ UNCHANGED <<database, memory, locks, missed>>

-----------------------------------------------------------------------------
(* The command: load, change, save                                         *)

\* get_by_id: session.get and the members in whatever order they come.
Load(u) ==
    /\ pc[u] = "new"
    /\ op[u].kind # "create"
    /\ exists
    /\ \E list \in Reconstituted(rows) : members' = [members EXCEPT ![u] = list]
    /\ loaded' = [loaded EXCEPT ![u] = [members |-> rows, settings |-> settings]]
    /\ seen' = [seen EXCEPT ![u] = Committed]
    /\ Goto(u, "loaded")
    /\ UNCHANGED <<database, op, found, plan, locks, missed>>

\* get_by_slug finds no organization with this slug.
SlugIsFree(u) ==
    /\ pc[u] = "new"
    /\ op[u].kind = "create"
    /\ ~exists
    /\ seen' = [seen EXCEPT ![u] = Committed]
    /\ Goto(u, "loaded")
    /\ UNCHANGED <<database, op, members, loaded, found, plan, locks, missed>>

\* The slug is taken, or there is no such organization.
LookupFails(u) ==
    /\ pc[u] = "new"
    /\ exists = (op[u].kind = "create")
    /\ Goto(u, "failed")
    /\ UNCHANGED <<database, memory, plan, locks, missed>>

\* Organization.add_member; create() calls it on an empty list.
AddMember(u) ==
    /\ pc[u] = "loaded"
    /\ op[u].kind \in {"create", "add"}
    /\ op[u].user \notin Users(Range(members[u]))
    /\ members' = [members EXCEPT ![u] = Append(@, NewMember(u))]
    /\ Goto(u, "changed")
    /\ UNCHANGED <<database, op, loaded, found, seen, plan, locks, missed>>

\* A user who is not a member is removed without a word.
RemoveMember(u) ==
    /\ pc[u] = "loaded"
    /\ op[u].kind = "remove"
    /\ ~IsLastOwner(members[u], op[u].user)
    /\ \E rest \in InOrder({m \in Range(members[u]) : m.user # op[u].user}, members[u]) :
        members' = [members EXCEPT ![u] = rest]
    /\ Goto(u, "changed")
    /\ UNCHANGED <<database, op, loaded, found, seen, plan, locks, missed>>

\* Organization.update_settings, for a key of u's own.
UpdateSettings(u) ==
    /\ pc[u] = "loaded"
    /\ op[u].kind = "settings"
    /\ Goto(u, "changed")
    /\ UNCHANGED <<database, memory, plan, locks, missed>>

\* "already a member", "the last owner": ValueError, and the unit rolls back.
RuleViolated(u) ==
    /\ pc[u] = "loaded"
    /\ \/ op[u].kind = "add" /\ op[u].user \in Users(Range(members[u]))
       \/ op[u].kind = "remove" /\ IsLastOwner(members[u], op[u].user)
    /\ RollBack(u)

\* save(): session.get, by which the organization's row is written if its
\* settings are others, and the members as the header says.  flush() is awaited.
Save(u) ==
    /\ pc[u] = "changed"
    /\ found' = [found EXCEPT ![u] =
          IF op[u].kind = "create" THEN Nothing ELSE [members |-> rows, settings |-> settings]]
    /\ \E kept \in InOrder(Kept(u, rows), members[u]) :
        plan' = [plan EXCEPT ![u] =
            IF op[u].kind = "create" THEN Statements("insert", <<"organization", u>>)
            ELSE Statements("update", (IF OwnSettings(u) # settings THEN <<"organization">> ELSE <<>>)
                                          \o [i \in DOMAIN kept |-> kept[i].id])
                     \o Statements("insert", SetToSeq(Ids(Added(u, rows))))
                     \o Statements("delete", SetToSeq(Ids(Dropped(u, rows))))]
    /\ Goto(u, "flush")
    /\ UNCHANGED <<database, op, members, loaded, seen, locks, missed>>

-----------------------------------------------------------------------------
(* The flush and the transaction                                           *)

\* The statement writes its row: an UPDATE or DELETE one that is there, an
\* INSERT one that is not.
Written(u) ==
    /\ \E verb \in {"insert", "update", "delete"} :
        /\ Running(u, verb)
        /\ IsThere(Head(plan[u]).row) = (verb # "insert")
    /\ Granted(u)
    /\ locks' = locks \cup {<<Head(plan[u]).row, u>>}
    /\ NextStatement(u)
    /\ UNCHANGED <<database, memory, pc, missed>>

\* The row of a kept member is gone, and nobody counts the rows of many.
UpdateMisses(u) ==
    /\ Running(u, "update")
    /\ ~IsThere(Head(plan[u]).row)
    /\ Cardinality(Kept(u, found[u].members)) > 1
    /\ missed' = missed \cup {u}
    /\ NextStatement(u)
    /\ UNCHANGED <<database, memory, pc, locks>>

\* A row that is already gone is deleted with a warning.
DeleteMisses(u) ==
    /\ Running(u, "delete")
    /\ ~IsThere(Head(plan[u]).row)
    /\ NextStatement(u)
    /\ UNCHANGED <<database, memory, pc, locks, missed>>

\* The only kept member's row is gone.
StaleData(u) ==
    /\ Running(u, "update")
    /\ ~IsThere(Head(plan[u]).row)
    /\ Cardinality(Kept(u, found[u].members)) = 1
    /\ RollBack(u)

\* The unique index on the slug, or the primary key of a member who is back.
Conflict(u) ==
    /\ Running(u, "insert")
    /\ Granted(u)
    /\ IsThere(Head(plan[u]).row)
    /\ RollBack(u)

\* PostgreSQL aborts one transaction of a circle of waiting ones.
DeadlockDetected(u) ==
    /\ \E S \in SUBSET Unit :
        /\ u \in S
        /\ \A v \in S : (\E w \in S : WaitsFor(v, w)) /\ (\E w \in S : WaitsFor(w, v))
    /\ RollBack(u)

\* The command raises, is cancelled or loses its connection.
Abandon(u) ==
    /\ pc[u] \notin Ended \cup {"new"}
    /\ RollBack(u)

\* uow.commit(), and the block is left.  A row that a DELETE missed may be back.
Commit(u) ==
    /\ pc[u] = "flush"
    /\ plan[u] = <<>>
    /\ exists' = TRUE
    /\ rows' = (rows \ {m \in Dropped(u, found[u].members) : <<m.id, u>> \in locks})
                   \cup Added(u, found[u].members)
    /\ settings' = IF OwnSettings(u) # found[u].settings THEN OwnSettings(u) ELSE settings
    /\ locks' = {l \in locks : l[2] # u}
    /\ Forget(u)
    /\ Goto(u, "done")
    /\ UNCHANGED <<op, seen, plan, missed>>

-----------------------------------------------------------------------------

Step(u) ==
    \/ Load(u) \/ SlugIsFree(u) \/ LookupFails(u)
    \/ AddMember(u) \/ RemoveMember(u) \/ UpdateSettings(u) \/ RuleViolated(u)
    \/ Save(u) \/ Written(u) \/ UpdateMisses(u) \/ DeleteMisses(u)
    \/ StaleData(u) \/ Conflict(u) \/ DeadlockDetected(u) \/ Commit(u)

Next == \E u \in Unit : Step(u) \/ Abandon(u)

Spec == Init /\ [][Next]_vars

\* The event loop runs ready tasks, the database answers and finds deadlocks.
FairSpec == Spec /\ \A u \in Unit : WF_vars(Step(u))

-----------------------------------------------------------------------------
(* Properties                                                              *)

\* Neither of two committed units saw the other's change.
Overlap(u, v) == u # v /\ u \notin seen[v] /\ v \notin seen[u]

\* A unit added the user while another was under way, which may have added the
\* user too, or put back an earlier membership that it had loaded.
MaybeTwice(user) ==
    \E u, v \in Committed : Overlap(u, v) /\ op[u].kind = "add" /\ op[u].user = user

\* An organization keeps an owner although every unit counts the owners in its
\* own memory: of two units that remove the last two, the second puts the first
\* one's owner back, finds its row gone, or waits and is aborted.  That takes a
\* missing row to be noticed, and an owner not to be counted twice.
LastOwnerStays ==
    exists /\ missed = {} /\ (\A user \in User : ~MaybeTwice(user)) => Owners(rows) # {}

\* What u was asked for is in the database.
Effective(u) ==
    /\ op[u].kind = "settings" => u \in settings
    /\ op[u].kind = "remove" => \A m \in rows : m.user = op[u].user => m.id \in Unit
    /\ op[u].kind \in {"create", "add"} =>
        u \in Ids(rows) \/ \E v \in Committed : op[v].kind = "remove" /\ op[v].user = op[u].user

\* Whatever is lost takes two units that did not see each other: a user is a
\* member twice (add_member looks in memory, and there is no unique index; of
\* the two one may be what save() puts back); a committed settings key is gone,
\* an added member is gone or a removed one is back (the document and the
\* members are written whole).
AnomaliesNeedOverlap ==
    /\ \A m, n \in rows : m # n /\ m.user = n.user => MaybeTwice(m.user)
    /\ \A u \in Committed : Effective(u) \/ \E v \in Committed : Overlap(u, v)

\* save() replaces the members as a whole, and yet a unit that commits undoes
\* only what others have committed since it loaded: it takes nobody out whom it
\* had loaded but the user it removes, and puts nobody in whom it had not but
\* the one it adds.
OnlyTheUnseenUndone ==
    [][\A u \in Unit : Committed' = Committed \cup {u} /\ Committed' # Committed =>
        /\ \A m \in rows \ rows' :
            (op[u].kind = "remove" /\ m.user = op[u].user) \/ m \notin loaded[u].members
        /\ \A m \in rows' \ rows : m.id = u \/ m \in loaded[u].members]_vars

\* Units that wait for each other's rows come to an end all the same.
UnitsEnd == \A u \in Unit : pc[u] # "new" ~> pc[u] \in Ended
=============================================================================
