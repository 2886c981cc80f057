------------------------------- MODULE Cache --------------------------------
(***************************************************************************)
(* CacheManager: values, counters and locks of several clients in one      *)
(* Redis, under keys that start with the tenant's prefix.                  *)
(*                                                                         *)
(* Redis runs one command at a time.  delete_pattern is many: SCAN returns *)
(* pages of the keys it meets, with the promise that a key that is there   *)
(* from the first page to the last is in one of them, and each key of a    *)
(* page is deleted by a command of its own.  Any command may fail, with or *)
(* without having run.                                                     *)
(***************************************************************************)
EXTENDS Naturals, FiniteSets, Functions

CONSTANTS
    Client,     \* tasks that use the cache
    Tenant,     \* tenants
    ScopeOf,    \* ScopeOf[c]: the tenant_id that c passes, or Global
    Global,     \* no tenant_id
    Sweeper,    \* those that use delete_pattern
    Key,        \* the keys in use
    DefaultTTL, \* default_ttl
    LockTTL,    \* the ttl of a lock
    PageSize,   \* bound: the keys of a page
    MaxTTL      \* bound: the other ttl values

\* What a key is for.  "item:*" is the pattern of the items; "*" of all.
Purpose == {"item", "counter", "lock"}
Scope == Tenant \cup {Global}

ASSUME ScopeAssumption == Global \notin Tenant /\ ScopeOf \in [Client -> Scope]
ASSUME SweeperAssumption == Sweeper \subseteq Client
ASSUME KeyAssumption == Key \subseteq [scope : Scope, purpose : Purpose]
ASSUME TTLAssumption == MaxTTL \in Nat /\ DefaultTTL \in 1..MaxTTL /\ LockTTL \in 1..MaxTTL

VARIABLES
    store,      \* Redis: the ttl of every key that is there, 0 when it does not expire
    pc,         \* pc[c]: what c does
    pattern,    \* pattern[c]: the pattern it deletes
    page,       \* page[c]: the keys of the page it has not deleted yet
    owed,       \* owed[c]: those of due[c] that SCAN has not returned yet
    due,        \* due[c]: the matching keys that never left since its first page
    overstayed, \* a lock expired before its holder was done
    swept       \* a pattern took the lock of a holder

scans == <<pattern, page>>
vars == <<store, pc, scans, due, owed, overstayed, swept>>

-----------------------------------------------------------------------------

Present(k) == k \in DOMAIN store

TypeOK ==
    /\ \E present \in SUBSET Key : store \in [present -> 0..MaxTTL]
    /\ pc \in [Client -> {"idle", "section", "scan"}]
    /\ pattern \in [Client -> {"*", "item:*"}]
    /\ page \in [Client -> SUBSET Key]
    /\ owed \in [Client -> SUBSET Key]
    /\ due \in [Client -> SUBSET Key]
    /\ overstayed \in BOOLEAN
    /\ swept \in BOOLEAN

Init ==
    /\ store = [k \in {} |-> 0]
    /\ pc = [c \in Client |-> "idle"]
    /\ pattern = [c \in Client |-> "*"]
    /\ page = [c \in Client |-> {}]
    /\ owed = [c \in Client |-> {}]
    /\ due = [c \in Client |-> {}]
    /\ overstayed = FALSE
    /\ swept = FALSE

\* _build_key on a key, and on a pattern: without a tenant "*" is "converse:*"
\* and matches the keys of every tenant.
Mine(c, k) == k.scope = ScopeOf[c]
Matches(c, p, k) ==
    CASE p = "*" -> ScopeOf[c] = Global \/ Mine(c, k)
      [] p = "item:*" -> Mine(c, k) /\ k.purpose = "item"

\* A command: Redis becomes new.
Execute(new) ==
    /\ store' = new
    /\ due' = [c \in Client |-> due[c] \cap DOMAIN new]
    /\ owed' = [c \in Client |-> owed[c] \cap DOMAIN new]
Write(k, ttl) == Execute([x \in DOMAIN store \cup {k} |-> IF x = k THEN ttl ELSE store[x]])
Drop(k) == Execute(Restrict(store, DOMAIN store \ {k}))

Locks(c) == {k \in Key : k.purpose = "lock" /\ Mine(c, k)}
Holds(c, k) == pc[c] = "section" /\ Mine(c, k) /\ k.purpose = "lock"

-----------------------------------------------------------------------------
(* Mutants: plausible bugs, none of them a step of Next.                   *)

\* The ttl goes to Redis as it was given: ex=0 or None is no expiry.
SetAsGiven(c) ==
    /\ pc[c] = "idle"
    /\ \E k \in Key, ttl \in 0..MaxTTL :
        /\ Mine(c, k) /\ k.purpose # "lock"
        /\ Write(k, ttl)
    /\ UNCHANGED <<pc, scans, overstayed, swept>>

\* delete_pattern calls self.delete(key), which puts the prefix on again.
DeletePrefixedTwice(c) ==
    /\ pc[c] = "scan"
    /\ \E k \in page[c] : page' = [page EXCEPT ![c] = @ \ {k}]
    /\ UNCHANGED <<store, pc, pattern, due, owed, overstayed, swept>>

\* SET without NX.
AcquireAnyway(c) ==
    /\ pc[c] = "idle"
    /\ \E k \in Locks(c) : Write(k, LockTTL)
    /\ pc' = [pc EXCEPT ![c] = "section"]
    /\ UNCHANGED <<scans, overstayed, swept>>

\* SETNX, which takes no expiry, and the answer is lost.
AcquireForEver(c) ==
    /\ pc[c] = "idle"
    /\ \E k \in Locks(c) : ~Present(k) /\ Write(k, 0)
    /\ UNCHANGED <<pc, scans, overstayed, swept>>

\* The pattern is not put behind the tenant's prefix.
StartEverywhere(c) ==
    /\ c \in Sweeper
    /\ pc[c] = "idle"
    /\ \E p \in {"*", "item:*"} : pattern' = [pattern EXCEPT ![c] = p]
    /\ page' = [page EXCEPT ![c] = {k \in Key : Present(k)}]
    /\ pc' = [pc EXCEPT ![c] = "scan"]
    /\ UNCHANGED <<store, due, owed, overstayed, swept>>

-----------------------------------------------------------------------------
(* Values and counters                                                     *)

\* set(): "ttl or default" makes the default of 0 and of None.
Set(c) ==
    /\ pc[c] = "idle"
    /\ \E k \in Key, ttl \in 0..MaxTTL :
        /\ Mine(c, k) /\ k.purpose # "lock"
        /\ Write(k, IF ttl = 0 THEN DefaultTTL ELSE ttl)
    /\ UNCHANGED <<pc, scans, overstayed, swept>>

Delete(c) ==
    /\ pc[c] = "idle"
    /\ \E k \in Key : Mine(c, k) /\ k.purpose # "lock" /\ Drop(k)
    /\ UNCHANGED <<pc, scans, overstayed, swept>>

\* increment(): INCRBY keeps the expiry of the entry, and gives a new one none.
Increment(c) ==
    /\ pc[c] = "idle"
    /\ \E k \in Key :
        /\ Mine(c, k) /\ k.purpose = "counter"
        /\ Write(k, IF Present(k) THEN store[k] ELSE 0)
    /\ UNCHANGED <<pc, scans, overstayed, swept>>

-----------------------------------------------------------------------------
(* Locks                                                                   *)

\* set_with_nx(): True, and the caller enters its section.
Acquire(c) ==
    /\ pc[c] = "idle"
    /\ \E k \in Locks(c) : ~Present(k) /\ Write(k, LockTTL)
    /\ pc' = [pc EXCEPT ![c] = "section"]
    /\ UNCHANGED <<scans, overstayed, swept>>

\* The command ran and its answer was lost: nobody is in the section.
AcquireUnanswered(c) ==
    /\ pc[c] = "idle"
    /\ \E k \in Locks(c) : ~Present(k) /\ Write(k, LockTTL)
    /\ UNCHANGED <<pc, scans, overstayed, swept>>

\* The section ends with delete(), which asks nobody whose lock it is.
Release(c) ==
    /\ pc[c] = "section"
    /\ \E k \in Locks(c) : Drop(k)
    /\ pc' = [pc EXCEPT ![c] = "idle"]
    /\ UNCHANGED <<scans, overstayed, swept>>

\* It ends without it: delete() fails, or the client does.
Leave(c) ==
    /\ pc[c] = "section"
    /\ pc' = [pc EXCEPT ![c] = "idle"]
    /\ UNCHANGED <<store, scans, due, owed, overstayed, swept>>

-----------------------------------------------------------------------------
(* delete_pattern                                                          *)

Start(c) ==
    /\ c \in Sweeper
    /\ pc[c] = "idle"
    /\ \E p \in {"*", "item:*"} :
        /\ pattern' = [pattern EXCEPT ![c] = p]
        /\ due' = [due EXCEPT ![c] = {k \in Key : Matches(c, p, k) /\ Present(k)}]
    /\ owed' = [owed EXCEPT ![c] = due'[c]]
    /\ page' = [page EXCEPT ![c] = {}]
    /\ pc' = [pc EXCEPT ![c] = "scan"]
    /\ UNCHANGED <<store, overstayed, swept>>

\* SCAN: a page of keys that are there, one or the other for the second time.
ScanPage(c) ==
    /\ pc[c] = "scan"
    /\ page[c] = {}
    /\ \E found \in SUBSET {k \in Key : Present(k) /\ Matches(c, pattern[c], k)} :
        /\ Cardinality(found) <= PageSize
        /\ page' = [page EXCEPT ![c] = found]
        /\ owed' = [owed EXCEPT ![c] = @ \ found]
    /\ UNCHANGED <<store, pc, pattern, due, overstayed, swept>>

\* The keys of a page are deleted one by one, whatever is there by then.
DeleteFound(c) ==
    /\ pc[c] = "scan"
    /\ \E k \in page[c] :
        /\ page' = [page EXCEPT ![c] = @ \ {k}]
        /\ Drop(k)
        /\ swept' = (swept \/ \E d \in Client : Holds(d, k))
    /\ UNCHANGED <<pc, pattern, overstayed>>

Finish(c) ==
    /\ pc' = [pc EXCEPT ![c] = "idle"]
    /\ pattern' = [pattern EXCEPT ![c] = "*"]
    /\ page' = [page EXCEPT ![c] = {}]
    /\ owed' = [owed EXCEPT ![c] = {}]
    /\ due' = [due EXCEPT ![c] = {}]
    /\ UNCHANGED <<store, overstayed, swept>>

\* SCAN's cursor is back where it began.
EndPattern(c) ==
    /\ pc[c] = "scan"
    /\ page[c] = {}
    /\ owed[c] = {}
    /\ Finish(c)

\* A command fails: the caller gets the exception, the rest of the keys stays.
PatternFails(c) ==
    /\ pc[c] = "scan"
    /\ Finish(c)

-----------------------------------------------------------------------------

Expires(k) == Present(k) /\ store[k] = 1

\* A unit of time passes for every entry that expires.
Tick ==
    /\ Execute([k \in {x \in DOMAIN store : store[x] # 1} |->
            IF store[k] = 0 THEN 0 ELSE store[k] - 1])
    /\ overstayed' = (overstayed \/ \E k \in Key, c \in Client : Expires(k) /\ Holds(c, k))
    /\ UNCHANGED <<pc, scans, swept>>

Step(c) ==
    \/ Set(c) \/ Delete(c) \/ Increment(c)
    \/ Acquire(c) \/ AcquireUnanswered(c) \/ Release(c) \/ Leave(c)
    \/ Start(c) \/ ScanPage(c) \/ DeleteFound(c) \/ EndPattern(c) \/ PatternFails(c)

Next == Tick \/ \E c \in Client : Step(c)

Spec == Init /\ [][Next]_vars

\* Time passes.
FairSpec == Spec /\ WF_vars(Tick)

-----------------------------------------------------------------------------
(* Properties                                                              *)

\* Two clients are in the section of one lock only after a holder outstayed
\* the ttl, whose delete() may then take the next one's lock, or after
\* delete_pattern("*") took a lock.
LocksExclude ==
    \A c, d \in Client : c # d /\ ScopeOf[c] = ScopeOf[d] /\ pc[c] = "section" /\ pc[d] = "section" =>
        overstayed \/ swept

\* A lock is free again although its holder, or the answer that it was taken,
\* is lost.
LocksAreFreed ==
    \A k \in Key : k.purpose = "lock" => (Present(k) ~> ~Present(k))

\* Only counters live for ever: those whose first or next increment() came
\* when no entry was there to lend its expiry.
OnlyCountersStay ==
    \A k \in Key : Present(k) /\ store[k] = 0 => k.purpose = "counter"

\* When delete_pattern returns, no key is left that was there all along,
\* whatever was set, deleted or expired under the scan.
PatternKeysGone == [][\A c \in Client : EndPattern(c) => due[c] = {}]_vars

Touched(k) ==
    \/ Present(k) # Present(k)'
    \/ Present(k) /\ Present(k)' /\ store'[k] # store[k]

\* What runs for a tenant writes and deletes the tenant's keys alone, and what
\* runs for none touches a tenant's only with the pattern "*".
TenantsApart ==
    [][\A c \in Client : Step(c) => \A k \in Key : Touched(k) =>
        \/ k.scope = ScopeOf[c]
        \/ ScopeOf[c] = Global /\ pc[c] = "scan" /\ pattern[c] = "*"]_vars
=============================================================================
