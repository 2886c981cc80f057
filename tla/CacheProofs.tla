---------------------------- MODULE CacheProofs -----------------------------
(***************************************************************************)
(* What holds of the cache for any clients, tenants, keys and times to     *)
(* live: who may be in a section, what stays for ever, what a pattern has  *)
(* deleted when it returns, and whose keys anybody touches.                *)
(***************************************************************************)
EXTENDS Cache, TLAPS

\* A lock is there as long as somebody who has not outstayed it is in its
\* section, and nobody else is.
LockInv ==
    overstayed \/ swept \/
    \A c \in Client : pc[c] = "section" =>
        /\ \A k \in Locks(c) : Present(k)
        /\ \A d \in Client : pc[d] = "section" /\ ScopeOf[c] = ScopeOf[d] => c = d

\* What matched and never left is still to come or on the page, and a page has
\* nothing but what matches.
ScanInv ==
    \A c \in Client : pc[c] = "scan" =>
        /\ due[c] \subseteq owed[c] \cup page[c]
        /\ \A k \in page[c] : Matches(c, pattern[c], k)

CacheInv == TypeOK /\ OnlyCountersStay /\ LockInv /\ ScanInv

-----------------------------------------------------------------------------
(* Commands                                                                *)

\* Whatever Redis becomes, the scans under way keep what they promise.
LEMMA ExecuteScans ==
    ASSUME CacheInv, NEW new, NEW present \in SUBSET Key, new \in [present -> 0..MaxTTL],
           Execute(new), UNCHANGED scans,
           \A c \in Client : pc'[c] = "scan" => pc[c] = "scan"
    PROVE  /\ \E p \in SUBSET Key : store' \in [p -> 0..MaxTTL]
           /\ due' \in [Client -> SUBSET Key]
           /\ owed' \in [Client -> SUBSET Key]
           /\ ScanInv'
BY DEF CacheInv, TypeOK, ScanInv, Execute, scans, Matches, Mine

LEMMA Written ==
    ASSUME TypeOK, NEW k \in Key, NEW ttl \in 0..MaxTTL, Write(k, ttl)
    PROVE  /\ \E present \in SUBSET Key :
                \E new \in [present -> 0..MaxTTL] : Execute(new)
           /\ DOMAIN store' = DOMAIN store \cup {k}
           /\ store'[k] = ttl
           /\ \A x \in DOMAIN store : x # k => store'[x] = store[x]
<1> DEFINE new == [x \in DOMAIN store \cup {k} |-> IF x = k THEN ttl ELSE store[x]]
<1>1. PICK present \in SUBSET Key : store \in [present -> 0..MaxTTL]
  BY DEF TypeOK
<1>2. DOMAIN store \cup {k} \in SUBSET Key /\ new \in [DOMAIN store \cup {k} -> 0..MaxTTL]
  BY <1>1
<1>3. Execute(new) /\ store' = new
  BY DEF Write, Execute
<1> QED
  BY <1>2, <1>3

LEMMA Dropped ==
    ASSUME TypeOK, NEW k, Drop(k)
    PROVE  /\ \E present \in SUBSET Key :
                \E new \in [present -> 0..MaxTTL] : Execute(new)
           /\ DOMAIN store' = DOMAIN store \ {k}
           /\ \A x \in DOMAIN store' : store'[x] = store[x]
           /\ due' = [c \in Client |-> due[c] \cap (DOMAIN store \ {k})]
           /\ owed' = [c \in Client |-> owed[c] \cap (DOMAIN store \ {k})]
<1> DEFINE new == Restrict(store, DOMAIN store \ {k})
<1>1. PICK present \in SUBSET Key : store \in [present -> 0..MaxTTL]
  BY DEF TypeOK
<1>2. new = [x \in DOMAIN store \ {k} |-> store[x]]
  BY DEF Restrict
<1>3. DOMAIN store \ {k} \in SUBSET Key /\ new \in [DOMAIN store \ {k} -> 0..MaxTTL]
  BY <1>1, <1>2
<1>4. Execute(new) /\ store' = new
  BY DEF Drop, Execute
<1> QED
  BY <1>2, <1>3, <1>4 DEF Execute

\* A tenant, or no tenant, has one lock.
LEMMA OneLock ==
    ASSUME NEW c \in Client, NEW d \in Client, NEW k \in Locks(c), NEW l \in Locks(d)
    PROVE  (k = l) <=> (ScopeOf[c] = ScopeOf[d])
BY KeyAssumption DEF Locks, Mine

-----------------------------------------------------------------------------
(* The invariant                                                           *)

LEMMA CacheInitially == Init => CacheInv
<1> SUFFICES ASSUME Init PROVE CacheInv
  OBVIOUS
<1>1. store \in [{} -> 0..MaxTTL] /\ DOMAIN store = {}
  BY DEF Init
<1> QED
  BY <1>1 DEF Init, CacheInv, TypeOK, OnlyCountersStay, LockInv, ScanInv, Present

\* Commands of clients that enter no section and leave none: they write no
\* lock, or one that was not there.
LEMMA WritePreserves ==
    ASSUME CacheInv, NEW c \in Client, NEW k \in Key, NEW ttl \in 0..MaxTTL, Write(k, ttl),
           UNCHANGED <<pc, scans, overstayed, swept>>,
           ttl = 0 => k.purpose = "counter"
    PROVE  CacheInv'
<1>1. TypeOK
  BY DEF CacheInv
<1>2. /\ DOMAIN store' = DOMAIN store \cup {k}
      /\ store'[k] = ttl
      /\ \A x \in DOMAIN store : x # k => store'[x] = store[x]
  BY <1>1, Written
<1>3. /\ \E p \in SUBSET Key : store' \in [p -> 0..MaxTTL]
      /\ due' \in [Client -> SUBSET Key]
      /\ owed' \in [Client -> SUBSET Key]
      /\ ScanInv'
  BY <1>1, Written, ExecuteScans
<1>4. TypeOK'
  BY <1>1, <1>3 DEF TypeOK, scans
<1>5. OnlyCountersStay'
  BY <1>2 DEF CacheInv, OnlyCountersStay, Present
<1>6. LockInv'
  BY <1>2 DEF CacheInv, LockInv, Present, Locks, Mine
<1> QED
  BY <1>3, <1>4, <1>5, <1>6 DEF CacheInv

LEMMA SetPreserves ==
    ASSUME CacheInv, NEW c \in Client, Set(c) \/ Increment(c) \/ AcquireUnanswered(c)
    PROVE  CacheInv'
<1>1. CASE Set(c)
  <2>1. PICK k \in Key, ttl \in 0..MaxTTL : Write(k, IF ttl = 0 THEN DefaultTTL ELSE ttl)
    BY <1>1 DEF Set
  <2> DEFINE n == IF ttl = 0 THEN DefaultTTL ELSE ttl
  <2>2. n \in 0..MaxTTL /\ n # 0
    BY TTLAssumption
  <2> HIDE DEF n
  <2> QED
    BY <1>1, <2>1, <2>2, WritePreserves DEF Set, n
<1>2. CASE Increment(c)
  <2>1. PICK k \in Key : k.purpose = "counter" /\ Write(k, IF Present(k) THEN store[k] ELSE 0)
    BY <1>2 DEF Increment
  <2> DEFINE n == IF Present(k) THEN store[k] ELSE 0
  <2>2. n \in 0..MaxTTL
    <3>1. PICK present \in SUBSET Key : store \in [present -> 0..MaxTTL]
      BY DEF CacheInv, TypeOK
    <3> QED
      BY <3>1, TTLAssumption DEF Present
  <2> HIDE DEF n
  <2> QED
    BY <1>2, <2>1, <2>2, WritePreserves DEF Increment, n
<1>3. CASE AcquireUnanswered(c)
  <2>1. PICK k \in Locks(c) : Write(k, LockTTL)
    BY <1>3 DEF AcquireUnanswered
  <2>2. k \in Key /\ LockTTL \in 0..MaxTTL /\ LockTTL # 0
    BY TTLAssumption DEF Locks
  <2> QED
    BY <1>3, <2>1, <2>2, WritePreserves DEF AcquireUnanswered
<1> QED
  BY <1>1, <1>2, <1>3

\* Nobody is in the section of a lock that is not there.
LEMMA AcquirePreserves ==
    ASSUME CacheInv, NEW c \in Client, Acquire(c)
    PROVE  CacheInv'
<1>1. TypeOK
  BY DEF CacheInv
<1>2. PICK k \in Locks(c) : ~Present(k) /\ Write(k, LockTTL)
  BY DEF Acquire
<1>3. k \in Key /\ LockTTL \in 0..MaxTTL /\ LockTTL # 0
  BY TTLAssumption DEF Locks
<1>4. /\ DOMAIN store' = DOMAIN store \cup {k}
      /\ store'[k] = LockTTL
      /\ \A x \in DOMAIN store : x # k => store'[x] = store[x]
  BY <1>1, <1>2, <1>3, Written
<1>5. /\ pc' = [pc EXCEPT ![c] = "section"]
      /\ UNCHANGED <<scans, overstayed, swept>>
  BY DEF Acquire
<1>6. /\ \E p \in SUBSET Key : store' \in [p -> 0..MaxTTL]
      /\ due' \in [Client -> SUBSET Key]
      /\ owed' \in [Client -> SUBSET Key]
      /\ ScanInv'
  <2>1. \A d \in Client : pc'[d] = "scan" => pc[d] = "scan"
    BY <1>1, <1>5 DEF TypeOK
  <2> QED
    BY <1>1, <1>2, <1>3, <1>5, <2>1, Written, ExecuteScans
<1>7. TypeOK'
  BY <1>1, <1>5, <1>6 DEF TypeOK, scans
<1>8. OnlyCountersStay'
  BY <1>3, <1>4 DEF CacheInv, OnlyCountersStay, Present
<1>9. LockInv'
  <2> SUFFICES ASSUME ~overstayed, ~swept, NEW d \in Client, pc'[d] = "section"
               PROVE  /\ \A l \in Locks(d) : Present(l)'
                      /\ \A e \in Client : pc'[e] = "section" /\ ScopeOf[d] = ScopeOf[e] => d = e
    BY <1>5 DEF LockInv, Locks, Mine
  <2>1. \A e \in Client \ {c} : ScopeOf[e] = ScopeOf[c] => pc'[e] # "section"
    <3>1. ASSUME NEW e \in Client, e # c, ScopeOf[e] = ScopeOf[c], pc[e] = "section" PROVE FALSE
      <4>1. k \in Locks(e)
        BY <3>1 DEF Locks, Mine
      <4> QED
        BY <1>2, <3>1, <4>1 DEF CacheInv, LockInv
    <3> QED
      BY <1>1, <1>5, <3>1 DEF TypeOK
  <2>2. \A l \in Locks(d) : Present(l)'
    <3>1. CASE d = c
      <4>1. \A l \in Locks(c) : l = k
        BY OneLock
      <4> QED
        BY <1>4, <3>1, <4>1 DEF Present
    <3>2. CASE d # c
      BY <1>1, <1>4, <1>5, <3>2 DEF CacheInv, LockInv, Present, TypeOK
    <3> QED
      BY <3>1, <3>2
  <2>3. \A e \in Client : pc'[e] = "section" /\ ScopeOf[d] = ScopeOf[e] => d = e
    BY <1>1, <1>5, <2>1 DEF CacheInv, LockInv, TypeOK
  <2> QED
    BY <2>2, <2>3
<1> QED
  BY <1>6, <1>7, <1>8, <1>9 DEF CacheInv

\* A key is deleted by a client that holds it, by one to which it is no lock,
\* or by a pattern that takes note.
LEMMA DropPreserves ==
    ASSUME CacheInv, NEW k \in Key, Drop(k), UNCHANGED <<pattern, overstayed>>,
           TypeOK', ScanInv',
           \A c \in Client : pc'[c] = "section" => pc[c] = "section",
           swept' \/ \A c \in Client : pc'[c] = "section" => k \notin Locks(c),
           swept => swept'
    PROVE  CacheInv'
<1>1. TypeOK
  BY DEF CacheInv
<1>2. /\ DOMAIN store' = DOMAIN store \ {k}
      /\ \A x \in DOMAIN store' : store'[x] = store[x]
  BY <1>1, Dropped
<1>3. OnlyCountersStay'
  BY <1>2 DEF CacheInv, OnlyCountersStay, Present
<1>4. LockInv'
  BY <1>2 DEF CacheInv, LockInv, Present, Locks, Mine
<1> QED
  BY <1>3, <1>4 DEF CacheInv

LEMMA DeletePreserves ==
    ASSUME CacheInv, NEW c \in Client, Delete(c) \/ Release(c) \/ DeleteFound(c)
    PROVE  CacheInv'
<1>1. TypeOK
  BY DEF CacheInv
<1>2. CASE Delete(c)
  <2>1. PICK k \in Key : k.purpose # "lock" /\ Drop(k)
    BY <1>2 DEF Delete
  <2>2. UNCHANGED <<pc, scans, overstayed, swept>>
    BY <1>2 DEF Delete
  <2>3. /\ \E p \in SUBSET Key : store' \in [p -> 0..MaxTTL]
        /\ due' \in [Client -> SUBSET Key]
        /\ owed' \in [Client -> SUBSET Key]
        /\ ScanInv'
    BY <1>1, <2>1, <2>2, Dropped, ExecuteScans
  <2>4. TypeOK'
    BY <1>1, <2>2, <2>3 DEF TypeOK, scans
  <2> QED
    BY <2>1, <2>2, <2>3, <2>4, DropPreserves DEF scans, Locks
<1>3. CASE Release(c)
  <2>1. PICK k \in Locks(c) : Drop(k)
    BY <1>3 DEF Release
  <2>2. /\ pc[c] = "section" /\ pc' = [pc EXCEPT ![c] = "idle"]
        /\ UNCHANGED <<scans, overstayed, swept>>
    BY <1>3 DEF Release
  <2>3. \A d \in Client : pc'[d] = IF d = c THEN "idle" ELSE pc[d]
    BY <1>1, <2>2 DEF TypeOK
  <2>4. /\ \E p \in SUBSET Key : store' \in [p -> 0..MaxTTL]
        /\ due' \in [Client -> SUBSET Key]
        /\ owed' \in [Client -> SUBSET Key]
        /\ ScanInv'
    <3>1. PICK present \in SUBSET Key : \E new \in [present -> 0..MaxTTL] : Execute(new)
      BY <1>1, <2>1, Dropped
    <3>2. UNCHANGED scans /\ \A d \in Client : pc'[d] = "scan" => pc[d] = "scan"
      BY <2>2, <2>3
    <3> QED
      BY <3>1, <3>2, ExecuteScans
  <2>5. TypeOK'
    BY <1>1, <2>2, <2>4 DEF TypeOK, scans
  <2>6. CASE overstayed \/ swept
    <3>1. DOMAIN store' = DOMAIN store \ {k} /\ \A x \in DOMAIN store' : store'[x] = store[x]
      BY <1>1, <2>1, Dropped
    <3> QED
      BY <2>2, <2>4, <2>5, <2>6, <3>1 DEF CacheInv, LockInv, OnlyCountersStay, Present
  \* Nobody else is in this lock's section.
  <2>7. CASE ~overstayed /\ ~swept
    <3>1. \A d \in Client : pc'[d] = "section" => k \notin Locks(d)
      BY <2>1, <2>2, <2>3, <2>7, OneLock DEF CacheInv, LockInv
    <3> QED
      BY <2>1, <2>2, <2>3, <2>4, <2>5, <3>1, DropPreserves DEF scans, Locks
  <2> QED
    BY <2>6, <2>7
<1>4. CASE DeleteFound(c)
  <2>1. PICK k \in page[c] :
            /\ page' = [page EXCEPT ![c] = @ \ {k}]
            /\ Drop(k)
            /\ swept' = (swept \/ \E d \in Client : Holds(d, k))
    BY <1>4 DEF DeleteFound
  <2>2. k \in Key /\ UNCHANGED <<pc, pattern, overstayed>>
    BY <1>1, <1>4 DEF DeleteFound, TypeOK
  <2>3. \E p \in SUBSET Key : store' \in [p -> 0..MaxTTL]
    BY <1>1, <2>1, Dropped DEF Execute
  <2>4. /\ due' = [d \in Client |-> due[d] \cap (DOMAIN store \ {k})]
        /\ owed' = [d \in Client |-> owed[d] \cap (DOMAIN store \ {k})]
    BY <1>1, <2>1, Dropped
  <2>5. TypeOK'
    BY <1>1, <2>1, <2>2, <2>3, <2>4 DEF TypeOK
  <2>6. ScanInv'
    <3> SUFFICES ASSUME NEW d \in Client, pc[d] = "scan"
                 PROVE  /\ due'[d] \subseteq owed'[d] \cup page'[d]
                        /\ \A x \in page'[d] : Matches(d, pattern[d], x)
      BY <2>2 DEF ScanInv, Matches, Mine
    <3>1. page'[d] = IF d = c THEN page[d] \ {k} ELSE page[d]
      BY <1>1, <2>1 DEF TypeOK
    <3> QED
      BY <2>4, <3>1 DEF CacheInv, ScanInv
  <2>7. swept' \/ \A d \in Client : pc'[d] = "section" => k \notin Locks(d)
    BY <2>1, <2>2 DEF Holds, Locks
  <2> QED
    BY <2>1, <2>2, <2>5, <2>6, <2>7, DropPreserves
<1> QED
  BY <1>2, <1>3, <1>4

\* Steps of a scan, and the end of a section: Redis stays as it is.
LEMMA QuietPreserves ==
    ASSUME CacheInv, NEW c \in Client, NEW state \in {"idle", "scan"},
           pc' = [pc EXCEPT ![c] = state],
           \A d \in Client \ {c} : /\ pattern'[d] = pattern[d] /\ page'[d] = page[d]
                                  /\ owed'[d] = owed[d] /\ due'[d] = due[d],
           UNCHANGED <<store, overstayed, swept>>,
           TypeOK',
           state = "scan" =>
                /\ due'[c] \subseteq owed'[c] \cup page'[c]
                /\ \A k \in page'[c] : Matches(c, pattern'[c], k)
    PROVE  CacheInv'
<1>1. \A d \in Client : pc'[d] = IF d = c THEN state ELSE pc[d]
  BY DEF CacheInv, TypeOK
<1>2. ScanInv'
  <2> SUFFICES ASSUME NEW d \in Client, pc'[d] = "scan"
               PROVE  /\ due'[d] \subseteq owed'[d] \cup page'[d]
                      /\ \A k \in page'[d] : Matches(d, pattern'[d], k)
    BY DEF ScanInv
  <2>1. CASE d = c
    BY <1>1, <2>1
  <2>2. CASE d # c
    BY <1>1, <2>2 DEF CacheInv, ScanInv
  <2> QED
    BY <2>1, <2>2
<1>3. LockInv'
  BY <1>1 DEF CacheInv, LockInv, Present, Locks, Mine
<1> QED
  BY <1>2, <1>3 DEF CacheInv, OnlyCountersStay, Present

LEMMA ScanPreserves ==
    ASSUME CacheInv, NEW c \in Client,
           Leave(c) \/ Start(c) \/ ScanPage(c) \/ EndPattern(c) \/ PatternFails(c)
    PROVE  CacheInv'
<1>1. TypeOK
  BY DEF CacheInv
<1>2. CASE Leave(c)
  BY <1>1, <1>2, QuietPreserves DEF Leave, TypeOK, scans
<1>3. CASE Start(c)
  <2>1. PICK p \in {"*", "item:*"} :
            /\ pattern' = [pattern EXCEPT ![c] = p]
            /\ due' = [due EXCEPT ![c] = {k \in Key : Matches(c, p, k) /\ Present(k)}]
    BY <1>3 DEF Start
  <2>2. /\ owed' = [owed EXCEPT ![c] = due'[c]]
        /\ page' = [page EXCEPT ![c] = {}]
        /\ pc' = [pc EXCEPT ![c] = "scan"]
        /\ UNCHANGED <<store, overstayed, swept>>
    BY <1>3 DEF Start
  <2>3. TypeOK' /\ due'[c] = owed'[c] /\ page'[c] = {}
    BY <1>1, <2>1, <2>2 DEF TypeOK
  <2> QED
    <3>1. \A d \in Client \ {c} : /\ pattern'[d] = pattern[d] /\ page'[d] = page[d]
                                 /\ owed'[d] = owed[d] /\ due'[d] = due[d]
      BY <1>1, <2>1, <2>2 DEF TypeOK
    <3>2. UNCHANGED <<store, overstayed, swept>>
      BY <2>2
    <3> QED
      BY <2>2, <2>3, <3>1, <3>2, QuietPreserves
<1>4. CASE ScanPage(c)
  <2>1. PICK found \in SUBSET {k \in Key : Present(k) /\ Matches(c, pattern[c], k)} :
            /\ page' = [page EXCEPT ![c] = found]
            /\ owed' = [owed EXCEPT ![c] = @ \ found]
    BY <1>4 DEF ScanPage
  <2>2. /\ pc[c] = "scan" /\ page[c] = {}
        /\ UNCHANGED <<store, pc, pattern, due, overstayed, swept>>
    BY <1>4 DEF ScanPage
  <2>3. /\ TypeOK' /\ pc' = [pc EXCEPT ![c] = "scan"]
        /\ page'[c] = found /\ owed'[c] = owed[c] \ found
    BY <1>1, <2>1, <2>2 DEF TypeOK
  <2>4. /\ due'[c] \subseteq owed'[c] \cup page'[c]
        /\ \A k \in page'[c] : Matches(c, pattern'[c], k)
    BY <2>1, <2>2, <2>3 DEF CacheInv, ScanInv
  <2> QED
    <3>1. \A d \in Client \ {c} : /\ pattern'[d] = pattern[d] /\ page'[d] = page[d]
                                 /\ owed'[d] = owed[d] /\ due'[d] = due[d]
      BY <1>1, <2>1, <2>2 DEF TypeOK
    <3>2. UNCHANGED <<store, overstayed, swept>>
      BY <2>2
    <3> QED
      BY <2>3, <2>4, <3>1, <3>2, QuietPreserves
<1>5. CASE EndPattern(c) \/ PatternFails(c)
  <2>1. Finish(c)
    BY <1>5 DEF EndPattern, PatternFails
  <2>2. TypeOK'
    BY <1>1, <2>1 DEF Finish, TypeOK
  <2> QED
    <3>1. /\ pc' = [pc EXCEPT ![c] = "idle"]
          /\ UNCHANGED <<store, overstayed, swept>>
          /\ \A d \in Client \ {c} : /\ pattern'[d] = pattern[d] /\ page'[d] = page[d]
                                   /\ owed'[d] = owed[d] /\ due'[d] = due[d]
      BY <1>1, <2>1 DEF TypeOK, Finish
    <3> QED
      BY <2>2, <3>1, QuietPreserves
<1> QED
  BY <1>2, <1>3, <1>4, <1>5

\* An entry that expires is no counter that stays, and no lock of somebody who
\* has not outstayed it.
LEMMA TickPreserves == CacheInv /\ Tick => CacheInv'
<1> SUFFICES ASSUME CacheInv, Tick PROVE CacheInv'
  OBVIOUS
<1> DEFINE live == {x \in DOMAIN store : store[x] # 1}
           new == [k \in live |-> IF store[k] = 0 THEN 0 ELSE store[k] - 1]
<1>1. /\ Execute(new) /\ store' = new
      /\ overstayed' = (overstayed \/ \E k \in Key, c \in Client : Expires(k) /\ Holds(c, k))
      /\ UNCHANGED <<pc, scans, swept>>
  BY DEF Tick, Execute
<1>2. PICK present \in SUBSET Key : store \in [present -> 0..MaxTTL]
  BY DEF CacheInv, TypeOK
<1>3. live \in SUBSET Key /\ new \in [live -> 0..MaxTTL]
  BY <1>2, TTLAssumption
<1>4. /\ \E p \in SUBSET Key : store' \in [p -> 0..MaxTTL]
      /\ due' \in [Client -> SUBSET Key]
      /\ owed' \in [Client -> SUBSET Key]
      /\ ScanInv'
  BY <1>1, <1>3, ExecuteScans
<1>5. TypeOK'
  BY <1>1, <1>4 DEF CacheInv, TypeOK, scans
<1>6. \A k \in DOMAIN store' : k \in DOMAIN store /\ (store'[k] = 0 => store[k] = 0)
  BY <1>1, <1>2
<1>7. OnlyCountersStay'
  BY <1>6 DEF CacheInv, OnlyCountersStay, Present
<1>8. LockInv'
  <2> SUFFICES ASSUME ~overstayed', ~swept, NEW c \in Client, pc[c] = "section",
                      NEW k \in Locks(c)
               PROVE  k \in DOMAIN store'
    BY <1>1 DEF CacheInv, LockInv, Present, Locks, Mine
  <2>1. ~Expires(k) /\ Present(k)
    BY <1>1 DEF CacheInv, LockInv, Holds, Locks
  <2> QED
    BY <1>1, <2>1 DEF Expires, Present
<1> QED
  BY <1>4, <1>5, <1>7, <1>8 DEF CacheInv

LEMMA CacheStep == CacheInv /\ [Next]_vars => CacheInv'
<1> SUFFICES ASSUME CacheInv, [Next]_vars PROVE CacheInv'
  OBVIOUS
<1>1. CASE UNCHANGED vars
  BY <1>1 DEF vars, scans, CacheInv, TypeOK, OnlyCountersStay, LockInv, ScanInv, Present, Locks, Mine, Matches
<1>2. CASE Tick
  BY <1>2, TickPreserves
<1>3. ASSUME NEW c \in Client, Step(c) PROVE CacheInv'
  BY <1>3, SetPreserves, AcquirePreserves, DeletePreserves, ScanPreserves DEF Step
<1> QED
  BY <1>1, <1>2, <1>3 DEF Next

LEMMA CacheInvInductive == Spec => []CacheInv
BY CacheInitially, CacheStep, PTL DEF Spec

-----------------------------------------------------------------------------
(* The properties                                                          *)

\* Every variable of the cache keeps its type.
THEOREM TypeCorrect == Spec => []TypeOK
<1>1. CacheInv => TypeOK
  BY DEF CacheInv
<1> QED
  BY <1>1, CacheInvInductive, PTL

\* Of any clients, two are in the section of one lock only if somebody
\* outstayed the lock's time to live or a pattern swept it away.
THEOREM SectionsExclude == Spec => []LocksExclude
<1>1. CacheInv => LocksExclude
  BY DEF CacheInv, LockInv, LocksExclude
<1> QED
  BY <1>1, CacheInvInductive, PTL

\* Whatever times to live are asked for, everything but counters expires.
THEOREM NothingElseStays == Spec => []OnlyCountersStay
<1>1. CacheInv => OnlyCountersStay
  BY DEF CacheInv
<1> QED
  BY <1>1, CacheInvInductive, PTL

\* A pattern has deleted what was there all along, for pages of any size and
\* any commands of others under the scan.
THEOREM PatternsDelete == Spec => PatternKeysGone
<1>1. CacheInv => \A c \in Client : EndPattern(c) => due[c] = {}
  BY DEF CacheInv, ScanInv, EndPattern
<1> QED
  BY <1>1, CacheInvInductive, PTL DEF PatternKeysGone

\* A command touches the key it names, and nothing else does.
LEMMA TouchedKeys ==
    ASSUME CacheInv, NEW c \in Client, Step(c), NEW k \in Key, Touched(k)
    PROVE  Mine(c, k) \/ (pc[c] = "scan" /\ k \in page[c])
<1>1. TypeOK
  BY DEF CacheInv
<1>2. ASSUME NEW x \in Key, NEW ttl \in 0..MaxTTL, Write(x, ttl) PROVE k = x
  <2>1. /\ DOMAIN store' = DOMAIN store \cup {x}
        /\ \A y \in DOMAIN store : y # x => store'[y] = store[y]
    BY <1>1, <1>2, Written
  <2> QED
    BY <2>1 DEF Touched, Present
<1>3. ASSUME NEW x \in Key, Drop(x) PROVE k = x
  <2>1. /\ DOMAIN store' = DOMAIN store \ {x}
        /\ \A y \in DOMAIN store' : store'[y] = store[y]
    BY <1>1, <1>3, Dropped
  <2> QED
    BY <2>1 DEF Touched, Present
<1>4. store' # store
  BY DEF Touched, Present
<1>5. CASE Set(c)
  <2>1. PICK x \in Key, ttl \in 0..MaxTTL : Mine(c, x) /\ Write(x, IF ttl = 0 THEN DefaultTTL ELSE ttl)
    BY <1>5 DEF Set
  <2>2. (IF ttl = 0 THEN DefaultTTL ELSE ttl) \in 0..MaxTTL
    BY TTLAssumption
  <2> QED
    BY <1>2, <2>1, <2>2
<1>6. CASE Increment(c)
  <2>1. PICK x \in Key : Mine(c, x) /\ Write(x, IF Present(x) THEN store[x] ELSE 0)
    BY <1>6 DEF Increment
  <2>2. (IF Present(x) THEN store[x] ELSE 0) \in 0..MaxTTL
    <3>1. PICK present \in SUBSET Key : store \in [present -> 0..MaxTTL]
      BY <1>1 DEF TypeOK
    <3> QED
      BY <3>1, TTLAssumption DEF Present
  <2> QED
    BY <1>2, <2>1, <2>2
<1>7. CASE Acquire(c) \/ AcquireUnanswered(c)
  <2>1. LockTTL \in 0..MaxTTL
    BY TTLAssumption
  <2> QED
    BY <1>2, <1>7, <2>1 DEF Acquire, AcquireUnanswered, Locks
<1>8. CASE Delete(c) \/ Release(c) \/ DeleteFound(c)
  BY <1>1, <1>3, <1>8 DEF Delete, Release, DeleteFound, Locks, TypeOK
<1>9. CASE Leave(c) \/ Start(c) \/ ScanPage(c) \/ EndPattern(c) \/ PatternFails(c)
  BY <1>4, <1>9 DEF Leave, Start, ScanPage, EndPattern, PatternFails, Finish
<1> QED
  BY <1>5, <1>6, <1>7, <1>8, <1>9 DEF Step

\* No tenant's key is written or deleted for another tenant, and for nobody
\* only by the pattern that takes all.
THEOREM TenantsStayApart == Spec => TenantsApart
<1>1. CacheInv => \A c \in Client : Step(c) => \A k \in Key : Touched(k) =>
        \/ k.scope = ScopeOf[c]
        \/ ScopeOf[c] = Global /\ pc[c] = "scan" /\ pattern[c] = "*"
  <2> SUFFICES ASSUME CacheInv, NEW c \in Client, Step(c), NEW k \in Key, Touched(k)
               PROVE  \/ k.scope = ScopeOf[c]
                      \/ ScopeOf[c] = Global /\ pc[c] = "scan" /\ pattern[c] = "*"
    OBVIOUS
  <2>1. CASE Mine(c, k)
    BY <2>1 DEF Mine
  <2>2. CASE pc[c] = "scan" /\ k \in page[c]
    <3>1. Matches(c, pattern[c], k) /\ pattern[c] \in {"*", "item:*"}
      BY <2>2 DEF CacheInv, ScanInv, TypeOK
    <3> QED
      BY <2>2, <3>1 DEF Matches, Mine
  <2> QED
    BY <2>1, <2>2, TouchedKeys
<1> QED
  BY <1>1, CacheInvInductive, PTL DEF TenantsApart
=============================================================================
