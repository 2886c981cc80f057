--------------------------- MODULE ServicesProofs ---------------------------
(***************************************************************************)
(* What the repositories and handlers of the services keep: accounts,      *)
(* profiles, the queries of the domain layer, and organizations.           *)
(*                                                                         *)
(* Auth and Prof are specifications of their own; this module declares     *)
(* their constants and variables, those apart that have one name in both   *)
(* or in Membership.                                                       *)
(***************************************************************************)
EXTENDS Queries, Membership, Integers, FiniteSetTheorems, SequenceTheorems, TLAPS

CONSTANTS Command, Email, MaxAttempts, LockDuration, Field, Value

VARIABLES command, now, account, written, answer

Auth == INSTANCE Accounts
Prof == INSTANCE Profiles

-----------------------------------------------------------------------------
(* Accounts: one that is saved never changes, so no failed login is counted *)
(* and none is ever locked.                                                *)

\* The row that c's registration makes.
Registered(c) == [id |-> Auth!RowId(c), account |-> Auth!Created(c)]

Registration == {c \in Command : command[c].kind = "register"}

\* A login that has something to save holds an account that is stored.
Holds(c) ==
    IF command[c].kind = "register" THEN account[c] = Auth!Created(c)
    ELSE \E r \in rows : r.account.user = account[c].user

\* Only registrations have written anything, and no primary key is a user's id.
AccountInv ==
    /\ pc \in [Command -> Auth!PcStates]
    /\ account = [c \in Command |-> account[c]]
    /\ written = [c \in Command |-> written[c]]
    /\ \A c \in Command : written[c] \subseteq {Registered(c)}
    /\ \A c \in Command : written[c] # {} => c \in Registration
    /\ rows \subseteq {Registered(c) : c \in Registration}
    /\ \A c \in Command : account[c].user.of = "user"
    /\ \A c \in Command : pc[c] # "update"
    /\ \A c \in Command : pc[c] \in {"changed", "insert"} => Holds(c)

\* What is written conflicts with nothing.
Separate ==
    /\ \A c, d \in Command : \A r \in written[c], s \in written[d] :
        Auth!Conflicts(r.account, s.account) => c = d
    /\ \A c \in Command : \A r \in written[c], s \in rows : ~Auth!Conflicts(r.account, s.account)
    /\ Auth!OneAccountEach

\* What identifies a row.
LEMMA RowsIdentified ==
    ASSUME NEW c, NEW d
    PROVE  /\ Auth!RowId(c) # Auth!UserId(d)
           /\ Registered(c).id = Auth!RowId(c)
           /\ Registered(c).account = Auth!Created(c)
           /\ Auth!Created(c).user = Auth!UserId(c)
           /\ Auth!Created(c).user.of = "user"
           /\ Auth!RowId(c).of = "row"
           /\ Auth!RowId(c) = Auth!RowId(d) => c = d
BY DEF Auth!RowId, Auth!UserId, Registered, Auth!Created

\* A failed or successful login is the same user's.
LEMMA SameUser ==
    ASSUME NEW c, NEW a, a = Auth!Created(c)
    PROVE  Auth!AfterFailure(a).user = a.user /\ Auth!AfterSuccess(a).user = a.user
BY DEF Auth!AfterFailure, Auth!AfterSuccess, Auth!Created

\* No stored row has a user's id for its own.
LEMMA NothingFound ==
    ASSUME AccountInv, NEW c \in Command
    PROVE  Auth!Found(c) = {}
<1>1. ASSUME NEW r \in rows PROVE r.id # account[c].user
  <2>1. PICK d \in Registration : r = Registered(d)
    BY DEF AccountInv
  <2>2. r.id.of = "row"
    BY <2>1, RowsIdentified
  <2> QED
    BY <2>2 DEF AccountInv
<1> QED
  BY <1>1 DEF Auth!Found

\* Both invariants speak of the commands, rows, accounts and what is written.
LEMMA Unmoved ==
    ASSUME Separate, UNCHANGED <<rows, written>>
    PROVE  Separate'
BY DEF Separate, Auth!OneAccountEach, Auth!Conflicts

\* A step of c that leaves rows and written alone, and what c then holds.
LEMMA HandlerStep ==
    ASSUME AccountInv, NEW c \in Command, NEW state \in Auth!PcStates \ {"update"}, NEW a,
           pc' = [pc EXCEPT ![c] = state],
           account' = [account EXCEPT ![c] = a], a.user.of = "user",
           UNCHANGED <<rows, written, command>>,
           state \in {"changed", "insert"} => Holds(c)'
    PROVE  AccountInv'
<1>1. /\ pc' \in [Command -> Auth!PcStates]
      /\ \A d \in Command : pc'[d] # "update"
  BY DEF AccountInv
<1>2. /\ account' = [d \in Command |-> account'[d]]
      /\ \A d \in Command : account'[d].user.of = "user"
      /\ \A d \in Command \ {c} : account'[d] = account[d] /\ pc'[d] = pc[d]
      /\ pc'[c] = state
  BY DEF AccountInv
<1>3. \A d \in Command : Registered(d)' = Registered(d) /\ Auth!Created(d)' = Auth!Created(d)
  BY DEF Registered, Auth!Created
<1>4. ASSUME NEW d \in Command, pc'[d] \in {"changed", "insert"} PROVE Holds(d)'
  <2>1. CASE d = c
    BY <1>2, <1>4, <2>1
  <2>2. CASE d # c
    BY <1>2, <1>3, <1>4, <2>2 DEF AccountInv, Holds
  <2> QED
    BY <2>1, <2>2
<1>5. /\ written' = [d \in Command |-> written'[d]]
      /\ \A d \in Command : /\ written'[d] \subseteq {Registered(d)'}
                            /\ written'[d] # {} => d \in Registration'
      /\ rows' \subseteq {Registered(d)' : d \in Registration'}
  BY <1>3 DEF AccountInv, Registration
<1> QED
  BY <1>1, <1>2, <1>4, <1>5 DEF AccountInv

\* A transaction that ends without a commit.
LEMMA RollBackPreserves ==
    ASSUME AccountInv, Separate, NEW c \in Command, Auth!RollBack(c)
    PROVE  AccountInv' /\ Separate'
<1>1. /\ command' = command /\ rows' = rows /\ account' = account
      /\ pc' = [pc EXCEPT ![c] = "failed"]
      /\ written' = [written EXCEPT ![c] = {}]
  BY DEF Auth!RollBack, Auth!Goto
<1>2. \A d \in Command : /\ written'[d] \subseteq written[d]
                         /\ pc'[d] = IF d = c THEN "failed" ELSE pc[d]
                         /\ Registered(d)' = Registered(d) /\ Auth!Created(d)' = Auth!Created(d)
  BY <1>1 DEF AccountInv, Registered, Auth!Created
<1>3. AccountInv'
  <2>1. \A d \in Command : Holds(d) => Holds(d)'
    BY <1>1, <1>2 DEF Holds
  <2>2. pc' \in [Command -> Auth!PcStates] /\ written' = [d \in Command |-> written'[d]]
    BY <1>1 DEF AccountInv, Auth!PcStates, Auth!Ended
  <2>3. rows' \subseteq {Registered(d)' : d \in Registration'}
    BY <1>1, <1>2 DEF AccountInv, Registration
  <2>4. \A d \in Command : /\ written'[d] \subseteq {Registered(d)'}
                           /\ written'[d] # {} => d \in Registration'
                           /\ account'[d].user.of = "user"
                           /\ pc'[d] # "update"
                           /\ pc'[d] \in {"changed", "insert"} => Holds(d)'
    BY <1>1, <1>2, <2>1 DEF AccountInv, Registration
  <2> QED
    BY <1>1, <2>2, <2>3, <2>4 DEF AccountInv
<1>4. Separate'
  BY <1>1, <1>2 DEF Separate, Auth!OneAccountEach
<1> QED
  BY <1>3, <1>4

\* From the lookup to the save.
LEMMA LookupPreserves ==
    ASSUME AccountInv, NEW c \in Command, Auth!RegisterNew(c) \/ Auth!Attempt(c) \/ Auth!SaveGet(c)
    PROVE  AccountInv'
<1>1. CASE Auth!RegisterNew(c)
  <2>1. Auth!Created(c).user.of = "user" /\ "changed" \in Auth!PcStates \ {"update"}
    BY RowsIdentified DEF Auth!PcStates
  <2>2. /\ account' = [account EXCEPT ![c] = Auth!Created(c)]
        /\ pc' = [pc EXCEPT ![c] = "changed"]
        /\ UNCHANGED <<rows, written, command>>
        /\ command[c].kind = "register"
    BY <1>1 DEF Auth!RegisterNew, Auth!Goto
  <2>3. Holds(c)'
    BY <2>2 DEF AccountInv, Holds, Auth!Created
  <2> QED
    BY <2>1, <2>2, <2>3, HandlerStep
<1>2. CASE Auth!Attempt(c)
  <2> DEFINE After(r) == IF command[c].correct THEN Auth!AfterSuccess(r.account)
                         ELSE Auth!AfterFailure(r.account)
  <2>1. PICK r \in rows : account' = [account EXCEPT ![c] = After(r)]
    BY <1>2 DEF Auth!Attempt, Auth!Named
  <2>2. /\ pc' = [pc EXCEPT ![c] = "changed"]
        /\ UNCHANGED <<rows, written, command>>
        /\ command[c].kind # "register"
        /\ "changed" \in Auth!PcStates \ {"update"}
    BY <1>2 DEF Auth!Attempt, Auth!Goto, Auth!PcStates
  <2>3. PICK d \in Registration : r = Registered(d)
    BY DEF AccountInv
  <2>4. After(r).user = r.account.user /\ r.account.user.of = "user"
    BY <2>3, RowsIdentified, SameUser DEF Registration
  <2>5. Holds(c)'
    BY <2>1, <2>2, <2>4 DEF AccountInv, Holds
  <2> HIDE DEF After
  <2> QED
    BY <2>1, <2>2, <2>4, <2>5, HandlerStep
<1>3. CASE Auth!SaveGet(c)
  <2>1. /\ pc' = [pc EXCEPT ![c] = "insert"]
        /\ UNCHANGED <<rows, written, command, account>>
        /\ pc[c] = "changed"
        /\ "insert" \in Auth!PcStates \ {"update"}
    BY <1>3, NothingFound DEF Auth!SaveGet, Auth!Goto, Auth!PcStates
  <2>2. account' = [account EXCEPT ![c] = account[c]] /\ account[c].user.of = "user"
    BY <2>1 DEF AccountInv
  <2>3. Holds(c)'
    BY <2>1 DEF AccountInv, Holds, Auth!Created
  <2> QED
    BY <2>1, <2>2, <2>3, HandlerStep
<1> QED
  BY <1>1, <1>2, <1>3

\* Only a registration gets its row in: a login's is refused, the account that
\* it holds being stored.
LEMMA InsertPreserves ==
    ASSUME AccountInv, Separate, NEW c \in Command, Auth!Insert(c)
    PROVE  AccountInv' /\ Separate'
<1>1. /\ pc[c] = "insert"
      /\ \A r \in rows : ~Auth!Conflicts(r.account, account[c])
      /\ \A d \in Command \ {c} : \A r \in written[d] : ~Auth!Conflicts(r.account, account[c])
      /\ written' = [written EXCEPT ![c] = {[id |-> Auth!RowId(c), account |-> account[c]]}]
      /\ rows' = rows /\ command' = command /\ account' = account
      /\ pc' = [pc EXCEPT ![c] = "raise"] \/ pc' = [pc EXCEPT ![c] = "return"]
  BY DEF Auth!Insert, Auth!Write, Auth!Goto
<1>2. command[c].kind = "register" /\ account[c] = Auth!Created(c)
  <2>1. CASE command[c].kind = "register"
    BY <1>1, <2>1 DEF AccountInv, Holds
  <2>2. CASE command[c].kind # "register"
    <3>1. PICK r \in rows : r.account.user = account[c].user
      BY <1>1, <2>2 DEF AccountInv, Holds
    <3> QED
      BY <1>1, <3>1 DEF Auth!Conflicts
  <2> QED
    BY <2>1, <2>2
<1>3. /\ \A d \in Command : written'[d] = IF d = c THEN {Registered(c)} ELSE written[d]
      /\ \A d \in Command : Registered(d)' = Registered(d) /\ Auth!Created(d)' = Auth!Created(d)
      /\ \A d \in Command : d # c => pc'[d] = pc[d]
      /\ pc'[c] \in {"raise", "return"}
  BY <1>1, <1>2 DEF AccountInv, Registered, Auth!Created
<1>4. AccountInv'
  <2>1. \A d \in Command : Holds(d) => Holds(d)'
    BY <1>1, <1>3 DEF Holds
  <2>2. pc' \in [Command -> Auth!PcStates] /\ written' = [d \in Command |-> written'[d]]
    BY <1>1 DEF AccountInv, Auth!PcStates
  <2>3. rows' \subseteq {Registered(d)' : d \in Registration'}
    <3>1. Registration' = Registration
      BY <1>1 DEF Registration
    <3>2. ASSUME NEW r \in rows PROVE r \in {Registered(d)' : d \in Registration'}
      <4>1. PICK d \in Registration : r = Registered(d)
        BY DEF AccountInv
      <4> QED
        BY <1>3, <3>1, <4>1 DEF Registration
    <3> QED
      BY <1>1, <3>2
  <2>4. ASSUME NEW d \in Command
        PROVE  /\ written'[d] \subseteq {Registered(d)'}
               /\ written'[d] # {} => d \in Registration'
               /\ account'[d].user.of = "user"
               /\ pc'[d] # "update"
               /\ pc'[d] \in {"changed", "insert"} => Holds(d)'
    <3>1. Registration' = Registration /\ account'[d] = account[d]
      BY <1>1 DEF Registration
    <3>2. /\ written[d] \subseteq {Registered(d)} /\ (written[d] # {} => d \in Registration)
          /\ account[d].user.of = "user" /\ pc[d] # "update"
          /\ pc[d] \in {"changed", "insert"} => Holds(d)
      BY DEF AccountInv
    <3>3. /\ written'[d] \subseteq {Registered(d)'}
          /\ written'[d] # {} => d \in Registration'
      BY <1>2, <1>3, <3>1, <3>2 DEF Registration
    <3>4. pc'[d] # "update" /\ (pc'[d] \in {"changed", "insert"} => Holds(d)')
      BY <1>3, <2>1, <3>2
    <3> QED
      BY <3>1, <3>2, <3>3, <3>4
  <2> QED
    BY <1>1, <2>2, <2>3, <2>4 DEF AccountInv
<1>5. Separate'
  <2> QED
    BY <1>1, <1>2, <1>3, RowsIdentified DEF Separate, Auth!OneAccountEach, Auth!Conflicts
<1> QED
  BY <1>4, <1>5

\* A registration that is committed.
LEMMA AccountCommit ==
    ASSUME AccountInv, Separate, NEW c \in Command, Auth!Commit(c)
    PROVE  AccountInv' /\ Separate' /\ rows \subseteq rows'
<1>1. /\ rows' = {r \in rows : \A w \in written[c] : w.id # r.id} \cup written[c]
      /\ written' = [written EXCEPT ![c] = {}]
      /\ pc' = [pc EXCEPT ![c] = "done"]
      /\ command' = command /\ account' = account
  BY DEF Auth!Commit, Auth!Goto
<1>2. ASSUME NEW r \in rows, NEW w \in written[c] PROVE w.id # r.id
  <2>1. ~Auth!Conflicts(w.account, r.account)
    BY DEF Separate
  <2>2. w = Registered(c)
    BY DEF AccountInv
  <2>3. PICK d \in Registration : r = Registered(d)
    BY DEF AccountInv
  <2>4. d # c
    BY <2>1, <2>2, <2>3 DEF Auth!Conflicts
  <2> QED
    BY <2>2, <2>3, <2>4, RowsIdentified
<1>3. rows' = rows \cup written[c]
  BY <1>1, <1>2
<1>4. \A d \in Command : /\ written'[d] = IF d = c THEN {} ELSE written[d]
                         /\ pc'[d] = IF d = c THEN "done" ELSE pc[d]
                         /\ Registered(d)' = Registered(d) /\ Auth!Created(d)' = Auth!Created(d)
  BY <1>1 DEF AccountInv, Registered, Auth!Created
<1>5. Separate'
  <2>1. \A r, s \in rows' : Auth!Conflicts(r.account, s.account) => r = s
    BY <1>3 DEF AccountInv, Separate, Auth!OneAccountEach, Auth!Conflicts
  <2>2. /\ \A d, e \in Command : \A r \in written'[d], s \in written'[e] :
            Auth!Conflicts(r.account, s.account) => d = e
        /\ \A d \in Command : \A r \in written'[d], s \in rows' : ~Auth!Conflicts(r.account, s.account)
    BY <1>3, <1>4 DEF Separate, Auth!Conflicts
  <2> QED
    BY <2>1, <2>2 DEF Separate, Auth!OneAccountEach, Auth!Conflicts
<1>6. AccountInv'
  <2>1. \A d \in Command : Holds(d) => Holds(d)'
    BY <1>1, <1>3, <1>4 DEF Holds
  <2>2. pc' \in [Command -> Auth!PcStates] /\ written' = [d \in Command |-> written'[d]]
    BY <1>1 DEF AccountInv, Auth!PcStates, Auth!Ended
  <2>3. rows' \subseteq {Registered(d)' : d \in Registration'}
    <3>1. Registration' = Registration
      BY <1>1 DEF Registration
    <3>2. ASSUME NEW r \in rows \cup written[c] PROVE r \in {Registered(d)' : d \in Registration'}
      <4>1. PICK d \in Registration : r = Registered(d)
        BY DEF AccountInv
      <4> QED
        BY <1>4, <3>1, <4>1 DEF Registration
    <3> QED
      BY <1>3, <3>2
  <2>4. ASSUME NEW d \in Command
        PROVE  /\ written'[d] \subseteq {Registered(d)'}
               /\ written'[d] # {} => d \in Registration'
               /\ account'[d].user.of = "user"
               /\ pc'[d] # "update"
               /\ pc'[d] \in {"changed", "insert"} => Holds(d)'
    <3>1. Registration' = Registration /\ account'[d] = account[d]
      BY <1>1 DEF Registration
    <3>2. /\ written[d] \subseteq {Registered(d)} /\ (written[d] # {} => d \in Registration)
          /\ account[d].user.of = "user" /\ pc[d] # "update"
          /\ pc[d] \in {"changed", "insert"} => Holds(d)
      BY DEF AccountInv
    <3>3. /\ written'[d] \subseteq {Registered(d)'}
          /\ written'[d] # {} => d \in Registration'
      BY <1>4, <3>1, <3>2 DEF Registration
    <3>4. pc'[d] # "update" /\ (pc'[d] \in {"changed", "insert"} => Holds(d)')
      BY <1>4, <2>1, <3>2
    <3> QED
      BY <3>1, <3>2, <3>3, <3>4
  <2> QED
    BY <1>1, <2>2, <2>3, <2>4 DEF AccountInv
<1> QED
  BY <1>3, <1>5, <1>6

LEMMA AccountStep ==
    ASSUME AccountInv, Separate, [Auth!Next]_(Auth!vars)
    PROVE  AccountInv' /\ Separate' /\ rows \subseteq rows'
<1>1. CASE UNCHANGED <<rows, command, pc, account, written>>
  <2>1. \A c \in Command : Registered(c)' = Registered(c) /\ Auth!Created(c)' = Auth!Created(c)
    BY <1>1 DEF Registered, Auth!Created
  <2> QED
    BY <1>1, <2>1, Unmoved DEF AccountInv, Holds, Registration
<1>2. ASSUME NEW c \in Command, Auth!RegisterNew(c) \/ Auth!Attempt(c) \/ Auth!SaveGet(c)
      PROVE  AccountInv' /\ Separate' /\ rows \subseteq rows'
  <2>1. UNCHANGED <<rows, written>>
    BY <1>2 DEF Auth!RegisterNew, Auth!Attempt, Auth!SaveGet
  <2> QED
    BY <1>2, <2>1, LookupPreserves, Unmoved
<1>3. ASSUME NEW c \in Command, Auth!Insert(c)
      PROVE  AccountInv' /\ Separate' /\ rows \subseteq rows'
  <2>1. rows' = rows
    BY <1>3 DEF Auth!Insert, Auth!Write
  <2> QED
    BY <1>3, <2>1, InsertPreserves
<1>4. ASSUME NEW c \in Command, Auth!Update(c) PROVE FALSE
  BY <1>4 DEF Auth!Update, AccountInv
<1>5. ASSUME NEW c \in Command,
             Auth!Refuse(c) \/ Auth!IntegrityError(c) \/ Auth!RaiseInvalid(c) \/ Auth!Leave(c) \/ Auth!Abandon(c)
      PROVE  AccountInv' /\ Separate' /\ rows \subseteq rows'
  <2>1. Auth!RollBack(c)
    BY <1>5 DEF Auth!Refuse, Auth!IntegrityError, Auth!RaiseInvalid, Auth!Leave, Auth!Abandon
  <2>2. rows' = rows
    BY <2>1 DEF Auth!RollBack
  <2> QED
    BY <2>1, <2>2, RollBackPreserves
<1> QED
  BY <1>1, <1>2, <1>3, <1>4, <1>5, AccountCommit DEF Auth!Next, Auth!Tick, Auth!vars

LEMMA AlwaysSeparate == Auth!Spec => [](AccountInv /\ Separate)
<1>1. Auth!Init => AccountInv /\ Separate
  <2> SUFFICES ASSUME Auth!Init PROVE AccountInv /\ Separate
    OBVIOUS
  <2>1. \A c \in Command : account[c].user.of = "user"
    BY RowsIdentified DEF Auth!Init
  <2> QED
    BY <2>1 DEF Auth!Init, AccountInv, Separate, Auth!OneAccountEach, Auth!PcStates
<1>2. AccountInv /\ Separate /\ [Auth!Next]_(Auth!vars) => (AccountInv /\ Separate)'
  BY AccountStep
<1> QED
  BY <1>1, <1>2, PTL DEF Auth!Spec

\* However many commands register the same e-mail at the same time, an e-mail
\* and a user have one account at most.
THEOREM OnlyOneAccountEach == Auth!Spec => []Auth!OneAccountEach
<1>1. Separate => Auth!OneAccountEach
  BY DEF Separate
<1> QED
  BY <1>1, AlwaysSeparate, PTL

LEMMA ClockCounts == Auth!Spec => [](now \in Nat)
<1>1. Auth!Init => now \in Nat
  BY DEF Auth!Init
<1>2. now \in Nat /\ [Auth!Next]_(Auth!vars) => (now \in Nat)'
  BY DEF Auth!Next, Auth!vars, Auth!Tick, Auth!RegisterNew, Auth!Attempt, Auth!Refuse, Auth!SaveGet, Auth!Insert, Auth!Update, Auth!Write,
         Auth!IntegrityError, Auth!RaiseInvalid, Auth!Leave, Auth!Commit, Auth!Abandon, Auth!RollBack
<1> QED
  BY <1>1, <1>2, PTL DEF Auth!Spec

\* Whatever logins fail, and even if the handlers committed, no attempt is
\* counted and no account is locked, for any max_attempts and duration.
THEOREM AccountsNeverLocked == Auth!Spec => []Auth!NeverLocked
<1>1. AccountInv /\ now \in Nat => Auth!NeverLocked
  <2> SUFFICES ASSUME AccountInv, now \in Nat, NEW r \in rows
               PROVE  r.account.attempts = 0 /\ ~Auth!IsLocked(r.account)
    BY DEF Auth!NeverLocked
  <2>1. PICK d \in Registration : r = Registered(d)
    BY DEF AccountInv
  <2> QED
    BY <2>1 DEF Registered, Auth!Created, Auth!IsLocked, Auth!Never
<1> QED
  BY <1>1, ClockCounts, AlwaysSeparate, PTL

\* An account stays as it was first saved.
THEOREM SavedAccountsStay == Auth!Spec => Auth!AccountsStay
<1>1. AccountInv /\ Separate /\ [Auth!Next]_(Auth!vars) => rows \subseteq rows'
  BY AccountStep
<1> QED
  BY <1>1, AlwaysSeparate, PTL DEF Auth!Spec, Auth!AccountsStay

-----------------------------------------------------------------------------
(* Profiles                                                                *)

\* A command that nobody has overtaken still sees the profile as it loaded it.
Fresh ==
    \A c \in Command :
        /\ pc[c] \in {"loaded", "flush", "written"} =>
            /\ Prof!UserOf(c) \in User
            /\ loaded[c] \in Prof!Profile
            /\ Prof!Overtaken(c) \/ rows[Prof!UserOf(c)] = loaded[c]
        /\ pc[c] \in {"flush", "written"} => Prof!Overtaken(c) \/ found[c] = loaded[c]
        /\ pc[c] = "written" => answer[c] = Prof!Updated(c)
        /\ seen[c] \subseteq Prof!Committed

LEMMA UpdatedType ==
    ASSUME Prof!TypeOK, NEW c \in Command, loaded[c] \in Prof!Profile
    PROVE  Prof!Updated(c) \in Prof!Profile
<1>1. command[c].change \in Prof!Change
  BY DEF Prof!TypeOK, Prof!Commands
<1>2. \A f \in Prof!Named(c) : command[c].change[f] \in Value
  BY <1>1 DEF Prof!Change, Prof!Named
<1> QED
  BY <1>2 DEF Prof!Updated, Prof!Profile

\* Commands only become committed.
LEMMA OvertakenStays ==
    ASSUME NEW c \in Command, Prof!Overtaken(c), Prof!Committed \subseteq Prof!Committed',
           command' = command, seen'[c] = seen[c]
    PROVE  Prof!Overtaken(c)'
BY DEF Prof!Overtaken, Prof!UserOf

\* A step of c that commits nothing and loads nothing disturbs nobody else.
LEMMA ProfileQuietStep ==
    ASSUME Prof!TypeOK, Fresh, NEW c \in Command, NEW state \in Prof!PcStates \ {"done"},
           pc[c] # "done", Prof!Goto(c, state), UNCHANGED <<rows, command, loaded, seen>>,
           found' = [found EXCEPT ![c] = found'[c]], found'[c] \in Prof!Profile \cup {Prof!Nothing},
           answer' = [answer EXCEPT ![c] = answer'[c]], answer'[c] \in Prof!Profile \cup {Prof!Nothing},
           state \in {"loaded", "flush", "written"} =>
                /\ pc[c] \in {"loaded", "flush", "written"}
                /\ state # "loaded" => Prof!Overtaken(c) \/ found'[c] = loaded[c]
                /\ state = "written" => answer'[c] = Prof!Updated(c)
    PROVE  Prof!TypeOK' /\ Fresh'
<1>1. Prof!TypeOK'
  BY DEF Prof!TypeOK, Prof!Goto
<1>2. /\ pc'[c] = state
      /\ \A d \in Command \ {c} : pc'[d] = pc[d] /\ found'[d] = found[d] /\ answer'[d] = answer[d]
      /\ Prof!Committed' = Prof!Committed
  BY DEF Prof!TypeOK, Prof!Goto, Prof!Committed
<1>3. \A d \in Command : /\ Prof!UserOf(d)' = Prof!UserOf(d) /\ Prof!Updated(d)' = Prof!Updated(d)
                         /\ Prof!Overtaken(d)' <=> Prof!Overtaken(d)
  BY <1>2 DEF Prof!UserOf, Prof!Updated, Prof!Named, Prof!Overtaken
<1> QED
  BY <1>1, <1>2, <1>3 DEF Fresh

LEMMA ProfileLoad ==
    ASSUME Prof!TypeOK, Fresh, NEW c \in Command, Prof!Load(c)
    PROVE  Prof!TypeOK' /\ Fresh'
<1>1. Prof!TypeOK'
  BY DEF Prof!TypeOK, Prof!Load, Prof!Stored, Prof!Goto, Prof!Committed, Prof!PcStates
<1>2. /\ pc'[c] = "loaded" /\ Prof!UserOf(c) \in User
      /\ loaded'[c] = rows[Prof!UserOf(c)] /\ rows[Prof!UserOf(c)] \in Prof!Profile /\ rows' = rows
      /\ \A d \in Command \ {c} : pc'[d] = pc[d] /\ loaded'[d] = loaded[d] /\ seen'[d] = seen[d]
      /\ Prof!Committed' = Prof!Committed /\ seen'[c] = Prof!Committed
  BY DEF Prof!TypeOK, Prof!Load, Prof!Stored, Prof!Goto, Prof!Committed
<1>3. /\ UNCHANGED <<command, found, answer>>
      /\ \A d \in Command : Prof!UserOf(d)' = Prof!UserOf(d)
      /\ \A d \in Command \ {c} : Prof!Updated(d)' = Prof!Updated(d) /\ (Prof!Overtaken(d)' <=> Prof!Overtaken(d))
  BY <1>2 DEF Prof!Load, Prof!UserOf, Prof!Updated, Prof!Named, Prof!Overtaken
<1> QED
  BY <1>1, <1>2, <1>3 DEF Fresh

LEMMA ProfileCommit ==
    ASSUME Prof!TypeOK, Fresh, NEW c \in Command, Prof!Commit(c)
    PROVE  Prof!TypeOK' /\ Fresh'
<1> DEFINE u == Prof!UserOf(c)
           row == [f \in Field |-> IF f \in Prof!Set(c) THEN Prof!Updated(c)[f] ELSE rows[u][f]]
<1>1. /\ pc[c] = "written" /\ u \in User /\ rows[u] \in Prof!Profile
      /\ rows' = [rows EXCEPT ![u] = row]
      /\ UNCHANGED <<command, loaded, found, answer, seen>>
  BY DEF Prof!Commit, Fresh, Prof!TypeOK
<1>2. row \in Prof!Profile
  <2>1. Prof!Updated(c) \in Prof!Profile
    BY <1>1, UpdatedType DEF Fresh
  <2> QED
    BY <1>1, <2>1 DEF Prof!Profile
<1> HIDE DEF row
<1>3. Prof!TypeOK'
  BY <1>1, <1>2 DEF Prof!TypeOK, Prof!Commit, Prof!Goto, Prof!PcStates, Prof!Ended
<1>4. /\ pc'[c] = "done" /\ c \notin Prof!Committed
      /\ \A d \in Command \ {c} : pc'[d] = pc[d]
      /\ Prof!Committed' = Prof!Committed \cup {c}
  BY <1>1 DEF Prof!TypeOK, Prof!Commit, Prof!Goto, Prof!Committed
<1>5. \A d \in Command : /\ Prof!UserOf(d)' = Prof!UserOf(d) /\ Prof!Updated(d)' = Prof!Updated(d)
                         /\ Prof!Overtaken(d) => Prof!Overtaken(d)'
  BY <1>1, <1>4, OvertakenStays DEF Prof!UserOf, Prof!Updated, Prof!Named
<1>6. ASSUME NEW d \in Command \ {c}, pc[d] \in {"loaded", "flush", "written"}
      PROVE  Prof!Overtaken(d)' \/ rows'[Prof!UserOf(d)] = loaded[d]
  <2>1. CASE Prof!UserOf(d) = u
    <3>1. c \notin seen[d]
      BY <1>4 DEF Fresh
    <3> QED
      BY <1>1, <1>4, <1>5, <2>1, <3>1 DEF Prof!Overtaken
  <2>2. CASE Prof!UserOf(d) # u
    <3>1. rows'[Prof!UserOf(d)] = rows[Prof!UserOf(d)]
      BY <1>1, <1>6, <2>2 DEF Prof!TypeOK, Fresh
    <3> QED
      BY <1>5, <1>6, <3>1 DEF Fresh
  <2> QED
    BY <2>1, <2>2
<1> QED
  BY <1>1, <1>3, <1>4, <1>5, <1>6 DEF Fresh

LEMMA ProfileStep == Prof!TypeOK /\ Fresh /\ [Prof!Next]_(Prof!vars) => (Prof!TypeOK /\ Fresh)'
<1> SUFFICES ASSUME Prof!TypeOK, Fresh, [Prof!Next]_(Prof!vars) PROVE Prof!TypeOK' /\ Fresh'
  OBVIOUS
<1>1. CASE UNCHANGED Prof!vars
  <2>1. \A c \in Command : /\ Prof!UserOf(c)' = Prof!UserOf(c) /\ Prof!Updated(c)' = Prof!Updated(c)
                           /\ Prof!Overtaken(c)' <=> Prof!Overtaken(c)
    BY <1>1 DEF Prof!vars, Prof!UserOf, Prof!Updated, Prof!Named, Prof!Overtaken, Prof!Committed
  <2> QED
    BY <1>1, <2>1 DEF Prof!vars, Prof!TypeOK, Fresh, Prof!Committed
<1>2. ASSUME NEW c \in Command, Prof!Get(c) PROVE Prof!TypeOK' /\ Fresh'
  <2>1. answer'[c] \in Prof!Profile /\ answer' = [answer EXCEPT ![c] = answer'[c]]
    BY <1>2 DEF Prof!Get, Prof!Stored, Prof!TypeOK
  <2>2. found' = [found EXCEPT ![c] = found'[c]] /\ found'[c] \in Prof!Profile \cup {Prof!Nothing}
    BY <1>2 DEF Prof!Get, Prof!TypeOK
  <2> QED
    BY <1>2, <2>1, <2>2, ProfileQuietStep DEF Prof!Get, Prof!PcStates, Prof!Ended
<1>3. ASSUME NEW c \in Command, Prof!NotFound(c) \/ Prof!RollBack(c) PROVE Prof!TypeOK' /\ Fresh'
  <2>1. answer'[c] \in Prof!Profile \cup {Prof!Nothing} /\ answer' = [answer EXCEPT ![c] = answer'[c]]
    BY <1>3 DEF Prof!NotFound, Prof!RollBack, Prof!TypeOK
  <2>2. found' = [found EXCEPT ![c] = found'[c]] /\ found'[c] \in Prof!Profile \cup {Prof!Nothing}
    BY <1>3 DEF Prof!NotFound, Prof!RollBack, Prof!TypeOK
  <2> QED
    BY <1>3, <2>1, <2>2, ProfileQuietStep DEF Prof!NotFound, Prof!RollBack, Prof!PcStates, Prof!Ended
<1>4. ASSUME NEW c \in Command, Prof!SaveGet(c) PROVE Prof!TypeOK' /\ Fresh'
  <2>1. answer'[c] \in Prof!Profile \cup {Prof!Nothing} /\ answer' = [answer EXCEPT ![c] = answer'[c]]
    BY <1>4 DEF Prof!SaveGet, Prof!TypeOK
  <2>2. /\ found' = [found EXCEPT ![c] = found'[c]] /\ found'[c] \in Prof!Profile
        /\ Prof!Overtaken(c) \/ found'[c] = loaded[c]
    BY <1>4 DEF Prof!SaveGet, Prof!TypeOK, Fresh
  <2> QED
    BY <1>4, <2>1, <2>2, ProfileQuietStep DEF Prof!SaveGet, Prof!PcStates, Prof!Ended
<1>5. ASSUME NEW c \in Command, Prof!Flush(c) PROVE Prof!TypeOK' /\ Fresh'
  <2>1. Prof!Updated(c) \in Prof!Profile
    BY <1>5, UpdatedType DEF Prof!Flush, Fresh
  <2>2. answer'[c] = Prof!Updated(c) /\ answer' = [answer EXCEPT ![c] = answer'[c]]
    BY <1>5 DEF Prof!Flush, Prof!TypeOK
  <2>3. /\ found' = [found EXCEPT ![c] = found'[c]] /\ found'[c] \in Prof!Profile \cup {Prof!Nothing}
        /\ Prof!Overtaken(c) \/ found'[c] = loaded[c]
    BY <1>5 DEF Prof!Flush, Prof!TypeOK, Fresh
  <2> QED
    BY <1>5, <2>1, <2>2, <2>3, ProfileQuietStep DEF Prof!Flush, Prof!PcStates, Prof!Ended
<1> QED
  BY <1>1, <1>2, <1>3, <1>4, <1>5, ProfileLoad, ProfileCommit DEF Prof!Next

LEMMA ProfileInit == Prof!Init => Prof!TypeOK /\ Fresh
BY DEF Prof!Init, Prof!TypeOK, Fresh, Prof!PcStates, Prof!Committed

THEOREM ProfileTypeCorrect == Prof!Spec => []Prof!TypeOK
BY ProfileInit, ProfileStep, PTL DEF Prof!Spec

\* What a step that makes c committed is.
LEMMA DoneByCommit ==
    ASSUME Prof!TypeOK, [Prof!Next]_(Prof!vars), NEW c \in Command, pc[c] # "done", pc'[c] = "done"
    PROVE  Prof!Commit(c)
<1>1. PICK d \in Command :
          Prof!Load(d) \/ Prof!Get(d) \/ Prof!NotFound(d) \/ Prof!SaveGet(d) \/ Prof!Flush(d) \/ Prof!Commit(d) \/ Prof!RollBack(d)
  BY DEF Prof!Next, Prof!vars
<1>2. PICK state \in Prof!PcStates : Prof!Goto(d, state) /\ (state = "done" => Prof!Commit(d))
  BY <1>1 DEF Prof!Load, Prof!Get, Prof!NotFound, Prof!SaveGet, Prof!Flush, Prof!Commit, Prof!RollBack, Prof!PcStates, Prof!Ended
<1> QED
  BY <1>2 DEF Prof!Goto, Prof!TypeOK

\* For any number of commands on any profiles, fields and values.
THEOREM ResponsesAreKept == Prof!Spec => Prof!CommittedAsAnswered
<1>1. Prof!TypeOK /\ Fresh /\ [Prof!Next]_(Prof!vars) =>
        \A c \in Command : pc[c] # "done" /\ pc'[c] = "done" =>
            Prof!Overtaken(c) \/ rows'[Prof!UserOf(c)] = answer[c]
  <2> SUFFICES ASSUME Prof!TypeOK, Fresh, [Prof!Next]_(Prof!vars), NEW c \in Command,
                      pc[c] # "done", pc'[c] = "done", ~Prof!Overtaken(c)
               PROVE  rows'[Prof!UserOf(c)] = answer[c]
    OBVIOUS
  <2>1. Prof!Commit(c)
    BY DoneByCommit
  <2>2. /\ pc[c] = "written" /\ Prof!UserOf(c) \in User /\ answer[c] = Prof!Updated(c)
        /\ rows[Prof!UserOf(c)] = loaded[c] /\ found[c] = loaded[c] /\ loaded[c] \in Prof!Profile
    BY <2>1 DEF Prof!Commit, Fresh
  <2>3. rows'[Prof!UserOf(c)] = [f \in Field |-> IF f \in Prof!Set(c) THEN Prof!Updated(c)[f] ELSE loaded[c][f]]
    BY <2>1, <2>2 DEF Prof!Commit, Prof!TypeOK
  <2>4. Prof!Updated(c) \in Prof!Profile
    BY <2>2, UpdatedType
  <2> QED
    BY <2>2, <2>3, <2>4 DEF Prof!Set, Prof!Profile
<1> QED
  BY <1>1, ProfileInit, ProfileStep, PTL DEF Prof!Spec, Prof!CommittedAsAnswered

THEOREM UnnamedFieldsStay == Prof!Spec => Prof!OthersFieldsStay
<1>1. Prof!TypeOK /\ Fresh /\ [Prof!Next]_(Prof!vars) =>
        \A c \in Command : pc[c] # "done" /\ pc'[c] = "done" =>
            \A f \in Field \ Prof!Named(c) :
                found[c][f] = loaded[c][f] => rows'[Prof!UserOf(c)][f] = rows[Prof!UserOf(c)][f]
  <2> SUFFICES ASSUME Prof!TypeOK, Fresh, [Prof!Next]_(Prof!vars), NEW c \in Command,
                      pc[c] # "done", pc'[c] = "done",
                      NEW f \in Field \ Prof!Named(c), found[c][f] = loaded[c][f]
               PROVE  rows'[Prof!UserOf(c)][f] = rows[Prof!UserOf(c)][f]
    OBVIOUS
  <2>1. Prof!Commit(c)
    BY DoneByCommit
  <2>2. Prof!UserOf(c) \in User
    BY <2>1 DEF Prof!Commit, Fresh
  <2>3. f \notin Prof!Set(c)
    BY DEF Prof!Set, Prof!Updated
  <2> QED
    BY <2>1, <2>2, <2>3 DEF Prof!Commit, Prof!TypeOK
<1> QED
  BY <1>1, ProfileInit, ProfileStep, PTL DEF Prof!Spec, Prof!OthersFieldsStay

-----------------------------------------------------------------------------
(* Pages and specifications                                                *)

\* Faithful specifications stay so under `or` and `not`.
THEOREM OrFaithful ==
    ASSUME NEW Entity, NEW left, NEW right,
           Faithful(left, Entity), Faithful(right, Entity)
    PROVE  Faithful(Or(left, right, Entity), Entity)
BY DEF Faithful, Or, Selected

THEOREM NotFaithful ==
    ASSUME NEW Entity, NEW spec, Faithful(spec, Entity)
    PROVE  Faithful(Not(spec, Entity), Entity)
BY DEF Faithful, Not, Selected

\* `and` of faithful specifications is faithful when they agree on the keys of
\* both: dict.update loses nothing then.
THEOREM AndFaithful ==
    ASSUME NEW Entity, NEW left, NEW right,
           Faithful(left, Entity), Faithful(right, Entity),
           \A k \in DOMAIN left.params \cap DOMAIN right.params : left.params[k] = right.params[k]
    PROVE  Faithful(And(left, right), Entity)
BY DEF Faithful, And, Updated, Selected

\* Whatever the keys, the query of an `and` returns everything that satisfies
\* it, perhaps more.
THEOREM AndReturnsEnough ==
    ASSUME NEW Entity, NEW left, NEW right,
           Faithful(left, Entity), Faithful(right, Entity)
    PROVE  And(left, right).sat \subseteq Selected(And(left, right).params, Entity)
BY DEF Faithful, And, Updated, Selected

\* Of two `or`s under an `and` the query keeps the right one only.
THEOREM AndOfOrs ==
    ASSUME NEW Entity, NEW a, NEW b, NEW c, NEW d
    PROVE  Selected(And(Or(a, b, Entity), Or(c, d, Entity)).params, Entity)
               = Selected(Or(c, d, Entity).params, Entity)
BY DEF And, Or, Updated, Selected

\* What \div means for a positive divisor.
LEMMA Division ==
    ASSUME NEW a \in Nat, NEW s \in Nat \ {0}
    PROVE  /\ a \div s \in Nat
           /\ (a \div s) * s <= a
           /\ a < (a \div s) * s + s
OBVIOUS

\* Distinct multiples of s are at least s apart.
LEMMA Apart ==
    ASSUME NEW m \in Int, NEW n \in Int, NEW s \in Nat \ {0}, m < n
    PROVE  m * s + s <= n * s
<1>1. n - m >= 1 /\ n - m \in Nat
  OBVIOUS
<1>2. (n - m) * s >= s
  BY <1>1
<1>3. (n - m) * s = n * s - m * s
  OBVIOUS
<1> QED
  BY <1>2, <1>3

\* Walking the pages from 1 to total_pages shows every item once: each is on
\* exactly one page, and on one of these.
THEOREM EveryItemOnce ==
    ASSUME NEW total \in Nat, NEW pageSize \in Nat \ {0}, NEW item \in 0..(total - 1)
    PROVE  /\ \E page \in 1..TotalPages(total, pageSize) : OnPage(item, page, pageSize)
           /\ \A p, q \in Int : OnPage(item, p, pageSize) /\ OnPage(item, q, pageSize) => p = q
<1> DEFINE s == pageSize
           pages == TotalPages(total, s)
<1>1. /\ pages \in Nat
      /\ total <= pages * s
  <2>1. pages = (total + s - 1) \div s
    BY DEF TotalPages
  <2>2. total + s - 1 \in Nat
    OBVIOUS
  <2>3. pages \in Nat /\ total + s - 1 < pages * s + s
    BY <2>1, <2>2, Division
  <2>4. pages * s \in Int
    BY <2>3
  <2> QED
    BY <2>3, <2>4
<1>2. \E page \in 1..pages : OnPage(item, page, s)
  <2> DEFINE k == item \div s
  <2>1. k \in Nat /\ k * s <= item /\ item < k * s + s
    BY Division
  <2>2. k < pages
    <3>1. SUFFICES ASSUME pages <= k PROVE FALSE
      BY <1>1, <2>1
    <3>2. pages * s <= k * s
      <4>1. CASE pages = k
        BY <4>1, <1>1, <2>1
      <4>2. CASE pages < k
        <5>1. pages * s + s <= k * s
          BY <4>2, <1>1, <2>1, Apart
        <5> QED
          BY <5>1, <1>1, <2>1
      <4> QED
        BY <3>1, <4>1, <4>2, <1>1, <2>1
    <3> QED
      BY <3>2, <1>1, <2>1
  <2>3. k + 1 \in 1..pages
    BY <1>1, <2>1, <2>2
  <2>4. OnPage(item, k + 1, s)
    BY <2>1 DEF OnPage, Offset
  <2> QED
    BY <2>3, <2>4
<1>3. ASSUME NEW p \in Int, NEW q \in Int, OnPage(item, p, s), OnPage(item, q, s), p < q
      PROVE  FALSE
  <2>1. (p - 1) * s + s <= (q - 1) * s
    BY <1>3, Apart
  <2>2. item < (p - 1) * s + s /\ (q - 1) * s <= item
    BY <1>3 DEF OnPage, Offset
  <2> QED
    BY <2>1, <2>2
<1>4. ASSUME NEW p \in Int, NEW q \in Int, OnPage(item, p, s), OnPage(item, q, s)
      PROVE  p = q
  BY <1>3, <1>4
<1> QED
  BY <1>2, <1>4

\* has_next tells the truth: there is an item after this page.
THEOREM NextHasItems ==
    ASSUME NEW total \in Nat, NEW pageSize \in Nat \ {0}, NEW page \in Nat \ {0}
    PROVE  HasNext(page, pageSize, total) <=> page * pageSize < total
<1> DEFINE s == pageSize
           pages == TotalPages(total, s)
<1>1. pages = (total + s - 1) \div s /\ total + s - 1 \in Nat
  BY DEF TotalPages
<1>2. /\ pages \in Nat
      /\ pages * s <= total + s - 1
      /\ total + s - 1 < pages * s + s
  BY <1>1, Division
<1>3. ASSUME page < pages PROVE page * s < total
  <2>1. page * s + s <= pages * s
    BY <1>2, <1>3, Apart
  <2> QED
    BY <1>2, <2>1
<1>4. ASSUME page * s < total PROVE page < pages
  <2>1. SUFFICES ASSUME pages <= page PROVE FALSE
    BY <1>2
  <2>2. pages * s <= page * s
    <3>1. CASE pages = page
      BY <3>1, <1>2
    <3>2. CASE pages < page
      <4>1. pages * s + s <= page * s
        BY <3>2, <1>2, Apart
      <4> QED
        BY <4>1, <1>2
    <3> QED
      BY <2>1, <3>1, <3>2, <1>2
  <2> QED
    BY <1>2, <1>4, <2>2
<1> QED
  BY <1>3, <1>4 DEF HasNext

-----------------------------------------------------------------------------
(* An organization: lists of members and of statements.                    *)

LEMMA RangeFinite ==
    ASSUME NEW X, NEW s \in Seq(X)
    PROVE  IsFiniteSet(Range(s)) /\ Range(s) \subseteq X
<1>1. Len(s) \in Nat /\ s \in [1..Len(s) -> X] /\ DOMAIN s = 1..Len(s)
  BY LenProperties
<1>2. Range(s) \subseteq X
  BY <1>1 DEF Range
<1>3. s \in Surjection(1..Len(s), Range(s))
  BY <1>1 DEF Surjection, Range
<1>4. IsFiniteSet(1..Len(s))
  BY <1>1, FS_Interval
<1> QED
  BY <1>2, <1>3, <1>4, FS_Surjection

\* A set in a sequence without repetition.
LEMMA Listed ==
    ASSUME NEW S, IsFiniteSet(S), NEW s \in [1..Cardinality(S) -> S], IsInjective(s)
    PROVE  s \in Seq(S) /\ Range(s) = S
<1>1. Cardinality(S) \in Nat
  BY FS_CardinalityType
<1>2. s \in Injection(1..Cardinality(S), S)
  BY DEF Injection
<1>3. Cardinality(1..Cardinality(S)) = Cardinality(S)
  BY <1>1, FS_Interval
<1>4. s \in Surjection(1..Cardinality(S), S)
  BY <1>2, <1>3, FS_Injection
<1>5. Range(s) = S
  BY <1>4 DEF Surjection, Range
<1>6. s \in Seq(S)
  BY <1>1, SeqDef
<1> QED
  BY <1>5, <1>6

LEMMA OrderedRange ==
    ASSUME NEW S, IsFiniteSet(S), NEW s \in SetToSeqs(S)
    PROVE  s \in Seq(S) /\ Range(s) = S
<1>1. s \in [1..Cardinality(S) -> S] /\ \A i, j \in 1..Cardinality(S) : i # j => s[i] # s[j]
  BY DEF SetToSeqs
<1>2. IsInjective(s)
  BY <1>1 DEF IsInjective
<1> QED
  BY <1>1, <1>2, Listed

LEMMA SomeListRange ==
    ASSUME NEW S, IsFiniteSet(S)
    PROVE  SetToSeq(S) \in Seq(S) /\ Range(SetToSeq(S)) = S
<1>1. \E f \in [1..Cardinality(S) -> S] : IsInjective(f)
  BY FS_CardinalityType DEF ExistsBijection, Bijection, Injection
<1>2. SetToSeq(S) \in [1..Cardinality(S) -> S] /\ IsInjective(SetToSeq(S))
  BY <1>1 DEF SetToSeq
<1> QED
  BY <1>2, Listed

LEMMA IdsFinite ==
    ASSUME NEW S, IsFiniteSet(S)
    PROVE  IsFiniteSet(Ids(S))
<1> DEFINE f == [m \in S |-> m.id]
<1>1. f \in Surjection(S, Ids(S))
  BY DEF Surjection, Ids
<1> QED
  BY <1>1, FS_Surjection

LEMMA StatementsOf ==
    ASSUME NEW verb, NEW X, NEW ids \in Seq(X)
    PROVE  /\ Statements(verb, ids) \in Seq([verb : {verb}, row : X])
           /\ Range(Statements(verb, ids)) = {[verb |-> verb, row |-> x] : x \in Range(ids)}
<1>1. Len(ids) \in Nat /\ ids \in [1..Len(ids) -> X] /\ DOMAIN ids = 1..Len(ids)
  BY LenProperties
<1>2. Statements(verb, ids) \in [1..Len(ids) -> [verb : {verb}, row : X]]
  BY <1>1 DEF Statements
<1>3. \A T : Statements(verb, ids) \in [1..Len(ids) -> T] => Statements(verb, ids) \in Seq(T)
  BY <1>1, SeqDef
<1>4. Range(Statements(verb, ids)) = {[verb |-> verb, row |-> x] : x \in Range(ids)}
  BY <1>1 DEF Statements, Range
<1> QED
  BY <1>2, <1>3, <1>4

\* The first of a plan, or one of the rest.
LEMMA HeadOrTail ==
    ASSUME NEW X, NEW s \in Seq(X), s # <<>>
    PROVE  Tail(s) \in Seq(X) /\ Head(s) \in X /\ Range(s) = Range(Tail(s)) \cup {Head(s)}
<1>1. /\ Len(s) \in Nat /\ Len(s) # 0 /\ s \in [1..Len(s) -> X] /\ DOMAIN s = 1..Len(s)
  BY LenProperties, EmptySeq
<1>2. /\ Tail(s) \in Seq(X) /\ Len(Tail(s)) = Len(s) - 1 /\ Head(s) \in X
      /\ \A i \in 1..Len(Tail(s)) : Tail(s)[i] = s[i + 1]
  BY HeadTailProperties
<1>3. DOMAIN Tail(s) = 1..(Len(s) - 1)
  BY <1>2, LenProperties
<1>4. Head(s) = s[1]
  OBVIOUS
<1>5. ASSUME NEW x \in Range(s) PROVE x \in Range(Tail(s)) \cup {Head(s)}
  <2>1. PICK i \in 1..Len(s) : x = s[i]
    BY <1>1 DEF Range
  <2>2. CASE i = 1
    BY <1>4, <2>1, <2>2
  <2>3. CASE i # 1
    <3>1. i - 1 \in 1..(Len(s) - 1)
      BY <1>1, <2>3
    <3>2. Tail(s)[i - 1] = s[(i - 1) + 1]
      BY <1>2, <3>1
    <3>3. (i - 1) + 1 = i
      BY <1>1
    <3>4. Tail(s)[i - 1] = x
      BY <2>1, <3>2, <3>3
    <3> QED
      BY <1>3, <3>1, <3>4 DEF Range
  <2> QED
    BY <2>2, <2>3
<1>6. ASSUME NEW x \in Range(Tail(s)) PROVE x \in Range(s)
  <2>1. PICK i \in 1..(Len(s) - 1) : x = Tail(s)[i]
    BY <1>3, <1>6 DEF Range
  <2>2. x = s[i + 1] /\ i + 1 \in 1..Len(s)
    BY <1>1, <1>2, <2>1
  <2> QED
    BY <1>1, <2>2 DEF Range
<1>7. Head(s) \in Range(s)
  BY <1>1, <1>4 DEF Range
<1> QED
  BY <1>2, <1>5, <1>6, <1>7

-----------------------------------------------------------------------------
(* An organization: what holds of its rows and of the units under way.     *)

UnderWay(u) == pc[u] \in {"loaded", "changed", "flush"}
Changed(u) == pc[u] \in {"changed", "flush"}
Adds(u) == op[u].kind \in {"create", "add"}

\* All members that the database or anybody's memory has.
Remembered(u) == loaded[u].members \cup found[u].members \cup Range(members[u])
Known == rows \cup UNION {Remembered(u) : u \in Unit}

\* An id is that of one member, and of a new one not before its unit committed.
Identified ==
    /\ \A m, n \in Known : m.id = n.id => m = n
    /\ \A m \in Known : m.id \in User => m.user = m.id
    /\ \A m \in Known : m.id \in Unit => m = NewMember(m.id) /\ Adds(m.id)
    /\ \A m \in rows : m.id \in Unit => m.id \in Committed
    /\ \A u \in Unit : \A m \in loaded[u].members \cup found[u].members :
        m.id \in Unit => m.id \in Committed

\* Before it exists an organization has nothing, and only its creators start.
Stored ==
    /\ IsFiniteSet(rows)
    /\ settings \subseteq Committed
    /\ ~exists =>
        /\ rows = {}
        /\ Committed = {}
        /\ \A u \in Unit : op[u].kind # "create" => ~UnderWay(u)

\* One unit at a time has written a row, and none a creator's once it exists.
Locked ==
    /\ \A l \in locks : pc[l[2]] = "flush"
    /\ \A k, l \in locks : k[1] = l[1] => k = l
    /\ \A u \in Unit : op[u].kind = "create" /\ <<"organization", u>> \in locks => ~exists

\* What is in u's memory is what it loaded, until it adds its own.
Remembers(u) ==
    /\ ~UnderWay(u) => loaded[u] = Nothing /\ members[u] = <<>>
    /\ pc[u] # "flush" => found[u] = Nothing
    /\ op[u].kind = "create" => loaded[u] = Nothing /\ found[u] = Nothing
    /\ pc[u] = "loaded" => Range(members[u]) = loaded[u].members
    /\ \A m \in Range(members[u]) :
        m \in loaded[u].members \/ (m = NewMember(u) /\ Changed(u) /\ Adds(u))

NoDoubles(ms) == \A m, n \in ms : m.user = n.user => m = n

\* What the aggregate makes of it: its own change, and an owner is left.
HasChanged(u) ==
    Changed(u) =>
        /\ \A m \in loaded[u].members :
            m \in Range(members[u]) \/ (op[u].kind = "remove" /\ m.user = op[u].user)
        /\ Adds(u) => NewMember(u) \in Range(members[u]) /\ op[u].user \notin Users(loaded[u].members)
        /\ op[u].kind = "remove" => op[u].user \notin Users(Range(members[u]))
        /\ (op[u].kind = "create" \/ (Owners(loaded[u].members) # {} /\ NoDoubles(loaded[u].members)))
            => Owners(Range(members[u])) # {}

\* Nobody has committed since u loaded.
UpToDate(u) == Committed \subseteq seen[u]

Sees(u) ==
    /\ seen[u] \subseteq Committed /\ u \notin seen[u]
    /\ op[u].kind = "create" => seen[u] = {}
    /\ UnderWay(u) /\ UpToDate(u) => loaded[u] = [members |-> rows, settings |-> settings]
    /\ pc[u] = "flush" /\ UpToDate(u) => found[u] = loaded[u]
    /\ loaded[u].settings \cup found[u].settings \subseteq Committed

\* u's flush still has to run the statement.
Pending(u, verb, row) == [verb |-> verb, row |-> row] \in Range(plan[u])

\* What u's flush has written so far is locked, and there.
Executes(u) ==
    pc[u] = "flush" =>
        /\ u \notin missed => \A m \in Kept(u, found[u].members) :
            Pending(u, "update", m.id) \/ (<<m.id, u>> \in locks /\ m \in rows)
        /\ UpToDate(u) => \A m \in Dropped(u, found[u].members) :
            Pending(u, "delete", m.id) \/ <<m.id, u>> \in locks
        /\ op[u].kind = "create" =>
            /\ Pending(u, "insert", "organization") \/ <<"organization", u>> \in locks
            /\ \A s \in Range(plan[u]) : s.verb = "insert"

\* Somebody added the user, and u does not know.
AddedUnseenBy(user, u) ==
    \E v \in Committed : op[v].kind = "add" /\ op[v].user = user /\ v \notin seen[u]

\* The rows and the memories agree on the user's membership, but for those
\* that missed a newer one.
Once(user) ==
    ~MaybeTwice(user) =>
        /\ \A m, n \in rows : m.user = user /\ n.user = user => m = n
        /\ \A u \in Unit : \A m, n \in loaded[u].members : m.user = user /\ n.user = user => m = n
        /\ \A u \in Unit : \A m \in loaded[u].members, n \in rows :
            m.user = user /\ n.user = user => m = n \/ AddedUnseenBy(user, u)
        /\ \A u, v \in Unit : \A m \in loaded[u].members, n \in loaded[v].members :
            m.user = user /\ n.user = user => m = n \/ AddedUnseenBy(user, u) \/ AddedUnseenBy(user, v)

Overlapped(u) == \E v \in Committed : Overlap(u, v)
Removed(user) == \E v \in Committed : op[v].kind = "remove" /\ op[v].user = user

\* What u did lasts: later units have loaded it.
Passes(u, ms, ss) ==
    /\ op[u].kind = "settings" => u \in ss
    /\ op[u].kind = "remove" => \A m \in ms : m.user = op[u].user => m.id \in Unit
    /\ Adds(u) => u \in Ids(ms) \/ Removed(op[u].user)

Lasts(u) ==
    u \in Committed /\ ~Overlapped(u) =>
        /\ Passes(u, rows, settings)
        /\ \A v \in Unit : UnderWay(v) /\ u \in seen[v] => Passes(u, loaded[v].members, loaded[v].settings)

\* An owner is there, and in the memory of each unit under way.
Owned ==
    exists /\ missed = {} /\ (\A user \in User : ~MaybeTwice(user)) =>
        /\ Owners(rows) # {}
        /\ \A u \in Unit : UnderWay(u) /\ op[u].kind # "create" => Owners(loaded[u].members) # {}

Mine(u) == Remembers(u) /\ HasChanged(u) /\ Sees(u) /\ Executes(u)

MembershipInv ==
    /\ TypeOK
    /\ Identified
    /\ Stored
    /\ Locked
    /\ Owned
    /\ \A u \in Unit : Mine(u) /\ Lasts(u)
    /\ \A user \in User : Once(user)

\* What the type says of u.
LEMMA UnitTypes ==
    ASSUME TypeOK, NEW u \in Unit
    PROVE  /\ pc[u] \in PcStates
           /\ op[u] \in Operation /\ op[u].kind \in {"create", "add", "remove", "settings"}
           /\ members[u] \in Seq(Member) /\ Range(members[u]) \subseteq Member
           /\ IsFiniteSet(Range(members[u]))
           /\ loaded[u].members \subseteq Member /\ loaded[u].settings \subseteq Unit
           /\ found[u].members \subseteq Member /\ found[u].settings \subseteq Unit
           /\ loaded[u] = [members |-> loaded[u].members, settings |-> loaded[u].settings]
           /\ plan[u] \in Seq(Statement)
           /\ NewMember(u) \in Member
<1>1. op[u] \in Operation /\ members[u] \in Seq(Member)
  BY DEF TypeOK
<1>2. Range(members[u]) \subseteq Member /\ IsFiniteSet(Range(members[u]))
  BY <1>1, RangeFinite
<1>3. NewMember(u) \in Member
  BY <1>1 DEF NewMember, Member, MemberId, Operation, Role
<1>4. /\ loaded[u] \in [members : SUBSET Member, settings : SUBSET Unit]
      /\ found[u] \in [members : SUBSET Member, settings : SUBSET Unit]
  BY DEF TypeOK
<1> QED
  BY <1>1, <1>2, <1>3, <1>4 DEF TypeOK, Operation

\* A step of u leaves the other units alone.
Others(u) ==
    \A v \in Unit : v # u =>
        /\ pc'[v] = pc[v] /\ members'[v] = members[v] /\ loaded'[v] = loaded[v]
        /\ found'[v] = found[v] /\ plan'[v] = plan[v] /\ seen'[v] = seen[v]
        /\ v \in missed' <=> v \in missed
        /\ \A row : <<row, v>> \in locks' <=> <<row, v>> \in locks

LEMMA OthersMine ==
    ASSUME MembershipInv, NEW u \in Unit, Others(u), op' = op,
           UNCHANGED database, Committed' = Committed, Mine(u)'
    PROVE  \A v \in Unit : Mine(v)'
<1> SUFFICES ASSUME NEW v \in Unit, v # u PROVE Mine(v)'
  OBVIOUS
<1>1. /\ pc'[v] = pc[v] /\ members'[v] = members[v] /\ loaded'[v] = loaded[v]
      /\ found'[v] = found[v] /\ plan'[v] = plan[v] /\ seen'[v] = seen[v]
      /\ v \in missed' <=> v \in missed
      /\ \A row : <<row, v>> \in locks' <=> <<row, v>> \in locks
  BY DEF Others
<1>2. Mine(v)
  BY DEF MembershipInv
<1>3. Remembers(v)'
  BY <1>1, <1>2 DEF Mine, Remembers, UnderWay, Changed, Adds, NewMember
<1>4. HasChanged(v)'
  BY <1>1, <1>2 DEF Mine, HasChanged, Changed, Adds, NewMember
<1>5. Sees(v)'
  BY <1>1, <1>2 DEF Mine, Sees, UnderWay, UpToDate, database
<1>6. Executes(v)'
  BY <1>1, <1>2 DEF Mine, Executes, Kept, Dropped, Pending, UpToDate, database
<1> QED
  BY <1>3, <1>4, <1>5, <1>6 DEF Mine

\* Nothing is committed, and what units have loaded is at most forgotten.  Only
\* a creator, which loads nothing, may begin.
Quiet ==
    /\ UNCHANGED <<database, op, seen>>
    /\ Committed' = Committed
    /\ missed \subseteq missed'
    /\ \A u \in Unit : UnderWay(u)' =>
        (UnderWay(u) \/ op[u].kind = "create") /\ loaded'[u] = loaded[u]
    /\ \A u \in Unit : loaded'[u] \in {loaded[u], Nothing}

LEMMA QuietPreserves ==
    ASSUME MembershipInv, Quiet
    PROVE  /\ Stored' /\ Owned'
           /\ \A u \in Unit : Lasts(u)'
           /\ \A user \in User : Once(user)'
<1>1. /\ exists' = exists /\ rows' = rows /\ settings' = settings /\ op' = op /\ seen' = seen
      /\ Committed' = Committed
      /\ missed \subseteq missed'
  BY DEF Quiet, database
<1>2. \A user : MaybeTwice(user)' <=> MaybeTwice(user)
  BY <1>1 DEF MaybeTwice, Overlap
<1>3. Stored'
  BY <1>1 DEF MembershipInv, Stored, Quiet
<1>4. Owned'
  <2> SUFFICES ASSUME exists, missed = {}, \A user \in User : ~MaybeTwice(user)
               PROVE  Owned'
    BY <1>1, <1>2 DEF Owned
  <2>1. /\ Owners(rows) # {}
        /\ \A u \in Unit : UnderWay(u) /\ op[u].kind # "create" => Owners(loaded[u].members) # {}
    BY DEF MembershipInv, Owned
  <2> QED
    BY <1>1, <2>1 DEF Owned, Quiet
<1>5. ASSUME NEW u \in Unit PROVE Lasts(u)'
  <2>1. Overlapped(u)' <=> Overlapped(u)
    BY <1>1 DEF Overlapped, Overlap
  <2>2. \A ms, ss : Passes(u, ms, ss)' <=> Passes(u, ms, ss)
    BY <1>1 DEF Passes, Removed, Adds
  <2>3. Lasts(u) /\ \A v \in Unit : op[v].kind = "create" => seen[v] = {}
    BY DEF MembershipInv, Mine, Sees
  <2> QED
    BY <1>1, <2>1, <2>2, <2>3 DEF Lasts, Quiet
<1>6. ASSUME NEW user \in User PROVE Once(user)'
  <2>1. Once(user)
    BY DEF MembershipInv
  <2>2. \A u : AddedUnseenBy(user, u)' <=> AddedUnseenBy(user, u)
    BY <1>1 DEF AddedUnseenBy
  <2>3. \A u \in Unit : loaded'[u] = loaded[u] \/ loaded'[u].members = {}
    BY DEF Quiet, Nothing
  <2> SUFFICES ASSUME ~MaybeTwice(user) PROVE Once(user)'
    BY <1>2 DEF Once
  <2>4. \A m, n \in rows : m.user = user /\ n.user = user => m = n
    BY <2>1 DEF Once
  <2>5. \A u \in Unit : \A m, n \in loaded'[u].members : m.user = user /\ n.user = user => m = n
    BY <2>1, <2>3 DEF Once
  <2>6. \A u \in Unit : \A m \in loaded'[u].members, n \in rows :
            m.user = user /\ n.user = user => m = n \/ AddedUnseenBy(user, u)
    BY <2>1, <2>3 DEF Once
  <2>7. \A u, v \in Unit : \A m \in loaded'[u].members, n \in loaded'[v].members :
            m.user = user /\ n.user = user => m = n \/ AddedUnseenBy(user, u) \/ AddedUnseenBy(user, v)
    BY <2>1, <2>3 DEF Once
  <2> QED
    BY <1>1, <2>2, <2>4, <2>5, <2>6, <2>7 DEF Once
<1> QED
  BY <1>3, <1>4, <1>5, <1>6

\* Members that are loaded from rows were known before.
LEMMA NothingNew ==
    ASSUME MembershipInv, op' = op, rows' = rows, Committed' = Committed,
           NEW X, X \subseteq {u \in Unit : Adds(u)},
           \A u \in Unit :
              /\ loaded'[u].members \cup found'[u].members
                    \subseteq loaded[u].members \cup found[u].members \cup rows
              /\ Range(members'[u]) \subseteq
                    Known \cup (IF u \in X THEN {NewMember(u)} ELSE {})
    PROVE  Identified'
<1>1. \A u \in Unit : loaded[u].members \cup found[u].members \subseteq Known
  BY DEF Known, Remembered
<1>2. rows \subseteq Known
  BY DEF Known
<1>3. ASSUME NEW m \in Known' PROVE m \in Known \/ \E x \in X : m = NewMember(x)
  <2>1. CASE m \in rows
    BY <1>2, <2>1
  <2>2. ASSUME NEW u \in Unit, m \in Remembered(u)' PROVE m \in Known \/ \E x \in X : m = NewMember(x)
    <3>1. m \in loaded'[u].members \cup found'[u].members \cup Range(members'[u])
      BY <2>2 DEF Remembered
    <3>2. m \in Known \/ (u \in X /\ m = NewMember(u))
      BY <1>1, <1>2, <3>1
    <3> QED
      BY <3>2
  <2> QED
    BY <2>1, <2>2, <1>3 DEF Known
<1>4. \A u : NewMember(u)' = NewMember(u) /\ (Adds(u)' <=> Adds(u))
  BY DEF NewMember, Adds
<1>5. Identified
  BY DEF MembershipInv
<1>6. \A x \in X : NewMember(x).id = x /\ x \in Unit /\ x \notin User /\ Adds(x)
  BY IdAssumption DEF NewMember
<1>8. \A m, n \in Known' : m.id = n.id => m = n
  BY <1>3, <1>5, <1>6 DEF Identified
<1>9. \A m \in Known' : m.id \in User => m.user = m.id
  BY <1>3, <1>5, <1>6 DEF Identified
<1>10. \A m \in Known' : m.id \in Unit => m = NewMember(m.id)' /\ Adds(m.id)'
  BY <1>3, <1>4, <1>5, <1>6 DEF Identified
<1>11. \A m \in rows' : m.id \in Unit => m.id \in Committed'
  BY <1>5 DEF Identified
<1>12. ASSUME NEW u \in Unit, NEW m \in loaded'[u].members \cup found'[u].members, m.id \in Unit
       PROVE  m.id \in Committed'
  BY <1>5, <1>12 DEF Identified
<1> QED
  BY <1>8, <1>9, <1>10, <1>11, <1>12 DEF Identified

\* What happens to u when it is not committed.
LEMMA NotCommitted ==
    ASSUME NEW u \in Unit, TypeOK, pc[u] # "done", NEW s, s # "done", Goto(u, s)
    PROVE  Committed' = Committed
BY DEF Goto, TypeOK, Committed

LEMMA QuietStep ==
    ASSUME MembershipInv, Quiet, NEW u \in Unit, Others(u), TypeOK', Identified', Locked', Mine(u)'
    PROVE  MembershipInv'
<1>1. \A v \in Unit : Mine(v)'
  BY OthersMine DEF Quiet
<1> QED
  BY <1>1, QuietPreserves DEF MembershipInv

LEMMA FewerLocks ==
    ASSUME MembershipInv, locks' \subseteq locks, op' = op, exists' = exists,
           \A l \in locks' : pc'[l[2]] = "flush"
    PROVE  Locked'
BY DEF MembershipInv, Locked

LEMMA LoadPreserves ==
    ASSUME MembershipInv, NEW u \in Unit, Load(u)
    PROVE  MembershipInv'
<1> USE DEF database, memory
<1>1. PICK list \in Reconstituted(rows) : members' = [members EXCEPT ![u] = list]
  BY DEF Load
<1>2. /\ pc[u] = "new" /\ op[u].kind # "create" /\ exists
      /\ loaded' = [loaded EXCEPT ![u] = [members |-> rows, settings |-> settings]]
      /\ seen' = [seen EXCEPT ![u] = Committed]
      /\ pc' = [pc EXCEPT ![u] = "loaded"]
      /\ UNCHANGED <<exists, rows, settings, op, found, plan, locks, missed>>
  BY DEF Load, Goto
<1>3. TypeOK /\ Stored /\ Identified /\ Locked /\ Owned /\ Mine(u)
  BY DEF MembershipInv
<1>4. list \in Seq(rows) /\ Range(list) = rows
  BY <1>3, OrderedRange DEF Reconstituted, Stored
<1>5. list \in Seq(Member)
  BY <1>3, <1>4, SeqMonotonic DEF TypeOK
<1>6. Committed \subseteq Unit /\ u \notin Committed
  BY <1>2 DEF Committed
<1>7. TypeOK'
  BY <1>1, <1>2, <1>3, <1>5, <1>6 DEF TypeOK, PcStates
<1>8. /\ pc'[u] = "loaded" /\ members'[u] = list /\ seen'[u] = Committed
      /\ loaded'[u] = [members |-> rows, settings |-> settings]
      /\ found'[u] = found[u]
  BY <1>1, <1>2, <1>3 DEF TypeOK
<1>9. \A v \in Unit : v # u =>
        /\ pc'[v] = pc[v] /\ members'[v] = members[v] /\ loaded'[v] = loaded[v]
        /\ found'[v] = found[v] /\ plan'[v] = plan[v] /\ seen'[v] = seen[v]
  BY <1>1, <1>2, <1>3 DEF TypeOK
<1>10. Others(u)
  BY <1>2, <1>9 DEF Others
<1>11. Committed' = Committed
  BY <1>2, <1>3, NotCommitted DEF Goto
<1>12. Identified'
  <2>1. \A v \in Unit : Range(members'[v]) \subseteq Known
    BY <1>4, <1>8, <1>9 DEF Known, Remembered
  <2>2. \A v \in Unit : loaded'[v].members \cup found'[v].members
                          \subseteq loaded[v].members \cup found[v].members \cup rows
    BY <1>8, <1>9
  <2> QED
    BY <1>2, <1>11, <2>1, <2>2, NothingNew
<1>13. Stored'
  BY <1>2, <1>3, <1>11 DEF Stored
<1>14. Locked'
  BY <1>2, <1>3, <1>8, <1>9, FewerLocks DEF Locked, TypeOK
<1>15. Mine(u)'
  <2>1. found[u] = Nothing
    BY <1>2, <1>3 DEF Mine, Remembers
  <2>2. Remembers(u)'
    BY <1>2, <1>4, <1>8, <2>1 DEF Remembers, UnderWay
  <2>3. HasChanged(u)' /\ Executes(u)'
    BY <1>8 DEF HasChanged, Changed, Executes
  <2>4. Sees(u)'
    BY <1>2, <1>3, <1>6, <1>8, <1>11, <2>1 DEF Sees, Stored, Nothing
  <2> QED
    BY <2>2, <2>3, <2>4 DEF Mine
<1>16. \A v \in Unit : Mine(v)'
  BY <1>2, <1>10, <1>11, <1>15, OthersMine
<1>17. \A v, w \in Committed : Overlap(v, w)' <=> Overlap(v, w)
  BY <1>6, <1>9 DEF Overlap
<1>18. \A user : MaybeTwice(user)' <=> MaybeTwice(user)
  BY <1>2, <1>11, <1>17 DEF MaybeTwice
<1>19. Owned'
  BY <1>2, <1>3, <1>8, <1>9, <1>18 DEF Owned, UnderWay
<1>20. ASSUME NEW v \in Unit PROVE Lasts(v)'
  <2> SUFFICES ASSUME v \in Committed, ~Overlapped(v)
               PROVE  /\ Passes(v, rows, settings)
                      /\ \A w \in Unit : UnderWay(w)' /\ v \in seen'[w] =>
                            Passes(v, loaded'[w].members, loaded'[w].settings)
    <3>1. \A ms, ss : Passes(v, ms, ss)' <=> Passes(v, ms, ss)
      BY <1>2, <1>11 DEF Passes, Removed, Adds
    <3>2. v \in Committed => (Overlapped(v)' <=> Overlapped(v))
      BY <1>11, <1>17 DEF Overlapped
    <3> QED
      BY <1>2, <1>11, <3>1, <3>2 DEF Lasts
  <2>1. /\ Passes(v, rows, settings)
        /\ \A w \in Unit : UnderWay(w) /\ v \in seen[w] => Passes(v, loaded[w].members, loaded[w].settings)
    BY DEF MembershipInv, Lasts
  <2> QED
    BY <1>8, <1>9, <2>1 DEF UnderWay
<1>21. ASSUME NEW user \in User PROVE Once(user)'
  <2>1. Once(user)
    BY DEF MembershipInv
  <2>2. \A v \in Unit : v # u => (AddedUnseenBy(user, v)' <=> AddedUnseenBy(user, v))
    BY <1>2, <1>9, <1>11 DEF AddedUnseenBy
  <2> SUFFICES ASSUME ~MaybeTwice(user) PROVE Once(user)'
    BY <1>18 DEF Once
  <2>3. \A m, n \in rows : m.user = user /\ n.user = user => m = n
    BY <2>1 DEF Once
  <2>4. ASSUME NEW v \in Unit, NEW m \in loaded'[v].members, NEW n \in rows, m.user = user, n.user = user
        PROVE  m = n \/ AddedUnseenBy(user, v)'
    BY <1>8, <1>9, <2>1, <2>2, <2>3, <2>4 DEF Once
  <2>5. \A v \in Unit : \A m, n \in loaded'[v].members : m.user = user /\ n.user = user => m = n
    BY <1>8, <1>9, <2>1, <2>3 DEF Once
  <2>6. ASSUME NEW v \in Unit, NEW w \in Unit, NEW m \in loaded'[v].members, NEW n \in loaded'[w].members,
               m.user = user, n.user = user
        PROVE  m = n \/ AddedUnseenBy(user, v)' \/ AddedUnseenBy(user, w)'
    <3>1. CASE v = u
      BY <1>8, <2>4, <2>6, <3>1
    <3>2. CASE w = u
      BY <1>8, <2>4, <2>6, <3>2
    <3>3. CASE v # u /\ w # u
      BY <1>9, <2>1, <2>2, <2>6, <3>3 DEF Once
    <3> QED
      BY <3>1, <3>2, <3>3
  <2> QED
    BY <1>2, <2>3, <2>4, <2>5, <2>6 DEF Once
<1> QED
  BY <1>7, <1>12, <1>13, <1>14, <1>16, <1>19, <1>20, <1>21 DEF MembershipInv

LEMMA SlugIsFreePreserves ==
    ASSUME MembershipInv, NEW u \in Unit, SlugIsFree(u)
    PROVE  MembershipInv'
<1> USE DEF database, memory
<1>1. /\ pc[u] = "new" /\ op[u].kind = "create" /\ ~exists
      /\ seen' = [seen EXCEPT ![u] = Committed]
      /\ pc' = [pc EXCEPT ![u] = "loaded"]
      /\ UNCHANGED <<exists, rows, settings, op, members, loaded, found, plan, locks, missed>>
  BY DEF SlugIsFree, Goto
<1>2. TypeOK /\ Stored /\ Locked /\ Mine(u)
  BY DEF MembershipInv
<1>3. Committed = {} /\ seen[u] = {}
  BY <1>1, <1>2 DEF Stored, Mine, Sees
<1>4. seen' = seen
  BY <1>1, <1>2, <1>3 DEF TypeOK
<1>5. Committed' = Committed
  BY <1>1, <1>2, NotCommitted DEF Goto
<1>6. pc'[u] = "loaded" /\ \A v \in Unit : v # u => pc'[v] = pc[v]
  BY <1>1, <1>2 DEF TypeOK
<1>7. TypeOK'
  BY <1>1, <1>2, <1>4 DEF TypeOK, PcStates
<1>8. Others(u)
  BY <1>1, <1>4, <1>6 DEF Others
<1>9. Quiet
  BY <1>1, <1>4, <1>5, <1>6 DEF Quiet, UnderWay
<1>10. Identified'
  <2>1. \A v \in Unit : Range(members[v]) \subseteq Known
    BY DEF Known, Remembered
  <2> QED
    BY <1>1, <1>5, <2>1, NothingNew
<1>11. Locked'
  BY <1>1, <1>2, <1>6, FewerLocks DEF Locked, TypeOK
<1>12. Mine(u)'
  <2>1. /\ found[u] = Nothing /\ loaded[u] = Nothing /\ members[u] = <<>>
        /\ rows = {} /\ settings = {}
    BY <1>1, <1>2, <1>3 DEF Mine, Remembers, Stored, UnderWay
  <2>2. Range(members[u]) = {}
    BY <2>1 DEF Range
  <2>3. Remembers(u)'
    BY <1>1, <1>6, <2>1, <2>2 DEF Remembers, UnderWay, Nothing
  <2>4. HasChanged(u)' /\ Executes(u)'
    BY <1>6 DEF HasChanged, Changed, Executes
  <2>5. Sees(u)'
    BY <1>1, <1>2, <1>3, <1>4, <1>5, <1>6, <2>1 DEF Sees, Nothing
  <2> QED
    BY <2>3, <2>4, <2>5 DEF Mine
<1> QED
  BY <1>7, <1>8, <1>9, <1>10, <1>11, <1>12, QuietStep

LEMMA LookupFailsPreserves ==
    ASSUME MembershipInv, NEW u \in Unit, LookupFails(u)
    PROVE  MembershipInv'
<1> USE DEF database, memory
<1>1. /\ pc[u] = "new"
      /\ pc' = [pc EXCEPT ![u] = "failed"]
      /\ UNCHANGED <<exists, rows, settings, op, members, loaded, found, seen, plan, locks, missed>>
  BY DEF LookupFails, Goto
<1>2. TypeOK /\ Locked /\ Mine(u)
  BY DEF MembershipInv
<1>3. Committed' = Committed
  BY <1>1, <1>2, NotCommitted DEF Goto
<1>4. pc'[u] = "failed" /\ \A v \in Unit : v # u => pc'[v] = pc[v]
  BY <1>1, <1>2 DEF TypeOK
<1>5. TypeOK'
  BY <1>1, <1>2 DEF TypeOK, PcStates
<1>6. Others(u)
  BY <1>1, <1>4 DEF Others
<1>7. Quiet
  BY <1>1, <1>3, <1>4 DEF Quiet, UnderWay
<1>8. Identified'
  <2>1. \A v \in Unit : Range(members[v]) \subseteq Known
    BY DEF Known, Remembered
  <2> QED
    BY <1>1, <1>3, <2>1, NothingNew
<1>9. Locked'
  BY <1>1, <1>2, <1>4, FewerLocks DEF Locked, TypeOK
<1>10. Mine(u)'
  <2>1. Remembers(u)'
    BY <1>1, <1>2, <1>4 DEF Mine, Remembers, UnderWay, Changed, Adds, NewMember
  <2>2. HasChanged(u)' /\ Executes(u)'
    BY <1>4 DEF HasChanged, Changed, Executes
  <2>3. Sees(u)'
    BY <1>1, <1>2, <1>3, <1>4 DEF Mine, Sees, UnderWay
  <2> QED
    BY <2>1, <2>2, <2>3 DEF Mine
<1> QED
  BY <1>5, <1>6, <1>7, <1>8, <1>9, <1>10, QuietStep

\* Only u's memory of the members changes: the aggregate's method is done.
LEMMA ChangePreserves ==
    ASSUME MembershipInv, NEW u \in Unit, pc[u] = "loaded",
           NEW list \in Seq(Member), members' = [members EXCEPT ![u] = list],
           Goto(u, "changed"), UNCHANGED <<database, op, loaded, found, seen, plan, locks, missed>>,
           \A m \in Range(list) : m \in loaded[u].members \/ (m = NewMember(u) /\ Adds(u)),
           \A m \in loaded[u].members :
              m \in Range(list) \/ (op[u].kind = "remove" /\ m.user = op[u].user),
           Adds(u) => NewMember(u) \in Range(list) /\ op[u].user \notin Users(loaded[u].members),
           op[u].kind = "remove" => op[u].user \notin Users(Range(list)),
           (op[u].kind = "create" \/ (Owners(loaded[u].members) # {} /\ NoDoubles(loaded[u].members)))
              => Owners(Range(list)) # {}
    PROVE  MembershipInv'
<1> USE DEF database
<1>1. TypeOK /\ Locked /\ Mine(u)
  BY DEF MembershipInv
<1>2. Committed' = Committed
  BY <1>1, NotCommitted
<1>3. /\ pc'[u] = "changed" /\ members'[u] = list
      /\ \A v \in Unit : v # u => pc'[v] = pc[v] /\ members'[v] = members[v]
  BY <1>1 DEF TypeOK, Goto
<1>4. TypeOK'
  BY <1>1 DEF TypeOK, PcStates, Goto
<1>5. Others(u)
  BY <1>3 DEF Others
<1>6. Quiet
  BY <1>2, <1>3 DEF Quiet, UnderWay
<1>7. Identified'
  <2>1. loaded[u].members \subseteq Known
    BY DEF Known, Remembered
  <2>2. \A v \in Unit : Range(members[v]) \subseteq Known
    BY DEF Known, Remembered
  <2> DEFINE X == {x \in {u} : Adds(x)}
  <2>3. X \subseteq {x \in Unit : Adds(x)}
    OBVIOUS
  <2>4. \A v \in Unit : Range(members'[v]) \subseteq
            Known \cup (IF v \in X THEN {NewMember(v)} ELSE {})
    BY <1>3, <2>1, <2>2
  <2>5. \A v \in Unit : loaded'[v].members \cup found'[v].members
                          \subseteq loaded[v].members \cup found[v].members \cup rows
    OBVIOUS
  <2> HIDE DEF X
  <2> QED
    BY <1>2, <2>3, <2>4, <2>5, NothingNew
<1>8. Locked'
  BY <1>1, <1>3, FewerLocks DEF Locked, TypeOK
<1>9. Mine(u)'
  <2>1. Remembers(u)'
    BY <1>1, <1>3 DEF Mine, Remembers, UnderWay, Changed, Adds, NewMember
  <2>2. HasChanged(u)'
    BY <1>3 DEF HasChanged, Adds, NewMember
  <2>3. Executes(u)'
    BY <1>3 DEF Executes
  <2>4. Sees(u)'
    BY <1>1, <1>2, <1>3 DEF Mine, Sees, UnderWay, UpToDate
  <2> QED
    BY <2>1, <2>2, <2>3, <2>4 DEF Mine
<1> QED
  BY <1>4, <1>5, <1>6, <1>7, <1>8, <1>9, QuietStep

LEMMA AddMemberPreserves ==
    ASSUME MembershipInv, NEW u \in Unit, AddMember(u)
    PROVE  MembershipInv'
<1> DEFINE list == Append(members[u], NewMember(u))
<1>1. /\ pc[u] = "loaded" /\ op[u].kind \in {"create", "add"}
      /\ op[u].user \notin Users(Range(members[u]))
      /\ members' = [members EXCEPT ![u] = list]
      /\ Goto(u, "changed") /\ UNCHANGED <<database, op, loaded, found, seen, plan, locks, missed>>
  BY DEF AddMember
<1>2. TypeOK /\ Remembers(u)
  BY DEF MembershipInv, Mine
<1>3. members[u] \in Seq(Member) /\ NewMember(u) \in Member
  BY <1>2, UnitTypes
<1>4. Range(members[u]) = loaded[u].members
  BY <1>1, <1>2 DEF Remembers
<1>5. list \in Seq(Member) /\ Range(list) = Range(members[u]) \cup {NewMember(u)}
  <2>1. <<NewMember(u)>> \in Seq(Member) /\ list = members[u] \o <<NewMember(u)>>
    BY <1>3, AppendIsConcat
  <2>2. Range(<<NewMember(u)>>) = {NewMember(u)}
    BY DEF Range
  <2>3. Range(members[u] \o <<NewMember(u)>>) = Range(members[u]) \cup Range(<<NewMember(u)>>)
    BY <1>3, <2>1, RangeConcatenation
  <2>4. list \in Seq(Member)
    BY <1>3, AppendProperties
  <2> QED
    BY <2>1, <2>2, <2>3, <2>4
<1>6. op[u].kind = "create" => NewMember(u) \in Owners(Range(list))
  BY <1>5 DEF Owners, NewMember
<1>7. Owners(loaded[u].members) # {} => Owners(Range(list)) # {}
  BY <1>4, <1>5 DEF Owners
<1> HIDE DEF list
<1> QED
  BY <1>1, <1>4, <1>5, <1>6, <1>7, ChangePreserves DEF Adds

\* What is left of a list.
LEMMA RestIsOrdered ==
    ASSUME NEW S, NEW l, NEW ms, IsFiniteSet(ms), NEW s \in InOrder(ms, l), ms \subseteq S
    PROVE  s \in Seq(S) /\ Range(s) = ms
<1>1. s \in Seq(ms) /\ Range(s) = ms
  BY OrderedRange DEF InOrder
<1> QED
  BY <1>1, SeqMonotonic

LEMMA Least ==
    ASSUME NEW S, S \subseteq Nat, NEW i \in S
    PROVE  \E k \in S : \A j \in S : ~(j < k)
<1> DEFINE R == {ss \in Nat \X Nat : ss[1] < ss[2]}
<1>1. IsWellFoundedOn(R, Nat)
  BY NatLessThanWellFounded, Zenon DEF OpToRel
<1> HIDE DEF R
<1>2. PICK k \in S : \A j \in S : <<j, k>> \notin R
  BY <1>1, WFMin
<1> QED
  BY <1>2 DEF R

\* Of one membership each, the removed one is the first of its user, and if it
\* owns there is another owner.
LEMMA AnotherOwner ==
    ASSUME NEW list \in Seq(Member), NEW user, ~IsLastOwner(list, user),
           NoDoubles(Range(list)), Owners(Range(list)) # {}
    PROVE  Owners({m \in Range(list) : m.user # user}) # {}
<1> SUFFICES ASSUME \A m \in Owners(Range(list)) : m.user = user PROVE FALSE
  BY DEF Owners
<1>1. Len(list) \in Nat /\ DOMAIN list = 1..Len(list)
  BY LenProperties
<1>2. PICK i \in 1..Len(list) : list[i].role = "OWNER" /\ list[i].user = user
  BY <1>1 DEF Owners, Range
<1>3. Owners(Range(list)) = {list[i]}
  BY <1>1, <1>2 DEF Owners, Range, NoDoubles
<1>4. Cardinality(Owners(Range(list))) = 1
  BY <1>3, FS_Singleton
<1>5. \A k \in 1..Len(list) : list[k].user = user => list[k].role = "OWNER"
  BY <1>1, <1>2 DEF NoDoubles, Range
<1> DEFINE Firsts == {k \in 1..Len(list) : list[k].user = user}
<1>6. PICK k \in Firsts : \A j \in Firsts : ~(j < k)
  <2>1. Firsts \subseteq Nat /\ i \in Firsts
    BY <1>1, <1>2
  <2> HIDE DEF Firsts
  <2> QED
    BY <2>1, Least
<1>7. \A j \in 1..(k - 1) : list[j].user # user
  BY <1>1, <1>6
<1> QED
  BY <1>1, <1>4, <1>5, <1>6, <1>7 DEF IsLastOwner

LEMMA RemoveMemberPreserves ==
    ASSUME MembershipInv, NEW u \in Unit, RemoveMember(u)
    PROVE  MembershipInv'
<1> DEFINE rest == {m \in Range(members[u]) : m.user # op[u].user}
<1>1. PICK list \in InOrder(rest, members[u]) : members' = [members EXCEPT ![u] = list]
  BY DEF RemoveMember
<1>2. /\ pc[u] = "loaded" /\ op[u].kind = "remove"
      /\ ~IsLastOwner(members[u], op[u].user)
      /\ Goto(u, "changed") /\ UNCHANGED <<database, op, loaded, found, seen, plan, locks, missed>>
  BY DEF RemoveMember
<1>3. TypeOK /\ Remembers(u)
  BY DEF MembershipInv, Mine
<1>4. /\ members[u] \in Seq(Member)
      /\ Range(members[u]) \subseteq Member /\ IsFiniteSet(Range(members[u]))
  BY <1>3, UnitTypes
<1>5. Range(members[u]) = loaded[u].members
  BY <1>2, <1>3 DEF Remembers
<1>6. list \in Seq(Member) /\ Range(list) = rest
  <2>1. IsFiniteSet(rest) /\ rest \subseteq Member
    BY <1>4, FS_Subset
  <2> HIDE DEF rest
  <2> QED
    BY <2>1, RestIsOrdered
<1>7. (Owners(loaded[u].members) # {} /\ NoDoubles(loaded[u].members)) => Owners(Range(list)) # {}
  BY <1>2, <1>4, <1>5, <1>6, AnotherOwner
<1>8. op[u].user \notin Users(Range(list))
  BY <1>6 DEF Users
<1>9. \A m \in Range(list) : m \in loaded[u].members
  BY <1>5, <1>6
<1>10. \A m \in loaded[u].members : m \in Range(list) \/ m.user = op[u].user
  BY <1>5, <1>6
<1> HIDE DEF rest
<1> QED
  BY <1>1, <1>2, <1>6, <1>7, <1>8, <1>9, <1>10, ChangePreserves DEF Adds

LEMMA UpdateSettingsPreserves ==
    ASSUME MembershipInv, NEW u \in Unit, UpdateSettings(u)
    PROVE  MembershipInv'
<1>1. /\ pc[u] = "loaded" /\ op[u].kind = "settings"
      /\ Goto(u, "changed") /\ UNCHANGED <<database, memory, plan, locks, missed>>
  BY DEF UpdateSettings
<1>2. TypeOK /\ Remembers(u)
  BY DEF MembershipInv, Mine
<1>3. members[u] \in Seq(Member)
  BY <1>2, UnitTypes
<1>4. Range(members[u]) = loaded[u].members
  BY <1>1, <1>2 DEF Remembers
<1>5. members' = [members EXCEPT ![u] = members[u]]
  BY <1>1, <1>2 DEF memory, TypeOK
<1>6. UNCHANGED <<database, op, loaded, found, seen, plan, locks, missed>>
  BY <1>1 DEF memory
<1> QED
  BY <1>1, <1>3, <1>4, <1>5, <1>6, ChangePreserves DEF Adds

\* The statements of a flush.
LEMMA PlanRange ==
    ASSUME NEW a \in Seq(Row), NEW b \in Seq(Row), NEW i \in Seq(Row), NEW d \in Seq(Row),
           NEW p, p = Statements("update", a \o b) \o Statements("insert", i) \o Statements("delete", d)
    PROVE  /\ p \in Seq(Statement)
           /\ \A row \in Range(b) : [verb |-> "update", row |-> row] \in Range(p)
           /\ \A row \in Range(d) : [verb |-> "delete", row |-> row] \in Range(p)
<1> DEFINE U == Statements("update", a \o b)
           I == Statements("insert", i)
           D == Statements("delete", d)
<1>1. a \o b \in Seq(Row) /\ Range(a \o b) = Range(a) \cup Range(b)
  BY ConcatProperties, RangeConcatenation
<1>2. \A verb \in {"insert", "update", "delete"} : [verb : {verb}, row : Row] \subseteq Statement
  BY DEF Statement
<1>3. /\ U \in Seq([verb : {"update"}, row : Row])
      /\ Range(U) = {[verb |-> "update", row |-> x] : x \in Range(a \o b)}
  BY <1>1, StatementsOf
<1>4. I \in Seq([verb : {"insert"}, row : Row])
  BY StatementsOf
<1>5. /\ D \in Seq([verb : {"delete"}, row : Row])
      /\ Range(D) = {[verb |-> "delete", row |-> x] : x \in Range(d)}
  BY StatementsOf
<1>6. U \in Seq(Statement) /\ I \in Seq(Statement) /\ D \in Seq(Statement)
  BY <1>2, <1>3, <1>4, <1>5, SeqMonotonic
<1> HIDE DEF U, I, D
<1>7. U \o I \in Seq(Statement) /\ Range(U \o I) = Range(U) \cup Range(I)
  BY <1>6, ConcatProperties, RangeConcatenation
<1>8. (U \o I) \o D \in Seq(Statement) /\ Range((U \o I) \o D) = Range(U \o I) \cup Range(D)
  <2> DEFINE V == U \o I
  <2>1. V \in Seq(Statement)
    BY <1>7
  <2> HIDE DEF V
  <2>2. V \o D \in Seq(Statement) /\ Range(V \o D) = Range(V) \cup Range(D)
    BY <1>6, <2>1, ConcatProperties, RangeConcatenation
  <2> QED
    BY <2>2 DEF V
<1>9. p = (U \o I) \o D
  BY DEF U, I, D
<1> QED
  BY <1>1, <1>3, <1>5, <1>7, <1>8, <1>9

\* The ids of members.
LEMMA MemberIds ==
    ASSUME NEW ms, ms \subseteq Member, IsFiniteSet(ms)
    PROVE  SetToSeq(Ids(ms)) \in Seq(Row) /\ Range(SetToSeq(Ids(ms))) = Ids(ms)
<1>1. IsFiniteSet(Ids(ms)) /\ Ids(ms) \subseteq Row
  BY IdsFinite DEF Ids, Member, Row
<1>2. SetToSeq(Ids(ms)) \in Seq(Ids(ms)) /\ Range(SetToSeq(Ids(ms))) = Ids(ms)
  BY <1>1, SomeListRange
<1> QED
  BY <1>1, <1>2, SeqMonotonic

LEMMA IdsOfList ==
    ASSUME NEW list \in Seq(Member)
    PROVE  /\ [i \in DOMAIN list |-> list[i].id] \in Seq(Row)
           /\ Range([i \in DOMAIN list |-> list[i].id]) = Ids(Range(list))
<1> DEFINE ids == [i \in DOMAIN list |-> list[i].id]
<1>1. Len(list) \in Nat /\ list \in [1..Len(list) -> Member] /\ DOMAIN list = 1..Len(list)
  BY LenProperties
<1>2. ids \in [1..Len(list) -> Row]
  BY <1>1 DEF Member, Row
<1>3. ids \in Seq(Row)
  BY <1>1, <1>2, SeqDef
<1>4. Range(ids) = Ids(Range(list))
  BY <1>1 DEF Range, Ids
<1> QED
  BY <1>3, <1>4

LEMMA CreatorsPlan ==
    ASSUME NEW u \in Unit
    PROVE  /\ Statements("insert", <<"organization", u>>) \in Seq(Statement)
           /\ [verb |-> "insert", row |-> "organization"] \in Range(Statements("insert", <<"organization", u>>))
           /\ \A s \in Range(Statements("insert", <<"organization", u>>)) : s.verb = "insert"
<1>1. <<"organization", u>> \in Seq(Row) /\ "organization" \in Range(<<"organization", u>>)
  BY DEF Row, MemberId, Range
<1> DEFINE p == Statements("insert", <<"organization", u>>)
           S == [verb : {"insert"}, row : Row]
<1>2. S \subseteq Statement
  BY DEF Statement
<1>3. p \in Seq(S) /\ Range(p) = {[verb |-> "insert", row |-> x] : x \in Range(<<"organization", u>>)}
  BY <1>1, StatementsOf
<1> HIDE DEF p, S
<1>4. p \in Seq(Statement)
  BY <1>2, <1>3, SeqMonotonic
<1>5. [verb |-> "insert", row |-> "organization"] \in Range(p)
  BY <1>1, <1>3
<1>6. \A s \in Range(p) : s.verb = "insert"
  BY <1>3
<1> QED
  BY <1>4, <1>5, <1>6 DEF p

LEMMA SavePreserves ==
    ASSUME MembershipInv, NEW u \in Unit, Save(u)
    PROVE  MembershipInv'
<1> USE DEF database
<1> DEFINE changed == IF OwnSettings(u) # settings THEN <<"organization">> ELSE <<>>
           there == IF op[u].kind = "create" THEN Nothing ELSE [members |-> rows, settings |-> settings]
<1>1. PICK kept \in InOrder(Kept(u, rows), members[u]) :
        plan' = [plan EXCEPT ![u] =
            IF op[u].kind = "create" THEN Statements("insert", <<"organization", u>>)
            ELSE Statements("update", changed \o [i \in DOMAIN kept |-> kept[i].id])
                     \o Statements("insert", SetToSeq(Ids(Added(u, rows))))
                     \o Statements("delete", SetToSeq(Ids(Dropped(u, rows))))]
  BY DEF Save
<1>2. /\ pc[u] = "changed"
      /\ found' = [found EXCEPT ![u] = there]
      /\ pc' = [pc EXCEPT ![u] = "flush"]
      /\ UNCHANGED <<database, op, members, loaded, seen, locks, missed>>
  BY DEF Save, Goto
<1>3. TypeOK /\ Stored /\ Locked /\ Mine(u)
  BY DEF MembershipInv
<1>4. /\ Range(members[u]) \subseteq Member /\ IsFiniteSet(Range(members[u]))
      /\ rows \subseteq Member /\ IsFiniteSet(rows)
  BY <1>3, UnitTypes DEF TypeOK, Stored
<1> DEFINE p == plan'[u]
<1>5. /\ p \in Seq(Statement)
      /\ op[u].kind = "create" =>
            /\ [verb |-> "insert", row |-> "organization"] \in Range(p)
            /\ \A s \in Range(p) : s.verb = "insert"
      /\ op[u].kind # "create" =>
            /\ \A m \in Kept(u, rows) : [verb |-> "update", row |-> m.id] \in Range(p)
            /\ \A m \in Dropped(u, rows) : [verb |-> "delete", row |-> m.id] \in Range(p)
  <2>1. CASE op[u].kind = "create"
    <3>1. p = Statements("insert", <<"organization", u>>)
      BY <1>1, <1>3, <2>1 DEF TypeOK
    <3> QED
      BY <2>1, <3>1, CreatorsPlan
  <2>2. CASE op[u].kind # "create"
    <3> DEFINE k == [i \in DOMAIN kept |-> kept[i].id]
               a == SetToSeq(Ids(Added(u, rows)))
               d == SetToSeq(Ids(Dropped(u, rows)))
    <3>1. p = Statements("update", changed \o k) \o Statements("insert", a) \o Statements("delete", d)
      BY <1>1, <1>3, <2>2 DEF TypeOK
    <3>2. /\ Kept(u, rows) \subseteq Member /\ IsFiniteSet(Kept(u, rows))
          /\ Added(u, rows) \subseteq Member /\ IsFiniteSet(Added(u, rows))
          /\ Dropped(u, rows) \subseteq Member /\ IsFiniteSet(Dropped(u, rows))
      BY <1>4, FS_Subset DEF Kept, Added, Dropped
    <3>3. kept \in Seq(Member) /\ Range(kept) = Kept(u, rows)
      BY <3>2, RestIsOrdered
    <3>4. k \in Seq(Row) /\ Range(k) = Ids(Kept(u, rows))
      BY <3>3, IdsOfList
    <3>5. a \in Seq(Row) /\ d \in Seq(Row) /\ Range(d) = Ids(Dropped(u, rows))
      BY <3>2, MemberIds
    <3>6. changed \in Seq(Row)
      <4>1. <<"organization">> \in Seq(Row) /\ <<>> \in Seq(Row)
        BY DEF Row
      <4> QED
        BY <4>1
    <3> HIDE DEF k, a, d, p, changed
    <3>7. /\ p \in Seq(Statement)
          /\ \A row \in Range(k) : [verb |-> "update", row |-> row] \in Range(p)
          /\ \A row \in Range(d) : [verb |-> "delete", row |-> row] \in Range(p)
      BY <3>1, <3>4, <3>5, <3>6, PlanRange
    <3> QED
      BY <2>2, <3>4, <3>5, <3>7 DEF Ids
  <2> QED
    BY <2>1, <2>2
<1> HIDE DEF changed
<1>6. /\ pc'[u] = "flush" /\ found'[u] = there
      /\ \A v \in Unit : v # u => pc'[v] = pc[v] /\ found'[v] = found[v] /\ plan'[v] = plan[v]
  BY <1>1, <1>2, <1>3 DEF TypeOK
<1>7. TypeOK'
  <2>1. there \in [members : SUBSET Member, settings : SUBSET Unit]
    BY <1>3 DEF TypeOK, Nothing
  <2>2. plan' = [plan EXCEPT ![u] = p]
    BY <1>1, <1>3 DEF TypeOK
  <2> HIDE DEF p, there
  <2> QED
    BY <1>2, <1>3, <1>5, <2>1, <2>2 DEF TypeOK, PcStates
<1>8. Committed' = Committed
  BY <1>2, <1>3, NotCommitted DEF Goto
<1>9. Others(u)
  BY <1>2, <1>6 DEF Others
<1>10. Quiet
  BY <1>2, <1>6, <1>8 DEF Quiet, UnderWay
<1>11. Identified'
  <2>1. \A v \in Unit : Range(members[v]) \subseteq Known
    BY DEF Known, Remembered
  <2>2. \A v \in Unit : found'[v].members \subseteq found[v].members \cup rows
    BY <1>6 DEF Nothing
  <2> QED
    BY <1>2, <1>8, <2>1, <2>2, NothingNew
<1>12. Locked'
  BY <1>2, <1>3, <1>6, FewerLocks DEF Locked, TypeOK
<1>13. Mine(u)'
  <2>1. Remembers(u)'
    BY <1>2, <1>3, <1>6 DEF Mine, Remembers, UnderWay, Changed, Adds, NewMember
  <2>2. HasChanged(u)'
    BY <1>2, <1>3, <1>6 DEF Mine, HasChanged, Changed, Adds, NewMember
  <2>3. Executes(u)'
    <3>1. op[u].kind = "create" => Kept(u, there.members) = {} /\ Dropped(u, there.members) = {}
      BY DEF Kept, Dropped, Nothing
    <3>2. op[u].kind # "create" => there.members = rows
      OBVIOUS
    <3>3. \A ms : Kept(u, ms)' = Kept(u, ms) /\ Dropped(u, ms)' = Dropped(u, ms)
      BY <1>2 DEF Kept, Dropped
    <3>4. \A m \in Kept(u, there.members) : [verb |-> "update", row |-> m.id] \in Range(p)
      BY <1>5, <3>1, <3>2
    <3>5. \A m \in Dropped(u, there.members) : [verb |-> "delete", row |-> m.id] \in Range(p)
      BY <1>5, <3>1, <3>2
    <3> HIDE DEF there
    <3> QED
      BY <1>2, <1>5, <1>6, <3>3, <3>4, <3>5 DEF Executes, Pending
  <2>4. Sees(u)'
    <3>1. Sees(u) /\ Remembers(u)
      BY <1>3 DEF Mine
    <3>2. UpToDate(u)' <=> UpToDate(u)
      BY <1>2, <1>8 DEF UpToDate
    <3>3. UpToDate(u) => loaded[u] = there
      BY <1>2, <3>1 DEF Sees, UnderWay, Remembers
    <3>4. there.settings \subseteq Committed
      BY <1>3 DEF Stored, Nothing
    <3> QED
      BY <1>2, <1>6, <1>8, <3>1, <3>2, <3>3, <3>4 DEF Sees, UnderWay
  <2> QED
    BY <2>1, <2>2, <2>3, <2>4 DEF Mine
<1> QED
  BY <1>7, <1>9, <1>10, <1>11, <1>12, <1>13, QuietStep

\* The first statement of u's plan is done.
LEMMA NextOfPlan ==
    ASSUME TypeOK, NEW u \in Unit, plan[u] # <<>>, NextStatement(u)
    PROVE  /\ plan' \in [Unit -> Seq(Statement)]
           /\ Head(plan[u]) \in Statement
           /\ Range(plan[u]) = Range(plan'[u]) \cup {Head(plan[u])}
           /\ \A v \in Unit : v # u => plan'[v] = plan[v]
<1>1. plan \in [Unit -> Seq(Statement)] /\ plan' = [plan EXCEPT ![u] = Tail(plan[u])]
  BY DEF TypeOK, NextStatement
<1>2. /\ Tail(plan[u]) \in Seq(Statement) /\ Head(plan[u]) \in Statement
      /\ Range(plan[u]) = Range(Tail(plan[u])) \cup {Head(plan[u])}
  BY <1>1, HeadOrTail
<1> QED
  BY <1>1, <1>2

\* A statement leaves memories and rows alone.
LEMMA StatementPreserves ==
    ASSUME MembershipInv, NEW u \in Unit, pc[u] = "flush", plan[u] # <<>>, NextStatement(u),
           UNCHANGED <<database, memory, pc>>, TypeOK', Locked', Executes(u)',
           missed \subseteq missed', missed' \subseteq missed \cup {u},
           \A v \in Unit : v # u => \A row : <<row, v>> \in locks' <=> <<row, v>> \in locks
    PROVE  MembershipInv'
<1> USE DEF database, memory
<1>1. TypeOK /\ Mine(u)
  BY DEF MembershipInv
<1>2. \A v \in Unit : v # u => plan'[v] = plan[v]
  BY <1>1, NextOfPlan
<1>3. Committed' = Committed
  BY DEF Committed
<1>4. Others(u)
  BY <1>2 DEF Others
<1>5. Quiet
  BY <1>3 DEF Quiet, UnderWay
<1>6. Identified'
  <2>1. \A v \in Unit : Range(members[v]) \subseteq Known
    BY DEF Known, Remembered
  <2> QED
    BY <1>3, <2>1, NothingNew
<1>7. Mine(u)'
  <2>1. Remembers(u)' /\ HasChanged(u)'
    BY <1>1 DEF Mine, Remembers, HasChanged, UnderWay, Changed, Adds, NewMember
  <2>2. Sees(u)'
    BY <1>1, <1>3 DEF Mine, Sees, UnderWay, UpToDate
  <2> QED
    BY <2>1, <2>2 DEF Mine
<1> QED
  BY <1>4, <1>5, <1>6, <1>7, QuietStep

LEMMA OrganizationIsNoMember ==
    ASSUME TypeOK, NEW u \in Unit, NEW m, m \in Remembered(u)
    PROVE  m.id # "organization" /\ m \in Known
<1>1. m \in Member
  BY UnitTypes DEF Remembered
<1>2. m \in Known
  BY DEF Known
<1> QED
  BY <1>1, <1>2, IdAssumption DEF Member

LEMMA WrittenPreserves ==
    ASSUME MembershipInv, NEW u \in Unit, Written(u)
    PROVE  MembershipInv'
<1> DEFINE row == Head(plan[u]).row
<1>1. PICK verb \in {"insert", "update", "delete"} :
        Running(u, verb) /\ IsThere(row) = (verb # "insert")
  BY DEF Written
<1>2. /\ Granted(u)
      /\ locks' = locks \cup {<<row, u>>}
      /\ NextStatement(u) /\ UNCHANGED <<database, memory, pc, missed>>
  BY DEF Written
<1>3. pc[u] = "flush" /\ plan[u] # <<>> /\ Head(plan[u]).verb = verb
  BY <1>1 DEF Running
<1>4. TypeOK /\ Identified /\ Locked /\ Mine(u)
  BY DEF MembershipInv
<1>5. /\ plan' \in [Unit -> Seq(Statement)]
      /\ Head(plan[u]) \in Statement
      /\ Range(plan[u]) = Range(plan'[u]) \cup {Head(plan[u])}
  BY <1>3, <1>2, <1>4, NextOfPlan
<1>6. Head(plan[u]) = [verb |-> verb, row |-> row] /\ row \in Row
  BY <1>3, <1>5 DEF Statement
<1>7. TypeOK'
  BY <1>2, <1>4, <1>5, <1>6 DEF TypeOK, database, memory
<1>8. Executes(u)
  BY <1>4 DEF Mine
<1>9. Locked'
  <2>1. \A l \in locks : l[1] = row => l = <<row, u>>
    <3> SUFFICES ASSUME NEW l \in locks, l[1] = row PROVE l = <<row, u>>
      OBVIOUS
    <3>1. l = <<row, l[2]>> /\ l[2] \in Unit
      BY <1>4 DEF TypeOK
    <3>2. ~WaitsFor(u, l[2])
      BY <1>2, <3>1 DEF Granted
    <3> QED
      BY <1>3, <3>1, <3>2 DEF WaitsFor
  <2>2. \A l \in locks' : pc'[l[2]] = "flush"
    BY <1>2, <1>3, <1>4 DEF Locked
  <2>3. \A k, l \in locks' : k[1] = l[1] => k = l
    BY <1>2, <1>4, <2>1 DEF Locked
  <2>4. op[u].kind = "create" => verb = "insert"
    BY <1>3, <1>5, <1>8 DEF Executes
  <2>5. op[u].kind = "create" /\ row = "organization" => ~exists
    BY <1>1, <2>4 DEF IsThere
  <2>6. ASSUME NEW v \in Unit, op'[v].kind = "create", <<"organization", v>> \in locks' PROVE ~exists'
    BY <1>2, <1>4, <2>5, <2>6 DEF Locked, database, memory
  <2> QED
    BY <2>2, <2>3, <2>6 DEF Locked
<1>10. Executes(u)'
  <2>1. \A m \in found[u].members : m.id # "organization" /\ m \in Known
    BY <1>4, OrganizationIsNoMember DEF Remembered
  <2>2. \A m \in rows : m \in Known
    BY DEF Known
  <2>3. ASSUME NEW m \in found[u].members, verb = "update", row = m.id PROVE m \in rows
    BY <1>1, <1>4, <2>1, <2>2, <2>3 DEF IsThere, Identified
  <2>4. \A x, y : Pending(u, x, y) => Pending(u, x, y)' \/ (x = verb /\ y = row)
    BY <1>5, <1>6 DEF Pending
  <2>5. \A m \in Kept(u, found[u].members) : m \in found[u].members
    BY DEF Kept
  <2>6. \A m \in Dropped(u, found[u].members) : m \in found[u].members
    BY DEF Dropped
  <2>7. \A ms : Kept(u, ms)' = Kept(u, ms) /\ Dropped(u, ms)' = Dropped(u, ms)
    BY <1>2 DEF Kept, Dropped, memory
  <2>8. UpToDate(u)' <=> UpToDate(u)
    BY <1>2 DEF UpToDate, Committed, memory
  <2>9. u \notin missed => \A m \in Kept(u, found[u].members) :
            Pending(u, "update", m.id)' \/ (<<m.id, u>> \in locks' /\ m \in rows)
    BY <1>2, <1>3, <1>8, <2>3, <2>4, <2>5 DEF Executes
  <2>10. UpToDate(u) => \A m \in Dropped(u, found[u].members) :
            Pending(u, "delete", m.id)' \/ <<m.id, u>> \in locks'
    BY <1>2, <1>3, <1>8, <2>4 DEF Executes
  <2>11. op[u].kind = "create" =>
            /\ Pending(u, "insert", "organization")' \/ <<"organization", u>> \in locks'
            /\ \A s \in Range(plan'[u]) : s.verb = "insert"
    BY <1>2, <1>3, <1>5, <1>8, <2>4 DEF Executes
  <2> QED
    BY <1>2, <2>7, <2>8, <2>9, <2>10, <2>11 DEF Executes, database, memory
<1>11. \A v \in Unit : v # u => \A r : <<r, v>> \in locks' <=> <<r, v>> \in locks
  BY <1>2
<1>12. missed' = missed
  BY <1>2
<1> QED
  BY <1>2, <1>3, <1>7, <1>9, <1>10, <1>11, <1>12, StatementPreserves

LEMMA UpdateMissesPreserves ==
    ASSUME MembershipInv, NEW u \in Unit, UpdateMisses(u)
    PROVE  MembershipInv'
<1>1. /\ pc[u] = "flush" /\ plan[u] # <<>> /\ Head(plan[u]).verb = "update"
      /\ missed' = missed \cup {u}
      /\ NextStatement(u) /\ UNCHANGED <<database, memory, pc, locks>>
  BY DEF UpdateMisses, Running
<1>2. TypeOK /\ Locked /\ Executes(u)
  BY DEF MembershipInv, Mine
<1>3. /\ plan' \in [Unit -> Seq(Statement)]
      /\ Range(plan[u]) = Range(plan'[u]) \cup {Head(plan[u])}
  BY <1>1, <1>2, NextOfPlan
<1>4. TypeOK'
  BY <1>1, <1>2, <1>3 DEF TypeOK, database, memory
<1>5. Locked'
  BY <1>1, <1>2 DEF Locked, database, memory
<1>6. Executes(u)'
  <2>1. \A x, y : Pending(u, x, y) => Pending(u, x, y)' \/ x = "update"
    BY <1>1, <1>3 DEF Pending
  <2>2. \A ms : Dropped(u, ms)' = Dropped(u, ms)
    BY <1>1 DEF Dropped, memory
  <2>3. UpToDate(u)' <=> UpToDate(u)
    BY <1>1 DEF UpToDate, Committed, memory
  <2>4. u \in missed'
    BY <1>1
  <2> QED
    BY <1>1, <1>2, <1>3, <2>1, <2>2, <2>3, <2>4 DEF Executes, memory
<1> QED
  BY <1>1, <1>4, <1>5, <1>6, StatementPreserves

LEMMA DeleteMissesPreserves ==
    ASSUME MembershipInv, NEW u \in Unit, DeleteMisses(u)
    PROVE  MembershipInv'
<1> DEFINE row == Head(plan[u]).row
<1>1. /\ pc[u] = "flush" /\ plan[u] # <<>> /\ Head(plan[u]).verb = "delete"
      /\ ~IsThere(row)
      /\ NextStatement(u) /\ UNCHANGED <<database, memory, pc, locks, missed>>
  BY DEF DeleteMisses, Running
<1>2. TypeOK /\ Locked /\ Mine(u)
  BY DEF MembershipInv
<1>3. /\ plan' \in [Unit -> Seq(Statement)]
      /\ Range(plan[u]) = Range(plan'[u]) \cup {Head(plan[u])}
  BY <1>1, <1>2, NextOfPlan
<1>4. TypeOK'
  BY <1>1, <1>2, <1>3 DEF TypeOK, database, memory
<1>5. Locked'
  BY <1>1, <1>2 DEF Locked, database, memory
<1>6. Executes(u)'
  <2>1. \A x, y : Pending(u, x, y) => Pending(u, x, y)' \/ (x = "delete" /\ y = row)
    BY <1>1, <1>3 DEF Pending
  <2>2. \A ms : Kept(u, ms)' = Kept(u, ms) /\ Dropped(u, ms)' = Dropped(u, ms)
    BY <1>1 DEF Kept, Dropped, memory
  <2>3. UpToDate(u)' <=> UpToDate(u)
    BY <1>1 DEF UpToDate, Committed, memory
  <2>4. UpToDate(u) => \A m \in Dropped(u, found[u].members) : m \in rows /\ m.id # "organization"
    <3>1. UpToDate(u) => found[u].members = rows
      BY <1>1, <1>2 DEF Mine, Sees, UnderWay
    <3>2. \A m \in found[u].members : m.id # "organization"
      BY <1>2, OrganizationIsNoMember DEF Remembered
    <3> QED
      BY <3>1, <3>2 DEF Dropped
  <2>5. UpToDate(u) => \A m \in Dropped(u, found[u].members) : m.id # row
    BY <1>1, <2>4 DEF IsThere
  <2>6. Executes(u)
    BY <1>2 DEF Mine
  <2> HIDE DEF row
  <2> QED
    BY <1>1, <1>3, <2>1, <2>2, <2>3, <2>5, <2>6 DEF Executes, memory, database
<1> QED
  BY <1>1, <1>4, <1>5, <1>6, StatementPreserves

LEMMA UnitRollBack ==
    ASSUME MembershipInv, NEW u \in Unit, pc[u] # "done", RollBack(u)
    PROVE  MembershipInv'
<1> USE DEF database
<1>1. /\ pc' = [pc EXCEPT ![u] = "failed"]
      /\ locks' = {l \in locks : l[2] # u}
      /\ plan' = [plan EXCEPT ![u] = <<>>]
      /\ members' = [members EXCEPT ![u] = <<>>]
      /\ loaded' = [loaded EXCEPT ![u] = Nothing]
      /\ found' = [found EXCEPT ![u] = Nothing]
      /\ UNCHANGED <<database, op, seen, missed>>
  BY DEF RollBack, Goto, Forget
<1>2. TypeOK /\ Locked /\ Mine(u)
  BY DEF MembershipInv
<1>3. /\ pc'[u] = "failed" /\ members'[u] = <<>> /\ loaded'[u] = Nothing /\ found'[u] = Nothing
      /\ \A v \in Unit : v # u =>
            /\ pc'[v] = pc[v] /\ members'[v] = members[v] /\ loaded'[v] = loaded[v]
            /\ found'[v] = found[v] /\ plan'[v] = plan[v]
  BY <1>1, <1>2 DEF TypeOK
<1>4. TypeOK'
  <2>1. Nothing \in [members : SUBSET Member, settings : SUBSET Unit]
    BY DEF Nothing
  <2>2. <<>> \in Seq(Member) /\ <<>> \in Seq(Statement)
    BY EmptySeq
  <2> QED
    BY <1>1, <1>2, <2>1, <2>2 DEF TypeOK, PcStates
<1>5. Committed' = Committed
  BY <1>1, <1>2, NotCommitted DEF Goto
<1>6. Others(u)
  BY <1>1, <1>3 DEF Others
<1>7. Quiet
  BY <1>1, <1>3, <1>5 DEF Quiet, UnderWay
<1>8. Range(<<>>) = {}
  BY DEF Range
<1>9. Identified'
  <2>1. \A v \in Unit : Range(members'[v]) \subseteq Known
    BY <1>3, <1>8 DEF Known, Remembered
  <2>2. \A v \in Unit : loaded'[v].members \cup found'[v].members
                          \subseteq loaded[v].members \cup found[v].members \cup rows
    BY <1>3 DEF Nothing
  <2> QED
    BY <1>1, <1>5, <2>1, <2>2, NothingNew
<1>10. Locked'
  BY <1>1, <1>2, <1>3, FewerLocks DEF Locked, TypeOK
<1>11. Mine(u)'
  <2>1. Remembers(u)'
    BY <1>1, <1>3, <1>8 DEF Remembers, UnderWay
  <2>2. HasChanged(u)' /\ Executes(u)'
    BY <1>3 DEF HasChanged, Changed, Executes
  <2>3. Sees(u)'
    BY <1>1, <1>2, <1>3, <1>5 DEF Mine, Sees, UnderWay, Nothing
  <2> QED
    BY <2>1, <2>2, <2>3 DEF Mine
<1> QED
  BY <1>4, <1>6, <1>7, <1>9, <1>10, <1>11, QuietStep

\* What a commit of u comes to.
LEMMA CommitEffect ==
    ASSUME MembershipInv, NEW u \in Unit, Commit(u)
    PROVE  /\ pc[u] = "flush" /\ UnderWay(u) /\ Changed(u)
           /\ exists' = TRUE /\ op' = op /\ seen' = seen /\ plan' = plan /\ missed' = missed
           /\ rows' = (rows \ {m \in Dropped(u, found[u].members) : <<m.id, u>> \in locks})
                          \cup Added(u, found[u].members)
           /\ settings' = IF OwnSettings(u) # found[u].settings THEN OwnSettings(u) ELSE settings
           /\ locks' = {l \in locks : l[2] # u}
           /\ pc'[u] = "done" /\ members'[u] = <<>> /\ loaded'[u] = Nothing /\ found'[u] = Nothing
           /\ \A v \in Unit : v # u =>
                /\ pc'[v] = pc[v] /\ members'[v] = members[v]
                /\ loaded'[v] = loaded[v] /\ found'[v] = found[v]
           /\ \A verb, row : ~Pending(u, verb, row)
           /\ Committed' = Committed \cup {u} /\ u \notin Committed
           /\ TypeOK'
<1>1. /\ pc[u] = "flush" /\ plan[u] = <<>>
      /\ exists' = TRUE /\ op' = op /\ seen' = seen /\ plan' = plan /\ missed' = missed
      /\ rows' = (rows \ {m \in Dropped(u, found[u].members) : <<m.id, u>> \in locks})
                     \cup Added(u, found[u].members)
      /\ settings' = IF OwnSettings(u) # found[u].settings THEN OwnSettings(u) ELSE settings
      /\ locks' = {l \in locks : l[2] # u}
      /\ pc' = [pc EXCEPT ![u] = "done"]
      /\ members' = [members EXCEPT ![u] = <<>>]
      /\ loaded' = [loaded EXCEPT ![u] = Nothing]
      /\ found' = [found EXCEPT ![u] = Nothing]
  BY DEF Commit, Goto, Forget
<1>2. TypeOK
  BY DEF MembershipInv
<1>3. \A verb, row : ~Pending(u, verb, row)
  <2>1. Range(plan[u]) = {}
    BY <1>1 DEF Range
  <2> QED
    BY <2>1 DEF Pending
<1>4. Committed' = Committed \cup {u} /\ u \notin Committed
  BY <1>1, <1>2 DEF Committed, TypeOK
<1>5. TypeOK'
  <2>1. Nothing \in [members : SUBSET Member, settings : SUBSET Unit]
    BY DEF Nothing
  <2>2. <<>> \in Seq(Member)
    BY EmptySeq
  <2>3. rows' \subseteq Member
    <3>1. Range(members[u]) \subseteq Member
      BY <1>2, UnitTypes
    <3> QED
      BY <1>1, <1>2, <3>1 DEF Added, TypeOK
  <2>4. settings' \subseteq Unit
    <3>1. loaded[u].settings \subseteq Unit
      BY <1>2, UnitTypes
    <3> QED
      BY <1>1, <1>2, <3>1 DEF OwnSettings, TypeOK
  <2> QED
    BY <1>1, <1>2, <2>1, <2>2, <2>3, <2>4 DEF TypeOK, PcStates
<1>6. /\ pc'[u] = "done" /\ members'[u] = <<>> /\ loaded'[u] = Nothing /\ found'[u] = Nothing
      /\ \A v \in Unit : v # u =>
           /\ pc'[v] = pc[v] /\ members'[v] = members[v]
           /\ loaded'[v] = loaded[v] /\ found'[v] = found[v]
  BY <1>1, <1>2 DEF TypeOK
<1> QED
  BY <1>1, <1>3, <1>4, <1>5, <1>6 DEF UnderWay, Changed

\* Where the new rows are from, and that an organization is created once.
LEMMA CommittedRows ==
    ASSUME MembershipInv, NEW u \in Unit, Commit(u)
    PROVE  /\ \A m \in rows' : m \in rows \/ m \in loaded[u].members \/ (m = NewMember(u) /\ Adds(u))
           /\ Added(u, found[u].members) \subseteq rows'
           /\ \A m \in rows : m \in rows' \/ (m \in Dropped(u, found[u].members) /\ <<m.id, u>> \in locks)
           /\ op[u].kind = "create" => ~exists
           /\ op[u].kind # "create" => exists
           /\ settings' \subseteq settings \cup loaded[u].settings \cup (IF op[u].kind = "settings" THEN {u} ELSE {})
           /\ \A v \in Committed : ~Overlapped(v)' => v \in seen[u]
           /\ ~Overlapped(u)' => UpToDate(u)
           /\ \A v \in Committed : Overlapped(v) => Overlapped(v)'
           /\ \A user : MaybeTwice(user) => MaybeTwice(user)'
<1>0. /\ rows' = (rows \ {m \in Dropped(u, found[u].members) : <<m.id, u>> \in locks})
                     \cup Added(u, found[u].members)
      /\ settings' = IF OwnSettings(u) # found[u].settings THEN OwnSettings(u) ELSE settings
  BY CommitEffect
<1>commit. /\ pc[u] = "flush" /\ UnderWay(u) /\ op' = op /\ seen' = seen
      /\ Committed' = Committed \cup {u} /\ u \notin Committed
      /\ \A verb, row : ~Pending(u, verb, row)
  BY CommitEffect
<1>1. Mine(u) /\ Locked /\ Stored /\ Sees(u) /\ \A v \in Unit : seen[v] \subseteq Committed /\ v \notin seen[v]
  BY DEF MembershipInv, Mine, Sees
<1>2. \A m \in rows' : m \in rows \/ m \in loaded[u].members \/ (m = NewMember(u) /\ Adds(u))
  BY <1>0, <1>1 DEF Added, Mine, Remembers
<1>3. Added(u, found[u].members) \subseteq rows'
  BY <1>0
<1>4. \A m \in rows : m \in rows' \/ (m \in Dropped(u, found[u].members) /\ <<m.id, u>> \in locks)
  BY <1>0
<1>5. op[u].kind = "create" => ~exists
  BY <1>1, <1>commit DEF Mine, Executes, Locked
<1>6. op[u].kind # "create" => exists
  BY <1>1, <1>commit DEF Stored
<1>7. settings' \subseteq settings \cup loaded[u].settings \cup (IF op[u].kind = "settings" THEN {u} ELSE {})
  BY <1>0 DEF OwnSettings
<1>8. \A v, w : Overlap(v, w)' <=> Overlap(v, w)
  BY <1>commit DEF Overlap
<1>9. \A v \in Committed : v \in Unit /\ v # u
  BY <1>commit DEF Committed
<1>10. \A v \in Committed : ~Overlapped(v)' => v \in seen[u]
  BY <1>1, <1>commit, <1>8, <1>9 DEF Overlapped, Overlap
<1>11. ~Overlapped(u)' => UpToDate(u)
  BY <1>1, <1>commit, <1>8, <1>9 DEF Overlapped, Overlap, UpToDate
<1>12. \A v \in Committed : Overlapped(v) => Overlapped(v)'
  BY <1>commit, <1>8 DEF Overlapped
<1>13. \A user : MaybeTwice(user) => MaybeTwice(user)'
  BY <1>commit, <1>8 DEF MaybeTwice
<1> QED
  BY <1>2, <1>3, <1>4, <1>5, <1>6, <1>7, <1>10, <1>11, <1>12, <1>13

LEMMA CommitStores ==
    ASSUME MembershipInv, NEW u \in Unit, Commit(u)
    PROVE  Stored' /\ Locked' /\ Identified'
<1>0. /\ pc[u] = "flush" /\ exists' = TRUE /\ op' = op
      /\ Committed' = Committed \cup {u} /\ u \notin Committed
      /\ locks' = {l \in locks : l[2] # u}
      /\ \A v \in Unit : v # u => pc'[v] = pc[v]
      /\ \A verb, row : ~Pending(u, verb, row)
  BY CommitEffect
<1>rows. \A m \in rows' : m \in rows \/ m \in loaded[u].members \/ (m = NewMember(u) /\ Adds(u))
  BY CommittedRows
<1>1. TypeOK /\ Stored /\ Locked /\ Identified /\ Mine(u) /\ \A v \in Unit : Sees(v)
  BY DEF MembershipInv, Mine
<1>2. Stored'
  <2>1. IsFiniteSet(rows \cup Range(members[u]))
    <3>1. IsFiniteSet(Range(members[u])) /\ IsFiniteSet(rows)
      BY <1>1, UnitTypes DEF Stored
    <3> QED
      BY <3>1, FS_Union
  <2>2. rows' \subseteq rows \cup Range(members[u])
    <3>1. rows' \subseteq rows \cup Added(u, found[u].members)
      BY CommitEffect
    <3> QED
      BY <3>1 DEF Added
  <2>3. IsFiniteSet(rows')
    BY <2>1, <2>2, FS_Subset
  <2>4. settings' \subseteq Committed'
    <3>1. settings' \subseteq settings \cup loaded[u].settings \cup {u}
      BY CommittedRows
    <3> QED
      BY <1>0, <1>1, <3>1 DEF Stored, Sees
  <2> QED
    BY <1>0, <2>3, <2>4 DEF Stored
<1>3. Locked'
  <2>1. \A l \in locks' : pc'[l[2]] = "flush"
    <3> SUFFICES ASSUME NEW l \in locks' PROVE pc'[l[2]] = "flush"
      OBVIOUS
    <3>1. l \in locks /\ l[2] # u /\ l[2] \in Unit
      BY <1>0, <1>1 DEF TypeOK
    <3> QED
      BY <1>0, <1>1, <3>1 DEF Locked
  <2>2. \A k, l \in locks' : k[1] = l[1] => k = l
    BY <1>0, <1>1 DEF Locked
  <2>3. ASSUME NEW v \in Unit, op[v].kind = "create", <<"organization", v>> \in locks' PROVE FALSE
    <3>1. <<"organization", v>> \in locks /\ v # u
      BY <1>0, <2>3
    <3>2. ~exists
      BY <1>1, <2>3, <3>1 DEF Locked
    <3>3. <<"organization", u>> \in locks
      <4>1. op[u].kind = "create"
        BY <3>2, CommittedRows
      <4> QED
        BY <1>0, <1>1, <4>1 DEF Mine, Executes
    <3> QED
      BY <1>1, <3>1, <3>3 DEF Locked
  <2> QED
    BY <1>0, <2>1, <2>2, <2>3 DEF Locked
<1>4. Identified'
  <2>1. \A v \in Unit : loaded'[v].members \cup found'[v].members
                          \subseteq loaded[v].members \cup found[v].members
    <3>1. loaded'[u] = Nothing /\ found'[u] = Nothing
      BY CommitEffect
    <3>2. \A v \in Unit : v # u => loaded'[v] = loaded[v] /\ found'[v] = found[v]
      BY CommitEffect
    <3> QED
      BY <3>1, <3>2 DEF Nothing
  <2>2. \A v \in Unit : Range(members'[v]) \subseteq Range(members[v])
    <3>1. Range(<<>>) = {}
      BY DEF Range
    <3>2. members'[u] = <<>> /\ \A v \in Unit : v # u => members'[v] = members[v]
      BY CommitEffect
    <3> QED
      BY <3>1, <3>2
  <2>3. rows' \subseteq Known
    <3>1. rows' \subseteq rows \cup Added(u, found[u].members)
      BY CommitEffect
    <3> QED
      BY <3>1 DEF Known, Remembered, Added
  <2>4. Known' \subseteq Known
    BY <2>1, <2>2, <2>3 DEF Known, Remembered
  <2>5. \A v : NewMember(v)' = NewMember(v) /\ (Adds(v)' <=> Adds(v))
    BY <1>0 DEF NewMember, Adds
  <2>6. \A m, n \in Known' : m.id = n.id => m = n
    BY <1>1, <2>4 DEF Identified
  <2>7. \A m \in Known' : m.id \in User => m.user = m.id
    BY <1>1, <2>4 DEF Identified
  <2>8. \A m \in Known' : m.id \in Unit => m = NewMember(m.id)' /\ Adds(m.id)'
    BY <1>1, <2>4, <2>5 DEF Identified
  <2>9. ASSUME NEW m \in rows', m.id \in Unit PROVE m.id \in Committed'
    <3>1. CASE m \in rows \/ m \in loaded[u].members
      <4>1. m.id \in Committed
        BY <1>1, <2>9, <3>1 DEF Identified
      <4> QED
        BY <1>0, <4>1
    <3>2. CASE m = NewMember(u)
      BY <1>0, <3>2 DEF NewMember
    <3> QED
      BY <1>rows, <3>1, <3>2
  <2>10. \A v \in Unit : \A m \in loaded'[v].members \cup found'[v].members :
            m.id \in Unit => m.id \in Committed'
    BY <1>0, <1>1, <2>1 DEF Identified
  <2> QED
    BY <2>6, <2>7, <2>8, <2>9, <2>10 DEF Identified
<1> QED
  BY <1>2, <1>3, <1>4

LEMMA CommitMine ==
    ASSUME MembershipInv, NEW u \in Unit, Commit(u), NEW v \in Unit
    PROVE  Mine(v)'
<1>0. /\ op' = op /\ seen' = seen /\ plan' = plan /\ missed' = missed
      /\ Committed' = Committed \cup {u} /\ u \notin Committed
      /\ locks' = {l \in locks : l[2] # u}
  BY CommitEffect
<1>1. Mine(v) /\ Locked /\ seen[v] \subseteq Committed /\ v \notin seen[v]
  BY DEF MembershipInv, Mine, Sees
<1>2. CASE v = u
  <2>0. pc'[v] = "done" /\ members'[v] = <<>> /\ loaded'[v] = Nothing /\ found'[v] = Nothing
    BY <1>2, CommitEffect
  <2>1. Range(<<>>) = {}
    BY DEF Range
  <2>2. Remembers(v)'
    BY <2>0, <2>1 DEF Remembers, UnderWay
  <2>3. HasChanged(v)' /\ Executes(v)'
    BY <2>0 DEF HasChanged, Changed, Executes
  <2>4. Sees(v)'
    <3>1. Nothing.settings = {}
      BY DEF Nothing
    <3> QED
      BY <1>0, <1>1, <2>0, <3>1 DEF Mine, Sees, UnderWay
  <2> QED
    BY <2>2, <2>3, <2>4 DEF Mine
<1>3. CASE v # u
  <2>0. pc'[v] = pc[v] /\ members'[v] = members[v] /\ loaded'[v] = loaded[v] /\ found'[v] = found[v]
    BY <1>3, CommitEffect
  <2>1. Remembers(v)'
    BY <1>0, <1>1, <2>0 DEF Mine, Remembers, UnderWay, Changed, Adds, NewMember
  <2>2. HasChanged(v)'
    BY <1>0, <1>1, <2>0 DEF Mine, HasChanged, Changed, Adds, NewMember
  <2>3. ~UpToDate(v)'
    BY <1>0, <1>1 DEF UpToDate
  <2>4. Sees(v)'
    BY <1>0, <1>1, <2>0, <2>3 DEF Mine, Sees, UnderWay
  <2>5. Executes(v)'
    <3>1. \A m \in rows : <<m.id, v>> \in locks => m \in rows'
      <4> SUFFICES ASSUME NEW m \in rows, <<m.id, v>> \in locks, <<m.id, u>> \in locks PROVE FALSE
        BY CommittedRows
      <4> QED
        BY <1>1, <1>3 DEF Locked
    <3>2. \A ms : Kept(v, ms)' = Kept(v, ms)
      BY <2>0 DEF Kept
    <3>3. \A x, y : Pending(v, x, y)' <=> Pending(v, x, y)
      BY <1>0 DEF Pending
    <3>4. \A r : <<r, v>> \in locks' <=> <<r, v>> \in locks
      BY <1>0, <1>3
    <3> QED
      BY <1>0, <1>1, <2>0, <2>3, <3>1, <3>2, <3>3, <3>4 DEF Mine, Executes
  <2> QED
    BY <2>1, <2>2, <2>4, <2>5 DEF Mine
<1> QED
  BY <1>2, <1>3

\* What a commit of u leaves in the other units' memory.
LEMMA CommitForgets ==
    ASSUME MembershipInv, NEW u \in Unit, Commit(u), NEW v \in Unit
    PROVE  /\ UnderWay(v)' => v # u /\ UnderWay(v) /\ loaded'[v] = loaded[v]
           /\ loaded'[v].members = {} \/ (v # u /\ loaded'[v] = loaded[v])
<1>1. CASE v = u
  <2>1. pc'[v] = "done" /\ loaded'[v] = Nothing
    BY <1>1, CommitEffect
  <2> QED
    BY <2>1 DEF UnderWay, Nothing
<1>2. CASE v # u
  <2>1. pc'[v] = pc[v] /\ loaded'[v] = loaded[v]
    BY <1>2, CommitEffect
  <2> QED
    BY <1>2, <2>1 DEF UnderWay
<1> QED
  BY <1>1, <1>2

LEMMA CommitOwned ==
    ASSUME MembershipInv, NEW u \in Unit, Commit(u)
    PROVE  Owned'
<1> SUFFICES ASSUME missed' = {}, \A user \in User : ~MaybeTwice(user)'
             PROVE  /\ Owners(rows') # {}
                    /\ \A v \in Unit : UnderWay(v)' /\ op'[v].kind # "create" =>
                          Owners(loaded'[v].members) # {}
  BY DEF Owned
<1>1. /\ pc[u] = "flush" /\ UnderWay(u) /\ Changed(u) /\ op' = op /\ missed' = missed
      /\ \A verb, row : ~Pending(u, verb, row)
  BY CommitEffect
<1>2. /\ Added(u, found[u].members) \subseteq rows'
      /\ \A m \in rows : m \in rows' \/ m \in Dropped(u, found[u].members)
      /\ op[u].kind = "create" => ~exists
      /\ op[u].kind # "create" => exists
  BY CommittedRows
<1>3. \A user \in User : ~MaybeTwice(user)
  BY CommittedRows
<1>4. TypeOK /\ Owned /\ Stored /\ Mine(u) /\ \A user \in User : Once(user)
  BY DEF MembershipInv
<1>5. exists => \A v \in Unit : UnderWay(v) /\ op[v].kind # "create" => Owners(loaded[v].members) # {}
  BY <1>1, <1>3, <1>4 DEF Owned
<1>6. ASSUME NEW v \in Unit, UnderWay(v)', op'[v].kind # "create" PROVE Owners(loaded'[v].members) # {}
  <2>1. UnderWay(v) /\ loaded'[v] = loaded[v]
    BY <1>6, CommitForgets
  <2>2. exists
    BY <1>1, <1>4, <1>6, <2>1 DEF Stored
  <2> QED
    BY <1>1, <1>5, <1>6, <2>1, <2>2
<1>7. Owners(rows') # {}
  <2>1. op[u].kind # "create" => Owners(loaded[u].members) # {} /\ NoDoubles(loaded[u].members)
    <3> SUFFICES ASSUME op[u].kind # "create"
                 PROVE  Owners(loaded[u].members) # {} /\ NoDoubles(loaded[u].members)
      OBVIOUS
    <3>1. Owners(loaded[u].members) # {}
      BY <1>1, <1>2, <1>5
    <3>2. \A m \in loaded[u].members : m.user \in User
      BY <1>4, UnitTypes DEF Member
    <3> QED
      BY <1>3, <1>4, <3>1, <3>2 DEF Once, NoDoubles
  <2>2. Owners(Range(members[u])) # {}
    BY <1>1, <1>4, <2>1 DEF Mine, HasChanged
  <2>3. PICK o \in Range(members[u]) : o.role = "OWNER"
    BY <2>2 DEF Owners
  <2>4. CASE o \in found[u].members
    <3>1. u \notin missed
      BY <1>1
    <3>2. o \in rows
      BY <1>1, <1>4, <2>4, <3>1 DEF Mine, Executes, Kept
    <3> QED
      BY <1>2, <2>3, <3>2 DEF Dropped, Owners
  <2>5. CASE o \notin found[u].members
    BY <1>2, <2>3, <2>5 DEF Added, Owners
  <2> QED
    BY <2>4, <2>5
<1> QED
  BY <1>6, <1>7

LEMMA CommitOnce ==
    ASSUME MembershipInv, NEW u \in Unit, Commit(u), NEW user \in User
    PROVE  Once(user)'
<1> SUFFICES ASSUME ~MaybeTwice(user)' PROVE Once(user)'
  BY DEF Once
<1>1. /\ op' = op /\ seen' = seen /\ Changed(u) /\ UnderWay(u)
      /\ Committed' = Committed \cup {u} /\ u \notin Committed
  BY CommitEffect
<1>2. /\ \A m \in rows' : m \in rows \/ m \in loaded[u].members \/ (m = NewMember(u) /\ Adds(u))
      /\ op[u].kind = "create" => ~exists
      /\ ~MaybeTwice(user)
  BY CommittedRows
<1>3. /\ TypeOK /\ Stored /\ Once(user)
      /\ \A v \in Unit : Mine(v) /\ seen[v] \subseteq Committed
  BY DEF MembershipInv, Mine, Sees
<1>4. \A v \in Unit : loaded'[v].members = {} \/ (v # u /\ loaded'[v] = loaded[v])
  BY CommitForgets
<1>5. \A v \in Unit : AddedUnseenBy(user, v) => AddedUnseenBy(user, v)'
  BY <1>1 DEF AddedUnseenBy
<1>6. \A v, w \in Committed' : Overlap(v, w) => ~(op[v].kind = "add" /\ op[v].user = user)
  BY <1>1 DEF MaybeTwice, Overlap
<1>7. Committed \subseteq Unit
  BY DEF Committed
<1>8. \A v \in Committed : v \notin seen[u] => Overlap(v, u) /\ Overlap(u, v)
  BY <1>1, <1>3, <1>7 DEF Overlap
<1>9. ~AddedUnseenBy(user, u)
  BY <1>1, <1>6, <1>8 DEF AddedUnseenBy
<1>10. /\ \A m, n \in rows : m.user = user /\ n.user = user => m = n
       /\ \A v \in Unit : \A m, n \in loaded[v].members : m.user = user /\ n.user = user => m = n
       /\ \A v \in Unit : \A m \in loaded[v].members, n \in rows :
            m.user = user /\ n.user = user => m = n \/ AddedUnseenBy(user, v)
       /\ \A v, w \in Unit : \A m \in loaded[v].members, n \in loaded[w].members :
            m.user = user /\ n.user = user => m = n \/ AddedUnseenBy(user, v) \/ AddedUnseenBy(user, w)
  BY <1>2, <1>3 DEF Once
<1>11. \A v \in Unit : \A m, n \in loaded'[v].members : m.user = user /\ n.user = user => m = n
  BY <1>4, <1>10
<1>12. \A v, w \in Unit : \A m \in loaded'[v].members, n \in loaded'[w].members :
          m.user = user /\ n.user = user => m = n \/ AddedUnseenBy(user, v)' \/ AddedUnseenBy(user, w)'
  BY <1>4, <1>5, <1>10
<1>13. /\ \A m, n \in rows' : m.user = user /\ n.user = user => m = n
       /\ \A v \in Unit : \A m \in loaded'[v].members, n \in rows' :
            m.user = user /\ n.user = user => m = n \/ AddedUnseenBy(user, v)'
  <2>1. CASE op[u].kind = "create"
    <3>1. rows = {} /\ \A v \in Unit : op[v].kind # "create" => ~UnderWay(v)
      BY <1>2, <1>3, <2>1 DEF Stored
    <3>2. \A v \in Unit : loaded[v] = Nothing
      BY <1>3, <3>1 DEF Mine, Remembers
    <3>3. \A v \in Unit : loaded[v].members = {}
      BY <3>2 DEF Nothing
    <3>4. \A v \in Unit : loaded'[v].members = {}
      BY <1>4, <3>3
    <3>5. \A m \in rows' : m = NewMember(u)
      BY <1>2, <3>1, <3>3
    <3> QED
      BY <3>4, <3>5
  <2>2. CASE op[u].kind = "add" /\ op[u].user = user
    <3>1. UpToDate(u)
      BY <1>1, <1>6, <1>8, <2>2 DEF UpToDate
    <3>2. loaded[u].members = rows
      BY <1>1, <1>3, <3>1 DEF Mine, Sees
    <3>3. \A m \in loaded[u].members : m.user # user
      BY <1>1, <1>3, <2>2 DEF Mine, HasChanged, Adds, Users
    <3>4. \A m \in rows' : m.user = user => m = NewMember(u)
      BY <1>2, <3>2, <3>3
    <3>5. \A v \in Unit : u \notin seen[v]
      BY <1>1, <1>3
    <3>6. \A v \in Unit : AddedUnseenBy(user, v)'
      BY <1>1, <2>2, <3>5 DEF AddedUnseenBy
    <3> QED
      BY <3>4, <3>6
  <2>3. CASE op[u].kind # "create" /\ ~(op[u].kind = "add" /\ op[u].user = user)
    <3>1. \A m \in rows' : m.user = user => m \in rows \cup loaded[u].members
      BY <1>2, <2>3 DEF NewMember, Adds
    <3>2. \A m, n \in rows' : m.user = user /\ n.user = user => m = n
      BY <1>9, <1>10, <3>1
    <3>3. \A v \in Unit : \A m \in loaded[v].members, n \in rows' :
             m.user = user /\ n.user = user => m = n \/ AddedUnseenBy(user, v)
      BY <1>9, <1>10, <3>1
    <3> QED
      BY <1>4, <1>5, <3>2, <3>3
  <2> QED
    BY <2>1, <2>2, <2>3
<1> QED
  BY <1>11, <1>12, <1>13 DEF Once

\* What a commit that overlapped with none has done is done.
LEMMA CommitPasses ==
    ASSUME MembershipInv, NEW u \in Unit, Commit(u), ~Overlapped(u)'
    PROVE  Passes(u, rows, settings)'
<1>1. /\ pc[u] = "flush" /\ op' = op /\ UnderWay(u) /\ Changed(u) /\ u \notin Committed
      /\ \A verb, row : ~Pending(u, verb, row)
      /\ rows' = (rows \ {m \in Dropped(u, found[u].members) : <<m.id, u>> \in locks})
                     \cup Added(u, found[u].members)
      /\ settings' = IF OwnSettings(u) # found[u].settings THEN OwnSettings(u) ELSE settings
  BY CommitEffect
<1>2. UpToDate(u)
  BY CommittedRows
<1>3. Mine(u) /\ Identified
  BY DEF MembershipInv
<1>4. /\ found[u].members = rows
      /\ found[u].settings \subseteq Committed
  BY <1>1, <1>2, <1>3 DEF Mine, Sees
<1>5. op[u].kind = "settings" => u \in settings'
  BY <1>1, <1>4 DEF OwnSettings
<1>6. ASSUME op[u].kind = "remove", NEW m \in rows' PROVE m.user # op[u].user
  <2>1. m \in Range(members[u]) => m.user # op[u].user
    BY <1>1, <1>3, <1>6 DEF Mine, HasChanged, Users
  <2>2. m \in rows => m \in Range(members[u])
    BY <1>1, <1>2, <1>3, <1>4 DEF Mine, Executes, Added, Dropped
  <2>3. m \in rows \/ m \in Range(members[u])
    BY <1>1 DEF Added
  <2> QED
    BY <2>1, <2>2, <2>3
<1>7. ASSUME Adds(u) PROVE u \in Ids(rows')
  <2>1. NewMember(u) \in Range(members[u]) /\ NewMember(u).id = u
    BY <1>1, <1>3, <1>7 DEF Mine, HasChanged, NewMember
  <2>2. NewMember(u) \notin rows
    BY <1>1, <1>3, <2>1 DEF Identified
  <2> QED
    BY <1>1, <1>4, <2>1, <2>2 DEF Added, Ids
<1> QED
  BY <1>1, <1>5, <1>6, <1>7 DEF Passes, Adds

\* What an earlier commit has done passes into what u loaded, and so to the rows.
LEMMA CommitKeeps ==
    ASSUME MembershipInv, NEW u \in Unit, Commit(u), NEW w \in Committed,
           Passes(w, rows, settings), Passes(w, loaded[u].members, loaded[u].settings)
    PROVE  Passes(w, rows, settings)'
<1>1. /\ pc[u] = "flush" /\ op' = op /\ UnderWay(u) /\ Changed(u)
      /\ Committed' = Committed \cup {u}
      /\ \A verb, row : ~Pending(u, verb, row)
      /\ settings' = IF OwnSettings(u) # found[u].settings THEN OwnSettings(u) ELSE settings
  BY CommitEffect
<1>2. /\ \A m \in rows' : m \in rows \/ m \in loaded[u].members \/ (m = NewMember(u) /\ Adds(u))
      /\ Added(u, found[u].members) \subseteq rows'
      /\ \A m \in rows : m \in rows' \/ m \in Dropped(u, found[u].members)
  BY CommittedRows
<1>3. Mine(u) /\ Identified /\ w \in Unit
  BY DEF MembershipInv, Committed
<1>4. op[w].kind = "settings" => w \in settings'
  BY <1>1 DEF Passes, OwnSettings
<1>5. op[w].kind = "remove" => \A m \in rows' : m.user = op[w].user => m.id \in Unit
  BY <1>2 DEF Passes, NewMember
<1>6. Removed(op[w].user) => Removed(op[w].user)'
  BY <1>1 DEF Removed
<1>7. ASSUME Adds(w), ~Removed(op[w].user) PROVE w \in Ids(rows') \/ Removed(op[w].user)'
  <2>1. PICK m \in loaded[u].members : m.id = w
    BY <1>7 DEF Passes, Ids
  <2>2. PICK n \in rows : n.id = w
    BY <1>7 DEF Passes, Ids
  <2>3. m \in Known /\ n \in Known
    BY DEF Known, Remembered
  <2>4. m \in rows /\ m.user = op[w].user
    <3>1. m = n
      BY <1>3, <2>1, <2>2, <2>3 DEF Identified
    <3>2. m = NewMember(w)
      BY <1>3, <2>1, <2>3 DEF Identified
    <3> QED
      BY <3>1, <3>2 DEF NewMember
  <2>5. CASE m \in Range(members[u])
    BY <1>2, <2>1, <2>4, <2>5 DEF Dropped, Ids
  <2>6. CASE op[u].kind = "remove" /\ m.user = op[u].user
    BY <1>1, <2>4, <2>6 DEF Removed
  <2> QED
    BY <1>1, <1>3, <2>5, <2>6 DEF Mine, HasChanged
<1> QED
  BY <1>1, <1>3, <1>4, <1>5, <1>6, <1>7 DEF Passes, Adds

LEMMA CommitLasts ==
    ASSUME MembershipInv, NEW u \in Unit, Commit(u), NEW w \in Unit
    PROVE  Lasts(w)'
<1> SUFFICES ASSUME w \in Committed', ~Overlapped(w)'
             PROVE  /\ Passes(w, rows, settings)'
                    /\ \A v \in Unit : UnderWay(v)' /\ w \in seen'[v] =>
                          Passes(w, loaded[v].members, loaded[v].settings)'
  BY DEF Lasts
<1>1. /\ op' = op /\ seen' = seen /\ UnderWay(u)
      /\ Committed' = Committed \cup {u} /\ u \notin Committed
  BY CommitEffect
<1>2. \A v \in Unit : seen[v] \subseteq Committed
  BY DEF MembershipInv, Mine, Sees
<1>3. CASE w = u
  <2>1. Passes(w, rows, settings)'
    BY <1>3, CommitPasses
  <2>2. \A v \in Unit : w \notin seen'[v]
    BY <1>1, <1>2, <1>3
  <2> QED
    BY <2>1, <2>2
<1>4. CASE w # u
  <2>1. w \in Committed
    BY <1>1, <1>4
  <2>2. w \in seen[u] /\ ~Overlapped(w)
    BY <2>1, CommittedRows
  <2>3. Lasts(w)
    BY DEF MembershipInv
  <2>4. Passes(w, rows, settings) /\ Passes(w, loaded[u].members, loaded[u].settings)
    BY <1>1, <2>1, <2>2, <2>3 DEF Lasts
  <2>5. Passes(w, rows, settings)'
    BY <2>1, <2>4, CommitKeeps
  <2>6. ASSUME NEW v \in Unit, UnderWay(v)', w \in seen'[v]
        PROVE  Passes(w, loaded[v].members, loaded[v].settings)'
    <3>1. UnderWay(v) /\ loaded'[v] = loaded[v]
      BY <2>6, CommitForgets
    <3>2. Passes(w, loaded[v].members, loaded[v].settings)
      BY <1>1, <2>1, <2>2, <2>3, <2>6, <3>1 DEF Lasts
    <3>3. Removed(op[w].user) => Removed(op[w].user)'
      BY <1>1 DEF Removed
    <3> QED
      BY <1>1, <3>1, <3>2, <3>3 DEF Passes, Adds
  <2> QED
    BY <2>5, <2>6
<1> QED
  BY <1>3, <1>4

LEMMA CommitPreserves ==
    ASSUME MembershipInv, NEW u \in Unit, Commit(u)
    PROVE  MembershipInv'
<1>1. TypeOK'
  BY CommitEffect
<1>2. Stored' /\ Locked' /\ Identified'
  BY CommitStores
<1>3. Owned'
  BY CommitOwned
<1>4. \A v \in Unit : Mine(v)' /\ Lasts(v)'
  BY CommitMine, CommitLasts
<1>5. \A user \in User : Once(user)'
  BY CommitOnce
<1> QED
  BY <1>1, <1>2, <1>3, <1>4, <1>5 DEF MembershipInv

LEMMA MembershipInit == Init => MembershipInv
<1> SUFFICES ASSUME Init PROVE MembershipInv
  OBVIOUS
<1>1. /\ exists = (rows # {}) /\ settings = {} /\ locks = {} /\ missed = {}
      /\ pc = [u \in Unit |-> "new"]
      /\ members = [u \in Unit |-> <<>>]
      /\ loaded = [u \in Unit |-> Nothing]
      /\ found = [u \in Unit |-> Nothing]
      /\ plan = [u \in Unit |-> <<>>]
      /\ seen = [u \in Unit |-> {}]
  BY DEF Init
<1>2. /\ rows \subseteq Member /\ op \in [Unit -> Operation] /\ IsFiniteSet(rows)
      /\ \A m \in rows : m.id = m.user
      /\ \A m, n \in rows : m.user = n.user => m = n
      /\ rows # {} => \E m \in rows : m.role = "OWNER"
  <2>1. PICK s \in Scenario : rows = s[1] /\ op = s[2]
    BY DEF Init
  <2>2. s \in (SUBSET {m \in Member : m.id = m.user}) \X [Unit -> Operation]
    BY ScenarioAssumption
  <2> QED
    BY <2>1, <2>2, ScenarioAssumption
<1>3. \A u \in Unit :
        /\ pc[u] = "new" /\ members[u] = <<>> /\ loaded[u] = Nothing /\ found[u] = Nothing
        /\ plan[u] = <<>> /\ seen[u] = {}
  BY <1>1
<1>4. Committed = {}
  BY <1>3 DEF Committed
<1>5. Range(<<>>) = {}
  BY DEF Range
<1>6. TypeOK
  <2>1. <<>> \in Seq(Member) /\ <<>> \in Seq(Statement)
    BY EmptySeq
  <2> QED
    BY <1>1, <1>2, <2>1 DEF TypeOK, PcStates, Nothing
<1>7. Identified
  <2>1. Known = rows
    BY <1>3, <1>5 DEF Known, Remembered, Nothing
  <2>2. \A m \in rows : m.id \in User
    BY <1>2 DEF Member
  <2> QED
    BY <1>2, <1>3, <2>1, <2>2, IdAssumption DEF Identified, Nothing
<1>8. Stored
  BY <1>1, <1>2, <1>3, <1>4 DEF Stored, UnderWay
<1>9. Locked
  BY <1>1 DEF Locked
<1>10. Owned
  BY <1>1, <1>2, <1>3 DEF Owned, Owners, UnderWay
<1>11. ASSUME NEW u \in Unit PROVE Mine(u) /\ Lasts(u)
  <2>1. Remembers(u)
    BY <1>3, <1>5 DEF Remembers, UnderWay
  <2>2. HasChanged(u) /\ Executes(u)
    BY <1>3 DEF HasChanged, Changed, Executes
  <2>3. Sees(u)
    BY <1>3 DEF Sees, UnderWay, Nothing
  <2>4. Lasts(u)
    BY <1>4 DEF Lasts
  <2> QED
    BY <2>1, <2>2, <2>3, <2>4 DEF Mine
<1>12. \A user \in User : Once(user)
  BY <1>2, <1>3 DEF Once, Nothing
<1> QED
  BY <1>6, <1>7, <1>8, <1>9, <1>10, <1>11, <1>12 DEF MembershipInv

\* Of all steps of u only its commit commits.
LEMMA UnitStep ==
    ASSUME MembershipInv, NEW u \in Unit, Step(u) \/ Abandon(u)
    PROVE  MembershipInv' /\ (Commit(u) \/ Committed' = Committed)
<1>1. TypeOK
  BY DEF MembershipInv
<1>2. ASSUME pc[u] # "done", RollBack(u) PROVE MembershipInv' /\ Committed' = Committed
  <2>1. Goto(u, "failed")
    BY <1>2 DEF RollBack
  <2> QED
    BY <1>1, <1>2, <2>1, UnitRollBack, NotCommitted
<1>3. CASE Load(u) \/ SlugIsFree(u) \/ LookupFails(u)
  <2>1. pc[u] = "new" /\ (Goto(u, "loaded") \/ Goto(u, "failed"))
    BY <1>3 DEF Load, SlugIsFree, LookupFails
  <2> QED
    BY <1>1, <1>3, <2>1, NotCommitted, LoadPreserves, SlugIsFreePreserves, LookupFailsPreserves
<1>4. CASE AddMember(u) \/ RemoveMember(u) \/ UpdateSettings(u)
  <2>1. pc[u] = "loaded" /\ Goto(u, "changed")
    BY <1>4 DEF AddMember, RemoveMember, UpdateSettings
  <2> QED
    BY <1>1, <1>4, <2>1, NotCommitted, AddMemberPreserves, RemoveMemberPreserves, UpdateSettingsPreserves
<1>5. CASE RuleViolated(u) \/ StaleData(u) \/ Conflict(u) \/ Abandon(u)
  <2>1. pc[u] # "done" /\ RollBack(u)
    BY <1>5 DEF RuleViolated, StaleData, Conflict, Abandon, Running, Ended
  <2> QED
    BY <1>2, <2>1
<1>6. CASE DeadlockDetected(u)
  <2>1. pc[u] # "done" /\ RollBack(u)
    BY <1>6 DEF DeadlockDetected, WaitsFor
  <2> QED
    BY <1>2, <2>1
<1>7. CASE Save(u)
  <2>1. pc[u] = "changed" /\ Goto(u, "flush")
    BY <1>7 DEF Save
  <2> QED
    BY <1>1, <1>7, <2>1, NotCommitted, SavePreserves
<1>8. CASE Written(u) \/ UpdateMisses(u) \/ DeleteMisses(u)
  <2>1. Committed' = Committed
    BY <1>8 DEF Written, UpdateMisses, DeleteMisses, Committed
  <2> QED
    BY <1>8, <2>1, WrittenPreserves, UpdateMissesPreserves, DeleteMissesPreserves
<1>9. CASE Commit(u)
  BY <1>9, CommitPreserves
<1> QED
  BY <1>3, <1>4, <1>5, <1>6, <1>7, <1>8, <1>9 DEF Step

LEMMA MembershipStutter ==
    ASSUME MembershipInv, UNCHANGED vars
    PROVE  MembershipInv' /\ Committed' = Committed
<1> USE DEF vars, memory, database
<1>1. Committed' = Committed
  BY DEF Committed
<1>2. Quiet
  BY <1>1 DEF Quiet, UnderWay
<1>3. \A v \in Unit : Range(members[v]) \subseteq Known
  BY DEF Known, Remembered
<1>4. Identified'
  BY <1>1, <1>3, NothingNew
<1>5. TypeOK' /\ Locked'
  BY DEF MembershipInv, TypeOK, Locked
<1>6. ASSUME NEW u \in Unit PROVE Mine(u)'
  <2>1. Mine(u)
    BY DEF MembershipInv
  <2>2. Remembers(u)' /\ HasChanged(u)'
    BY <2>1 DEF Mine, Remembers, HasChanged, UnderWay, Changed, Adds, NewMember
  <2>3. Sees(u)'
    BY <1>1, <2>1 DEF Mine, Sees, UnderWay, UpToDate
  <2>4. Executes(u)'
    BY <1>1, <2>1 DEF Mine, Executes, Kept, Dropped, Pending, UpToDate
  <2> QED
    BY <2>2, <2>3, <2>4 DEF Mine
<1> QED
  BY <1>1, <1>2, <1>4, <1>5, <1>6, QuietPreserves DEF MembershipInv

LEMMA AlwaysMembershipInv == Spec => []MembershipInv
<1>1. MembershipInv /\ [Next]_vars => MembershipInv'
  BY UnitStep, MembershipStutter DEF Next
<1> QED
  BY <1>1, MembershipInit, PTL DEF Spec

\* Commands of any number of units on an organization have their types.
THEOREM MembershipTypeCorrect == Spec => []TypeOK
<1>1. MembershipInv => TypeOK
  BY DEF MembershipInv
<1> QED
  BY <1>1, AlwaysMembershipInv, PTL

\* An organization that exists keeps an owner, whatever any number of units do
\* at the same time, while every missing row is noticed and nobody is added
\* while somebody else is under way.
THEOREM AnOwnerStays == Spec => []LastOwnerStays
<1>1. MembershipInv => LastOwnerStays
  BY DEF MembershipInv, Owned, LastOwnerStays
<1> QED
  BY <1>1, AlwaysMembershipInv, PTL

\* Whatever a commit loses or doubles, it takes two units that overlapped.
THEOREM LossNeedsOverlap == Spec => []AnomaliesNeedOverlap
<1>1. MembershipInv => AnomaliesNeedOverlap
  <2> SUFFICES ASSUME MembershipInv PROVE AnomaliesNeedOverlap
    OBVIOUS
  <2>1. ASSUME NEW m \in rows, NEW n \in rows, m # n, m.user = n.user PROVE MaybeTwice(m.user)
    <3>1. m.user \in User
      BY DEF MembershipInv, TypeOK, Member
    <3>2. Once(m.user)
      BY <3>1 DEF MembershipInv
    <3> QED
      BY <2>1, <3>2 DEF Once
  <2>2. ASSUME NEW u \in Committed, \A v \in Committed : ~Overlap(u, v) PROVE Effective(u)
    <3>1. Lasts(u)
      BY DEF MembershipInv, Committed
    <3>2. Passes(u, rows, settings)
      BY <2>2, <3>1 DEF Lasts, Overlapped, Overlap
    <3> QED
      BY <3>2 DEF Passes, Effective, Adds, Removed
  <2>3. Committed \subseteq Unit
    BY DEF Committed
  <2> QED
    BY <2>1, <2>2, <2>3 DEF AnomaliesNeedOverlap
<1> QED
  BY <1>1, AlwaysMembershipInv, PTL

\* A commit takes nobody out whom its unit had loaded, but the user it removes,
\* and puts nobody in whom it had not, but the one it adds.
THEOREM OnlyTheUnseenIsUndone == Spec => OnlyTheUnseenUndone
<1> DEFINE Undone(u) ==
      Committed' = Committed \cup {u} /\ Committed' # Committed =>
        /\ \A m \in rows \ rows' :
            (op[u].kind = "remove" /\ m.user = op[u].user) \/ m \notin loaded[u].members
        /\ \A m \in rows' \ rows : m.id = u \/ m \in loaded[u].members
<1>1. ASSUME MembershipInv, NEW u \in Unit, Commit(u) PROVE Undone(u)
  <2>1. /\ \A m \in rows' : m \in rows \/ m \in loaded[u].members \/ (m = NewMember(u) /\ Adds(u))
        /\ \A m \in rows : m \in rows' \/ m \in Dropped(u, found[u].members)
    BY <1>1, CommittedRows
  <2>2. Changed(u)
    BY <1>1, CommitEffect
  <2>3. HasChanged(u)
    BY <1>1 DEF MembershipInv, Mine
  <2> QED
    BY <2>1, <2>2, <2>3 DEF HasChanged, Dropped, NewMember
<1>2. ASSUME MembershipInv, [Next]_vars, NEW u \in Unit PROVE Undone(u)
  <2>1. ASSUME NEW w \in Unit, Commit(w) PROVE Undone(u)
    <3>1. Committed' = Committed \cup {w} /\ w \notin Committed
      BY <1>2, <2>1, CommitEffect
    <3>2. CASE u = w
      BY <1>1, <1>2, <2>1, <3>2
    <3>3. CASE u # w
      BY <3>1, <3>3
    <3> QED
      BY <3>2, <3>3
  <2>2. CASE Committed' = Committed
    BY <2>2
  <2> QED
    BY <1>2, <2>1, <2>2, UnitStep, MembershipStutter DEF Next
<1>3. MembershipInv /\ [Next]_vars =>
        [\A u \in Unit : Committed' = Committed \cup {u} /\ Committed' # Committed =>
            /\ \A m \in rows \ rows' :
                (op[u].kind = "remove" /\ m.user = op[u].user) \/ m \notin loaded[u].members
            /\ \A m \in rows' \ rows : m.id = u \/ m \in loaded[u].members]_vars
  BY <1>2
<1> QED
  BY <1>3, AlwaysMembershipInv, PTL DEF Spec, OnlyTheUnseenUndone

=============================================================================
