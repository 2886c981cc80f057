------------------------------ MODULE Accounts ------------------------------
(***************************************************************************)
(* UserCredentials, SqlUserCredentialsRepository and the register and      *)
(* login handlers: commands that look an account up by its e-mail, change  *)
(* it in memory and save it, each in a transaction of its own.             *)
(*                                                                         *)
(* The handlers cannot be imported and call methods the kernel does not    *)
(* have (reconstitute, add_domain_event, register_aggregate); they are     *)
(* taken here as if these did what they are called.  No handler commits:   *)
(* whether a caller would is left open.                                    *)
(***************************************************************************)
EXTENDS Integers

CONSTANTS
    Command,        \* register and login commands
    Email,          \* the e-mails they name
    MaxAttempts,    \* record_failed_login: max_attempts
    LockDuration    \* record_failed_login: lock_duration_minutes

VARIABLES
    now,        \* the clock
    rows,       \* the committed user_credentials
    command,    \* command[c]: what c was given
    pc,         \* pc[c]: where c's handler is
    account,    \* account[c]: the aggregate in c's memory
    written     \* written[c]: the row c's open transaction has written

vars == <<now, rows, command, pc, account, written>>

-----------------------------------------------------------------------------

Ended == {"done", "failed"}
PcStates == {"new", "changed", "insert", "update", "raise", "return"} \cup Ended

Never == -1

\* uuid4: a row's own id, which is the primary key, is nobody's user_id.
Uuid == [of : {"user", "row"}, by : Command]
UserId(c) == [of |-> "user", by |-> c]
RowId(c) == [of |-> "row", by |-> c]

Account == [user : Uuid, email : Email, active : BOOLEAN, attempts : Int, lockedUntil : Int]
Row == [id : Uuid, account : Account]
Login == [kind : {"login"}, email : Email, correct : BOOLEAN]
Register == [kind : {"register"}, email : Email]

\* UserCredentials.create
Created(c) == [user |-> UserId(c), email |-> command[c].email, active |-> TRUE,
               attempts |-> 0, lockedUntil |-> Never]

IsLocked(a) == a.lockedUntil > now

\* record_failed_login and record_successful_login
AfterFailure(a) ==
    [a EXCEPT !.attempts = @ + 1,
              !.lockedUntil = IF a.attempts + 1 >= MaxAttempts THEN now + LockDuration ELSE @]
AfterSuccess(a) == [a EXCEPT !.attempts = 0, !.lockedUntil = Never]

Init ==
    /\ now = 0
    /\ rows = {}
    /\ command \in [Command -> Login \cup Register]
    /\ pc = [c \in Command |-> "new"]
    /\ account = [c \in Command |-> Created(c)]
    /\ written = [c \in Command |-> {}]

Goto(c, state) == pc' = [pc EXCEPT ![c] = state]

\* Out of the block: what is not committed is rolled back.
RollBack(c) ==
    /\ Goto(c, "failed")
    /\ written' = [written EXCEPT ![c] = {}]
    /\ UNCHANGED <<now, rows, command, account>>

-----------------------------------------------------------------------------
(* The handlers, from one await to the next                                *)

\* get_by_email
Named(c) == {r \in rows : r.account.email = command[c].email}

\* It finds nobody: a new account.
RegisterNew(c) ==
    /\ pc[c] = "new" /\ command[c].kind = "register"
    /\ Named(c) = {}
    /\ account' = [account EXCEPT ![c] = Created(c)]
    /\ Goto(c, "changed")
    /\ UNCHANGED <<now, rows, command, written>>

\* It finds the account, which is asked for its state.
Attempt(c) ==
    /\ pc[c] = "new" /\ command[c].kind = "login"
    /\ \E r \in Named(c) :
        /\ r.account.active /\ ~IsLocked(r.account)
        /\ account' = [account EXCEPT ![c] =
                          IF command[c].correct THEN AfterSuccess(r.account) ELSE AfterFailure(r.account)]
    /\ Goto(c, "changed")
    /\ UNCHANGED <<now, rows, command, written>>

\* The e-mail is taken; or there is no such account, or it is disabled or locked.
Refuse(c) ==
    /\ pc[c] = "new"
    /\ IF command[c].kind = "register"
       THEN Named(c) # {}
       ELSE \A r \in Named(c) : ~r.account.active \/ IsLocked(r.account)
    /\ RollBack(c)

\* save(): session.get by the primary key, to which the user's id is passed.
Found(c) == {r \in rows : r.id = account[c].user}
SaveGet(c) ==
    /\ pc[c] = "changed"
    /\ Goto(c, IF Found(c) = {} THEN "insert" ELSE "update")
    /\ UNCHANGED <<now, rows, command, account, written>>

Conflicts(a, b) == a.user = b.user \/ a.email = b.email

\* flush() writes one row, unlike the other ones, once no other open
\* transaction has written one like it.
Write(c, id, others) ==
    /\ \A r \in others : ~Conflicts(r.account, account[c])
    /\ \A d \in Command \ {c} : \A r \in written[d] :
            r.id # id /\ ~Conflicts(r.account, account[c])
    /\ written' = [written EXCEPT ![c] = {[id |-> id, account |-> account[c]]}]
    /\ Goto(c, IF command[c].kind = "login" /\ ~command[c].correct THEN "raise" ELSE "return")
    /\ UNCHANGED <<now, rows, command, account>>

Insert(c) == pc[c] = "insert" /\ Write(c, RowId(c), rows)
Update(c) == pc[c] = "update" /\ \E r \in Found(c) : Write(c, r.id, rows \ {r})

\* The unique indexes on user_id and email.
IntegrityError(c) ==
    /\ pc[c] = "insert"
    /\ \E r \in rows : Conflicts(r.account, account[c])
    /\ RollBack(c)

\* "Invalid credentials" is raised inside the block, after the save.
RaiseInvalid(c) == pc[c] = "raise" /\ RollBack(c)

\* The block is left without a commit.
Leave(c) == pc[c] = "return" /\ RollBack(c)

\* The commit that a caller would have to add.
Commit(c) ==
    /\ pc[c] = "return"
    /\ rows' = {r \in rows : \A w \in written[c] : w.id # r.id} \cup written[c]
    /\ written' = [written EXCEPT ![c] = {}]
    /\ Goto(c, "done")
    /\ UNCHANGED <<now, command, account>>

\* The database or the caller gives up.
Abandon(c) == pc[c] \notin Ended /\ RollBack(c)

Tick == now' = now + 1 /\ UNCHANGED <<rows, command, pc, account, written>>

Next ==
    \/ Tick
    \/ \E c \in Command :
        \/ RegisterNew(c) \/ Attempt(c) \/ Refuse(c) \/ SaveGet(c)
        \/ Insert(c) \/ Update(c) \/ IntegrityError(c)
        \/ RaiseInvalid(c) \/ Leave(c) \/ Commit(c) \/ Abandon(c)

Spec == Init /\ [][Next]_vars

-----------------------------------------------------------------------------
(* Properties                                                              *)

TypeOK ==
    /\ now \in Nat
    /\ rows \subseteq Row
    /\ command \in [Command -> Login \cup Register]
    /\ pc \in [Command -> PcStates]
    /\ account \in [Command -> Account]
    /\ written \in [Command -> SUBSET Row]

\* Nobody has two accounts, however many register at the same time.
OneAccountEach == \A r, s \in rows : Conflicts(r.account, s.account) => r = s

\* No failed login is ever counted and no account is ever locked, even if the
\* handlers committed: save() looks for the account under the wrong key and
\* inserts it once more, which the unique indexes refuse.
NeverLocked == \A r \in rows : r.account.attempts = 0 /\ ~IsLocked(r.account)

\* An account stays as it was first saved.
AccountsStay == [][rows \subseteq rows']_vars
=============================================================================
