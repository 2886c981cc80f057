------------------------------ MODULE Profiles ------------------------------
(***************************************************************************)
(* UserProfile, SqlUserProfileRepository and the handlers of the user      *)
(* service: commands that load a profile, change the fields they name and  *)
(* save it, and queries, each in a transaction of its own.                 *)
(*                                                                         *)
(* Nothing refers to the model that get_by_id loaded, so save() selects    *)
(* the row once more.  It assigns every field of the aggregate, and the    *)
(* UPDATE sets the columns whose value differs from the row just selected. *)
(* The handlers have the defects of those in Accounts, and what they lack  *)
(* is taken as what it is called; none commits, and whether a caller would *)
(* is left open.  Nothing creates profiles: some are there.                *)
(***************************************************************************)
CONSTANTS
    Command,    \* update commands and queries
    User,       \* the users that have a profile
    Field,      \* email, first_name, last_name, avatar_url, timezone, preferences
    Value       \* what a field may be

VARIABLES
    rows,       \* the committed user_profiles
    command,    \* command[c]: what c was given
    pc,         \* pc[c]: where c's handler is
    loaded,     \* loaded[c]: the profile c loaded
    found,      \* found[c]: the row its save() selected
    answer,     \* answer[c]: the response
    seen        \* seen[c]: commands committed when c loaded

vars == <<rows, command, pc, loaded, found, answer, seen>>

-----------------------------------------------------------------------------

Nobody == "nobody"
Nothing == <<>>

Profile == [Field -> Value]
Change == UNION {[named -> Value] : named \in SUBSET Field}
Commands == [kind : {"get", "update"}, user : User \cup {Nobody}, change : Change]

Ended == {"answered", "done", "failed"}
PcStates == {"new", "loaded", "flush", "written"} \cup Ended

UserOf(c) == command[c].user
Committed == {c \in Command : pc[c] = "done"}

TypeOK ==
    /\ rows \in [User -> Profile]
    /\ command \in [Command -> Commands]
    /\ pc \in [Command -> PcStates]
    /\ loaded \in [Command -> Profile \cup {Nothing}]
    /\ found \in [Command -> Profile \cup {Nothing}]
    /\ answer \in [Command -> Profile \cup {Nothing}]
    /\ seen \in [Command -> SUBSET Command]

Init ==
    /\ rows \in [User -> Profile]
    /\ command \in [Command -> Commands]
    /\ pc = [c \in Command |-> "new"]
    /\ loaded = [c \in Command |-> Nothing]
    /\ found = [c \in Command |-> Nothing]
    /\ answer = [c \in Command |-> Nothing]
    /\ seen = [c \in Command |-> {}]

Goto(c, state) == pc' = [pc EXCEPT ![c] = state]

\* update_profile: the fields that are not None.
Named(c) == DOMAIN command[c].change
Updated(c) ==
    [f \in Field |-> IF f \in Named(c) THEN command[c].change[f] ELSE loaded[c][f]]

\* The columns of the UPDATE.
Set(c) == {f \in Field : Updated(c)[f] # found[c][f]}

-----------------------------------------------------------------------------

\* get_by_id
Stored(c) == rows[UserOf(c)]

\* get_by_id and update_profile.
Load(c) ==
    /\ pc[c] = "new" /\ command[c].kind = "update" /\ UserOf(c) \in User
    /\ loaded' = [loaded EXCEPT ![c] = Stored(c)]
    /\ seen' = [seen EXCEPT ![c] = Committed]
    /\ Goto(c, "loaded")
    /\ UNCHANGED <<rows, command, found, answer>>

\* GetProfileQueryHandler
Get(c) ==
    /\ pc[c] = "new" /\ command[c].kind = "get" /\ UserOf(c) \in User
    /\ answer' = [answer EXCEPT ![c] = Stored(c)]
    /\ Goto(c, "answered")
    /\ UNCHANGED <<rows, command, loaded, found, seen>>

\* EntityNotFound
NotFound(c) ==
    /\ pc[c] = "new" /\ UserOf(c) \notin User
    /\ Goto(c, "failed")
    /\ UNCHANGED <<rows, command, loaded, found, answer, seen>>

\* save(): session.get
SaveGet(c) ==
    /\ pc[c] = "loaded"
    /\ found' = [found EXCEPT ![c] = rows[UserOf(c)]]
    /\ Goto(c, "flush")
    /\ UNCHANGED <<rows, command, loaded, answer, seen>>

\* flush(): the UPDATE, if there is one, waits for whoever wrote the row.
HasRow(d) == pc[d] = "written" /\ Set(d) # {}
Flush(c) ==
    /\ pc[c] = "flush"
    /\ Set(c) # {} => \A d \in Command : ~(HasRow(d) /\ UserOf(d) = UserOf(c))
    /\ answer' = [answer EXCEPT ![c] = Updated(c)]
    /\ Goto(c, "written")
    /\ UNCHANGED <<rows, command, loaded, found, seen>>

\* The commit that a caller would have to add.
Commit(c) ==
    /\ pc[c] = "written"
    /\ rows' = [rows EXCEPT ![UserOf(c)] =
                    [f \in Field |-> IF f \in Set(c) THEN Updated(c)[f] ELSE @[f]]]
    /\ Goto(c, "done")
    /\ UNCHANGED <<command, loaded, found, answer, seen>>

\* The block is left without a commit; or the database or the caller gives up.
RollBack(c) ==
    /\ pc[c] \notin Ended
    /\ Goto(c, "failed")
    /\ UNCHANGED <<rows, command, loaded, found, answer, seen>>

Next ==
    \E c \in Command :
        \/ Load(c) \/ Get(c) \/ NotFound(c)
        \/ SaveGet(c) \/ Flush(c) \/ Commit(c) \/ RollBack(c)

Spec == Init /\ [][Next]_vars

-----------------------------------------------------------------------------
(* Properties                                                              *)

\* Another update of the profile was committed since c loaded it.
Overtaken(c) == \E d \in Committed \ seen[c] : UserOf(d) = UserOf(c)

\* A committed update leaves the profile as its response says, unless another
\* one was committed since the profile was loaded.
CommittedAsAnswered ==
    [][\A c \in Command : pc[c] # "done" /\ pc'[c] = "done" =>
        Overtaken(c) \/ rows'[UserOf(c)] = answer[c]]_vars

\* And even then it keeps its hands off the fields that it does not name and
\* that had not changed when it saved: of what others commit, only that between
\* its load and its save can be undone.
OthersFieldsStay ==
    [][\A c \in Command : pc[c] # "done" /\ pc'[c] = "done" =>
        \A f \in Field \ Named(c) :
            found[c][f] = loaded[c][f] => rows'[UserOf(c)][f] = rows[UserOf(c)][f]]_vars
=============================================================================
