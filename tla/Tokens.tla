------------------------------- MODULE Tokens -------------------------------
(***************************************************************************)
(* JWTHandler and require_permission: tokens carry the roles their user    *)
(* had when they were made, are valid for a while by the clock of whoever  *)
(* validates them, and decide what the protected functions of that service *)
(* let through.  Roles change meanwhile, and clocks disagree.              *)
(*                                                                         *)
(* Time is in half seconds and claims are in whole ones, as int() truncates *)
(* them, so that the fraction that is lost can matter.                     *)
(***************************************************************************)
EXTENDS Integers, FiniteSets, Rbac

CONSTANTS
    Validator,          \* services that validate tokens
    Skew,               \* Skew[v]: v's clock less the auth service's
    AccessLifetime,     \* access_token_expire_minutes, in seconds
    RefreshLifetime,    \* refresh_token_expire_days, in seconds
    Names,              \* what a user may be given: roles, and names of none
    Required,           \* the permissions of the protected functions
    MaxTokens,          \* bound: pairs issued
    MaxTime             \* bound: half seconds

ASSUME SkewAssumption == Skew \in [Validator -> Int]
ASSUME LifetimeAssumption ==
    AccessLifetime \in Nat \ {0} /\ RefreshLifetime \in Nat \ {0}
ASSUME RequiredAssumption == Required \subseteq Permission
ASSUME BoundAssumption == MaxTokens \in Nat /\ MaxTime \in Nat

VARIABLES
    now,        \* the auth service's clock
    held,       \* the user's roles
    lastHeld,   \* lastHeld[r]: when the user last had r
    tokens,     \* the tokens the user has
    call        \* the call a service is answering

vars == <<now, held, lastHeld, tokens, call>>

-----------------------------------------------------------------------------

Never == -1
NoCall == [outcome |-> "none"]
Second == 2

Token == [type : {"access", "refresh"}, roles : SUBSET Names,
          iat : Int, exp : Int, made : 0..MaxTime]
Outcomes == {"done", "expired", "immature", "denied"}
Calls == [by : Validator, token : Token, required : Required, outcome : Outcomes]

TypeOK ==
    /\ now \in 0..MaxTime
    /\ held \subseteq Names
    /\ lastHeld \in [Names -> {Never} \cup 0..MaxTime]
    /\ tokens \subseteq Token
    /\ call \in Calls \cup {NoCall}

Init ==
    /\ now = 0
    /\ held \in SUBSET Names
    /\ lastHeld = [r \in Names |-> IF r \in held THEN 0 ELSE Never]
    /\ tokens = {}
    /\ call = NoCall

Clock(v) == now + Skew[v]

-----------------------------------------------------------------------------
(* Mutants: plausible bugs, none of them a step of Next.                   *)

\* exp rounded up, and a second more.
LateToken ==
    [type |-> "access", roles |-> held, made |-> now,
     iat |-> now \div Second, exp |-> (now + 1) \div Second + AccessLifetime + 1]

\* Both tokens of a pair carry the roles.
RefreshWithRoles ==
    [type |-> "refresh", roles |-> held, made |-> now,
     iat |-> now \div Second, exp |-> (now + RefreshLifetime * Second) \div Second]

\* A token is too young in the very moment it is made.
ImmatureAtOnce(v, token) == token.iat * Second >= Clock(v)

-----------------------------------------------------------------------------
(* JWTHandler                                                              *)

\* create_access_token and create_refresh_token: int() of the timestamps.  A
\* refresh token has no roles, and TokenPayload gives it an empty list.
AccessToken ==
    [type |-> "access", roles |-> held, made |-> now,
     iat |-> now \div Second, exp |-> (now + AccessLifetime * Second) \div Second]
RefreshToken ==
    [type |-> "refresh", roles |-> {}, made |-> now,
     iat |-> now \div Second, exp |-> (now + RefreshLifetime * Second) \div Second]

\* validate_token: PyJWT refuses a token from exp on, and before iat; the type
\* of the token is not asked.
Expired(v, token) == token.exp * Second <= Clock(v)
Immature(v, token) == token.iat * Second > Clock(v)

-----------------------------------------------------------------------------

\* A token's time ends and a role's last moment moves on while it is held.
Tick ==
    /\ now < MaxTime
    /\ now' = now + 1
    /\ lastHeld' = [r \in Names |-> IF r \in held THEN now + 1 ELSE lastHeld[r]]
    /\ call' = NoCall
    /\ UNCHANGED <<held, tokens>>

\* The user's roles are changed; tokens are not.
ChangeRole ==
    /\ \E r \in Names : held' = IF r \in held THEN held \ {r} ELSE held \cup {r}
    /\ lastHeld' = [r \in Names |-> IF r \in held' THEN now ELSE lastHeld[r]]
    /\ call' = NoCall
    /\ UNCHANGED <<now, tokens>>

\* create_token_pair
CreateTokenPair ==
    /\ Cardinality({t \in tokens : t.type = "access"}) < MaxTokens
    /\ tokens' = tokens \cup {AccessToken, RefreshToken}
    /\ call' = NoCall
    /\ UNCHANGED <<now, held, lastHeld>>

\* A service validates the token it is shown and calls a function behind
\* @require_permission with the payload as current_user.
Outcome(v, token, required) ==
    IF Immature(v, token) THEN "immature"
    ELSE IF Expired(v, token) THEN "expired"
    ELSE IF HasPermission(token.roles, required) THEN "done" ELSE "denied"

Call(v, token, required) ==
    /\ call = NoCall
    /\ call' = [by |-> v, token |-> token, required |-> required,
                outcome |-> Outcome(v, token, required)]
    /\ UNCHANGED <<now, held, lastHeld, tokens>>

Next ==
    \/ Tick \/ ChangeRole \/ CreateTokenPair
    \/ \E v \in Validator, token \in tokens, required \in Required : Call(v, token, required)

Spec == Init /\ [][Next]_vars

-----------------------------------------------------------------------------
(* Properties                                                              *)

Behind(v) == IF Skew[v] < 0 THEN -Skew[v] ELSE 0
Ahead(v) == IF Skew[v] > 0 THEN Skew[v] ELSE 0

\* A permission that was taken away is granted for no longer than an access
\* token lives, and the validator's clock is behind: who is let in had a role
\* that allows it within that time.
StaleBounded ==
    call.outcome = "done" =>
        \E r \in call.token.roles :
            /\ HasPermission({r}, call.required)
            /\ lastHeld[r] # Never
            /\ now - lastHeld[r] < AccessLifetime * Second + Behind(call.by)

\* A token is good for its lifetime, less the second int() may cut off and
\* what the validator's clock is ahead; as too young it is refused by no clock
\* that is not behind.
FreshAccepted ==
    /\ call.outcome = "expired" =>
        now - call.token.made > (IF call.token.type = "access" THEN AccessLifetime ELSE RefreshLifetime) * Second
                                    - Second - Ahead(call.by)
    /\ call.outcome = "immature" => now - call.token.made < Behind(call.by)

\* A refresh token is valid wherever an access token is, nobody asking its
\* type, and opens nothing all the same.
RefreshOpensNothing == call.outcome = "done" => call.token.type = "access"
=============================================================================
