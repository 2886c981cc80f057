---------------------------- MODULE TokensProofs ----------------------------
(***************************************************************************)
(* How long a role that was taken away still opens something, and what     *)
(* PolicyEngine makes of roles: for any clocks, lifetimes, roles given and *)
(* functions protected.                                                    *)
(***************************************************************************)
EXTENDS Tokens, TLAPS

\* What the claims of a token say of its user and its age.
Truthful(t) ==
    /\ t.made <= now
    /\ t.iat * Second <= t.made
    /\ t.type = "access" =>
        /\ t.exp * Second <= t.made + AccessLifetime * Second
        /\ t.exp * Second >= t.made + AccessLifetime * Second - 1
        /\ \A r \in t.roles : lastHeld[r] >= t.made
    /\ t.type = "refresh" =>
        /\ t.exp * Second >= t.made + RefreshLifetime * Second - 1
        /\ t.roles = {}

\* A call is answered by what the clocks and the token say at this moment.
Answered(v, token, required) ==
    call = [by |-> v, token |-> token, required |-> required,
            outcome |-> Outcome(v, token, required)]

TokenInv ==
    /\ TypeOK
    /\ \A r \in held : lastHeld[r] = now
    /\ \A t \in tokens : Truthful(t)
    /\ \/ call = NoCall
       \/ \E v \in Validator, t \in tokens, p \in Required : Answered(v, t, p)

\* int() takes off less than a second.
LEMMA Truncated ==
    ASSUME NEW n \in Int, NEW lifetime \in Int,
           NEW seconds, seconds = (n + lifetime * Second) \div Second
    PROVE  /\ seconds \in Int
           /\ seconds * Second <= n + lifetime * Second
           /\ seconds * Second >= n + lifetime * Second - 1
BY SMT DEF Second

\* What create_access_token and create_refresh_token claim is true.
LEMMA MadeTruthful ==
    ASSUME TokenInv
    PROVE  /\ AccessToken \in Token /\ Truthful(AccessToken)
           /\ RefreshToken \in Token /\ Truthful(RefreshToken)
<1>1. now \in Int /\ now \in 0..MaxTime /\ held \subseteq Names
  BY BoundAssumption DEF TokenInv, TypeOK
<1>2. \A r \in held : lastHeld[r] = now
  BY DEF TokenInv
<1>3. now \div Second \in Int /\ (now \div Second) * Second <= now
  BY <1>1, SMT DEF Second
<1>4. AccessToken \in Token /\ Truthful(AccessToken)
  <2> DEFINE exp == (now + AccessLifetime * Second) \div Second
             iat == now \div Second
  <2>1. /\ exp \in Int /\ exp * Second <= now + AccessLifetime * Second
        /\ exp * Second >= now + AccessLifetime * Second - 1
    <3>1. AccessLifetime \in Int /\ exp = (now + AccessLifetime * Second) \div Second
      BY LifetimeAssumption
    <3> HIDE DEF exp
    <3> QED
      BY <1>1, <3>1, Truncated
  <2>2. iat \in Int /\ iat * Second <= now
    BY <1>3
  <2>3. AccessToken = [type |-> "access", roles |-> held, made |-> now, iat |-> iat, exp |-> exp]
    BY DEF AccessToken
  <2> HIDE DEF exp, iat
  <2> QED
    BY <1>1, <1>2, <2>1, <2>2, <2>3 DEF Truthful, Token
<1>5. RefreshToken \in Token /\ Truthful(RefreshToken)
  <2> DEFINE exp == (now + RefreshLifetime * Second) \div Second
             iat == now \div Second
  <2>1. exp \in Int /\ exp * Second >= now + RefreshLifetime * Second - 1
    <3>1. RefreshLifetime \in Int /\ exp = (now + RefreshLifetime * Second) \div Second
      BY LifetimeAssumption
    <3> HIDE DEF exp
    <3> QED
      BY <1>1, <3>1, Truncated
  <2>2. iat \in Int /\ iat * Second <= now
    BY <1>3
  <2>3. RefreshToken = [type |-> "refresh", roles |-> {}, made |-> now, iat |-> iat, exp |-> exp]
    BY DEF RefreshToken
  <2> HIDE DEF exp, iat
  <2> QED
    BY <1>1, <2>1, <2>2, <2>3 DEF Truthful, Token
<1> QED
  BY <1>4, <1>5

\* What holds at first.
LEMMA TokensInitially == Init => TokenInv
BY BoundAssumption DEF Init, TokenInv, TypeOK, NoCall, Never

\* Time passes: a token made before now is still older, and the call is over.
LEMMA TickPreserves == TokenInv /\ Tick => TokenInv'
<1> SUFFICES ASSUME TokenInv, Tick PROVE TokenInv'
  OBVIOUS
<1>1. /\ now \in Int /\ now' = now + 1 /\ now' \in 0..MaxTime
      /\ held' = held /\ tokens' = tokens /\ call' = NoCall
      /\ lastHeld' = [r \in Names |-> IF r \in held THEN now' ELSE lastHeld[r]]
  BY BoundAssumption DEF Tick, TokenInv, TypeOK
<1>2. held \subseteq Names /\ tokens \subseteq Token /\ lastHeld \in [Names -> {Never} \cup 0..MaxTime]
  BY DEF TokenInv, TypeOK
<1>3. TypeOK'
  BY <1>1, <1>2 DEF TypeOK
<1>4. ASSUME NEW t \in tokens PROVE Truthful(t)'
  <2>1. Truthful(t) /\ t.made \in Int /\ t.roles \subseteq Names
    BY <1>2, BoundAssumption DEF TokenInv, Token
  <2>2. \A r \in held : lastHeld[r] = now
    BY DEF TokenInv
  <2>3. \A r \in t.roles : lastHeld[r] >= t.made => lastHeld'[r] >= t.made
    BY <1>1, <1>2, <2>1, <2>2
  <2>4. t.made <= now'
    BY <1>1, <2>1 DEF Truthful
  <2> QED
    BY <2>1, <2>3, <2>4 DEF Truthful
<1> QED
  BY <1>1, <1>2, <1>3, <1>4 DEF TokenInv

\* A role that is given or taken away: nobody's last moment with it moves back.
LEMMA ChangeRolePreserves == TokenInv /\ ChangeRole => TokenInv'
<1> SUFFICES ASSUME TokenInv, ChangeRole PROVE TokenInv'
  OBVIOUS
<1>1. /\ now \in 0..MaxTime /\ now \in Int /\ now' = now /\ tokens' = tokens /\ call' = NoCall
      /\ lastHeld' = [r \in Names |-> IF r \in held' THEN now ELSE lastHeld[r]]
      /\ held' \subseteq Names
  BY BoundAssumption DEF ChangeRole, TokenInv, TypeOK
<1>2. tokens \subseteq Token /\ lastHeld \in [Names -> {Never} \cup 0..MaxTime]
  BY DEF TokenInv, TypeOK
<1>3. TypeOK'
  BY <1>1, <1>2 DEF TypeOK
<1>4. ASSUME NEW t \in tokens PROVE Truthful(t)'
  <2>1. Truthful(t) /\ t.made \in Int /\ t.roles \subseteq Names
    BY <1>2, BoundAssumption DEF TokenInv, Token
  <2>2. \A r \in t.roles : lastHeld[r] >= t.made => lastHeld'[r] >= t.made
    BY <1>1, <1>2, <2>1 DEF Truthful
  <2> QED
    BY <1>1, <2>1, <2>2 DEF Truthful
<1> QED
  BY <1>1, <1>3, <1>4 DEF TokenInv

\* A pair of tokens is made.
LEMMA CreateTokenPairPreserves == TokenInv /\ CreateTokenPair => TokenInv'
<1> SUFFICES ASSUME TokenInv, CreateTokenPair PROVE TokenInv'
  OBVIOUS
<1>1. /\ tokens' = tokens \cup {AccessToken, RefreshToken} /\ call' = NoCall
      /\ now' = now /\ held' = held /\ lastHeld' = lastHeld
  BY DEF CreateTokenPair
<1>2. TypeOK'
  BY <1>1, MadeTruthful DEF TokenInv, TypeOK
<1>3. \A t \in tokens' : Truthful(t)
  BY <1>1, MadeTruthful DEF TokenInv
<1>4. \A t \in tokens' : Truthful(t)'
  BY <1>1, <1>3 DEF Truthful
<1> QED
  BY <1>1, <1>2, <1>4 DEF TokenInv

\* A call is answered.
LEMMA CallPreserves ==
    ASSUME TokenInv, NEW v \in Validator, NEW token \in tokens, NEW required \in Required,
           Call(v, token, required)
    PROVE  TokenInv'
<1>1. /\ now' = now /\ held' = held /\ lastHeld' = lastHeld /\ tokens' = tokens
      /\ call' = [by |-> v, token |-> token, required |-> required,
                  outcome |-> Outcome(v, token, required)]
  BY DEF Call
<1>2. Outcome(v, token, required) \in Outcomes
  BY DEF Outcome, Outcomes
<1>3. token \in Token
  BY DEF TokenInv, TypeOK
<1>4. TypeOK'
  BY <1>1, <1>2, <1>3 DEF TokenInv, TypeOK, Calls
<1>5. Outcome(v, token, required)' = Outcome(v, token, required)
  BY <1>1 DEF Outcome, Immature, Expired, Clock
<1>6. Answered(v, token, required)'
  BY <1>1, <1>5 DEF Answered
<1>7. \A t \in tokens' : Truthful(t)'
  BY <1>1 DEF TokenInv, Truthful
<1> QED
  BY <1>1, <1>4, <1>6, <1>7 DEF TokenInv

LEMMA TokenInvInductive == Spec => []TokenInv
<1>1. ASSUME TokenInv, UNCHANGED vars PROVE TokenInv'
  BY <1>1 DEF vars, TokenInv, TypeOK, Truthful, Answered, Outcome, Immature, Expired, Clock
<1>2. TokenInv /\ [Next]_vars => TokenInv'
  BY <1>1, TickPreserves, ChangeRolePreserves, CreateTokenPairPreserves, CallPreserves DEF Next
<1> QED
  BY <1>2, TokensInitially, PTL DEF Spec

-----------------------------------------------------------------------------

\* Every variable of the tokens keeps its type.
THEOREM TypeCorrect == Spec => []TypeOK
<1>1. TokenInv => TypeOK
  BY DEF TokenInv
<1> QED
  BY <1>1, TokenInvInductive, PTL

\* What is known of a call that was answered.
LEMMA Known ==
    ASSUME TokenInv, call # NoCall
    PROVE  /\ call.by \in Validator /\ call.token \in Token /\ call.required \in Required
           /\ Truthful(call.token)
           /\ call.outcome = Outcome(call.by, call.token, call.required)
           /\ now \in Int /\ Skew[call.by] \in Int /\ call.token.made \in Int
<1>1. PICK v \in Validator, t \in tokens, p \in Required : Answered(v, t, p)
  BY DEF TokenInv
<1>2. call.by = v /\ call.token = t /\ call.required = p /\ call.outcome = Outcome(v, t, p)
  BY <1>1 DEF Answered
<1>3. t \in Token /\ t.made \in Int /\ now \in Int
  BY BoundAssumption DEF TokenInv, TypeOK, Token
<1> QED
  BY <1>2, <1>3, SkewAssumption DEF TokenInv

\* require_permission and validate_token: what was taken away opens nothing
\* once an access token's lifetime, and what the validator's clock is behind,
\* have passed; whatever the clocks, the lifetimes and the roles.
THEOREM TakenAwayInTime == Spec => []StaleBounded
<1>1. ASSUME TokenInv, call.outcome = "done"
      PROVE  \E r \in call.token.roles :
                /\ HasPermission({r}, call.required)
                /\ lastHeld[r] # Never
                /\ now - lastHeld[r] < AccessLifetime * Second + Behind(call.by)
  <2> DEFINE t == call.token
  <2>1. call # NoCall
    BY <1>1 DEF NoCall
  <2>2. /\ ~Expired(call.by, t) /\ HasPermission(t.roles, call.required)
        /\ Truthful(t) /\ t \in Token
    BY <1>1, <2>1, Known DEF Outcome
  <2>3. PICK r \in t.roles : HasPermission({r}, call.required)
    BY <2>2 DEF HasPermission, PermissionsForRoles
  <2>4. t.type = "access"
    BY <2>2, <2>3 DEF Truthful, Token
  <2>5. /\ now \in Int /\ Skew[call.by] \in Int /\ t.made \in Int /\ t.made >= 0
        /\ t.exp \in Int /\ r \in Names
    BY <1>1, <2>1, <2>2, <2>3, Known, BoundAssumption DEF Token
  <2>6. lastHeld[r] \in Int /\ lastHeld[r] >= t.made
    BY <1>1, <2>2, <2>4, <2>5, BoundAssumption DEF TokenInv, TypeOK, Truthful, Never
  <2>7. t.exp * 2 > now + Skew[call.by] /\ t.exp * 2 <= t.made + AccessLifetime * 2
    BY <2>2, <2>4, <2>5 DEF Expired, Clock, Truthful, Second
  <2>8. Behind(call.by) \in Int /\ Behind(call.by) >= -Skew[call.by]
    BY <2>5 DEF Behind
  <2> HIDE DEF t
  <2>9. now - lastHeld[r] < AccessLifetime * 2 + Behind(call.by)
    BY <2>5, <2>6, <2>7, <2>8, LifetimeAssumption
  <2>10. lastHeld[r] # Never
    BY <2>5, <2>6 DEF Never
  <2>11. now - lastHeld[r] < AccessLifetime * Second + Behind(call.by)
    BY <2>9 DEF Second
  <2> USE DEF t
  <2> QED
    BY <2>3, <2>10, <2>11
<1>2. TokenInv => StaleBounded
  BY <1>1 DEF StaleBounded
<1> QED
  BY <1>2, TokenInvInductive, PTL

\* validate_token: no token is refused before its time, less the half second
\* int() cuts off and what the clock is ahead.
THEOREM GoodForItsLifetime == Spec => []FreshAccepted
<1>1. ASSUME TokenInv, call.outcome \in {"expired", "immature"} PROVE FreshAccepted
  <2> DEFINE t == call.token
             lifetime == IF t.type = "access" THEN AccessLifetime ELSE RefreshLifetime
  <2>1. call # NoCall
    BY <1>1 DEF NoCall
  <2>2. /\ Truthful(t) /\ t \in Token /\ t.made \in Int /\ t.exp \in Int /\ t.iat \in Int
        /\ now \in Int /\ Skew[call.by] \in Int
        /\ call.outcome = Outcome(call.by, t, call.required)
    BY <1>1, <2>1, Known DEF Token
  <2>3. lifetime \in Int /\ t.exp * 2 >= t.made + lifetime * 2 - 1 /\ t.made <= now /\ t.iat * 2 <= t.made
    BY <2>2, LifetimeAssumption DEF Truthful, Token, Second
  <2>4. /\ Behind(call.by) \in Int /\ Behind(call.by) >= -Skew[call.by] /\ Behind(call.by) >= 0
        /\ Ahead(call.by) \in Int /\ Ahead(call.by) >= Skew[call.by]
    BY <2>2 DEF Behind, Ahead
  <2>5. CASE call.outcome = "expired"
    <3>1. t.exp * 2 <= now + Skew[call.by]
      BY <2>2, <2>5 DEF Outcome, Expired, Clock, Second
    <3> HIDE DEF t, lifetime
    <3>2. now - t.made > lifetime * 2 - 2 - Ahead(call.by)
      BY <2>2, <2>3, <2>4, <3>1
    <3> QED
      BY <2>5, <3>2 DEF FreshAccepted, t, lifetime, Second
  <2>6. CASE call.outcome = "immature"
    <3>1. t.iat * 2 > now + Skew[call.by]
      BY <2>2, <2>6 DEF Outcome, Immature, Clock, Second
    <3> HIDE DEF t, lifetime
    <3>2. now - t.made < Behind(call.by)
      BY <2>2, <2>3, <2>4, <3>1
    <3> QED
      BY <2>6, <3>2 DEF FreshAccepted, t
  <2> QED
    BY <1>1, <2>5, <2>6
<1>2. TokenInv => FreshAccepted
  BY <1>1 DEF FreshAccepted
<1> QED
  BY <1>2, TokenInvInductive, PTL

\* require_permission: a refresh token, which validate_token takes for any
\* other, opens nothing.
THEOREM RefreshIsForRefreshing == Spec => []RefreshOpensNothing
<1>1. ASSUME TokenInv, call.outcome = "done" PROVE call.token.type = "access"
  <2>1. call # NoCall
    BY <1>1 DEF NoCall
  <2>2. HasPermission(call.token.roles, call.required) /\ Truthful(call.token) /\ call.token \in Token
    BY <1>1, <2>1, Known DEF Outcome
  <2>3. call.token.roles # {}
    BY <2>2 DEF HasPermission, PermissionsForRoles
  <2> QED
    BY <2>2, <2>3 DEF Truthful, Token
<1>2. TokenInv => RefreshOpensNothing
  BY <1>1 DEF RefreshOpensNothing
<1> QED
  BY <1>2, TokenInvInductive, PTL

-----------------------------------------------------------------------------

\* get_permissions_for_roles: a role more takes no permission away, and two
\* users' roles together open what either's do.
THEOREM RolesAddUp ==
    ASSUME NEW a, NEW b
    PROVE  PermissionsForRoles(a \cup b) = PermissionsForRoles(a) \cup PermissionsForRoles(b)
BY DEF PermissionsForRoles

\* check_permission in all three forms: whoever has every one of some
\* permissions has any of them, and roles that open something still open it
\* together with others.
THEOREM FormsAgree ==
    ASSUME NEW roles, NEW more, NEW required
    PROVE  /\ HasAllPermissions(roles, required) /\ required # {} => HasAnyPermission(roles, required)
           /\ HasAnyPermission(roles, required) <=> \E p \in required : HasPermission(roles, p)
           /\ HasAllPermissions(roles, required) => HasAllPermissions(roles \cup more, required)
<1>1. PermissionsForRoles(roles) \subseteq PermissionsForRoles(roles \cup more)
  BY RolesAddUp
<1> QED
  BY <1>1 DEF HasAllPermissions, HasAnyPermission, HasPermission

\* ROLE_PERMISSIONS: the roles are a ladder, each opening what the next one
\* below does, but for analysts, who stand beside developers and project
\* managers: they export what those cannot.
THEOREM Ladder ==
    /\ Viewer \subseteq Developer /\ Developer \subseteq ProjectManager
    /\ ProjectManager \subseteq OrgAdmin
    /\ Viewer \subseteq Analyst /\ Analyst \subseteq OrgAdmin
    /\ <<"analytics", "export">> \in Analyst /\ <<"analytics", "export">> \notin ProjectManager
    /\ OrgAdmin \subseteq OrgOwner /\ OrgOwner \subseteq Permission
<1>1. Viewer \subseteq Developer
  BY DEF Viewer, Developer, Can
<1>2. Developer \subseteq ProjectManager
  BY DEF Developer, ProjectManager, Can
<1>3. ProjectManager \subseteq OrgAdmin
  BY DEF ProjectManager, OrgAdmin, All, Can, Actions, Crud
<1>4. Viewer \subseteq Analyst
  BY DEF Viewer, Analyst, All, Can, Actions
<1>5. Analyst \subseteq OrgAdmin
  BY DEF Analyst, OrgAdmin, All, Can, Actions, Crud
<1>6. <<"analytics", "export">> \in Analyst /\ <<"analytics", "export">> \notin ProjectManager
  BY DEF Analyst, ProjectManager, All, Can, Actions
<1>7. OrgAdmin \subseteq OrgOwner
  BY DEF OrgAdmin, OrgOwner, All, Can, Actions, Crud
<1>8. OrgOwner \subseteq Permission
  <2>1. \A resource \in DOMAIN Actions : All(resource) \subseteq Permission
    BY DEF Permission
  <2>2. DOMAIN Actions = {"org", "project", "agent", "conversation", "kb", "prompt",
                          "workflow", "webhook", "analytics", "user", "billing",
                          "audit", "api_key", "channel", "admin"}
    BY DEF Actions
  <2> QED
    BY <2>1, <2>2 DEF OrgOwner
<1> QED
  BY <1>1, <1>2, <1>3, <1>4, <1>5, <1>6, <1>7, <1>8

=============================================================================
