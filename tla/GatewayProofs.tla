--------------------------- MODULE GatewayProofs ---------------------------
(***************************************************************************)
(* What holds in front of the services: of the limiter, then of the stacks *)
(* of middlewares.                                                         *)
(*                                                                         *)
(* The limiter counts seconds, so it can count no more of them than the    *)
(* window has.  With a limit above that it never limits anyone, whatever   *)
(* the rate of requests: so are the defaults, 100 or 200 in 60 seconds.    *)
(*                                                                         *)
(* RateLimiter and RequestPipeline share no variable: RLSpec is the one's  *)
(* specification, Spec the other's.                                        *)
(***************************************************************************)
EXTENDS RateLimiter, RequestPipeline, FiniteSetTheorems, SequenceTheorems, TLAPS

-----------------------------------------------------------------------------
(* The limiter                                                             *)

\* Requests are at most MaxDelay seconds late, and the set holds no second of
\* the future.
Punctual ==
    /\ \A s \in members : s <= clock
    /\ \A r \in Hit : now[r] <= clock
    /\ \A r \in Hit : pc[r] = "waiting" => clock - now[r] <= MaxDelay

\* While a verdict's second is in the window, the set has it, and the key
\* outlives it.
Remembered ==
    \A r \in Hit : pc[r] \in Verdicts =>
        /\ now[r] + Window <= expireAt
        /\ clock - Window < now[r] => now[r] \in members

NeverLimited == \A r \in Hit : pc[r] # "limited"

LimiterInv == RLTypeOK /\ Punctual

LEMMA LimiterInvInductive == RLSpec => []LimiterInv
<1>1. RLInit => LimiterInv
  BY MaxTimeAssumption DEF RLInit, LimiterInv, RLTypeOK, Punctual, PcStates
<1>2. LimiterInv /\ [RLNext]_RLvars => LimiterInv'
  <2> SUFFICES ASSUME LimiterInv, [RLNext]_RLvars
               PROVE  LimiterInv'
    OBVIOUS
  <2> USE WindowAssumption, MaxDelayAssumption, MaxTimeAssumption
      DEF LimiterInv, RLTypeOK, Punctual
  <2>1. ASSUME NEW r \in Hit, Exempt(r) PROVE LimiterInv'
    BY <2>1 DEF Exempt, PcStates
  <2>2. ASSUME NEW r \in Hit, ReadClock(r) PROVE LimiterInv'
    BY <2>2 DEF ReadClock, PcStates
  <2>3. ASSUME NEW t \in 0..MaxTime, t <= clock, Record(t)
        PROVE  /\ members' \subseteq 0..MaxTime
               /\ \A s \in members' : s <= clock
               /\ expireAt' \in Nat
    <3>1. members' \subseteq members \cup {t}
      BY <2>3 DEF Record, Kept
    <3>2. expireAt' = clock + Window
      BY <2>3 DEF Record
    <3>3. expireAt' \in Nat
      BY <3>2
    <3> QED
      BY <2>3, <3>1, <3>3
  <2>4. ASSUME NEW r \in Hit, Execute(r) PROVE LimiterInv'
    BY <2>3, <2>4 DEF Execute, PcStates
  <2>5. ASSUME NEW r \in Hit, FailOpen(r) PROVE LimiterInv'
    BY <2>3, <2>5 DEF FailOpen, PcStates
  <2>6. CASE Tick
    <3>1. /\ clock' = clock + 1 /\ clock < MaxTime
          /\ members' \subseteq members
          /\ UNCHANGED <<expireAt, pc, now>>
      BY <2>6 DEF Tick
    <3>2. clock' \in 0..MaxTime
      BY <3>1
    <3>4. RLTypeOK'
      BY <3>1, <3>2
    <3>5. \A s \in members' : s <= clock'
      BY <3>1
    <3>3. ASSUME NEW r \in Hit, pc'[r] = "waiting"
          PROVE  clock' - now'[r] <= MaxDelay
      BY <2>6, <3>3 DEF Tick
    <3>6. \A r \in Hit : now'[r] <= clock'
      BY <3>1
    <3> QED
      BY <3>3, <3>4, <3>5, <3>6
  <2>7. CASE UNCHANGED RLvars
    BY <2>7 DEF RLvars
  <2> QED
    BY <2>1, <2>2, <2>4, <2>5, <2>6, <2>7 DEF RLNext
<1> QED
  BY <1>1, <1>2, PTL DEF RLSpec

\* Every variable of the limiter keeps its type.
THEOREM LimiterTypeCorrect == RLSpec => []RLTypeOK
<1>1. LimiterInv => RLTypeOK
  BY DEF LimiterInv
<1> QED
  BY <1>1, LimiterInvInductive, PTL

\* A transaction of a request that is not from the future forgets no second
\* still in the window, and adds its own.
LEMMA RecordRemembers ==
    ASSUME LimiterInv, NEW t \in 0..MaxTime, t <= clock, Record(t)
    PROVE  /\ expireAt' = clock + Window
           /\ t \in members'
           /\ \A s \in members : clock - Window < s => s \in members'
<1>1. clock \in Nat /\ members \subseteq Nat /\ t \in Nat
  BY MaxTimeAssumption DEF LimiterInv, RLTypeOK
<1>2. \A s \in members : clock - Window < s => s \in Kept(t)
  BY <1>1, WindowAssumption DEF Kept
<1> QED
  BY <1>2 DEF Record

LEMMA AlwaysRemembered == RLSpec => []Remembered
<1>1. RLInit => Remembered
  BY DEF RLInit, Remembered, Verdicts
<1>2. LimiterInv /\ Remembered /\ [RLNext]_RLvars => Remembered'
  <2> SUFFICES ASSUME LimiterInv, Remembered, [RLNext]_RLvars,
                      NEW q \in Hit, pc'[q] \in Verdicts
               PROVE  /\ now'[q] + Window <= expireAt'
                      /\ clock' - Window < now'[q] => now'[q] \in members'
    BY DEF Remembered
  <2>1. /\ clock \in Nat /\ expireAt \in Nat /\ Window \in Nat
        /\ now \in [Hit -> 0..MaxTime] /\ now[q] \in Nat
        /\ pc \in [Hit -> PcStates]
        /\ now[q] <= clock
    BY WindowAssumption, MaxTimeAssumption DEF LimiterInv, RLTypeOK, Punctual
  <2>2. ASSUME pc[q] \in Verdicts
        PROVE  /\ now[q] + Window <= expireAt
               /\ clock - Window < now[q] => now[q] \in members
    BY <2>2 DEF Remembered
  \* Whoever's transaction runs, q's second stays or is added.
  <2>3. ASSUME NEW r \in Hit, Record(now[r]), UNCHANGED <<clock, now>>,
               pc[q] \in Verdicts \/ q = r
        PROVE  /\ now'[q] + Window <= expireAt'
               /\ clock' - Window < now'[q] => now'[q] \in members'
    <3>1. now[r] \in 0..MaxTime /\ now[r] <= clock
      BY DEF LimiterInv, RLTypeOK, Punctual
    <3>2. /\ expireAt' = clock + Window
          /\ now[r] \in members'
          /\ \A s \in members : clock - Window < s => s \in members'
      BY <2>3, <3>1, RecordRemembers
    <3>3. clock - Window < now[q] => now[q] \in members'
      BY <2>2, <2>3, <3>2
    <3>4. now[q] + Window <= expireAt'
      BY <2>1, <3>2
    <3> QED
      BY <2>3, <3>3, <3>4
  <2>4. ASSUME NEW r \in Hit, Exempt(r) \/ ReadClock(r)
        PROVE  /\ now'[q] + Window <= expireAt'
               /\ clock' - Window < now'[q] => now'[q] \in members'
    <3>1. q # r /\ pc[q] \in Verdicts /\ now'[q] = now[q]
      BY <2>1, <2>4 DEF Exempt, ReadClock, Verdicts
    <3>2. UNCHANGED <<clock, members, expireAt>>
      BY <2>4 DEF Exempt, ReadClock
    <3> QED
      BY <2>2, <3>1, <3>2
  <2>5. ASSUME NEW r \in Hit, Execute(r)
        PROVE  /\ now'[q] + Window <= expireAt'
               /\ clock' - Window < now'[q] => now'[q] \in members'
    <3>1. pc[q] \in Verdicts \/ q = r
      BY <2>1, <2>5 DEF Execute
    <3> QED
      BY <2>3, <2>5, <3>1 DEF Execute
  <2>6. ASSUME NEW r \in Hit, FailOpen(r)
        PROVE  /\ now'[q] + Window <= expireAt'
               /\ clock' - Window < now'[q] => now'[q] \in members'
    <3>1. pc[q] \in Verdicts
      BY <2>1, <2>6 DEF FailOpen, Verdicts
    <3>2. CASE Record(now[r])
      BY <2>3, <2>6, <3>1, <3>2 DEF FailOpen
    <3>3. CASE UNCHANGED <<members, expireAt>>
      BY <2>2, <2>6, <3>1, <3>3 DEF FailOpen
    <3> QED
      BY <2>6, <3>2, <3>3 DEF FailOpen
  <2>7. CASE Tick
    <3>1. /\ clock' = clock + 1 /\ now'[q] = now[q] /\ expireAt' = expireAt
          /\ pc[q] \in Verdicts
      BY <2>7 DEF Tick
    <3>2. CASE clock + 1 >= expireAt
      <4>1. ~ (clock' - Window < now[q])
        BY <2>1, <2>2, <3>1, <3>2
      <4> QED
        BY <2>2, <3>1, <4>1
    <3>3. CASE ~ (clock + 1 >= expireAt)
      <4>1. members' = members
        BY <2>7, <3>3 DEF Tick
      <4>2. clock' - Window < now[q] => clock - Window < now[q]
        BY <2>1, <3>1
      <4> QED
        BY <2>2, <3>1, <4>1, <4>2
    <3> QED
      BY <3>2, <3>3
  <2>8. CASE UNCHANGED RLvars
    BY <2>2, <2>8 DEF RLvars
  <2> QED
    BY <2>4, <2>5, <2>6, <2>7, <2>8 DEF RLNext
<1> QED
  BY <1>1, <1>2, LimiterInvInductive, PTL DEF RLSpec

\* Neither a late request's removal nor the key's expiry ever forgets a second
\* of the current window in which a request got its verdict.
THEOREM NothingIsForgotten == RLSpec => []NothingForgotten
<1>1. Remembered => NothingForgotten
  BY DEF Remembered, NothingForgotten, SecondsOf, With
<1> QED
  BY <1>1, AlwaysRemembered, PTL

\* Every second in the set is that of some request past its transaction.
Sourced ==
    \A s \in members : \E q \in With(Verdicts \cup {"open"}) : now[q] = s

LEMMA SourcedInvariant == RLSpec => []Sourced
<1>1. RLInit => Sourced
  BY DEF RLInit, Sourced
<1>2. LimiterInv /\ Sourced /\ [RLNext]_RLvars => Sourced'
  <2> SUFFICES ASSUME LimiterInv, Sourced, [RLNext]_RLvars
               PROVE  Sourced'
    OBVIOUS
  <2>1. pc \in [Hit -> PcStates] /\ now \in [Hit -> 0..MaxTime]
    BY DEF LimiterInv, RLTypeOK
  <2>2. ASSUME NEW s \in members
        PROVE  \E q \in Hit : pc[q] \in Verdicts \cup {"open"} /\ now[q] = s
    BY <2>2 DEF Sourced, With
  <2>3. SUFFICES ASSUME NEW s \in members'
                 PROVE  \E q \in Hit : pc'[q] \in Verdicts \cup {"open"} /\ now'[q] = s
    BY DEF Sourced, With
  <2>4. ASSUME NEW r \in Hit, Exempt(r) \/ ReadClock(r)
        PROVE  \E q \in Hit : pc'[q] \in Verdicts \cup {"open"} /\ now'[q] = s
    <3>1. members' = members
      BY <2>4 DEF Exempt, ReadClock
    <3>2. PICK q \in Hit : pc[q] \in Verdicts \cup {"open"} /\ now[q] = s
      BY <2>2, <3>1
    <3>3. pc[r] = "new"
      BY <2>4 DEF Exempt, ReadClock
    <3>4. q # r
      BY <3>2, <3>3 DEF Verdicts
    <3>5. pc'[q] = pc[q] /\ now'[q] = now[q]
      BY <2>1, <2>4, <3>4 DEF Exempt, ReadClock
    <3> QED
      BY <3>2, <3>5
  \* r's verdict is given while its second is, perhaps, recorded.
  <2>5. ASSUME NEW r \in Hit, Execute(r) \/ FailOpen(r)
        PROVE  \E q \in Hit : pc'[q] \in Verdicts \cup {"open"} /\ now'[q] = s
    <3>1. /\ pc[r] = "waiting" /\ pc'[r] \in Verdicts \cup {"open"} /\ now' = now
          /\ \A q \in Hit \ {r} : pc'[q] = pc[q]
      BY <2>1, <2>5 DEF Execute, FailOpen, Verdicts
    <3>2. s \in members \/ s = now[r]
      BY <2>5 DEF Execute, FailOpen, Record, Kept
    <3>3. CASE s = now[r]
      BY <3>1, <3>3
    <3>4. CASE s \in members
      <4>1. PICK q \in Hit : pc[q] \in Verdicts \cup {"open"} /\ now[q] = s
        BY <2>2, <3>4
      <4>2. q # r
        BY <3>1, <4>1 DEF Verdicts
      <4> QED
        BY <3>1, <4>1, <4>2
    <3> QED
      BY <3>2, <3>3, <3>4
  <2>6. CASE Tick
    <3>1. s \in members /\ pc' = pc /\ now' = now
      BY <2>6 DEF Tick
    <3> QED
      BY <2>2, <3>1
  <2>7. CASE UNCHANGED RLvars
    BY <2>2, <2>7 DEF RLvars
  <2> QED
    BY <2>4, <2>5, <2>6, <2>7 DEF RLNext
<1> QED
  BY <1>1, <1>2, LimiterInvInductive, PTL DEF RLSpec

\* A quiet client is never turned away: a request is limited only when Limit
\* distinct seconds since its window began already had a request.
THEOREM LimitedOnlyWithCause == RLSpec => LimitedWithCause
<1> DEFINE Cause(r) == {now[q] : q \in {x \in With(Verdicts \cup {"open"}) :
                                          now[x] > now[r] - Window}}
<1>1. LimiterInv /\ Sourced /\ [RLNext]_RLvars =>
        [\A r \in Hit : (pc[r] = "waiting" /\ pc'[r] = "limited") =>
            Cardinality(Cause(r)) >= Limit]_RLvars
  <2> SUFFICES ASSUME LimiterInv, Sourced, RLNext, NEW r \in Hit,
                      pc[r] = "waiting", pc'[r] = "limited"
               PROVE  Cardinality(Cause(r)) >= Limit
    BY DEF RLvars
  <2>1. pc \in [Hit -> PcStates] /\ now \in [Hit -> 0..MaxTime]
    BY DEF LimiterInv, RLTypeOK
  <2>2. Execute(r)
    BY <2>1 DEF RLNext, Exempt, ReadClock, Execute, FailOpen, Tick
  <2>3. Cardinality(Kept(now[r])) >= Limit
    BY <2>1, <2>2 DEF Execute
  <2>4. Kept(now[r]) \subseteq Cause(r)
    <3> SUFFICES ASSUME NEW s \in Kept(now[r])
                 PROVE  s \in Cause(r)
      OBVIOUS
    <3>1. s \in members /\ s > now[r] - Window
      BY DEF Kept
    <3>2. PICK q \in With(Verdicts \cup {"open"}) : now[q] = s
      BY <3>1 DEF Sourced
    <3> QED
      BY <3>1, <3>2
  <2>5. IsFiniteSet(Cause(r))
    <3>1. Cause(r) \subseteq 0..MaxTime
      BY <2>1 DEF With
    <3>2. 0 \in Int /\ MaxTime \in Int
      BY MaxTimeAssumption
    <3>3. IsFiniteSet(0..MaxTime)
      BY <3>2, FS_Interval
    <3> QED
      BY <3>1, <3>3, FS_Subset
  <2>6. /\ Cardinality(Kept(now[r])) <= Cardinality(Cause(r))
        /\ IsFiniteSet(Kept(now[r]))
    BY <2>4, <2>5, FS_Subset
  <2>7. Cardinality(Kept(now[r])) \in Nat /\ Cardinality(Cause(r)) \in Nat
    BY <2>5, <2>6, FS_CardinalityType
  <2> HIDE DEF Cause
  <2> QED
    BY <2>3, <2>6, <2>7, LimitAssumption
<1> QED
  BY <1>1, LimiterInvInductive, SourcedInvariant, PTL DEF RLSpec, LimitedWithCause

\* A request counts at most Window + MaxDelay members.
LEMMA KeptBounded ==
    ASSUME LimiterInv, NEW t \in 0..MaxTime, t <= clock, clock - t <= MaxDelay
    PROVE  Cardinality(Kept(t)) <= Window + MaxDelay
<1> DEFINE I == (t - Window + 1)..(t + MaxDelay)
<1>1. Kept(t) \subseteq I
  <2> SUFFICES ASSUME NEW s \in Kept(t) PROVE s \in I
    OBVIOUS
  <2>1. s \in 0..MaxTime /\ s <= clock /\ s > t - Window
    BY DEF Kept, LimiterInv, RLTypeOK, Punctual
  <2>2. clock \in Nat /\ t \in Nat
    BY MaxTimeAssumption DEF LimiterInv, RLTypeOK
  <2> QED
    BY <2>1, <2>2, WindowAssumption, MaxDelayAssumption, MaxTimeAssumption
<1>2. IsFiniteSet(I) /\ Cardinality(I) = Window + MaxDelay
  <2>1. t - Window + 1 \in Int /\ t + MaxDelay \in Int
    BY WindowAssumption, MaxDelayAssumption, MaxTimeAssumption
  <2>2. IsFiniteSet(I) /\ Cardinality(I) =
            IF t - Window + 1 > t + MaxDelay THEN 0 ELSE (t + MaxDelay) - (t - Window + 1) + 1
    BY <2>1, FS_Interval
  <2> QED
    BY <2>2, WindowAssumption, MaxDelayAssumption, MaxTimeAssumption
<1> QED
  BY <1>1, <1>2, FS_Subset

\* A limit above the window (plus the delay) is never enforced.
THEOREM WideLimitNeverEnforced ==
    ASSUME Limit > Window + MaxDelay
    PROVE  RLSpec => []NeverLimited
<1>1. RLInit => NeverLimited
  BY DEF RLInit, NeverLimited
<1>2. LimiterInv /\ NeverLimited /\ [RLNext]_RLvars => NeverLimited'
  <2> SUFFICES ASSUME LimiterInv, NeverLimited, [RLNext]_RLvars
               PROVE  NeverLimited'
    OBVIOUS
  <2> USE DEF LimiterInv, RLTypeOK, NeverLimited
  <2>1. ASSUME NEW r \in Hit, Exempt(r) PROVE NeverLimited'
    BY <2>1 DEF Exempt
  <2>2. ASSUME NEW r \in Hit, ReadClock(r) PROVE NeverLimited'
    BY <2>2 DEF ReadClock
  <2>3. ASSUME NEW r \in Hit, Execute(r) PROVE NeverLimited'
    <3>1. /\ now[r] \in 0..MaxTime /\ now[r] <= clock /\ clock - now[r] <= MaxDelay
      BY <2>3 DEF Execute, Punctual
    <3>2. Cardinality(Kept(now[r])) <= Window + MaxDelay
      BY <3>1, KeptBounded
    <3>3. Cardinality(Kept(now[r])) \in Int
      <4>1. Kept(now[r]) \subseteq 0..MaxTime
        BY DEF Kept
      <4>2. IsFiniteSet(0..MaxTime)
        <5>1. 0 \in Int /\ MaxTime \in Int
          BY MaxTimeAssumption
        <5> QED
          BY <5>1, FS_Interval
      <4>3. IsFiniteSet(Kept(now[r]))
        BY <4>1, <4>2, FS_Subset
      <4>4. Cardinality(Kept(now[r])) \in Nat
        BY <4>3, FS_CardinalityType
      <4> QED
        BY <4>4
    <3>4. ~ (Cardinality(Kept(now[r])) >= Limit)
      BY <3>2, <3>3, WindowAssumption, MaxDelayAssumption, LimitAssumption
    <3> QED
      BY <2>3, <3>4 DEF Execute
  <2>4. ASSUME NEW r \in Hit, FailOpen(r) PROVE NeverLimited'
    BY <2>4 DEF FailOpen
  <2>5. CASE Tick
    BY <2>5 DEF Tick
  <2>6. CASE UNCHANGED RLvars
    BY <2>6 DEF RLvars
  <2> QED
    BY <2>1, <2>2, <2>3, <2>4, <2>5, <2>6 DEF RLNext
<1> QED
  BY <1>1, <1>2, LimiterInvInductive, PTL DEF RLSpec
\* Requests whose second counts against the window ending at t: all that are
\* admitted while t has not passed, and later those that cannot have come too
\* late to see one another.
InTime(t) == {r \in With({"admitted"}) : t >= clock \/ now[r] <= t - MaxDelay}

InTimeBounded ==
    \A t \in 0..MaxTime : Cardinality(SecondsOf(InTime(t), t)) <= Limit

\* Sets of seconds are finite.
LEMMA SecondsFinite ==
    ASSUME NEW S, S \subseteq 0..MaxTime
    PROVE  IsFiniteSet(S) /\ Cardinality(S) \in Nat
<1>1. 0 \in Int /\ MaxTime \in Int
  BY MaxTimeAssumption
<1>2. IsFiniteSet(0..MaxTime)
  BY <1>1, FS_Interval
<1>3. IsFiniteSet(S)
  BY <1>2, FS_Subset
<1> QED
  BY <1>3, FS_CardinalityType

LEMMA SecondsAreSeconds ==
    ASSUME LimiterInv, NEW R, R \subseteq Hit, NEW t
    PROVE  SecondsOf(R, t) \subseteq 0..MaxTime
BY DEF SecondsOf, LimiterInv, RLTypeOK

LEMMA FewerSeconds ==
    ASSUME NEW S, NEW T, S \subseteq T, T \subseteq 0..MaxTime
    PROVE  Cardinality(S) <= Cardinality(T)
<1>1. IsFiniteSet(T)
  BY SecondsFinite
<1> QED
  BY <1>1, FS_Subset

\* A transaction that admits r leaves room for r's second.
LEMMA AdmittedInTime ==
    ASSUME LimiterInv, Remembered, NEW t \in 0..MaxTime, NEW r \in Hit, t >= clock,
           Execute(r), pc'[r] = "admitted"
    PROVE  Cardinality(SecondsOf(InTime(t), t) \cup {now[r]}) <= Limit
<1>1. /\ clock \in Nat /\ t \in Nat /\ now[r] \in Nat /\ now[r] \in 0..MaxTime
      /\ now \in [Hit -> 0..MaxTime] /\ pc \in [Hit -> PcStates]
      /\ members \subseteq 0..MaxTime
      /\ now[r] <= clock
  BY MaxTimeAssumption DEF LimiterInv, RLTypeOK, Punctual
<1>2. Cardinality(Kept(now[r])) < Limit
  <2>1. ~ (Cardinality(Kept(now[r])) >= Limit)
    BY <1>1 DEF Execute
  <2>2. Kept(now[r]) \subseteq 0..MaxTime
    BY <1>1 DEF Kept
  <2>3. Cardinality(Kept(now[r])) \in Nat
    BY <2>2, SecondsFinite
  <2> QED
    BY <2>1, <2>3, LimitAssumption
<1>3. SecondsOf(InTime(t), t) \subseteq Kept(now[r])
  <2> SUFFICES ASSUME NEW q \in Hit, pc[q] = "admitted", t - Window < now[q], now[q] <= t
               PROVE  now[q] \in members /\ now[q] > now[r] - Window
    BY DEF SecondsOf, InTime, With, Kept
  <2>1. now[q] \in Nat
    BY <1>1
  <2>2. clock - Window < now[q] /\ now[r] - Window < now[q]
    BY <1>1, <2>1, WindowAssumption
  <2> QED
    BY <2>1, <2>2, <1>1, WindowAssumption DEF Remembered, Verdicts
<1> DEFINE A == SecondsOf(InTime(t), t)
           K == Kept(now[r])
<1>4. A \subseteq K /\ A \subseteq 0..MaxTime /\ K \subseteq 0..MaxTime /\ Cardinality(K) < Limit
  BY <1>1, <1>2, <1>3 DEF Kept
<1> HIDE DEF A, K
<1>5. IsFiniteSet(A) /\ Cardinality(A) \in Nat /\ Cardinality(K) \in Nat
  BY <1>4, SecondsFinite
<1>6. Cardinality(A) <= Cardinality(K)
  BY <1>4, FewerSeconds
<1>7. Cardinality(A \cup {now[r]}) \in {Cardinality(A), Cardinality(A) + 1}
  BY <1>5, FS_AddElement
<1> QED
  BY <1>4, <1>5, <1>6, <1>7, LimitAssumption DEF A

LEMMA InTimeStep == LimiterInv /\ Remembered /\ InTimeBounded /\ [RLNext]_RLvars => InTimeBounded'
<1> SUFFICES ASSUME LimiterInv, Remembered, InTimeBounded, [RLNext]_RLvars, NEW t \in 0..MaxTime
             PROVE  Cardinality(SecondsOf(InTime(t), t)') <= Limit
  BY DEF InTimeBounded
<1>1. /\ clock \in Nat /\ t \in Nat /\ clock \in 0..MaxTime
      /\ now \in [Hit -> 0..MaxTime] /\ pc \in [Hit -> PcStates]
      /\ SecondsOf(InTime(t), t) \subseteq 0..MaxTime
      /\ MaxDelay \in Nat /\ Window \in Nat
  <2>1. InTime(t) \subseteq Hit
    BY DEF InTime, With
  <2> QED
    BY <2>1, SecondsAreSeconds, MaxTimeAssumption, MaxDelayAssumption, WindowAssumption
    DEF LimiterInv, RLTypeOK
<1>2. Cardinality(SecondsOf(InTime(t), t)) <= Limit
  BY DEF InTimeBounded
\* Unless a request in time is admitted, the seconds get no more.
<1>3. ASSUME SecondsOf(InTime(t), t)' \subseteq SecondsOf(InTime(t), t)
      PROVE  Cardinality(SecondsOf(InTime(t), t)') <= Limit
  <2> DEFINE A == SecondsOf(InTime(t), t)
             B == SecondsOf(InTime(t), t)'
  <2>1. B \subseteq A /\ A \subseteq 0..MaxTime /\ Cardinality(A) <= Limit
    BY <1>1, <1>2, <1>3
  <2>2. B \subseteq 0..MaxTime
    BY <2>1
  <2> HIDE DEF A, B
  <2>3. Cardinality(B) <= Cardinality(A) /\ Cardinality(A) \in Nat /\ Cardinality(B) \in Nat
    BY <2>1, <2>2, FewerSeconds, SecondsFinite
  <2>4. Cardinality(B) <= Limit
    BY <2>1, <2>3, LimitAssumption
  <2> QED
    BY <2>4 DEF B
<1>4. ASSUME \A q \in Hit : pc'[q] = "admitted" => pc[q] = "admitted" /\ now'[q] = now[q],
             clock' = clock \/ clock' = clock + 1
      PROVE  Cardinality(SecondsOf(InTime(t), t)') <= Limit
  <2>1. SecondsOf(InTime(t), t)' \subseteq SecondsOf(InTime(t), t)
    <3> SUFFICES ASSUME NEW q \in Hit, pc'[q] = "admitted",
                        t >= clock' \/ now'[q] <= t - MaxDelay,
                        t - Window < now'[q], now'[q] <= t
                 PROVE  /\ pc[q] = "admitted" /\ now[q] = now'[q]
                        /\ t >= clock \/ now[q] <= t - MaxDelay
      BY DEF SecondsOf, InTime, With
    <3> QED
      BY <1>1, <1>4
  <2> QED
    BY <2>1, <1>3
<1>5. ASSUME NEW r \in Hit, Exempt(r) \/ ReadClock(r) \/ FailOpen(r)
      PROVE  Cardinality(SecondsOf(InTime(t), t)') <= Limit
  BY <1>1, <1>4, <1>5 DEF Exempt, ReadClock, FailOpen
<1>6. ASSUME NEW r \in Hit, Execute(r)
      PROVE  Cardinality(SecondsOf(InTime(t), t)') <= Limit
  <2>1. /\ clock' = clock /\ now' = now /\ pc[r] = "waiting"
        /\ \A q \in Hit \ {r} : pc'[q] = pc[q]
    BY <1>1, <1>6 DEF Execute
  <2>2. CASE pc'[r] # "admitted"
    BY <1>4, <2>1, <2>2
  <2>3. CASE pc'[r] = "admitted" /\ t >= clock
    <3>1. SecondsOf(InTime(t), t)' \subseteq SecondsOf(InTime(t), t) \cup {now[r]}
      <4> SUFFICES ASSUME NEW q \in Hit \ {r}, pc'[q] = "admitted",
                          t - Window < now'[q], now'[q] <= t
                   PROVE  now'[q] \in SecondsOf(InTime(t), t)
        BY <2>1 DEF SecondsOf, InTime, With
      <4> QED
        BY <2>1, <2>3 DEF SecondsOf, InTime, With
    <3> DEFINE A == SecondsOf(InTime(t), t) \cup {now[r]}
               B == SecondsOf(InTime(t), t)'
    <3>2. B \subseteq A /\ A \subseteq 0..MaxTime /\ Cardinality(A) <= Limit
      BY <1>1, <1>6, <2>3, <3>1, AdmittedInTime
    <3>3. B \subseteq 0..MaxTime
      BY <3>2
    <3> HIDE DEF A, B
    <3>4. Cardinality(B) <= Cardinality(A) /\ Cardinality(A) \in Nat /\ Cardinality(B) \in Nat
      BY <3>2, <3>3, FewerSeconds, SecondsFinite
    <3>5. Cardinality(B) <= Limit
      BY <3>2, <3>4, LimitAssumption
    <3> QED
      BY <3>5 DEF B
  \* r comes too late to count against t.
  <2>4. CASE t < clock
    <3>1. now[r] > t - MaxDelay
      <4>1. now[r] \in Nat /\ clock - now[r] <= MaxDelay
        BY <1>1, <2>1 DEF LimiterInv, Punctual
      <4> QED
        BY <1>1, <2>4, <4>1
    <3>2. SecondsOf(InTime(t), t)' \subseteq SecondsOf(InTime(t), t)
      <4> SUFFICES ASSUME NEW q \in Hit, pc'[q] = "admitted",
                          t >= clock' \/ now'[q] <= t - MaxDelay,
                          t - Window < now'[q], now'[q] <= t
                   PROVE  /\ pc[q] = "admitted" /\ now[q] = now'[q]
                          /\ t >= clock \/ now[q] <= t - MaxDelay
        BY DEF SecondsOf, InTime, With
      <4>1. now[q] <= t - MaxDelay
        BY <1>1, <2>1, <2>4
      <4>2. q # r
        <5>1. now[r] \in Int /\ t - MaxDelay \in Int
          BY <1>1
        <5> QED
          BY <3>1, <4>1, <5>1
      <4> QED
        BY <2>1, <4>1, <4>2
    <3> QED
      BY <3>2, <1>3
  <2> QED
    BY <1>1, <2>2, <2>3, <2>4
<1>7. CASE Tick
  BY <1>4, <1>7 DEF Tick
<1>8. CASE UNCHANGED RLvars
  BY <1>4, <1>8 DEF RLvars
<1> QED
  BY <1>5, <1>6, <1>7, <1>8 DEF RLNext

\* However requests overtake each other, and wherever the key expires, the
\* client is admitted in at most Limit distinct seconds of any window, plus one
\* for every second a request may be late.
THEOREM AdmittedIsBounded == RLSpec => []AdmittedSecondsBounded
<1>1. RLInit => InTimeBounded
  <2> SUFFICES ASSUME RLInit, NEW t \in 0..MaxTime
               PROVE  Cardinality(SecondsOf(InTime(t), t)) <= Limit
    BY DEF InTimeBounded
  <2>1. SecondsOf(InTime(t), t) = {}
    BY DEF RLInit, SecondsOf, InTime, With
  <2> QED
    BY <2>1, FS_EmptySet, LimitAssumption
<1>2. LimiterInv /\ InTimeBounded => AdmittedSecondsBounded
  <2> SUFFICES ASSUME LimiterInv, InTimeBounded, NEW t \in 0..MaxTime
               PROVE  Cardinality(SecondsOf(With({"admitted"}), t)) <= Limit + MaxDelay
    BY DEF AdmittedSecondsBounded
  <2> DEFINE A == SecondsOf(InTime(t), t)
             L == (t - MaxDelay + 1)..t
             B == SecondsOf(With({"admitted"}), t)
  <2>1. t \in Nat /\ MaxDelay \in Nat /\ Limit \in Nat
    BY MaxTimeAssumption, MaxDelayAssumption, LimitAssumption
  <2>2. B \subseteq A \cup L
    <3> SUFFICES ASSUME NEW q \in Hit, pc[q] = "admitted", t - Window < now[q], now[q] <= t
                 PROVE  now[q] <= t - MaxDelay \/ now[q] \in L
      BY DEF SecondsOf, InTime, With
    <3>1. now[q] \in Nat
      BY MaxTimeAssumption DEF LimiterInv, RLTypeOK
    <3> QED
      BY <2>1, <3>1
  <2>3. A \subseteq 0..MaxTime /\ Cardinality(A) <= Limit
    BY SecondsAreSeconds DEF InTimeBounded, InTime, With
  <2>4. IsFiniteSet(L) /\ Cardinality(L) = MaxDelay
    <3>1. t - MaxDelay + 1 \in Int /\ t \in Int
      BY <2>1
    <3>2. IsFiniteSet(L) /\ Cardinality(L) =
              IF t - MaxDelay + 1 > t THEN 0 ELSE t - (t - MaxDelay + 1) + 1
      BY <3>1, FS_Interval
    <3> QED
      BY <2>1, <3>2
  <2> HIDE DEF A, L, B
  <2>5. IsFiniteSet(A) /\ Cardinality(A) \in Nat
    BY <2>3, SecondsFinite
  <2>6. /\ IsFiniteSet(A \cup L) /\ IsFiniteSet(A \cap L)
        /\ Cardinality(A \cup L) = Cardinality(A) + Cardinality(L) - Cardinality(A \cap L)
    BY <2>4, <2>5, FS_Union, FS_Intersection
  <2>7. Cardinality(A \cap L) \in Nat /\ Cardinality(A \cup L) \in Nat
    BY <2>6, FS_CardinalityType
  <2>8. IsFiniteSet(B) /\ Cardinality(B) <= Cardinality(A \cup L)
    BY <2>2, <2>6, FS_Subset
  <2>9. Cardinality(B) \in Nat
    BY <2>8, FS_CardinalityType
  <2>10. Cardinality(B) <= Limit + MaxDelay
    BY <2>1, <2>3, <2>4, <2>5, <2>6, <2>7, <2>8, <2>9
  <2> QED
    BY <2>10 DEF B
<1> QED
  BY <1>1, <1>2, InTimeStep, LimiterInvInductive, AlwaysRemembered, PTL DEF RLSpec

-----------------------------------------------------------------------------
(* The middlewares                                                         *)

\* The gateway has one middleware more than a service, the outermost.
Extra(a) == IF a = "gateway" THEN 1 ELSE 0

Layer == {"limiter", "cors", "correlation", "tenant", "logging", "error_handler", "endpoint"}

LEMMA AddedInOrder ==
    ASSUME NEW a \in App
    PROVE  /\ Added(a) \in Seq(Layer)
           /\ Len(Added(a)) = 5 + Extra(a)
           /\ Added(a)[1] = "error_handler" /\ Added(a)[2] = "logging" /\ Added(a)[3] = "tenant"
           /\ Added(a)[4] = "correlation" /\ Added(a)[5] = "cors"
           /\ a = "gateway" => Added(a)[6] = "limiter"
<1> DEFINE s == <<"error_handler", "logging", "tenant", "correlation", "cors">>
           t == IF a = "gateway" THEN <<"limiter">> ELSE <<>>
<1>1. /\ s \in Seq(Layer) /\ Len(s) = 5
      /\ s[1] = "error_handler" /\ s[2] = "logging" /\ s[3] = "tenant"
      /\ s[4] = "correlation" /\ s[5] = "cors"
  BY DEF Layer
<1>2. t \in Seq(Layer) /\ Len(t) = Extra(a) /\ (a = "gateway" => t[1] = "limiter")
  <2>1. CASE a = "gateway"
    BY <2>1 DEF Extra, Layer
  <2>2. CASE a # "gateway"
    BY <2>2 DEF Extra
  <2> QED
    BY <2>1, <2>2
<1>3. Added(a) = s \o t
  BY DEF Added
<1> HIDE DEF s, t
<1>4. /\ s \o t \in Seq(Layer)
      /\ Len(s \o t) = Len(s) + Len(t)
      /\ \A i \in 1 .. Len(s) + Len(t) : (s \o t)[i] = IF i <= Len(s) THEN s[i] ELSE t[i - Len(s)]
  BY <1>1, <1>2, ConcatProperties
<1>5. Extra(a) \in {0, 1} /\ (a = "gateway" => Extra(a) = 1)
  BY DEF Extra
<1> QED
  BY <1>1, <1>2, <1>3, <1>4, <1>5

\* The stack of an app, from the outside.
LEMMA Layers ==
    ASSUME NEW a \in App
    PROVE  /\ Len(Stack[a]) = 6 + Extra(a)
           /\ \A n \in 1..(6 + Extra(a)) :
                /\ Stack[a][n] = "limiter" <=> n = Extra(a)
                /\ Stack[a][n] = "cors" <=> n = 1 + Extra(a)
                /\ Stack[a][n] = "correlation" <=> n = 2 + Extra(a)
                /\ Stack[a][n] = "tenant" <=> n = 3 + Extra(a)
                /\ Stack[a][n] = "logging" <=> n = 4 + Extra(a)
                /\ Stack[a][n] = "error_handler" <=> n = 5 + Extra(a)
                /\ Stack[a][n] = "endpoint" <=> n = 6 + Extra(a)
<1> DEFINE s == Reverse(Added(a))
           t == <<"endpoint">>
           L == 5 + Extra(a)
<1>1. Extra(a) \in {0, 1} /\ (a = "gateway" <=> Extra(a) = 1)
  BY DEF Extra
<1>2. L \in Nat /\ Len(Added(a)) = L
  BY <1>1, AddedInOrder
<1>3. s = [i \in 1..L |-> Added(a)[(L - i) + 1]]
  BY <1>2 DEF Reverse
<1>4. s \in Seq(Layer) /\ Len(s) = L
  <2>1. \A i \in 1..L : Added(a)[(L - i) + 1] \in Layer
    <3> SUFFICES ASSUME NEW i \in 1..L PROVE Added(a)[(L - i) + 1] \in Layer
      OBVIOUS
    <3>1. (L - i) + 1 \in 1..Len(Added(a))
      BY <1>2
    <3> QED
      BY <3>1, AddedInOrder, ElementOfSeq
  <2>2. s \in [1..L -> Layer]
    BY <1>3, <2>1
  <2> QED
    BY <1>2, <2>2
<1>5. t \in Seq(Layer) /\ Len(t) = 1 /\ t[1] = "endpoint"
  BY DEF Layer
<1>6. Stack[a] = s \o t
  BY DEF Stack
<1>7. \A i \in 1..L : s[i] = Added(a)[L - i + 1]
  BY <1>2, <1>3
<1> HIDE DEF s, t
<1>8. /\ Len(s \o t) = L + 1
      /\ \A i \in 1 .. L + 1 : (s \o t)[i] = IF i <= L THEN s[i] ELSE t[i - L]
  <2>1. /\ Len(s \o t) = Len(s) + Len(t)
        /\ \A i \in 1 .. Len(s) + Len(t) : (s \o t)[i] = IF i <= Len(s) THEN s[i] ELSE t[i - Len(s)]
    BY <1>4, <1>5, ConcatProperties
  <2>2. Len(s) = L /\ Len(t) = 1
    BY <1>4, <1>5
  <2> QED
    BY <2>1, <2>2
<1>9. Len(Stack[a]) = 6 + Extra(a)
  BY <1>1, <1>6, <1>8
<1>10. CASE a = "gateway"
  <2>1. Extra(a) = 1 /\ L = 6
    BY <1>1, <1>10
  <2>2. /\ s[1] = "limiter" /\ s[2] = "cors" /\ s[3] = "correlation" /\ s[4] = "tenant"
        /\ s[5] = "logging" /\ s[6] = "error_handler"
    BY <1>7, <1>10, <2>1, AddedInOrder
  <2>3. \A n \in 1..7 : Stack[a][n] = IF n = 7 THEN "endpoint" ELSE s[n]
    BY <1>5, <1>6, <1>8, <2>1
  <2>4. \A n \in 1..7 : n = 1 \/ n = 2 \/ n = 3 \/ n = 4 \/ n = 5 \/ n = 6 \/ n = 7
    OBVIOUS
  <2> QED
    BY <1>9, <2>1, <2>2, <2>3, <2>4
<1>11. CASE a = "service"
  <2>1. Extra(a) = 0 /\ L = 5
    BY <1>1, <1>11
  <2>2. /\ s[1] = "cors" /\ s[2] = "correlation" /\ s[3] = "tenant"
        /\ s[4] = "logging" /\ s[5] = "error_handler"
    BY <1>7, <2>1, AddedInOrder
  <2>3. \A n \in 1..6 : Stack[a][n] = IF n = 6 THEN "endpoint" ELSE s[n]
    BY <1>5, <1>6, <1>8, <2>1
  <2>4. \A n \in 1..6 : n = 1 \/ n = 2 \/ n = 3 \/ n = 4 \/ n = 5 \/ n = 6
    OBVIOUS
  <2> QED
    BY <1>9, <2>1, <2>2, <2>3, <2>4
<1> QED
  BY <1>10, <1>11 DEF App

-----------------------------------------------------------------------------

LEMMA ExtraTypes == \A a \in App : Extra(a) \in {0, 1} /\ (Extra(a) = 1 <=> a = "gateway")
BY DEF Extra

LEMMA FrontProperties ==
    ASSUME NEW S, NEW s \in Seq(S), s # <<>>
    PROVE  /\ Front(s) \in Seq(S)
           /\ Len(Front(s)) = Len(s) - 1
           /\ \A i \in 1..(Len(s) - 1) : Front(s)[i] = s[i]
<1>1. Len(s) \in Nat \ {0}
  BY EmptySeq
<1> DEFINE n == Len(s) - 1
<1>2. 1 \in Int /\ n \in Int /\ n \in Nat
  BY <1>1
<1>3. \A i \in 1..n : s[i] \in S
  BY <1>1, ElementOfSeq
<1>4. Front(s) = SubSeq(s, 1, n)
  BY DEF Front
<1> HIDE DEF n
<1>5. /\ SubSeq(s, 1, n) \in Seq(S)
      /\ Len(SubSeq(s, 1, n)) = IF 1 <= n THEN n - 1 + 1 ELSE 0
      /\ \A i \in 1 .. n - 1 + 1 : SubSeq(s, 1, n)[i] = s[1 + i - 1]
  BY <1>2, <1>3, SubSeqProperties
<1>6. Len(SubSeq(s, 1, n)) = n
  BY <1>2, <1>5
<1>7. \A i \in 1..n : i \in 1 .. n - 1 + 1 /\ 1 + i - 1 = i
  BY <1>2
<1> QED
  BY <1>4, <1>5, <1>6, <1>7 DEF n

\* An update of one request in one app.
LEMMA OneUpdate ==
    ASSUME NEW S, NEW f \in [App -> [Request -> S]], NEW a \in App, NEW r \in Request, NEW e
    PROVE  LET g == [f EXCEPT ![a][r] = e] IN
           /\ e \in S => g \in [App -> [Request -> S]]
           /\ g[a][r] = e
           /\ \A b \in App, q \in Request : (b # a \/ q # r) => g[b][q] = f[b][q]
OBVIOUS

LEMMA HttpStatuses ==
    /\ {200, 404, 500, 502} \subseteq Statuses
    /\ \A e \in Exceptions : StatusOf[e] \in Statuses
<1>1. "EntityNotFound" \in Exceptions /\ "Exception" \in Exceptions
  BY DEF Exceptions, DomainErrors
<1>2. StatusOf["EntityNotFound"] = 404
  BY <1>1 DEF StatusOf
<1>3. StatusOf["Exception"] = 500
  BY <1>1 DEF StatusOf, DomainErrors
<1>4. \A e \in Exceptions : StatusOf[e] \in Statuses
  BY DEF Statuses
<1> QED
  BY <1>1, <1>2, <1>3, <1>4 DEF Statuses

Result == Responses \cup Raises

LEMMA Results ==
    /\ \A st \in Statuses, id \in CorrelationIds : Response(st, id) \in Result
    /\ \A e \in Exceptions \cup {"CancelledError"} : Raised(e) \in Result
    /\ \A o \in Result : o # NoOutcome
    /\ NoId \in CorrelationIds
BY DEF Response, Raised, Result, Responses, Raises, NoOutcome, CorrelationIds

LEMMA RequestTypes ==
    ASSUME TypeOK, NEW a \in App, NEW r \in Request
    PROVE  /\ TenantOf(r) \in Tenant \cup {"none"}
           /\ IdOf(a, r) \in CorrelationIds
           /\ frames[a][r] \in Seq(Context)
           /\ outcome[a][r] \in {NoOutcome} \cup Result
           /\ outcome[a][r] # NoOutcome => outcome[a][r] \in Result
<1>1. TenantOf(r) \in Tenant \cup {"none"}
  BY DEF TenantOf
<1>2. IdOf(a, r) \in CorrelationIds
  BY DEF IdOf, CorrelationIds, App
<1> QED
  BY <1>1, <1>2 DEF TypeOK, Result

\* The dispatch on top.
LEMMA Innermost ==
    ASSUME TypeOK, NEW a \in App, NEW r \in Request, frames[a][r] # <<>>
    PROVE  /\ Len(frames[a][r]) \in Nat \ {0}
           /\ Mine(a, r) \in Context
           /\ Mine(a, r) = frames[a][r][Len(frames[a][r])]
<1>1. frames[a][r] \in Seq(Context)
  BY RequestTypes
<1>2. Len(frames[a][r]) \in Nat \ {0}
  BY <1>1, EmptySeq
<1>3. frames[a][r][Len(frames[a][r])] \in Context
  BY <1>1, <1>2, ElementOfSeq
<1> QED
  BY <1>2, <1>3 DEF Mine, Last

\* The others are left alone.
Alone(a, r) ==
    \A b \in App, q \in Request : (b # a \/ q # r) =>
        frames'[b][q] = frames[b][q] /\ outcome'[b][q] = outcome[b][q]

LEMMA FinishStep ==
    ASSUME TypeOK, NEW a \in App, NEW r \in Request, frames[a][r] # <<>>,
           NEW o \in Result, Finish(a, r, o)
    PROVE  /\ frames' \in [App -> [Request -> Seq(Context)]]
           /\ outcome' \in [App -> [Request -> {NoOutcome} \cup Responses \cup Raises]]
           /\ outcome'[a][r] = o
           /\ Len(frames'[a][r]) = Len(frames[a][r]) - 1
           /\ \A i \in 1..(Len(frames[a][r]) - 1) : frames'[a][r][i] = frames[a][r][i]
           /\ Alone(a, r)
<1> DEFINE fs == frames[a][r]
<1>1. fs \in Seq(Context) /\ fs # <<>> /\ Len(fs) \in Nat \ {0}
  BY RequestTypes, Innermost
<1>2. /\ frames' = [frames EXCEPT ![a][r] = Front(fs)]
      /\ outcome' = [outcome EXCEPT ![a][r] = o]
  BY DEF Finish, TypeOK
<1>3. /\ frames \in [App -> [Request -> Seq(Context)]]
      /\ outcome \in [App -> [Request -> {NoOutcome} \cup Responses \cup Raises]]
      /\ o \in {NoOutcome} \cup Responses \cup Raises
  BY DEF TypeOK, Result
<1> HIDE DEF fs
<1>4. /\ Front(fs) \in Seq(Context)
      /\ Len(Front(fs)) = Len(fs) - 1
      /\ \A i \in 1..(Len(fs) - 1) : Front(fs)[i] = fs[i]
  BY <1>1, FrontProperties
<1>5. /\ frames' \in [App -> [Request -> Seq(Context)]]
      /\ frames'[a][r] = Front(fs)
      /\ \A b \in App, q \in Request : (b # a \/ q # r) => frames'[b][q] = frames[b][q]
  BY <1>2, <1>3, <1>4, OneUpdate
<1>6. /\ outcome' \in [App -> [Request -> {NoOutcome} \cup Responses \cup Raises]]
      /\ outcome'[a][r] = o
      /\ \A b \in App, q \in Request : (b # a \/ q # r) => outcome'[b][q] = outcome[b][q]
  BY <1>2, <1>3, OneUpdate
<1> QED
  BY <1>4, <1>5, <1>6 DEF Alone, fs

LEMMA CallNextStep ==
    ASSUME TypeOK, NEW a \in App, NEW r \in Request, frames[a][r] # <<>>,
           NEW c \in Context, CallNext(a, r, c)
    PROVE  /\ frames' \in [App -> [Request -> Seq(Context)]]
           /\ Len(frames'[a][r]) = Len(frames[a][r]) + 1
           /\ \A i \in 1..(Len(frames[a][r]) + 1) :
                frames'[a][r][i] = IF i < Len(frames[a][r]) THEN frames[a][r][i] ELSE c
           /\ outcome' = outcome
           /\ Alone(a, r)
<1> DEFINE fs == frames[a][r]
           gs == [fs EXCEPT ![Len(fs)] = c]
<1>1. fs \in Seq(Context) /\ fs # <<>> /\ Len(fs) \in Nat \ {0}
  BY RequestTypes, Innermost
<1>2. frames' = [frames EXCEPT ![a][r] = Append(gs, c)] /\ outcome' = outcome
  BY DEF CallNext, TypeOK
<1>3. frames \in [App -> [Request -> Seq(Context)]]
  BY DEF TypeOK
<1> HIDE DEF fs
<1>4. /\ gs \in Seq(Context)
      /\ Len(gs) = Len(fs)
      /\ \A j \in 1..Len(fs) : gs[j] = IF j = Len(fs) THEN c ELSE fs[j]
  BY <1>1, ExceptSeq
<1> HIDE DEF gs
<1>5. /\ Append(gs, c) \in Seq(Context)
      /\ Len(Append(gs, c)) = Len(gs) + 1
      /\ \A i \in 1..Len(gs) : Append(gs, c)[i] = gs[i]
      /\ Append(gs, c)[Len(gs) + 1] = c
  BY <1>4, AppendProperties
<1>6. /\ frames' \in [App -> [Request -> Seq(Context)]]
      /\ frames'[a][r] = Append(gs, c)
      /\ \A b \in App, q \in Request : (b # a \/ q # r) => frames'[b][q] = frames[b][q]
  BY <1>2, <1>3, <1>5, OneUpdate
<1>7. \A i \in 1..(Len(fs) + 1) : Append(gs, c)[i] = IF i < Len(fs) THEN fs[i] ELSE c
  <2> SUFFICES ASSUME NEW i \in 1..(Len(fs) + 1)
               PROVE  Append(gs, c)[i] = IF i < Len(fs) THEN fs[i] ELSE c
    OBVIOUS
  <2>1. CASE i = Len(fs) + 1
    BY <1>1, <1>4, <1>5, <2>1
  <2>2. CASE i \in 1..Len(fs)
    BY <1>1, <1>4, <1>5, <2>2
  <2>3. i = Len(fs) + 1 \/ i \in 1..Len(fs)
    BY <1>1
  <2> QED
    BY <2>1, <2>2, <2>3
<1> QED
  BY <1>2, <1>4, <1>5, <1>6, <1>7 DEF Alone, fs
-----------------------------------------------------------------------------

\* The context a dispatch has once the n outermost ones have called on.
ContextAt(a, r, n) ==
    [tenant |-> IF n >= 3 + Extra(a) THEN TenantOf(r) ELSE "none",
     correlation |-> IF n >= 2 + Extra(a) THEN IdOf(a, r) ELSE NoId]

\* Every dispatch has its own request's context: the innermost one that of its
\* caller until it calls on or is called back.
Contexts(a, r) ==
    /\ Len(frames[a][r]) <= 6 + Extra(a)
    /\ \A i \in 1..Len(frames[a][r]) :
        frames[a][r][i] =
            ContextAt(a, r, IF i = Len(frames[a][r]) /\ outcome[a][r] = NoOutcome THEN i - 1 ELSE i)

\* On the way in nothing has happened yet.
WayIn(a, r) ==
    outcome[a][r] = NoOutcome =>
        /\ recorded[a][r] = NoRecord
        /\ answer[a][r] = NoAnswer
        /\ <<a, r>> \notin cancelled
        /\ a = "gateway" => r \notin limited

\* The two ways to turn back before the endpoint.
TurnedBack(a, r) ==
    a = "gateway" =>
        /\ request[r].target = "preflight" => Len(frames[a][r]) <= 1 + Extra(a)
        /\ r \in limited => Len(frames[a][r]) = 0

\* On the way out to the metrics: a response, unless the error handler has yet
\* to make it one.
WayOut(a, r) ==
    (outcome[a][r] # NoOutcome /\ Len(frames[a][r]) >= 4 + Extra(a)) =>
        /\ recorded[a][r] = NoRecord
        /\ answer[a][r] = NoAnswer
        /\ Len(frames[a][r]) < 6 + Extra(a)
        /\ \/ outcome[a][r].kind = "response"
           \/ /\ Len(frames[a][r]) = 5 + Extra(a)
              /\ outcome[a][r].exc \in Exceptions

\* On the way out from the metrics: what they recorded is what is returned.
Recorded(a, r) ==
    (outcome[a][r] # NoOutcome /\ Len(frames[a][r]) < 4 + Extra(a) /\ <<a, r>> \notin cancelled) =>
        IF CutShort(a, r) THEN recorded[a][r] = NoRecord
        ELSE /\ outcome[a][r].kind = "response"
             /\ recorded[a][r] = [status |-> outcome[a][r].status, tenant |-> TenantOf(r)]
             /\ Len(frames[a][r]) < 2 + Extra(a) => outcome[a][r].id = IdOf(a, r)

Answered(a, r) ==
    answer[a][r] # NoAnswer =>
        /\ frames[a][r] = <<>>
        /\ outcome[a][r].kind = "response" =>
            answer[a][r] = [status |-> outcome[a][r].status, id |-> outcome[a][r].id]

\* A cancelled request is nowhere, and nothing is sent for it.
Dropped(a, r) == <<a, r>> \in cancelled => frames[a][r] = <<>> /\ answer[a][r] = NoAnswer

Way(a, r) ==
    /\ Contexts(a, r) /\ WayIn(a, r) /\ TurnedBack(a, r)
    /\ WayOut(a, r) /\ Recorded(a, r) /\ Answered(a, r) /\ Dropped(a, r)

PipelineInv == TypeOK /\ \A a \in App, r \in Request : Way(a, r)

\* What a step of r in a leaves alone.
Elsewhere(a, r) ==
    /\ request' = request
    /\ \A b \in App, q \in Request : (b # a \/ q # r) =>
        /\ frames'[b][q] = frames[b][q] /\ outcome'[b][q] = outcome[b][q]
        /\ recorded'[b][q] = recorded[b][q] /\ answer'[b][q] = answer[b][q]
        /\ <<b, q>> \in cancelled' <=> <<b, q>> \in cancelled
        /\ b = "gateway" => (q \in limited' <=> q \in limited)

LEMMA ElsewhereKept ==
    ASSUME PipelineInv, NEW a \in App, NEW r \in Request, Elsewhere(a, r), TypeOK', Way(a, r)'
    PROVE  PipelineInv'
<1> SUFFICES ASSUME NEW b \in App, NEW q \in Request, b # a \/ q # r
             PROVE  Way(b, q)'
  BY DEF PipelineInv
<1>1. Way(b, q)
  BY DEF PipelineInv
<1>2. /\ frames'[b][q] = frames[b][q] /\ outcome'[b][q] = outcome[b][q]
      /\ recorded'[b][q] = recorded[b][q] /\ answer'[b][q] = answer[b][q]
      /\ <<b, q>> \in cancelled' <=> <<b, q>> \in cancelled
      /\ b = "gateway" => (q \in limited' <=> q \in limited)
      /\ request' = request
  BY DEF Elsewhere
<1>3. TenantOf(q)' = TenantOf(q) /\ IdOf(b, q)' = IdOf(b, q)
  BY <1>2 DEF TenantOf, IdOf
<1>4. Contexts(b, q)'
  BY <1>1, <1>2, <1>3 DEF Way, Contexts, ContextAt
<1>5. WayIn(b, q)' /\ TurnedBack(b, q)' /\ WayOut(b, q)' /\ Answered(b, q)' /\ Dropped(b, q)'
  BY <1>1, <1>2 DEF Way, WayIn, TurnedBack, WayOut, Answered, Dropped
<1>6. Recorded(b, q)'
  BY <1>1, <1>2, <1>3 DEF Way, Recorded, CutShort
<1> QED
  BY <1>4, <1>5, <1>6 DEF Way

\* The next dispatch starts with the context its caller went on with.
LEMMA DeeperContexts ==
    ASSUME TypeOK, NEW a \in App, NEW r \in Request, Contexts(a, r), request' = request,
           frames[a][r] # <<>>, outcome[a][r] = NoOutcome,
           Len(frames[a][r]) < 6 + Extra(a),
           CallNext(a, r, ContextAt(a, r, Len(frames[a][r])))
    PROVE  Contexts(a, r)'
<1> DEFINE n == Len(frames[a][r])
           c == ContextAt(a, r, n)
<1>1. n \in Nat \ {0} /\ Extra(a) \in Nat
  BY Innermost, ExtraTypes
<1>2. c \in Context
  BY RequestTypes, Results DEF ContextAt, Context
<1>3. /\ Len(frames'[a][r]) = n + 1
      /\ \A i \in 1..(n + 1) : frames'[a][r][i] = IF i < n THEN frames[a][r][i] ELSE c
      /\ outcome'[a][r] = NoOutcome
  BY <1>2, CallNextStep
<1>4. \A i \in 1..n : i < n => frames[a][r][i] = ContextAt(a, r, i)
  BY <1>1 DEF Contexts
<1>5. TenantOf(r)' = TenantOf(r) /\ IdOf(a, r)' = IdOf(a, r)
  BY DEF TenantOf, IdOf
<1>6. \A i : ContextAt(a, r, i)' = ContextAt(a, r, i)
  BY <1>5 DEF ContextAt
<1> HIDE DEF n
<1>7. ASSUME NEW i \in 1..(n + 1)
      PROVE  frames'[a][r][i] = ContextAt(a, r, IF i = n + 1 THEN i - 1 ELSE i)
  BY <1>1, <1>3, <1>4, <1>7
<1> QED
  BY <1>1, <1>3, <1>6, <1>7 DEF Contexts, n

LEMMA FinishedContexts ==
    ASSUME TypeOK, NEW a \in App, NEW r \in Request, Contexts(a, r), request' = request,
           frames[a][r] # <<>>, NEW o \in Result, Finish(a, r, o)
    PROVE  Contexts(a, r)'
<1> DEFINE n == Len(frames[a][r])
<1>1. n \in Nat \ {0} /\ Extra(a) \in Nat
  BY Innermost, ExtraTypes
<1>2. /\ Len(frames'[a][r]) = n - 1
      /\ \A i \in 1..(n - 1) : frames'[a][r][i] = frames[a][r][i]
      /\ outcome'[a][r] # NoOutcome
  BY FinishStep, Results
<1>3. \A i \in 1..(n - 1) : frames[a][r][i] = ContextAt(a, r, i)
  BY <1>1 DEF Contexts
<1>4. TenantOf(r)' = TenantOf(r) /\ IdOf(a, r)' = IdOf(a, r)
  BY DEF TenantOf, IdOf
<1>5. \A i : ContextAt(a, r, i)' = ContextAt(a, r, i)
  BY <1>4 DEF ContextAt
<1>6. n <= 6 + Extra(a)
  BY DEF Contexts
<1> HIDE DEF n
<1>7. Len(frames'[a][r]) <= 6 + Extra(a)
  BY <1>1, <1>2, <1>6
<1>8. \A i \in 1..Len(frames'[a][r]) : frames'[a][r][i] = ContextAt(a, r, i)
  BY <1>2, <1>3
<1> QED
  BY <1>2, <1>5, <1>7, <1>8 DEF Contexts

\* Where r is in a, and what is known of it there.
LEMMA Position ==
    ASSUME PipelineInv, NEW a \in App, NEW r \in Request, frames[a][r] # <<>>
    PROVE  LET n == Len(frames[a][r])
               layer == Stack[a][n] IN
           /\ n \in Nat /\ n >= 1 /\ n <= 6 + Extra(a)
           /\ layer = "limiter" <=> n = Extra(a)
           /\ layer = "cors" <=> n = 1 + Extra(a)
           /\ layer = "correlation" <=> n = 2 + Extra(a)
           /\ layer = "tenant" <=> n = 3 + Extra(a)
           /\ layer = "logging" <=> n = 4 + Extra(a)
           /\ layer = "error_handler" <=> n = 5 + Extra(a)
           /\ layer = "endpoint" <=> n = 6 + Extra(a)
<1>1. Len(frames[a][r]) \in Nat \ {0} /\ Extra(a) \in Nat
  BY Innermost, ExtraTypes DEF PipelineInv
<1>2. Len(frames[a][r]) <= 6 + Extra(a)
  BY DEF PipelineInv, Way, Contexts
<1> DEFINE n == Len(frames[a][r])
<1>3. n \in 1..(6 + Extra(a))
  BY <1>1, <1>2
<1> HIDE DEF n
<1>4. /\ Stack[a][n] = "limiter" <=> n = Extra(a)
      /\ Stack[a][n] = "cors" <=> n = 1 + Extra(a)
      /\ Stack[a][n] = "correlation" <=> n = 2 + Extra(a)
      /\ Stack[a][n] = "tenant" <=> n = 3 + Extra(a)
      /\ Stack[a][n] = "logging" <=> n = 4 + Extra(a)
      /\ Stack[a][n] = "error_handler" <=> n = 5 + Extra(a)
      /\ Stack[a][n] = "endpoint" <=> n = 6 + Extra(a)
  BY <1>3, Layers
<1>5. n \in Nat /\ n >= 1 /\ n <= 6 + Extra(a)
  BY <1>1, <1>3
<1> QED
  BY <1>4, <1>5 DEF n

\* A dispatch calls the next one.
LEMMA DeeperStep ==
    ASSUME PipelineInv, NEW a \in App, NEW r \in Request,
           frames[a][r] # <<>>, outcome[a][r] = NoOutcome,
           Len(frames[a][r]) < 6 + Extra(a),
           CallNext(a, r, ContextAt(a, r, Len(frames[a][r]))), UNCHANGED Bookkeeping,
           a = "gateway" /\ request[r].target = "preflight" => Len(frames[a][r]) <= Extra(a)
    PROVE  PipelineInv'
<1> DEFINE n == Len(frames[a][r])
           c == ContextAt(a, r, n)
<1>1. TypeOK /\ Way(a, r) /\ n \in Nat /\ Extra(a) \in Nat
  BY Position, ExtraTypes DEF PipelineInv
<1>2. c \in Context
  BY <1>1, RequestTypes, Results DEF ContextAt, Context
<1>3. /\ frames' \in [App -> [Request -> Seq(Context)]]
      /\ Len(frames'[a][r]) = n + 1
      /\ outcome' = outcome
      /\ Alone(a, r)
  BY <1>1, <1>2, CallNextStep
<1>4. /\ request' = request /\ called' = called /\ limited' = limited
      /\ cancelled' = cancelled /\ recorded' = recorded /\ answer' = answer
  BY DEF Bookkeeping
<1>5. TypeOK'
  BY <1>1, <1>3, <1>4 DEF TypeOK
<1>6. Elsewhere(a, r)
  BY <1>3, <1>4 DEF Elsewhere, Alone
<1>7. Contexts(a, r)'
  BY <1>1, <1>4, DeeperContexts DEF Way
<1>8. WayIn(a, r)'
  BY <1>1, <1>3, <1>4 DEF Way, WayIn
<1>9. r \notin limited \/ a # "gateway"
  BY <1>1 DEF Way, WayIn
<1>10. TurnedBack(a, r)'
  BY <1>1, <1>3, <1>4, <1>9 DEF TurnedBack
<1>11. WayOut(a, r)' /\ Recorded(a, r)'
  BY <1>3 DEF WayOut, Recorded
<1>12. answer[a][r] = NoAnswer
  BY <1>1 DEF Way, WayIn
<1>13. Answered(a, r)'
  BY <1>4, <1>12 DEF Answered
<1>14. Dropped(a, r)'
  BY <1>1, <1>4 DEF Way, WayIn, Dropped
<1> QED
  BY <1>5, <1>6, <1>7, <1>8, <1>10, <1>11, <1>13, <1>14, ElsewhereKept DEF Way

\* A dispatch finishes, whatever is recorded of r.
LEMMA FinishInv ==
    ASSUME PipelineInv, NEW a \in App, NEW r \in Request, frames[a][r] # <<>>,
           NEW o \in Result, Finish(a, r, o), UNCHANGED <<request, called, cancelled, answer>>,
           recorded' \in [App -> [Request -> {NoRecord} \cup [status : Statuses, tenant : Tenant \cup {"none"}]]],
           limited' \subseteq Request,
           \A b \in App, q \in Request : (b # a \/ q # r) =>
                /\ recorded'[b][q] = recorded[b][q]
                /\ b = "gateway" => (q \in limited' <=> q \in limited)
    PROVE  /\ TypeOK' /\ Elsewhere(a, r)
           /\ Contexts(a, r)' /\ WayIn(a, r)' /\ Answered(a, r)' /\ Dropped(a, r)'
           /\ Len(frames'[a][r]) = Len(frames[a][r]) - 1
           /\ outcome'[a][r] = o
           /\ TenantOf(r)' = TenantOf(r) /\ IdOf(a, r)' = IdOf(a, r)
<1>1. TypeOK /\ Way(a, r)
  BY DEF PipelineInv
<1>2. /\ frames' \in [App -> [Request -> Seq(Context)]]
      /\ outcome' \in [App -> [Request -> {NoOutcome} \cup Responses \cup Raises]]
      /\ outcome'[a][r] = o
      /\ Len(frames'[a][r]) = Len(frames[a][r]) - 1
      /\ Alone(a, r)
  BY <1>1, FinishStep
<1>3. TypeOK'
  BY <1>1, <1>2 DEF TypeOK
<1>4. Elsewhere(a, r)
  BY <1>2 DEF Elsewhere, Alone
<1>5. Contexts(a, r)'
  BY <1>1, FinishedContexts DEF Way
<1>6. WayIn(a, r)'
  BY <1>2, Results DEF WayIn
<1>7. answer[a][r] = NoAnswer
  BY <1>1 DEF Way, Answered
<1>8. Answered(a, r)'
  BY <1>7 DEF Answered
<1>9. TenantOf(r)' = TenantOf(r) /\ IdOf(a, r)' = IdOf(a, r)
  BY DEF TenantOf, IdOf
<1>10. Dropped(a, r)'
  BY <1>1 DEF Way, Dropped
<1> QED
  BY <1>2, <1>3, <1>4, <1>5, <1>6, <1>8, <1>9, <1>10

\* A dispatch finishes and nothing is recorded.
LEMMA QuietFinish ==
    ASSUME PipelineInv, NEW a \in App, NEW r \in Request, frames[a][r] # <<>>,
           NEW o \in Result, Finish(a, r, o), UNCHANGED Bookkeeping,
           WayOut(a, r)', Recorded(a, r)'
    PROVE  PipelineInv'
<1>1. /\ request' = request /\ called' = called /\ limited' = limited
      /\ cancelled' = cancelled /\ recorded' = recorded /\ answer' = answer
  BY DEF Bookkeeping
<1>2. TypeOK /\ Way(a, r) /\ Len(frames[a][r]) \in Nat /\ Len(frames[a][r]) >= 1 /\ Extra(a) \in Nat
  BY Position, ExtraTypes DEF PipelineInv
<1>3. /\ TypeOK' /\ Elsewhere(a, r)
      /\ Contexts(a, r)' /\ WayIn(a, r)' /\ Answered(a, r)' /\ Dropped(a, r)'
      /\ Len(frames'[a][r]) = Len(frames[a][r]) - 1
  <2>1. /\ recorded' \in [App -> [Request -> {NoRecord} \cup [status : Statuses, tenant : Tenant \cup {"none"}]]]
        /\ limited' \subseteq Request
    BY <1>1, <1>2 DEF TypeOK
  <2> QED
    BY <1>1, <2>1, FinishInv
<1>4. TurnedBack(a, r)'
  <2>1. a = "gateway" => r \notin limited
    BY <1>2 DEF Way, TurnedBack
  <2> QED
    BY <1>1, <1>2, <1>3, <2>1 DEF Way, TurnedBack
<1> QED
  BY <1>3, <1>4, ElsewhereKept DEF Way

LEMMA QuietFacts ==
    ASSUME PipelineInv, NEW a \in App, NEW r \in Request, frames[a][r] # <<>>,
           NEW o \in Result, Finish(a, r, o), UNCHANGED Bookkeeping
    PROVE  /\ Len(frames'[a][r]) = Len(frames[a][r]) - 1
           /\ outcome'[a][r] = o
           /\ recorded' = recorded /\ answer' = answer /\ cancelled' = cancelled
           /\ TenantOf(r)' = TenantOf(r) /\ IdOf(a, r)' = IdOf(a, r)
           /\ CutShort(a, r)' = CutShort(a, r)
<1>1. /\ request' = request /\ called' = called /\ limited' = limited
      /\ cancelled' = cancelled /\ recorded' = recorded /\ answer' = answer
  BY DEF Bookkeeping
<1>2. Len(frames'[a][r]) = Len(frames[a][r]) - 1 /\ outcome'[a][r] = o
  BY FinishStep DEF PipelineInv
<1> QED
  BY <1>1, <1>2 DEF TenantOf, IdOf, CutShort

LEMMA InnermostContext ==
    ASSUME PipelineInv, NEW a \in App, NEW r \in Request, frames[a][r] # <<>>
    PROVE  Mine(a, r) = ContextAt(a, r, IF outcome[a][r] = NoOutcome THEN Len(frames[a][r]) - 1
                                        ELSE Len(frames[a][r]))
<1>1. /\ Mine(a, r) = frames[a][r][Len(frames[a][r])]
      /\ Len(frames[a][r]) \in 1..Len(frames[a][r])
  BY Innermost DEF PipelineInv
<1> QED
  BY <1>1 DEF PipelineInv, Way, Contexts

-----------------------------------------------------------------------------

\* The middlewares, on the way in.
LEMMA InStep ==
    ASSUME PipelineInv, NEW a \in App, NEW r \in Request,
           PassIn(a, r) \/ CorrelationIn(a, r) \/ TenantIn(a, r)
           \/ (a = "gateway" /\ LimiterPasses(r))
    PROVE  PipelineInv'
<1> DEFINE n == Len(frames[a][r])
           E == Extra(a)
           c == ContextAt(a, r, n)
<1>1. frames[a][r] # <<>> /\ outcome[a][r] = NoOutcome /\ UNCHANGED Bookkeeping
  BY DEF PassIn, CorrelationIn, TenantIn, LimiterPasses, Inward
<1>2. E \in Nat /\ (a = "gateway" => E = 1)
  BY ExtraTypes
<1>3. n \in Nat /\ n >= 1
  BY <1>1, Position
<1>4. Mine(a, r) = ContextAt(a, r, n - 1)
  BY <1>1, InnermostContext
<1>5. ASSUME PassIn(a, r)
      PROVE  n < 6 + E /\ CallNext(a, r, c) /\ (a = "gateway" /\ request[r].target = "preflight" => n <= E)
  <2>1. \/ n = 1 + E /\ request[r].target # "preflight"
        \/ n = 4 + E \/ n = 5 + E
    BY <1>1, <1>5, Position DEF PassIn, Inward
  <2>2. c = Mine(a, r)
    BY <1>2, <1>3, <1>4, <2>1 DEF ContextAt
  <2>3. CallNext(a, r, c)
    BY <1>5, <2>2 DEF PassIn
  <2>4. a = "gateway" /\ request[r].target = "preflight" => n <= 1 + E
    BY DEF PipelineInv, Way, TurnedBack
  <2>5. n < 6 + E
    BY <1>2, <1>3, <2>1
  <2>6. ~(a = "gateway" /\ request[r].target = "preflight")
    BY <1>2, <1>3, <2>1, <2>4
  <2> QED
    BY <2>3, <2>5, <2>6
<1>6. ASSUME CorrelationIn(a, r)
      PROVE  n < 6 + E /\ CallNext(a, r, c) /\ (a = "gateway" /\ request[r].target = "preflight" => n <= E)
  <2>1. n = 2 + E
    BY <1>1, <1>6, Position DEF CorrelationIn, Inward
  <2>2. c = [Mine(a, r) EXCEPT !.correlation = IdOf(a, r)]
    BY <1>2, <1>3, <1>4, <2>1 DEF ContextAt
  <2>3. CallNext(a, r, c)
    BY <1>6, <2>2 DEF CorrelationIn
  <2>4. a = "gateway" /\ request[r].target = "preflight" => n <= 1 + E
    BY DEF PipelineInv, Way, TurnedBack
  <2>5. n < 6 + E
    BY <1>2, <1>3, <2>1
  <2>6. ~(a = "gateway" /\ request[r].target = "preflight")
    BY <1>2, <1>3, <2>1, <2>4
  <2> QED
    BY <2>3, <2>5, <2>6
<1>7. ASSUME TenantIn(a, r)
      PROVE  n < 6 + E /\ CallNext(a, r, c) /\ (a = "gateway" /\ request[r].target = "preflight" => n <= E)
  <2>1. n = 3 + E
    BY <1>1, <1>7, Position DEF TenantIn, Inward
  <2>2. c = [Mine(a, r) EXCEPT !.tenant = IF request[r].tenant \in Tenant THEN request[r].tenant ELSE @]
    BY <1>2, <1>3, <1>4, <2>1 DEF ContextAt, TenantOf
  <2>3. CallNext(a, r, c)
    BY <1>7, <2>2 DEF TenantIn
  <2>4. a = "gateway" /\ request[r].target = "preflight" => n <= 1 + E
    BY DEF PipelineInv, Way, TurnedBack
  <2>5. n < 6 + E
    BY <1>2, <1>3, <2>1
  <2>6. ~(a = "gateway" /\ request[r].target = "preflight")
    BY <1>2, <1>3, <2>1, <2>4
  <2> QED
    BY <2>3, <2>5, <2>6
<1>8. ASSUME a = "gateway", LimiterPasses(r)
      PROVE  n < 6 + E /\ CallNext(a, r, c) /\ (a = "gateway" /\ request[r].target = "preflight" => n <= E)
  <2>1. n = E
    BY <1>1, <1>8, Position DEF LimiterPasses, Inward
  <2>2. c = Mine(a, r)
    BY <1>2, <1>3, <1>4, <2>1 DEF ContextAt
  <2>3. CallNext(a, r, c)
    BY <1>8, <2>2 DEF LimiterPasses
  <2> QED
    BY <1>2, <2>1, <2>3
<1>9. n < 6 + E /\ CallNext(a, r, c) /\ (a = "gateway" /\ request[r].target = "preflight" => n <= E)
  BY <1>5, <1>6, <1>7, <1>8
<1> QED
  BY <1>1, <1>9, DeeperStep

\* What an endpoint returns or raises.
LEMMA EndpointFinishes ==
    ASSUME PipelineInv, NEW a \in App, NEW r \in Request, Inward(a, r, "endpoint"),
           NEW o \in Result, o.kind = "response" \/ o.exc \in Exceptions,
           Finish(a, r, o), UNCHANGED Bookkeeping
    PROVE  PipelineInv'
<1> DEFINE n == Len(frames[a][r])
<1>1. frames[a][r] # <<>> /\ outcome[a][r] = NoOutcome
  BY DEF Inward
<1>2. n = 6 + Extra(a) /\ Extra(a) \in Nat
  BY <1>1, Position, ExtraTypes DEF Inward
<1>3. /\ Len(frames'[a][r]) = n - 1
      /\ outcome'[a][r] = o
      /\ recorded' = recorded /\ answer' = answer /\ cancelled' = cancelled
  BY <1>1, QuietFacts
<1>4. recorded[a][r] = NoRecord /\ answer[a][r] = NoAnswer /\ <<a, r>> \notin cancelled
  BY <1>1 DEF PipelineInv, Way, WayIn
<1> HIDE DEF n
<1>5. WayOut(a, r)'
  BY <1>2, <1>3, <1>4 DEF WayOut
<1>6. Recorded(a, r)'
  BY <1>2, <1>3 DEF Recorded
<1> QED
  BY <1>1, <1>5, <1>6, QuietFinish

LEMMA EndpointStep ==
    ASSUME PipelineInv, NEW r \in Request,
           OwnEndpoint(r) \/ RouteNotFound(r) \/ ProxyRaises(r) \/ Relay(r) \/ RequestError(r)
           \/ EndpointReturns(r) \/ EndpointRaises(r)
    PROVE  PipelineInv'
<1>1. "gateway" \in App /\ "service" \in App
  BY DEF App
<1>2. \A st \in Statuses, id \in CorrelationIds :
        Response(st, id) \in Result /\ Response(st, id).kind = "response"
  BY Results DEF Response
<1>3. \A e \in Exceptions : Raised(e) \in Result /\ Raised(e).exc \in Exceptions
  BY Results DEF Raised
<1>4. {200, 404, 502} \subseteq Statuses /\ NoId \in CorrelationIds /\ "Exception" \in Exceptions
  BY HttpStatuses, Results DEF Exceptions
<1>5. CASE OwnEndpoint(r)
  BY <1>1, <1>2, <1>4, <1>5, EndpointFinishes DEF OwnEndpoint
<1>6. CASE RouteNotFound(r)
  BY <1>1, <1>2, <1>4, <1>6, EndpointFinishes DEF RouteNotFound
<1>7. CASE ProxyRaises(r)
  BY <1>1, <1>3, <1>4, <1>7, EndpointFinishes DEF ProxyRaises
<1>8. CASE Relay(r)
  <2>1. answer["service"][r] \in [status : Statuses, id : CorrelationIds]
    BY <1>1, <1>8 DEF Relay, PipelineInv, TypeOK
  <2>2. answer["service"][r].status \in Statuses /\ answer["service"][r].id \in CorrelationIds
    BY <2>1
  <2> QED
    BY <1>1, <1>2, <1>8, <2>2, EndpointFinishes DEF Relay
<1>9. CASE RequestError(r)
  BY <1>1, <1>2, <1>4, <1>9, EndpointFinishes DEF RequestError
<1>10. CASE EndpointReturns(r)
  BY <1>1, <1>2, <1>4, <1>10, EndpointFinishes DEF EndpointReturns
<1>11. CASE EndpointRaises(r)
  <2>1. PICK e \in Raisable : Finish("service", r, Raised(e))
    BY <1>11 DEF EndpointRaises
  <2>2. e \in Exceptions
    BY RaisableAssumption
  <2> QED
    BY <1>1, <1>3, <1>11, <2>1, <2>2, EndpointFinishes DEF EndpointRaises
<1> QED
  BY <1>5, <1>6, <1>7, <1>8, <1>9, <1>10, <1>11

\* The server cancels r, wherever it is in a.
LEMMA CancelStep ==
    ASSUME PipelineInv, NEW a \in App, NEW r \in Request, Cancel(a, r)
    PROVE  PipelineInv'
<1> DEFINE o == Raised("CancelledError")
<1>1. /\ answer[a][r] = NoAnswer
      /\ frames' = [frames EXCEPT ![a][r] = <<>>]
      /\ outcome' = [outcome EXCEPT ![a][r] = o]
      /\ cancelled' = cancelled \cup {<<a, r>>}
      /\ UNCHANGED <<request, called, limited, recorded, answer>>
  BY DEF Cancel
<1>2. TypeOK /\ Way(a, r) /\ Extra(a) \in Nat
  BY ExtraTypes DEF PipelineInv
<1>3. o \in Result /\ o # NoOutcome
  BY Results
<1>4. <<>> \in Seq(Context) /\ Len(<<>>) = 0
  BY EmptySeq
<1> HIDE DEF o
<1>5. /\ frames' \in [App -> [Request -> Seq(Context)]]
      /\ frames'[a][r] = <<>>
      /\ \A b \in App, q \in Request : (b # a \/ q # r) => frames'[b][q] = frames[b][q]
  <2>1. frames \in [App -> [Request -> Seq(Context)]]
    BY <1>2 DEF TypeOK
  <2> QED
    BY <1>1, <1>4, <2>1, OneUpdate
<1>6. /\ outcome' \in [App -> [Request -> {NoOutcome} \cup Responses \cup Raises]]
      /\ outcome'[a][r] = o
      /\ \A b \in App, q \in Request : (b # a \/ q # r) => outcome'[b][q] = outcome[b][q]
  <2>1. /\ outcome \in [App -> [Request -> {NoOutcome} \cup Responses \cup Raises]]
        /\ o \in {NoOutcome} \cup Responses \cup Raises
    BY <1>2, <1>3 DEF TypeOK, Result
  <2> QED
    BY <1>1, <2>1, OneUpdate
<1>7. TypeOK'
  <2>1. cancelled' \subseteq App \X Request
    BY <1>1, <1>2 DEF TypeOK
  <2> QED
    BY <1>1, <1>2, <1>5, <1>6, <2>1 DEF TypeOK
<1>8. Elsewhere(a, r)
  BY <1>1, <1>5, <1>6 DEF Elsewhere
<1>9. Len(frames'[a][r]) = 0
  BY <1>4, <1>5
<1>10. Contexts(a, r)'
  BY <1>2, <1>9 DEF Contexts
<1>11. WayIn(a, r)' /\ WayOut(a, r)' /\ Recorded(a, r)' /\ Answered(a, r)' /\ Dropped(a, r)'
  BY <1>1, <1>2, <1>3, <1>5, <1>6, <1>9 DEF WayIn, WayOut, Recorded, Answered, Dropped
<1>12. TurnedBack(a, r)'
  BY <1>2, <1>9 DEF TurnedBack
<1> QED
  BY <1>7, <1>8, <1>10, <1>11, <1>12, ElsewhereKept DEF Way

LEMMA LimiterRaisesStep ==
    ASSUME PipelineInv, NEW r \in Request, LimiterRaises(r)
    PROVE  PipelineInv'
<1> DEFINE a == "gateway"
           n == Len(frames[a][r])
           o == Raised("RateLimitExceeded")
<1>1. /\ a \in App /\ frames[a][r] # <<>> /\ outcome[a][r] = NoOutcome
      /\ Finish(a, r, o) /\ limited' = limited \cup {r}
      /\ UNCHANGED <<request, called, cancelled, recorded, answer>>
  BY DEF LimiterRaises, Inward, App
<1>2. o \in Result
  BY Results DEF Exceptions, DomainErrors
<1>3. n = Extra(a) /\ Extra(a) = 1
  BY <1>1, Position, ExtraTypes DEF LimiterRaises, Inward
<1>4. /\ TypeOK' /\ Elsewhere(a, r)
      /\ Contexts(a, r)' /\ WayIn(a, r)' /\ Answered(a, r)' /\ Dropped(a, r)'
      /\ Len(frames'[a][r]) = n - 1
      /\ outcome'[a][r] = o
  <2>1. /\ recorded' \in [App -> [Request -> {NoRecord} \cup [status : Statuses, tenant : Tenant \cup {"none"}]]]
        /\ limited' \subseteq Request
    BY <1>1 DEF PipelineInv, TypeOK
  <2>2. \A b \in App, q \in Request : (b # a \/ q # r) => (b = a => (q \in limited' <=> q \in limited))
    BY <1>1
  <2> QED
    BY <1>1, <1>2, <2>1, <2>2, FinishInv
<1>5. recorded[a][r] = NoRecord
  BY <1>1 DEF PipelineInv, Way, WayIn
<1> HIDE DEF n
<1>6. WayOut(a, r)'
  BY <1>3, <1>4 DEF WayOut
<1>7. Recorded(a, r)'
  BY <1>1, <1>5 DEF Recorded, CutShort
<1>8. TurnedBack(a, r)'
  BY <1>3, <1>4 DEF TurnedBack
<1> QED
  BY <1>1, <1>4, <1>6, <1>7, <1>8, ElsewhereKept DEF Way

\* The middlewares, on the way out, and CORS where it turns a request back.
LEMMA QuietOutStep ==
    ASSUME PipelineInv, NEW a \in App, NEW r \in Request,
           ErrorHandlerOut(a, r) \/ CorrelationOut(a, r) \/ PassOut(a, r)
           \/ (a = "gateway" /\ CorsAnswers(r))
    PROVE  PipelineInv'
<1> DEFINE n == Len(frames[a][r])
           E == Extra(a)
           o == outcome[a][r]
<1>1. frames[a][r] # <<>> /\ UNCHANGED Bookkeeping
  BY DEF ErrorHandlerOut, CorrelationOut, PassOut, CorsAnswers, Inward, Outward
<1>2. /\ n \in Nat /\ n >= 1 /\ E \in Nat /\ (a = "gateway" => E = 1) /\ TypeOK /\ Way(a, r)
      /\ <<a, r>> \notin cancelled
  BY <1>1, Position, ExtraTypes DEF PipelineInv, Way, Dropped
<1>3. \A st \in Statuses, id \in CorrelationIds :
        /\ Response(st, id) \in Result
        /\ Response(st, id).kind = "response" /\ Response(st, id).status = st /\ Response(st, id).id = id
  BY Results DEF Response
<1>4. ASSUME ErrorHandlerOut(a, r)
      PROVE  PipelineInv'
  <2> DEFINE p == IF o.kind = "raised" THEN Response(StatusOf[o.exc], NoId) ELSE o
  <2>1. o # NoOutcome /\ o \in Result /\ n = 5 + E /\ Finish(a, r, p)
    BY <1>1, <1>2, <1>4, Position, RequestTypes DEF ErrorHandlerOut, Outward
  <2>2. /\ recorded[a][r] = NoRecord /\ answer[a][r] = NoAnswer
        /\ o.kind = "response" \/ o.exc \in Exceptions
    BY <1>2, <2>1 DEF Way, WayOut
  <2>3. o.kind = "response" \/ o.kind = "raised"
    BY <2>1 DEF Result, Responses, Raises
  <2>4. p \in Result /\ p.kind = "response"
    <3>1. CASE o.kind = "response"
      BY <2>1, <3>1
    <3>2. CASE o.kind = "raised"
      BY <1>3, <2>2, <3>2, HttpStatuses, Results
    <3> QED
      BY <2>3, <3>1, <3>2
  <2> HIDE DEF p, n, o
  <2>5. /\ Len(frames'[a][r]) = n - 1
        /\ outcome'[a][r] = p
        /\ recorded' = recorded /\ answer' = answer /\ cancelled' = cancelled
    BY <1>1, <2>1, <2>4, QuietFacts DEF n
  <2>6. WayOut(a, r)'
    BY <1>2, <2>1, <2>2, <2>4, <2>5 DEF WayOut
  <2>7. Recorded(a, r)'
    BY <1>2, <2>1, <2>5 DEF Recorded
  <2> QED
    BY <1>1, <2>1, <2>4, <2>6, <2>7, QuietFinish
<1>5. ASSUME CorrelationOut(a, r)
      PROVE  PipelineInv'
  <2> DEFINE p == IF o.kind = "response" THEN Response(o.status, Mine(a, r).correlation) ELSE o
  <2>1. o # NoOutcome /\ o \in Result /\ n = 2 + E /\ Finish(a, r, p)
    BY <1>1, <1>2, <1>5, Position, RequestTypes DEF CorrelationOut, Outward
  <2>2. Mine(a, r).correlation = IdOf(a, r)
    <3>1. Mine(a, r) = ContextAt(a, r, n)
      BY <1>1, <2>1, InnermostContext
    <3> QED
      BY <1>2, <2>1, <3>1 DEF ContextAt
  <2>3. o.kind = "response" => o.status \in Statuses
    BY <2>1 DEF Result, Responses, Raises
  <2>4. IdOf(a, r) \in CorrelationIds
    BY <1>2, RequestTypes
  <2>5. /\ p \in Result
        /\ o.kind = "response" => p.kind = "response" /\ p.status = o.status /\ p.id = IdOf(a, r)
    BY <1>3, <2>1, <2>2, <2>3, <2>4
  <2>6. IF CutShort(a, r) THEN recorded[a][r] = NoRecord
        ELSE /\ o.kind = "response"
             /\ recorded[a][r] = [status |-> o.status, tenant |-> TenantOf(r)]
    BY <1>2, <2>1 DEF Way, Recorded
  <2> HIDE DEF p, n, o
  <2>7. /\ Len(frames'[a][r]) = n - 1
        /\ outcome'[a][r] = p
        /\ recorded' = recorded /\ TenantOf(r)' = TenantOf(r) /\ IdOf(a, r)' = IdOf(a, r)
        /\ CutShort(a, r)' = CutShort(a, r)
    BY <1>1, <2>1, <2>5, QuietFacts DEF n
  <2>8. WayOut(a, r)'
    BY <1>2, <2>1, <2>7 DEF WayOut
  <2>9. Recorded(a, r)'
    BY <2>5, <2>6, <2>7 DEF Recorded
  <2> QED
    BY <1>1, <2>1, <2>5, <2>8, <2>9, QuietFinish
<1>6. ASSUME PassOut(a, r)
      PROVE  PipelineInv'
  <2>1. /\ o # NoOutcome /\ o \in Result /\ Finish(a, r, o)
        /\ n = 3 + E \/ n = 1 + E \/ n = E
    BY <1>1, <1>2, <1>6, Position, RequestTypes DEF PassOut, Outward
  <2>2. IF CutShort(a, r) THEN recorded[a][r] = NoRecord
        ELSE /\ o.kind = "response"
             /\ recorded[a][r] = [status |-> o.status, tenant |-> TenantOf(r)]
             /\ n < 2 + E => o.id = IdOf(a, r)
    BY <1>2, <2>1 DEF Way, Recorded
  <2> HIDE DEF n
  <2>3. /\ Len(frames'[a][r]) = n - 1
        /\ outcome'[a][r] = o
        /\ recorded' = recorded /\ TenantOf(r)' = TenantOf(r) /\ IdOf(a, r)' = IdOf(a, r)
        /\ CutShort(a, r)' = CutShort(a, r)
    BY <1>1, <2>1, QuietFacts DEF n
  <2>4. n - 1 < 4 + E /\ (n - 1 < 2 + E => n < 2 + E)
    BY <1>2, <2>1
  <2>5. WayOut(a, r)'
    BY <1>2, <2>1, <2>3, <2>4 DEF WayOut
  <2>6. Recorded(a, r)'
    BY <2>2, <2>3, <2>4 DEF Recorded
  <2> QED
    BY <1>1, <2>1, <2>5, <2>6, QuietFinish
<1>7. ASSUME a = "gateway", CorsAnswers(r)
      PROVE  PipelineInv'
  <2> DEFINE p == Response(200, NoId)
  <2>1. /\ o = NoOutcome /\ n = 1 + E /\ Finish(a, r, p)
        /\ request[r].target = "preflight"
    BY <1>1, <1>7, Position DEF CorsAnswers, Inward
  <2>2. p \in Result
    BY <1>3, HttpStatuses, Results
  <2>3. recorded[a][r] = NoRecord /\ CutShort(a, r)
    BY <1>2, <1>7, <2>1 DEF Way, WayIn, CutShort
  <2> HIDE DEF p, n, o
  <2>4. /\ Len(frames'[a][r]) = n - 1
        /\ recorded' = recorded /\ CutShort(a, r)' = CutShort(a, r)
    BY <1>1, <2>1, <2>2, QuietFacts DEF n
  <2>5. WayOut(a, r)'
    BY <1>2, <2>1, <2>4 DEF WayOut
  <2>6. Recorded(a, r)'
    BY <2>3, <2>4 DEF Recorded
  <2> QED
    BY <1>1, <2>1, <2>2, <2>5, <2>6, QuietFinish
<1> QED
  BY <1>4, <1>5, <1>6, <1>7

\* The metrics count r.
LEMMA LoggingStep ==
    ASSUME PipelineInv, NEW a \in App, NEW r \in Request, LoggingOut(a, r)
    PROVE  PipelineInv'
<1> DEFINE n == Len(frames[a][r])
           E == Extra(a)
           o == outcome[a][r]
           m == [status |-> o.status, tenant |-> TenantOf(r)]
<1>1. /\ frames[a][r] # <<>> /\ o # NoOutcome
      /\ Finish(a, r, o) /\ UNCHANGED <<request, called, limited, cancelled, answer>>
  BY DEF LoggingOut, Outward
<1>2. TypeOK /\ Way(a, r) /\ o \in Result
  BY <1>1, RequestTypes DEF PipelineInv
<1>3. n = 4 + E /\ E \in Nat
  BY <1>1, Position, ExtraTypes DEF LoggingOut, Outward
<1>4. o.kind = "response"
  BY <1>1, <1>2, <1>3 DEF Way, WayOut
<1>5. Mine(a, r).tenant = TenantOf(r)
  <2>1. Mine(a, r) = ContextAt(a, r, n)
    BY <1>1, InnermostContext
  <2> QED
    BY <1>3, <2>1 DEF ContextAt
<1>6. recorded' = [recorded EXCEPT ![a][r] = m]
  BY <1>4, <1>5 DEF LoggingOut
<1>7. m \in [status : Statuses, tenant : Tenant \cup {"none"}]
  <2>1. o.status \in Statuses
    BY <1>2, <1>4 DEF Result, Responses, Raises
  <2> QED
    BY <1>2, <2>1, RequestTypes
<1>8. /\ recorded' \in [App -> [Request -> {NoRecord} \cup [status : Statuses, tenant : Tenant \cup {"none"}]]]
      /\ recorded'[a][r] = m
      /\ \A b \in App, q \in Request : (b # a \/ q # r) => recorded'[b][q] = recorded[b][q]
  <2>1. /\ recorded \in [App -> [Request -> {NoRecord} \cup [status : Statuses, tenant : Tenant \cup {"none"}]]]
        /\ m \in {NoRecord} \cup [status : Statuses, tenant : Tenant \cup {"none"}]
    BY <1>2, <1>7 DEF TypeOK
  <2> HIDE DEF m
  <2> QED
    BY <1>6, <2>1, OneUpdate
<1>9. /\ TypeOK' /\ Elsewhere(a, r)
      /\ Contexts(a, r)' /\ WayIn(a, r)' /\ Answered(a, r)' /\ Dropped(a, r)'
      /\ Len(frames'[a][r]) = n - 1
      /\ outcome'[a][r] = o
      /\ TenantOf(r)' = TenantOf(r)
  <2>1. limited' \subseteq Request
    BY <1>1, <1>2 DEF TypeOK
  <2> QED
    BY <1>1, <1>2, <1>8, <2>1, FinishInv
<1>10. ~ CutShort(a, r) /\ ~ CutShort(a, r)' /\ (a = "gateway" => r \notin limited /\ request[r].target # "preflight")
  <2>1. a = "gateway" => r \notin limited /\ request[r].target # "preflight"
    BY <1>2, <1>3 DEF Way, TurnedBack
  <2> QED
    BY <1>1, <2>1 DEF CutShort
<1> HIDE DEF n, o
<1>11. WayOut(a, r)'
  BY <1>3, <1>9 DEF WayOut
<1>12. Recorded(a, r)'
  BY <1>3, <1>4, <1>8, <1>9, <1>10 DEF Recorded
<1>13. TurnedBack(a, r)'
  BY <1>1, <1>10 DEF TurnedBack
<1> QED
  BY <1>9, <1>11, <1>12, <1>13, ElsewhereKept DEF Way

LEMMA ReceiveStep ==
    ASSUME PipelineInv, NEW a \in App, NEW r \in Request, Receive(a, r)
    PROVE  PipelineInv'
<1>1. /\ frames[a][r] = <<>> /\ outcome[a][r] = NoOutcome
      /\ frames' = [frames EXCEPT ![a][r] = <<EmptyContext>>]
      /\ UNCHANGED <<request, outcome, called, limited, cancelled, recorded, answer>>
  BY DEF Receive
<1>2. TypeOK /\ Way(a, r) /\ Extra(a) \in Nat
  BY ExtraTypes DEF PipelineInv
<1>3. EmptyContext \in Context /\ EmptyContext = ContextAt(a, r, 0)
  BY <1>2, Results DEF EmptyContext, Context, ContextAt
<1>4. /\ frames' \in [App -> [Request -> Seq(Context)]]
      /\ frames'[a][r] = <<EmptyContext>>
      /\ \A b \in App, q \in Request : (b # a \/ q # r) => frames'[b][q] = frames[b][q]
  <2>1. <<EmptyContext>> \in Seq(Context) /\ frames \in [App -> [Request -> Seq(Context)]]
    BY <1>2, <1>3 DEF TypeOK
  <2> QED
    BY <1>1, <2>1, OneUpdate
<1>5. TypeOK'
  BY <1>1, <1>2, <1>4 DEF TypeOK
<1>6. Elsewhere(a, r)
  BY <1>1, <1>4 DEF Elsewhere
<1>7. Len(frames'[a][r]) = 1 /\ frames'[a][r][1] = EmptyContext
  BY <1>4
<1>8. Contexts(a, r)'
  <2>1. TenantOf(r)' = TenantOf(r) /\ IdOf(a, r)' = IdOf(a, r)
    BY <1>1 DEF TenantOf, IdOf
  <2>2. ContextAt(a, r, 0)' = ContextAt(a, r, 0)
    BY <2>1 DEF ContextAt
  <2>3. \A i \in 1..Len(frames'[a][r]) : i = 1
    BY <1>7
  <2> QED
    BY <1>1, <1>2, <1>3, <1>7, <2>2, <2>3 DEF Contexts
<1>9. recorded[a][r] = NoRecord /\ answer[a][r] = NoAnswer /\ (a = "gateway" => r \notin limited)
      /\ <<a, r>> \notin cancelled
  BY <1>1, <1>2 DEF Way, WayIn
<1>10. WayIn(a, r)' /\ WayOut(a, r)' /\ Recorded(a, r)' /\ Answered(a, r)' /\ Dropped(a, r)'
  BY <1>1, <1>9 DEF WayIn, WayOut, Recorded, Answered, Dropped
<1>11. TurnedBack(a, r)'
  BY <1>1, <1>2, <1>7, <1>9 DEF TurnedBack
<1> QED
  BY <1>5, <1>6, <1>8, <1>10, <1>11, ElsewhereKept DEF Way

LEMMA AnswerStep ==
    ASSUME PipelineInv, NEW a \in App, NEW r \in Request, Answer(a, r)
    PROVE  PipelineInv'
<1> DEFINE o == outcome[a][r]
           e == IF o.kind = "response" THEN [status |-> o.status, id |-> o.id]
                ELSE [status |-> 500, id |-> NoId]
<1>1. /\ frames[a][r] = <<>> /\ o # NoOutcome /\ <<a, r>> \notin cancelled
      /\ answer' = [answer EXCEPT ![a][r] = e]
      /\ UNCHANGED <<request, frames, outcome, called, limited, cancelled, recorded>>
  BY DEF Answer
<1>2. TypeOK /\ Way(a, r) /\ o \in Result /\ Extra(a) \in Nat
  BY <1>1, RequestTypes, ExtraTypes DEF PipelineInv
<1>3. e \in [status : Statuses, id : CorrelationIds]
  <2>1. o.kind = "response" => o.status \in Statuses /\ o.id \in CorrelationIds
    BY <1>2 DEF Result, Responses, Raises
  <2> QED
    BY <2>1, HttpStatuses, Results
<1>4. /\ answer' \in [App -> [Request -> {NoAnswer} \cup [status : Statuses, id : CorrelationIds]]]
      /\ answer'[a][r] = e
      /\ \A b \in App, q \in Request : (b # a \/ q # r) => answer'[b][q] = answer[b][q]
  <2>1. /\ answer \in [App -> [Request -> {NoAnswer} \cup [status : Statuses, id : CorrelationIds]]]
        /\ e \in {NoAnswer} \cup [status : Statuses, id : CorrelationIds]
    BY <1>2, <1>3 DEF TypeOK
  <2> HIDE DEF e
  <2> QED
    BY <1>1, <2>1, OneUpdate
<1>5. TypeOK'
  BY <1>1, <1>2, <1>4 DEF TypeOK
<1>6. Elsewhere(a, r)
  BY <1>1, <1>4 DEF Elsewhere
<1>7. TenantOf(r)' = TenantOf(r) /\ IdOf(a, r)' = IdOf(a, r)
  BY <1>1 DEF TenantOf, IdOf
<1>8. Contexts(a, r)'
  BY <1>1, <1>2, <1>7 DEF Way, Contexts, ContextAt
<1>9. TurnedBack(a, r)' /\ WayIn(a, r)'
  BY <1>1, <1>2 DEF Way, TurnedBack, WayIn
<1>10. WayOut(a, r)'
  <2>1. Len(frames[a][r]) = 0
    BY <1>1, EmptySeq
  <2> QED
    BY <1>1, <1>2, <2>1 DEF WayOut
<1>11. Recorded(a, r)'
  BY <1>1, <1>2, <1>7 DEF Way, Recorded, CutShort
<1>12. Answered(a, r)' /\ Dropped(a, r)'
  BY <1>1, <1>4 DEF Answered, Dropped
<1> QED
  BY <1>5, <1>6, <1>8, <1>9, <1>10, <1>11, <1>12, ElsewhereKept DEF Way

\* What the gateway has sent on is in no invariant but the types.
LEMMA ForwardStep ==
    ASSUME PipelineInv, NEW r \in Request, called' = called \/ called' = called \cup {r},
           UNCHANGED <<request, frames, outcome, limited, cancelled, recorded, answer>>
    PROVE  PipelineInv'
<1>1. TypeOK'
  BY DEF PipelineInv, TypeOK
<1>2. ASSUME NEW b \in App, NEW q \in Request
      PROVE  Way(b, q)'
  <2>1. Way(b, q)
    BY DEF PipelineInv
  <2>2. TenantOf(q)' = TenantOf(q) /\ IdOf(b, q)' = IdOf(b, q)
    BY DEF TenantOf, IdOf
  <2>3. Contexts(b, q)'
    BY <2>1, <2>2 DEF Way, Contexts, ContextAt
  <2>4. WayIn(b, q)' /\ TurnedBack(b, q)' /\ WayOut(b, q)' /\ Answered(b, q)' /\ Dropped(b, q)'
    BY <2>1 DEF Way, WayIn, TurnedBack, WayOut, Answered, Dropped
  <2>5. Recorded(b, q)'
    BY <2>1, <2>2 DEF Way, Recorded, CutShort
  <2> QED
    BY <2>3, <2>4, <2>5 DEF Way
<1> QED
  BY <1>1, <1>2 DEF PipelineInv

LEMMA PipelineInit == Init => PipelineInv
<1> SUFFICES ASSUME Init PROVE PipelineInv
  OBVIOUS
<1>1. TypeOK
  <2>1. request \in [Request -> Header]
    BY DEF Init
  <2>2. <<>> \in Seq(Context)
    BY EmptySeq
  <2> QED
    BY <2>1, <2>2 DEF Init, TypeOK
<1>2. ASSUME NEW a \in App, NEW r \in Request
      PROVE  Way(a, r)
  <2>1. /\ frames[a][r] = <<>> /\ outcome[a][r] = NoOutcome
        /\ recorded[a][r] = NoRecord /\ answer[a][r] = NoAnswer
        /\ <<a, r>> \notin cancelled /\ r \notin limited
    BY <1>2 DEF Init
  <2>2. Len(frames[a][r]) = 0 /\ Extra(a) \in Nat
    BY <2>1, EmptySeq, ExtraTypes
  <2>3. Contexts(a, r)
    BY <2>2 DEF Contexts
  <2>4. TurnedBack(a, r)
    BY <2>2 DEF TurnedBack
  <2> QED
    BY <2>1, <2>3, <2>4 DEF Way, WayIn, WayOut, Recorded, Answered, Dropped
<1> QED
  BY <1>1, <1>2 DEF PipelineInv

LEMMA PipelineStep == PipelineInv /\ [Next]_vars => PipelineInv'
<1> SUFFICES ASSUME PipelineInv, [Next]_vars PROVE PipelineInv'
  OBVIOUS
<1>1. "gateway" \in App /\ "service" \in App
  BY DEF App
<1>2. ASSUME NEW a \in App, NEW r \in Request, Middleware(a, r)
      PROVE  PipelineInv'
  BY <1>2, InStep, QuietOutStep, LoggingStep, ReceiveStep, AnswerStep DEF Middleware
<1>3. ASSUME NEW r \in Request, GatewayStep(r)
      PROVE  PipelineInv'
  <2>1. CASE Middleware("gateway", r)
    BY <1>1, <1>2, <2>1
  <2>2. CASE LimiterPasses(r)
    BY <1>1, <2>2, InStep
  <2>3. CASE LimiterRaises(r)
    BY <2>3, LimiterRaisesStep
  <2>4. CASE CorsAnswers(r)
    BY <1>1, <2>4, QuietOutStep
  <2>5. CASE OwnEndpoint(r) \/ RouteNotFound(r) \/ ProxyRaises(r) \/ Relay(r) \/ RequestError(r)
    BY <2>5, EndpointStep
  <2>6. CASE Forward(r)
    BY <2>6, ForwardStep DEF Forward
  <2> QED
    BY <1>3, <2>1, <2>2, <2>3, <2>4, <2>5, <2>6 DEF GatewayStep
<1>4. ASSUME NEW r \in Request, ServiceStep(r)
      PROVE  PipelineInv'
  BY <1>1, <1>2, <1>4, EndpointStep DEF ServiceStep
<1>5. ASSUME NEW r \in Request, NEW a \in App, Cancel(a, r)
      PROVE  PipelineInv'
  BY <1>5, CancelStep
<1>6. CASE UNCHANGED vars
  <2>1. CASE Request = {}
    <3>1. TypeOK'
      BY <1>6 DEF vars, PipelineInv, TypeOK
    <3> QED
      BY <2>1, <3>1 DEF PipelineInv
  <2>2. CASE Request # {}
    BY <1>6, <2>2, ForwardStep DEF vars
  <2> QED
    BY <2>1, <2>2
<1> QED
  BY <1>3, <1>4, <1>5, <1>6 DEF Next

LEMMA PipelineInvInductive == Spec => []PipelineInv
BY PipelineInit, PipelineStep, PTL DEF Spec

\* Every variable of the pipeline keeps its type.
THEOREM PipelineTypeCorrect == Spec => []TypeOK
<1>1. PipelineInv => TypeOK
  BY DEF PipelineInv
<1> QED
  BY <1>1, PipelineInvInductive, PTL

\* However requests interleave, an endpoint runs under the tenant and the
\* correlation id of its own request, and no dispatch under another's.
THEOREM ContextsDoNotMix == Spec => []OwnContext
<1>1. PipelineInv => OwnContext
  <2> SUFFICES ASSUME PipelineInv, NEW a \in App, NEW r \in Request
               PROVE  /\ \A i \in DOMAIN frames[a][r] :
                          /\ frames[a][r][i].tenant \in {"none", TenantOf(r)}
                          /\ frames[a][r][i].correlation \in {NoId, IdOf(a, r)}
                      /\ Inward(a, r, "endpoint") =>
                          Mine(a, r) = [tenant |-> TenantOf(r), correlation |-> IdOf(a, r)]
    BY DEF OwnContext
  <2>1. DOMAIN frames[a][r] = 1..Len(frames[a][r])
    BY RequestTypes, LenProperties DEF PipelineInv
  <2>2. \A i \in 1..Len(frames[a][r]) : \E n : frames[a][r][i] = ContextAt(a, r, n)
    BY DEF PipelineInv, Way, Contexts
  <2>3. \A n : /\ ContextAt(a, r, n).tenant \in {"none", TenantOf(r)}
               /\ ContextAt(a, r, n).correlation \in {NoId, IdOf(a, r)}
    BY DEF ContextAt
  <2>4. ASSUME Inward(a, r, "endpoint")
        PROVE  Mine(a, r) = [tenant |-> TenantOf(r), correlation |-> IdOf(a, r)]
    <3>1. /\ frames[a][r] # <<>> /\ outcome[a][r] = NoOutcome
          /\ Len(frames[a][r]) = 6 + Extra(a) /\ Extra(a) \in Nat
      BY <2>4, Position, ExtraTypes DEF Inward
    <3>2. Mine(a, r) = ContextAt(a, r, Len(frames[a][r]) - 1)
      BY <3>1, InnermostContext
    <3> QED
      BY <3>1, <3>2 DEF ContextAt
  <2> QED
    BY <2>1, <2>2, <2>3, <2>4
<1> QED
  BY <1>1, PipelineInvInductive, PTL

\* What an answer is made of.
LEMMA AnsweredInFull ==
    ASSUME PipelineInv, NEW a \in App, NEW r \in Request, answer[a][r] # NoAnswer
    PROVE  IF CutShort(a, r) THEN recorded[a][r] = NoRecord
           ELSE /\ recorded[a][r] = [status |-> answer[a][r].status, tenant |-> TenantOf(r)]
                /\ answer[a][r].id = IdOf(a, r)
<1>1. Way(a, r) /\ Extra(a) \in Nat
  BY ExtraTypes DEF PipelineInv
<1>2. Len(frames[a][r]) = 0 /\ outcome[a][r] # NoOutcome /\ <<a, r>> \notin cancelled
  BY <1>1, EmptySeq DEF Way, Answered, WayIn, Dropped
<1>3. Len(frames[a][r]) < 2 + Extra(a) /\ Len(frames[a][r]) < 4 + Extra(a)
  BY <1>1, <1>2
<1>4. CASE CutShort(a, r)
  BY <1>1, <1>2, <1>3, <1>4 DEF Way, Recorded
<1>5. CASE ~ CutShort(a, r)
  <2>1. /\ outcome[a][r].kind = "response"
        /\ recorded[a][r] = [status |-> outcome[a][r].status, tenant |-> TenantOf(r)]
        /\ outcome[a][r].id = IdOf(a, r)
    BY <1>1, <1>2, <1>3, <1>5 DEF Way, Recorded
  <2>2. answer[a][r] = [status |-> outcome[a][r].status, id |-> outcome[a][r].id]
    BY <1>1, <2>1 DEF Way, Answered
  <2> QED
    BY <1>5, <2>1, <2>2
<1> QED
  BY <1>4, <1>5

\* The metrics count a request that is answered under the status its client
\* gets and the tenant it named, and miss only those turned back before.
THEOREM MetricsSayWhatWasSent == Spec => []RecordedWhatWasSent
<1>1. PipelineInv => RecordedWhatWasSent
  BY AnsweredInFull DEF RecordedWhatWasSent
<1> QED
  BY <1>1, PipelineInvInductive, PTL

\* An answer carries the id its request was logged under in the app that gives
\* it, errors included.
THEOREM EveryAnswerIsTraced == Spec => []AnswersAreTraced
<1>1. PipelineInv => AnswersAreTraced
  BY AnsweredInFull DEF AnswersAreTraced
<1> QED
  BY <1>1, PipelineInvInductive, PTL
=============================================================================
