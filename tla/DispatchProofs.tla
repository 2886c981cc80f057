--------------------------- MODULE DispatchProofs ---------------------------
(***************************************************************************)
(* What holds of every send, however many handlers, behaviors and callers  *)
(* there are, and however small the pool is.                               *)
(***************************************************************************)
EXTENDS Dispatch, Integers, FiniteSetTheorems, SequenceTheorems, TLAPS

\* The frames of s, from the outside: the behaviors, then the handler.
Frame(s, i) == IF i <= Len(chain[s].behaviors) THEN chain[s].behaviors[i] ELSE chain[s].handler

\* Where the handler itself runs.
AtWork == InSession \cup {"check", "post"}

\* A send that runs has a handler and is in one of its frames; the handler
\* runs in the last.
Placed(s) ==
    /\ pc[s] \in Active =>
        /\ chain[s].handler \in Handler
        /\ pos[s] \in 1..(Len(chain[s].behaviors) + 1)
    /\ pc[s] \in AtWork => AtHandler(s)

\* What ran are the outermost frames: those outside the current one, and on
\* the way out perhaps some inside it.
RanFrames(s) ==
    /\ pc[s] \in {"new", "ended"} => ran[s] = <<>>
    /\ pc[s] = "inward" => Len(ran[s]) = pos[s] - 1
    /\ pc[s] \in AtWork => Len(ran[s]) = pos[s]
    /\ pc[s] = "outward" => Len(ran[s]) >= pos[s] - 1 /\ Len(ran[s]) <= Len(chain[s].behaviors) + 1
    /\ \A i \in 1..Len(ran[s]) : ran[s][i] = Frame(s, i)

\* The runs of s whose session has a connection, and no close() that raised.
Kept(s) == {n \in 0..MaxRetries : <<s, n>> \in holds \ unclosed}

\* Only the session of the current run has a connection, and a plain handler
\* has no session.
Holding(s) ==
    /\ pc[s] \in {"commit", "committed", "rollback"} => KindOf(s) = "transactional"
    /\ pc[s] = "close" => KindOf(s) # "plain"
    /\ \A n \in Kept(s) : n = retries[s] /\ pc[s] \in InSession /\ KindOf(s) # "plain"

\* What the database has of the handler's last run, and what it answered.
Outcome(s) ==
    /\ pc[s] \in {"new", "ended", "inward", "check", "execute", "commit"} => ~ durable[s]
    /\ pc[s] = "committed" => durable[s]
    /\ pc[s] \in {"commit", "committed", "post"} => answer[s] \notin Raised
    /\ pc[s] = "rollback" => answer[s] \in Raised
    /\ pc[s] = "post" => durable[s] = (KindOf(s) = "transactional")
    /\ (pc[s] \in {"rollback", "close"} \/ (pc[s] = "outward" /\ AtHandler(s))) =>
        IF answer[s] \in Raised
        THEN durable[s] => failedAt[s] \in {"committed", "close", "post"}
        ELSE durable[s] = (KindOf(s) = "transactional")

Good(s) == Placed(s) /\ RanFrames(s) /\ Holding(s) /\ Outcome(s)

PoolKept == IsFiniteSet(holds) /\ Cardinality(holds) <= PoolSize

DispatchInv == TypeOK /\ PoolKept /\ \A s \in Request : Good(s)

-----------------------------------------------------------------------------

\* The fields of s.
LEMMA SendTypes ==
    ASSUME TypeOK, NEW s \in Request
    PROVE  /\ pc[s] \in Active \cup {"new", "ended"}
           /\ chain[s].behaviors \in Seq(Behavior) /\ chain[s].handler \in Handler \cup {None}
           /\ Len(chain[s].behaviors) \in Nat
           /\ pos[s] \in Nat
           /\ ran[s] \in Seq(Behavior \cup Handler) /\ Len(ran[s]) \in Nat
           /\ answer[s] \in Answers
           /\ failedAt[s] \in Active \cup {"none"}
           /\ durable[s] \in BOOLEAN
           /\ chain[s].handler \in Handler => KindOf(s) \in {"plain", "transactional", "read"}
<1>1. chain[s].behaviors \in Seq(Behavior) /\ chain[s].handler \in Handler \cup {None}
  BY DEF TypeOK
<1>2. Len(chain[s].behaviors) \in Nat /\ Len(ran[s]) \in Nat
  BY <1>1, LenProperties DEF TypeOK
<1> QED
  BY <1>1, <1>2, KindAssumption DEF TypeOK, KindOf

\* A step of s leaves the other sends alone.
Others(s) ==
    \A q \in Request : q # s =>
        /\ pc'[q] = pc[q] /\ chain'[q] = chain[q] /\ pos'[q] = pos[q] /\ ran'[q] = ran[q]
        /\ answer'[q] = answer[q] /\ failedAt'[q] = failedAt[q] /\ durable'[q] = durable[q]
        /\ retries'[q] = retries[q] /\ Kept(q)' = Kept(q)

LEMMA OthersGood ==
    ASSUME DispatchInv, NEW s \in Request, Others(s), TypeOK', PoolKept', Good(s)'
    PROVE  DispatchInv'
<1> SUFFICES ASSUME NEW q \in Request, q # s PROVE Good(q)'
  BY DEF DispatchInv
<1>1. /\ pc'[q] = pc[q] /\ chain'[q] = chain[q] /\ pos'[q] = pos[q] /\ ran'[q] = ran[q]
      /\ answer'[q] = answer[q] /\ failedAt'[q] = failedAt[q] /\ durable'[q] = durable[q]
      /\ retries'[q] = retries[q] /\ Kept(q)' = Kept(q)
  BY DEF Others
<1>2. Good(q)
  BY DEF DispatchInv
<1>3. Placed(q)'
  BY <1>1, <1>2 DEF Good, Placed, AtHandler
<1>4. RanFrames(q)'
  BY <1>1, <1>2 DEF Good, RanFrames, Frame
<1>5. Holding(q)'
  BY <1>1, <1>2 DEF Good, Holding, KindOf
<1>6. Outcome(q)'
  BY <1>1, <1>2 DEF Good, Outcome, KindOf, AtHandler
<1> QED
  BY <1>3, <1>4, <1>5, <1>6 DEF Good

LEMMA KeptStays ==
    ASSUME UNCHANGED <<holds, unclosed>>
    PROVE  \A q \in Request : Kept(q)' = Kept(q)
BY DEF Kept

LEMMA FewerHeld ==
    ASSUME DispatchInv, holds' \subseteq holds
    PROVE  PoolKept'
<1>1. IsFiniteSet(holds) /\ Cardinality(holds) <= PoolSize
  BY DEF DispatchInv, PoolKept
<1>2. IsFiniteSet(holds') /\ Cardinality(holds') <= Cardinality(holds)
  BY <1>1, FS_Subset
<1>3. Cardinality(holds) \in Nat /\ Cardinality(holds') \in Nat
  BY <1>1, <1>2, FS_CardinalityType
<1> QED
  BY <1>1, <1>2, <1>3, BoundAssumption DEF PoolKept

LEMMA PrefixProperties ==
    ASSUME NEW S, NEW t \in Seq(S), NEW n \in Nat, n <= Len(t)
    PROVE  /\ SubSeq(t, 1, n) \in Seq(S)
           /\ Len(SubSeq(t, 1, n)) = n
           /\ \A i \in 1..n : SubSeq(t, 1, n)[i] = t[i]
<1>1. Len(t) \in Nat
  BY LenProperties
<1>2. \A i \in 1..n : t[i] \in S
  BY <1>1, ElementOfSeq
<1>3. 1 \in Int /\ n \in Int
  OBVIOUS
<1>4. /\ SubSeq(t, 1, n) \in Seq(S)
      /\ Len(SubSeq(t, 1, n)) = IF 1 <= n THEN n - 1 + 1 ELSE 0
      /\ \A i \in 1 .. n - 1 + 1 : SubSeq(t, 1, n)[i] = t[1 + i - 1]
  BY <1>2, <1>3, SubSeqProperties
<1>5. Len(SubSeq(t, 1, n)) = n
  BY <1>4
<1>6. \A i \in 1..n : i \in 1 .. n - 1 + 1 /\ 1 + i - 1 = i
  OBVIOUS
<1> QED
  BY <1>4, <1>5, <1>6

-----------------------------------------------------------------------------
(* The handler's run                                                       *)

\* While the handler runs, its frame stays where it is: only what is known of
\* the run changes.
LEMMA FrameStays ==
    ASSUME DispatchInv, NEW s \in Request,
           pc[s] \in AtWork, pc' = [pc EXCEPT ![s] = pc'[s]], pc'[s] \in AtWork \cup {"outward"},
           UNCHANGED <<chain, pos, ran>>
    PROVE  Placed(s)' /\ RanFrames(s)' /\ KindOf(s)' = KindOf(s) /\ AtHandler(s)
           /\ KindOf(s) \in {"plain", "transactional", "read"}
<1>1. Placed(s) /\ RanFrames(s) /\ TypeOK
  BY DEF DispatchInv, Good
<1>2. /\ Len(chain[s].behaviors) \in Nat /\ pos[s] \in Nat /\ Len(ran[s]) \in Nat
      /\ chain[s].handler \in Handler /\ AtHandler(s)
      /\ KindOf(s) \in {"plain", "transactional", "read"}
  BY <1>1, SendTypes DEF Placed, AtWork, Active
<1>3. Placed(s)'
  BY <1>1, <1>2 DEF Placed, AtHandler, AtWork, Active, InSession
<1>4. \A i \in 1..Len(ran'[s]) : ran'[s][i] = Frame(s, i)'
  BY <1>1 DEF RanFrames, Frame
<1>5. Len(ran[s]) = pos[s] /\ pos[s] = Len(chain[s].behaviors) + 1
  BY <1>1, <1>2 DEF RanFrames, AtHandler
<1>6. pc'[s] \notin {"new", "ended", "inward"}
  BY DEF AtWork, InSession
<1>7. RanFrames(s)'
  BY <1>2, <1>4, <1>5, <1>6 DEF RanFrames
<1> QED
  BY <1>2, <1>3, <1>7 DEF KindOf

LEMMA WorkStep ==
    ASSUME DispatchInv, NEW s \in Request, pc[s] \in AtWork,
           pc' = [pc EXCEPT ![s] = pc'[s]], pc'[s] \in AtWork \cup {"outward"},
           UNCHANGED <<handlers, behaviors, chain, pos, ran, retries>>,
           answer' = [answer EXCEPT ![s] = answer'[s]], answer'[s] \in Answers,
           failedAt' = [failedAt EXCEPT ![s] = failedAt'[s]], failedAt'[s] \in Active \cup {"none"},
           durable' = [durable EXCEPT ![s] = durable'[s]], durable'[s] \in BOOLEAN,
           holds' \subseteq Sessions, unclosed' \subseteq Sessions,
           \A q \in Request : q # s => Kept(q)' = Kept(q),
           PoolKept', Holding(s)', Outcome(s)'
    PROVE  DispatchInv'
<1>1. TypeOK
  BY DEF DispatchInv
<1>2. TypeOK'
  <2>1. pc' \in [Request -> Active \cup {"new", "ended"}]
    <3>1. pc'[s] \in Active \cup {"new", "ended"}
      BY DEF AtWork, Active
    <3>2. pc \in [Request -> Active \cup {"new", "ended"}]
      BY <1>1 DEF TypeOK
    <3> QED
      BY <3>1, <3>2
  <2>2. answer' \in [Request -> Answers]
    BY <1>1 DEF TypeOK
  <2>3. failedAt' \in [Request -> Active \cup {"none"}]
    BY <1>1 DEF TypeOK
  <2>4. durable' \in [Request -> BOOLEAN]
    BY <1>1 DEF TypeOK
  <2> QED
    BY <1>1, <2>1, <2>2, <2>3, <2>4 DEF TypeOK
<1>3. Others(s)
  BY <1>1 DEF TypeOK, Others
<1>4. Placed(s)' /\ RanFrames(s)'
  BY FrameStays
<1> QED
  BY <1>2, <1>3, <1>4, OthersGood DEF Good

LEMMA RaiseStep ==
    ASSUME DispatchInv, NEW s \in Request, pc[s] \in AtWork \ {"close"},
           NEW how \in {"error", "cancelled"}, Raise(s, how)
    PROVE  DispatchInv'
<1>1. TypeOK /\ Placed(s) /\ Holding(s) /\ Outcome(s)
  BY DEF DispatchInv, Good
<1> DEFINE p == IF pc[s] \notin InSession \/ KindOf(s) = "plain" THEN "outward"
                ELSE IF KindOf(s) = "transactional" /\ how = "error" THEN "rollback" ELSE "close"
           f == IF pc[s] = "rollback" THEN failedAt[s] ELSE pc[s]
<1>2. /\ pc' = [pc EXCEPT ![s] = p]
      /\ answer' = [answer EXCEPT ![s] = how]
      /\ failedAt' = [failedAt EXCEPT ![s] = f]
      /\ UNCHANGED <<handlers, behaviors, chain, pos, ran, durable, retries, holds, unclosed>>
  BY DEF Raise, Goto, Answer, tables, pool
<1>3. /\ pc \in [Request -> Active \cup {"new", "ended"}] /\ answer \in [Request -> Answers]
      /\ failedAt \in [Request -> Active \cup {"none"}] /\ durable \in [Request -> BOOLEAN]
      /\ holds \subseteq Sessions /\ unclosed \subseteq Sessions
  BY <1>1 DEF TypeOK
<1>4. /\ pc'[s] = p /\ answer'[s] = how /\ failedAt'[s] = f /\ durable'[s] = durable[s]
      /\ how \in Answers /\ how \in Raised
  BY <1>2, <1>3 DEF Answers, Raised
<1>5. p \in {"outward", "rollback", "close"}
  OBVIOUS
<1>6. p \in AtWork \cup {"outward"} /\ f \in Active \cup {"none"}
  BY <1>3, <1>5 DEF AtWork, InSession, Active
<1>7. KindOf(s)' = KindOf(s) /\ KindOf(s) \in {"plain", "transactional", "read"} /\ AtHandler(s)
  <2>1. pc' = [pc EXCEPT ![s] = pc'[s]] /\ pc'[s] \in AtWork \cup {"outward"}
    BY <1>2, <1>4, <1>6
  <2> QED
    BY <1>2, <2>1, FrameStays
<1>kept. retries' = retries /\ \A q \in Request : Kept(q)' = Kept(q)
  BY <1>2 DEF Kept
<1>8. Holding(s)'
  BY <1>1, <1>4, <1>7, <1>kept DEF Holding, InSession
<1>9. durable[s] => f \in {"committed", "close", "post"}
  <2>1. pc[s] \in {"check", "execute", "commit", "committed", "rollback", "post"}
    BY DEF AtWork, InSession
  <2>2. pc[s] = "rollback" => (durable[s] => failedAt[s] \in {"committed", "close", "post"})
    BY <1>1 DEF Outcome
  <2> QED
    BY <1>1, <2>1, <2>2 DEF Outcome
<1>10. Outcome(s)'
  BY <1>4, <1>5, <1>9 DEF Outcome
<1>11. PoolKept'
  BY <1>2, FewerHeld
<1> HIDE DEF p, f
<1>12. /\ pc' = [pc EXCEPT ![s] = pc'[s]] /\ answer' = [answer EXCEPT ![s] = answer'[s]]
       /\ failedAt' = [failedAt EXCEPT ![s] = failedAt'[s]]
       /\ durable' = [durable EXCEPT ![s] = durable'[s]]
       /\ durable'[s] \in BOOLEAN /\ holds' \subseteq Sessions /\ unclosed' \subseteq Sessions
       /\ \A q \in Request : q # s => Kept(q)' = Kept(q)
  BY <1>2, <1>3, <1>4, <1>kept
<1> QED
  BY <1>2, <1>4, <1>6, <1>8, <1>10, <1>11, <1>12, WorkStep

\* The steps of the handler's run that raise nothing.
LEMMA HandlerStep ==
    ASSUME DispatchInv, NEW s \in Request,
           Begin(s) \/ Acquire(s) \/ ExecuteReturns(s) \/ DatabaseCommits(s) \/ CommitReturns(s)
           \/ Rollback(s) \/ Close(s) \/ Post(s)
    PROVE  DispatchInv'
<1>1. TypeOK /\ PoolKept /\ Placed(s) /\ Holding(s) /\ Outcome(s)
  BY DEF DispatchInv, Good
<1>2. /\ pc \in [Request -> Active \cup {"new", "ended"}] /\ answer \in [Request -> Answers]
      /\ failedAt \in [Request -> Active \cup {"none"}] /\ durable \in [Request -> BOOLEAN]
      /\ holds \subseteq Sessions /\ unclosed \subseteq Sessions /\ retries[s] \in 0..MaxRetries
  BY <1>1 DEF TypeOK
<1>3. /\ pc[s] \in AtWork /\ pc' = [pc EXCEPT ![s] = pc'[s]] /\ pc'[s] \in AtWork \cup {"outward"}
      /\ UNCHANGED <<handlers, behaviors, chain, pos, ran, failedAt, retries>>
      /\ answer' = [answer EXCEPT ![s] = answer'[s]] /\ answer'[s] \in Answers
      /\ durable' = [durable EXCEPT ![s] = durable'[s]] /\ durable'[s] \in BOOLEAN
      /\ \/ holds' = holds
         \/ Acquire(s) /\ holds' = holds \cup {Session(s)} /\ pc' = pc
         \/ holds' = holds \ {Session(s)}
      /\ unclosed' = unclosed
  <2> USE <1>2 DEF tables, sends, pool, Goto, Answer, AtWork, InSession, Answers
  <2>1. CASE Begin(s)
    BY <2>1 DEF Begin
  <2>2. CASE Acquire(s)
    BY <2>2 DEF Acquire
  <2>3. CASE ExecuteReturns(s)
    <3>1. KindOf(s) \in {"plain", "transactional", "read"}
      <4>1. pc[s] \in Active
        BY <2>3 DEF ExecuteReturns, Works, Active
      <4> QED
        BY <1>1, <4>1, SendTypes DEF Placed
    <3>2. PICK a \in {"ok", "fail"} : answer' = [answer EXCEPT ![s] = a]
      BY <2>3 DEF ExecuteReturns
    <3> QED
      BY <2>3, <3>1, <3>2 DEF ExecuteReturns, Works
  <2>4. CASE DatabaseCommits(s)
    BY <2>4 DEF DatabaseCommits
  <2>5. CASE CommitReturns(s)
    BY <2>5 DEF CommitReturns
  <2>6. CASE Rollback(s)
    BY <2>6 DEF Rollback
  <2>7. CASE Close(s)
    BY <2>7 DEF Close
  <2>8. CASE Post(s)
    BY <2>8 DEF Post
  <2> QED
    BY <2>1, <2>2, <2>3, <2>4, <2>5, <2>6, <2>7, <2>8
<1>4. KindOf(s)' = KindOf(s) /\ KindOf(s) \in {"plain", "transactional", "read"} /\ AtHandler(s)
  BY <1>3, FrameStays
<1>5. failedAt' = [failedAt EXCEPT ![s] = failedAt'[s]] /\ failedAt'[s] \in Active \cup {"none"}
  BY <1>2, <1>3
<1>6. AtHandler(s)' = AtHandler(s)
  BY <1>3 DEF AtHandler
<1>7. PoolKept'
  <2>1. CASE Acquire(s)
    <3>1. holds' = holds \cup {Session(s)} /\ Session(s) \notin holds /\ Cardinality(holds) < PoolSize
      BY <2>1 DEF Acquire, Free
    <3>2. IsFiniteSet(holds) /\ Cardinality(holds) \in Nat
      BY <1>1, FS_CardinalityType DEF PoolKept
    <3>3. IsFiniteSet(holds') /\ Cardinality(holds') = Cardinality(holds) + 1
      BY <3>1, <3>2, FS_AddElement
    <3> QED
      BY <3>1, <3>2, <3>3, BoundAssumption DEF PoolKept
  <2>2. CASE ~ Acquire(s)
    <3>1. holds' \subseteq holds
      BY <2>2 DEF Begin, ExecuteReturns, DatabaseCommits, CommitReturns, Rollback, Close, Post, pool
    <3> QED
      BY <3>1, FewerHeld
  <2> QED
    BY <2>1, <2>2
<1>kept. /\ holds' \subseteq Sessions /\ unclosed' \subseteq Sessions
         /\ \A q \in Request : q # s => Kept(q)' = Kept(q)
         /\ \A n \in Kept(s)' : n \in Kept(s) \/ (Acquire(s) /\ n = retries[s])
  <2>1. Session(s) \in Sessions
    BY <1>2 DEF Session, Sessions
  <2>2. holds' \subseteq Sessions /\ unclosed' \subseteq Sessions
    BY <1>2, <1>3, <2>1
  <2>3. ASSUME NEW q \in Request, q # s PROVE Kept(q)' = Kept(q)
    <3>1. \A n \in 0..MaxRetries : <<q, n>> # Session(s)
      BY <2>3 DEF Session
    <3>2. \A n \in 0..MaxRetries : <<q, n>> \in holds' \ unclosed' <=> <<q, n>> \in holds \ unclosed
      BY <1>3, <3>1
    <3> QED
      BY <3>2 DEF Kept
  <2>4. ASSUME NEW n \in Kept(s)' PROVE n \in Kept(s) \/ (Acquire(s) /\ n = retries[s])
    <3>1. n \in 0..MaxRetries /\ <<s, n>> \in holds' \ unclosed'
      BY DEF Kept
    <3>2. <<s, n>> \in holds \ unclosed \/ (Acquire(s) /\ <<s, n>> = Session(s))
      BY <1>3, <3>1
    <3> QED
      BY <3>1, <3>2 DEF Kept, Session
  <2> QED
    BY <2>2, <2>3, <2>4
<1>out. Close(s) => Kept(s)' = {}
  <2> SUFFICES ASSUME Close(s) PROVE Kept(s)' = {}
    OBVIOUS
  <2>1. \A n \in Kept(s) : n = retries[s]
    BY <1>1 DEF Holding
  <2>2. holds' = holds \ {Session(s)} /\ unclosed' = unclosed
    BY DEF Close
  <2> QED
    BY <2>1, <2>2 DEF Kept, Session
<1>8. Holding(s)' /\ Outcome(s)'
  <2>1. Outcome(s)'
    <3> USE <1>1, <1>2, <1>4, <1>6 DEF Goto, Answer, Holding, Outcome, InSession, tables, sends, pool, Raised
    <3>1. CASE Begin(s)
      BY <3>1 DEF Begin
    <3>2. CASE Acquire(s)
      BY <3>2 DEF Acquire
    <3>3. CASE ExecuteReturns(s)
      <4>1. PICK a \in {"ok", "fail"} : answer' = [answer EXCEPT ![s] = a]
        BY <3>3 DEF ExecuteReturns
      <4>2. answer'[s] \in {"ok", "fail"} /\ durable' = durable /\ ~ durable[s]
        BY <3>3, <4>1 DEF ExecuteReturns, Works
      <4>3. pc'[s] = CASE KindOf(s) = "transactional" -> "commit"
                       [] KindOf(s) = "read" -> "close"
                       [] KindOf(s) = "plain" -> "post"
        BY <3>3 DEF ExecuteReturns, Works
      <4> QED
        BY <4>2, <4>3
    <3>4. CASE DatabaseCommits(s)
      BY <3>4 DEF DatabaseCommits
    <3>5. CASE CommitReturns(s)
      BY <3>5 DEF CommitReturns
    <3>6. CASE Rollback(s)
      BY <3>6 DEF Rollback
    <3>7. CASE Close(s)
      BY <3>7 DEF Close
    <3>8. CASE Post(s)
      BY <3>8 DEF Post
    <3> QED
      BY <3>1, <3>2, <3>3, <3>4, <3>5, <3>6, <3>7, <3>8
  <2>2. Holding(s)'
    <3>1. retries' = retries
      BY <1>3
    <3> USE <1>1, <1>2, <1>4, <3>1 DEF Goto, Holding, InSession, Works
    <3>2. CASE Begin(s)
      BY <3>2, <1>kept DEF Begin, Acquire
    <3>3. CASE Acquire(s)
      BY <3>3, <1>kept DEF Acquire, sends
    <3>4. CASE ExecuteReturns(s)
      <4>1. pc'[s] = CASE KindOf(s) = "transactional" -> "commit"
                       [] KindOf(s) = "read" -> "close"
                       [] KindOf(s) = "plain" -> "post"
        BY <3>4 DEF ExecuteReturns
      <4>2. pc'[s] # pc[s]
        BY <3>4, <4>1 DEF ExecuteReturns
      <4>3. ~ Acquire(s)
        BY <3>4, <4>2 DEF Acquire, sends
      <4>4. \A n \in Kept(s)' : n \in Kept(s)
        BY <1>kept, <4>3
      <4> QED
        BY <4>1, <4>4
    <3>5. CASE DatabaseCommits(s)
      BY <3>5, <1>kept DEF DatabaseCommits, Acquire
    <3>6. CASE CommitReturns(s)
      BY <3>6, <1>kept DEF CommitReturns, Acquire
    <3>7. CASE Rollback(s)
      BY <3>7, <1>kept DEF Rollback, Acquire
    <3>8. CASE Close(s)
      BY <3>8, <1>out DEF Close
    <3>9. CASE Post(s)
      BY <3>9, <1>kept DEF Post, Acquire
    <3> QED
      BY <3>2, <3>3, <3>4, <3>5, <3>6, <3>7, <3>8, <3>9
  <2> QED
    BY <2>1, <2>2
<1> QED
  BY <1>3, <1>5, <1>7, <1>kept, <1>8, WorkStep

\* A close() that raises: the session's connection is back, or left behind.
LEMMA CloseStep ==
    ASSUME DispatchInv, NEW s \in Request, NEW how \in Raised, CloseRaises(s, how)
    PROVE  DispatchInv'
<1>1. TypeOK /\ Placed(s) /\ Holding(s) /\ Outcome(s)
  BY DEF DispatchInv, Good
<1> DEFINE f == IF answer[s] \in Raised THEN failedAt[s] ELSE "close"
<1>2. /\ pc[s] = "close" /\ pc' = [pc EXCEPT ![s] = "outward"]
      /\ answer' = [answer EXCEPT ![s] = how]
      /\ failedAt' = [failedAt EXCEPT ![s] = f]
      /\ UNCHANGED <<handlers, behaviors, chain, pos, ran, durable, retries>>
      /\ holds' \subseteq holds /\ unclosed' = unclosed \cup (holds' \cap {Session(s)})
      /\ holds' \in {holds, holds \ {Session(s)}}
  BY DEF CloseRaises, Goto, Answer, tables
<1>3. /\ pc \in [Request -> Active \cup {"new", "ended"}] /\ answer \in [Request -> Answers]
      /\ failedAt \in [Request -> Active \cup {"none"}] /\ durable \in [Request -> BOOLEAN]
      /\ holds \subseteq Sessions /\ unclosed \subseteq Sessions
  BY <1>1 DEF TypeOK
<1>4. /\ pc'[s] = "outward" /\ answer'[s] = how /\ failedAt'[s] = f /\ durable'[s] = durable[s]
      /\ how \in Answers /\ f \in Active \cup {"none"}
  BY <1>2, <1>3 DEF Answers, Raised, Active, InSession
<1>5. /\ holds' \subseteq Sessions /\ unclosed' \subseteq Sessions
      /\ \A q \in Request : q # s => Kept(q)' = Kept(q)
  BY <1>2, <1>3 DEF Kept, Session
<1>6. Kept(s)' = {}
  <2>1. \A n \in Kept(s) : n = retries[s]
    BY <1>1 DEF Holding
  <2>2. \A n \in Kept(s)' : n \in Kept(s) /\ n # retries[s]
    BY <1>2 DEF Kept, Session
  <2> QED
    BY <2>1, <2>2
<1>7. Holding(s)'
  BY <1>4, <1>6 DEF Holding
<1>8. durable[s] => f \in {"committed", "close", "post"}
  BY <1>1, <1>2 DEF Outcome
<1>9. Outcome(s)'
  BY <1>4, <1>8 DEF Outcome
<1>10. PoolKept'
  BY <1>2, FewerHeld
<1> HIDE DEF f
<1>11. /\ pc[s] \in AtWork /\ pc'[s] \in AtWork \cup {"outward"} /\ durable'[s] \in BOOLEAN
       /\ pc' = [pc EXCEPT ![s] = pc'[s]] /\ answer' = [answer EXCEPT ![s] = answer'[s]]
       /\ failedAt' = [failedAt EXCEPT ![s] = failedAt'[s]]
       /\ durable' = [durable EXCEPT ![s] = durable'[s]]
  BY <1>2, <1>3, <1>4 DEF AtWork, InSession
<1> QED
  BY <1>2, <1>4, <1>5, <1>7, <1>9, <1>10, <1>11, WorkStep

-----------------------------------------------------------------------------
(* The chain                                                               *)

\* A send goes from frame to frame; no connection changes hands.
LEMMA ChainStep ==
    ASSUME DispatchInv, NEW s \in Request,
           UNCHANGED <<holds, unclosed>>, Kept(s) = {},
           TypeOK', Others(s), Placed(s)', RanFrames(s)', Outcome(s)',
           pc'[s] \in {"new", "ended", "inward", "check", "outward"}
    PROVE  DispatchInv'
<1>1. PoolKept'
  BY FewerHeld
<1>2. Kept(s)' = {}
  BY DEF Kept
<1>3. Holding(s)'
  BY <1>2 DEF Holding
<1> QED
  BY <1>1, <1>3, OthersGood DEF Good

\* Outside its session a send has no connection.
LEMMA NoneHeld ==
    ASSUME DispatchInv, NEW s \in Request, pc[s] \notin InSession
    PROVE  Kept(s) = {}
BY DEF DispatchInv, Good, Holding

LEMMA SendStep ==
    ASSUME DispatchInv, NEW s \in Request, Send(s) \/ SendUnknown(s)
    PROVE  DispatchInv'
<1>1. TypeOK /\ pc[s] = "new" /\ ran[s] = <<>> /\ ~ durable[s] /\ Kept(s) = {}
  BY NoneHeld DEF DispatchInv, Good, RanFrames, Outcome, Send, SendUnknown, MayStart, InSession
<1>2. CASE SendUnknown(s)
  <2>1. pc' = [pc EXCEPT ![s] = "ended"] /\ UNCHANGED <<handlers, behaviors, chain, pos, ran, answer, failedAt, durable, retries, holds, unclosed>>
    BY <1>2 DEF SendUnknown, Goto, tables, pool
  <2>2. pc'[s] = "ended" /\ Others(s) /\ TypeOK'
    BY <1>1, <2>1, KeptStays DEF TypeOK, Others
  <2>3. Placed(s)'
    BY <2>2 DEF Placed, Active, AtWork, InSession
  <2>4. RanFrames(s)' /\ Outcome(s)'
    BY <1>1, <2>1, <2>2 DEF RanFrames, Outcome, AtWork, InSession
  <2> QED
    BY <1>1, <2>1, <2>2, <2>3, <2>4, ChainStep
<1>3. CASE Send(s)
  <2> DEFINE h == handlers[TypeOf[s]]
             k == [behaviors |-> behaviors, handler |-> h]
  <2>1. /\ chain' = [chain EXCEPT ![s] = k]
        /\ pos' = [pos EXCEPT ![s] = 1] /\ pc' = [pc EXCEPT ![s] = "inward"]
        /\ UNCHANGED <<handlers, behaviors, ran, answer, failedAt, durable, retries, holds, unclosed>>
        /\ h # None
    BY <1>3 DEF Send, Goto, tables, pool
  <2>2. h \in Handler
    <3>1. TypeOf[s] \in Type
      BY TypeAssumption
    <3> QED
      BY <1>1, <2>1, <3>1 DEF TypeOK
  <2>3. k \in [behaviors : Seq(Behavior), handler : Handler \cup {None}] /\ Len(behaviors) \in Nat
    BY <1>1, <2>2, LenProperties DEF TypeOK
  <2>4. chain'[s] = k /\ pos'[s] = 1 /\ pc'[s] = "inward" /\ Others(s)
    BY <1>1, <2>1, KeptStays DEF TypeOK, Others
  <2>5. TypeOK'
    <3>1. chain' \in [Request -> [behaviors : Seq(Behavior), handler : Handler \cup {None}]]
      BY <1>1, <2>1, <2>3 DEF TypeOK
    <3>2. pos' \in [Request -> Nat] /\ pc' \in [Request -> Active \cup {"new", "ended"}]
      BY <1>1, <2>1 DEF TypeOK, Active
    <3> QED
      BY <1>1, <2>1, <3>1, <3>2 DEF TypeOK
  <2>6. chain'[s].behaviors = behaviors /\ chain'[s].handler = h
    BY <2>4
  <2> HIDE DEF h, k
  <2>7. Placed(s)'
    BY <2>2, <2>3, <2>4, <2>6 DEF Placed, AtWork, InSession
  <2>8. ran'[s] = <<>> /\ Len(ran'[s]) = 0 /\ ~ durable'[s]
    BY <1>1, <2>1
  <2>9. RanFrames(s)' /\ Outcome(s)'
    BY <2>4, <2>8 DEF RanFrames, Outcome, AtWork, InSession
  <2> QED
    BY <1>1, <2>1, <2>4, <2>5, <2>7, <2>9, ChainStep
<1> QED
  BY <1>2, <1>3

\* What runs inward has frames outside it that ran, and nothing committed.
LEMMA InwardFacts ==
    ASSUME DispatchInv, NEW s \in Request, pc[s] \in {"inward", "outward"}
    PROVE  /\ TypeOK /\ Kept(s) = {}
           /\ chain[s].handler \in Handler
           /\ chain[s].behaviors \in Seq(Behavior) /\ Len(chain[s].behaviors) \in Nat
           /\ pos[s] \in Nat /\ pos[s] >= 1 /\ pos[s] <= Len(chain[s].behaviors) + 1
           /\ ran[s] \in Seq(Behavior \cup Handler) /\ Len(ran[s]) \in Nat
           /\ Len(ran[s]) >= pos[s] - 1 /\ Len(ran[s]) <= Len(chain[s].behaviors) + 1
           /\ pc[s] = "inward" => Len(ran[s]) = pos[s] - 1 /\ ~ durable[s]
           /\ \A i \in 1..Len(ran[s]) : ran[s][i] = Frame(s, i)
           /\ Frame(s, pos[s]) \in Behavior \cup Handler
<1>1. TypeOK /\ Placed(s) /\ RanFrames(s) /\ Outcome(s) /\ Kept(s) = {}
  BY NoneHeld DEF DispatchInv, Good, InSession
<1>2. /\ chain[s].handler \in Handler /\ pos[s] \in 1..(Len(chain[s].behaviors) + 1)
  BY <1>1 DEF Placed, Active
<1>3. /\ chain[s].behaviors \in Seq(Behavior) /\ Len(chain[s].behaviors) \in Nat
      /\ ran[s] \in Seq(Behavior \cup Handler) /\ Len(ran[s]) \in Nat
  BY <1>1, SendTypes
<1>4. Frame(s, pos[s]) \in Behavior \cup Handler
  <2>1. CASE pos[s] <= Len(chain[s].behaviors)
    <3>1. pos[s] \in 1..Len(chain[s].behaviors)
      BY <1>2, <1>3, <2>1
    <3>2. chain[s].behaviors[pos[s]] \in Behavior
      BY <1>3, <3>1, ElementOfSeq
    <3> QED
      BY <2>1, <3>2 DEF Frame
  <2>2. CASE ~ (pos[s] <= Len(chain[s].behaviors))
    BY <1>2, <2>2 DEF Frame
  <2> QED
    BY <2>1, <2>2
<1>5. /\ pos[s] \in Nat /\ pos[s] >= 1 /\ pos[s] <= Len(chain[s].behaviors) + 1
  BY <1>2, <1>3
<1>6. /\ Len(ran[s]) >= pos[s] - 1 /\ Len(ran[s]) <= Len(chain[s].behaviors) + 1
      /\ pc[s] = "inward" => Len(ran[s]) = pos[s] - 1
  <2>1. CASE pc[s] = "inward"
    <3>1. Len(ran[s]) = pos[s] - 1
      BY <1>1, <2>1 DEF RanFrames
    <3> QED
      BY <1>3, <1>5, <3>1
  <2>2. CASE pc[s] = "outward"
    BY <1>1, <2>2 DEF RanFrames
  <2> QED
    BY <2>1, <2>2
<1>7. pc[s] = "inward" => ~ durable[s]
  BY <1>1 DEF Outcome
<1>8. \A i \in 1..Len(ran[s]) : ran[s][i] = Frame(s, i)
  BY <1>1 DEF RanFrames
<1> QED
  BY <1>1, <1>2, <1>3, <1>4, <1>5, <1>6, <1>7, <1>8

\* The current frame is called.
LEMMA CallStep ==
    ASSUME DispatchInv, NEW s \in Request, CallNext(s) \/ AnswerInstead(s) \/ CallHandler(s)
    PROVE  DispatchInv'
<1> DEFINE n == Len(chain[s].behaviors)
           callee == Frame(s, pos[s])
<1>1. pc[s] = "inward"
  BY DEF CallNext, AnswerInstead, CallHandler
<1>2. /\ TypeOK /\ Kept(s) = {} /\ chain[s].handler \in Handler
      /\ n \in Nat /\ pos[s] \in Nat /\ pos[s] >= 1 /\ pos[s] <= n + 1
      /\ ran[s] \in Seq(Behavior \cup Handler) /\ Len(ran[s]) \in Nat
      /\ Len(ran[s]) = pos[s] - 1 /\ ~ durable[s]
      /\ \A i \in 1..Len(ran[s]) : ran[s][i] = Frame(s, i)
      /\ callee \in Behavior \cup Handler
  BY <1>1, InwardFacts
<1>3. /\ pc \in [Request -> Active \cup {"new", "ended"}] /\ pos \in [Request -> Nat]
      /\ ran \in [Request -> Seq(Behavior \cup Handler)] /\ answer \in [Request -> Answers]
  BY <1>2 DEF TypeOK
<1>4. ran' = [ran EXCEPT ![s] = Append(ran[s], callee)]
  <2>1. AtHandler(s) <=> pos[s] = n + 1
    BY DEF AtHandler
  <2> QED
    BY <1>2, <1>3, <2>1 DEF CallNext, AnswerInstead, CallHandler, Call, Frame
<1>5. /\ Append(ran[s], callee) \in Seq(Behavior \cup Handler)
      /\ Len(Append(ran[s], callee)) = Len(ran[s]) + 1
      /\ \A i \in 1..Len(ran[s]) : Append(ran[s], callee)[i] = ran[s][i]
      /\ Append(ran[s], callee)[Len(ran[s]) + 1] = callee
  BY <1>2, AppendProperties
<1>6. /\ ran' \in [Request -> Seq(Behavior \cup Handler)]
      /\ Len(ran'[s]) = pos[s]
      /\ \A i \in 1..pos[s] : ran'[s][i] = Frame(s, i)
      /\ \A q \in Request : q # s => ran'[q] = ran[q]
  <2>1. ran'[s] = Append(ran[s], callee) /\ ran' \in [Request -> Seq(Behavior \cup Handler)]
    BY <1>3, <1>4, <1>5
  <2>2. Len(ran'[s]) = pos[s]
    BY <1>2, <1>5, <2>1
  <2>3. ASSUME NEW i \in 1..pos[s] PROVE ran'[s][i] = Frame(s, i)
    <3>1. CASE i = pos[s]
      BY <1>2, <1>5, <2>1, <3>1
    <3>2. CASE i \in 1..Len(ran[s])
      BY <1>2, <1>5, <2>1, <3>2
    <3>3. i = pos[s] \/ i \in 1..Len(ran[s])
      BY <1>2
    <3> QED
      BY <3>1, <3>2, <3>3
  <2> QED
    BY <1>3, <1>4, <2>1, <2>2, <2>3
<1>7. UNCHANGED <<handlers, behaviors, chain, failedAt, durable, retries, holds, unclosed>>
  BY DEF CallNext, AnswerInstead, CallHandler, tables, pool
<1>8. \A i : Frame(s, i)' = Frame(s, i)
  BY <1>7 DEF Frame
<1>types. TypeOK /\ ran' \in [Request -> Seq(Behavior \cup Handler)]
  BY <1>2, <1>6
<1>ran. \A q \in Request : q # s => ran'[q] = ran[q]
  BY <1>6
<1> HIDE DEF n, callee
<1>9. CASE CallNext(s)
  <2>1. pc' = pc /\ answer' = answer /\ pos' = [pos EXCEPT ![s] = pos[s] + 1] /\ pos[s] # n + 1
    BY <1>3, <1>9 DEF CallNext, AtHandler, n
  <2>2. pos'[s] = pos[s] + 1 /\ TypeOK' /\ Others(s)
    <3>1. pos'[s] = pos[s] + 1 /\ pos' \in [Request -> Nat]
      BY <1>2, <1>3, <2>1 DEF TypeOK
    <3>2. \A q \in Request : q # s => pos'[q] = pos[q]
      BY <1>3, <2>1 DEF TypeOK
    <3>3. TypeOK'
      BY <1>types, <1>7, <2>1, <3>1 DEF TypeOK
    <3>4. Others(s)
      BY <1>ran, <1>7, <2>1, <3>2, KeptStays DEF Others
    <3> QED
      BY <3>1, <3>3, <3>4
  <2>3. Placed(s)'
    BY <1>1, <1>2, <1>7, <2>1, <2>2 DEF Placed, AtWork, InSession, n
  <2>4. RanFrames(s)' /\ Outcome(s)'
    BY <1>1, <1>2, <1>6, <1>7, <1>8, <2>1, <2>2 DEF RanFrames, Outcome, AtWork, InSession
  <2> QED
    BY <1>1, <1>2, <1>7, <2>1, <2>2, <2>3, <2>4, ChainStep
<1>10. CASE AnswerInstead(s)
  <2>1. PICK a \in {"ok", "error"} : answer' = [answer EXCEPT ![s] = a]
    BY <1>10 DEF AnswerInstead, Answer
  <2>2. pos' = pos /\ pc' = [pc EXCEPT ![s] = "outward"] /\ ~ AtHandler(s)
    BY <1>10 DEF AnswerInstead, Goto
  <2>3. pc'[s] = "outward" /\ TypeOK' /\ Others(s)
    <3>1. pc' \in [Request -> Active \cup {"new", "ended"}] /\ answer' \in [Request -> Answers]
      BY <1>3, <2>1, <2>2 DEF Active, Answers
    <3>2. TypeOK'
      BY <1>types, <1>7, <2>2, <3>1 DEF TypeOK
    <3>3. pc'[s] = "outward" /\ Others(s)
      BY <1>3, <1>ran, <1>7, <2>1, <2>2, KeptStays DEF Others
    <3> QED
      BY <3>2, <3>3
  <2>4. Placed(s)'
    BY <1>2, <1>7, <2>2, <2>3 DEF Placed, AtWork, InSession, n
  <2>5. RanFrames(s)'
    BY <1>2, <1>6, <1>7, <1>8, <2>2, <2>3 DEF RanFrames, AtWork, InSession, n
  <2>6. Outcome(s)'
    BY <1>7, <2>2, <2>3 DEF Outcome, AtHandler
  <2> QED
    BY <1>2, <1>7, <2>3, <2>4, <2>5, <2>6, ChainStep
<1>11. CASE CallHandler(s)
  <2>1. answer' = answer /\ pos' = pos /\ pc' = [pc EXCEPT ![s] = "check"] /\ AtHandler(s)
    BY <1>11 DEF CallHandler, Goto
  <2>2. pc'[s] = "check" /\ TypeOK' /\ Others(s)
    <3>1. pc' \in [Request -> Active \cup {"new", "ended"}]
      BY <1>3, <2>1 DEF Active
    <3>2. TypeOK'
      BY <1>types, <1>7, <2>1, <3>1 DEF TypeOK
    <3>3. pc'[s] = "check" /\ Others(s)
      BY <1>3, <1>ran, <1>7, <2>1, KeptStays DEF Others
    <3> QED
      BY <3>2, <3>3
  <2>3. Placed(s)'
    BY <1>2, <1>7, <2>1, <2>2 DEF Placed, AtHandler, n
  <2>4. RanFrames(s)' /\ Outcome(s)'
    BY <1>2, <1>6, <1>7, <1>8, <2>1, <2>2 DEF RanFrames, Outcome
  <2> QED
    BY <1>2, <1>7, <2>2, <2>3, <2>4, ChainStep
<1> QED
  BY <1>9, <1>10, <1>11

\* The way out: to the frame outside, into the next one again, or to the caller.
LEMMA OutwardStep ==
    ASSUME DispatchInv, NEW s \in Request, Return(s) \/ Retry(s) \/ End(s)
    PROVE  DispatchInv'
<1> DEFINE n == Len(chain[s].behaviors)
<1>1. pc[s] = "outward"
  BY DEF Return, Retry, End
<1>2. /\ TypeOK /\ Kept(s) = {} /\ chain[s].handler \in Handler
      /\ n \in Nat /\ pos[s] \in Nat /\ pos[s] >= 1 /\ pos[s] <= n + 1
      /\ ran[s] \in Seq(Behavior \cup Handler) /\ Len(ran[s]) \in Nat
      /\ Len(ran[s]) >= pos[s] - 1 /\ Len(ran[s]) <= n + 1
      /\ \A i \in 1..Len(ran[s]) : ran[s][i] = Frame(s, i)
  BY <1>1, InwardFacts
<1>3. /\ pc \in [Request -> Active \cup {"new", "ended"}] /\ pos \in [Request -> Nat]
      /\ chain \in [Request -> [behaviors : Seq(Behavior), handler : Handler \cup {None}]]
      /\ ran \in [Request -> Seq(Behavior \cup Handler)] /\ answer \in [Request -> Answers]
      /\ failedAt \in [Request -> Active \cup {"none"}] /\ durable \in [Request -> BOOLEAN]
      /\ retries \in [Request -> 0..MaxRetries] /\ MaxRetries \in Nat
  BY <1>2, BoundAssumption DEF TypeOK
<1>4. /\ failedAt' = [failedAt EXCEPT ![s] = "none"] /\ durable' = [durable EXCEPT ![s] = FALSE]
      /\ UNCHANGED <<handlers, behaviors, holds, unclosed>>
  BY DEF Return, Retry, End, ForgetRun, tables, pool
<1>5. /\ failedAt' \in [Request -> Active \cup {"none"}] /\ durable' \in [Request -> BOOLEAN]
      /\ ~ durable'[s] /\ failedAt'[s] = "none"
      /\ \A q \in Request : q # s => failedAt'[q] = failedAt[q] /\ durable'[q] = durable[q]
  BY <1>3, <1>4
<1>6. CASE Return(s)
  <2>1. PICK a \in Answers : answer' = [answer EXCEPT ![s] = a]
    <3>1. answer[s] \in Answers
      BY <1>3
    <3>2. {"cancelled", answer[s], "ok", "error"} \subseteq Answers
      BY <3>1 DEF Answers
    <3> QED
      BY <1>6, <3>2 DEF Return, Answer
  <2>2. /\ pos' = [pos EXCEPT ![s] = pos[s] - 1] /\ pos[s] > 1
        /\ UNCHANGED <<pc, chain, ran, retries>>
    BY <1>6, <1>3 DEF Return
  <2>3. pos'[s] = pos[s] - 1 /\ pos'[s] \in Nat /\ TypeOK' /\ Others(s)
    <3>1. pos' \in [Request -> Nat] /\ pos'[s] = pos[s] - 1 /\ answer' \in [Request -> Answers]
      BY <1>2, <1>3, <2>1, <2>2
    <3>2. TypeOK'
      BY <1>2, <1>4, <1>5, <2>2, <3>1 DEF TypeOK
    <3>3. Others(s)
      BY <1>3, <1>4, <1>5, <2>1, <2>2, KeptStays DEF Others
    <3> QED
      BY <1>2, <1>3, <2>2, <3>1, <3>2, <3>3
  <2>4. ~ AtHandler(s)'
    BY <1>2, <2>2, <2>3 DEF AtHandler
  <2>5. Placed(s)'
    BY <1>1, <1>2, <2>2, <2>3 DEF Placed, AtWork, InSession
  <2>6. \A i : Frame(s, i)' = Frame(s, i)
    BY <2>2 DEF Frame
  <2>7. RanFrames(s)'
    BY <1>1, <1>2, <2>2, <2>3, <2>6 DEF RanFrames, AtWork, InSession
  <2>8. Outcome(s)'
    BY <1>1, <2>2, <2>4 DEF Outcome
  <2> QED
    BY <1>1, <1>2, <1>4, <2>2, <2>3, <2>5, <2>7, <2>8, ChainStep
<1>7. CASE Retry(s)
  <2> DEFINE t == SubSeq(ran[s], 1, pos[s] - 1)
  <2>1. /\ ran' = [ran EXCEPT ![s] = t]
        /\ pc' = [pc EXCEPT ![s] = "inward"] /\ answer' = [answer EXCEPT ![s] = "none"]
        /\ retries' = [retries EXCEPT ![s] = retries[s] + 1] /\ retries[s] < MaxRetries
        /\ UNCHANGED <<chain, pos>>
    BY <1>3, <1>7 DEF Retry, Goto, Answer
  <2>2. pos[s] - 1 \in Nat /\ pos[s] - 1 <= Len(ran[s])
    BY <1>2
  <2>3. /\ t \in Seq(Behavior \cup Handler) /\ Len(t) = pos[s] - 1
        /\ \A i \in 1..(pos[s] - 1) : t[i] = ran[s][i]
    BY <1>2, <2>2, PrefixProperties
  <2> HIDE DEF t
  <2>4. /\ ran' \in [Request -> Seq(Behavior \cup Handler)] /\ ran'[s] = t
        /\ pc' \in [Request -> Active \cup {"new", "ended"}] /\ pc'[s] = "inward"
        /\ answer' \in [Request -> Answers]
        /\ retries' \in [Request -> 0..MaxRetries]
    <3>1. retries[s] \in 0..MaxRetries /\ retries[s] + 1 \in 0..MaxRetries
      BY <1>3, <2>1
    <3> QED
      BY <1>3, <2>1, <2>3, <3>1 DEF Active, Answers
  <2>5. TypeOK' /\ Others(s)
    <3>1. Others(s)
      BY <1>3, <1>4, <1>5, <2>1, KeptStays DEF Others
    <3> QED
      BY <1>2, <1>4, <1>5, <2>1, <2>4, <3>1 DEF TypeOK
  <2>6. Placed(s)'
    BY <1>2, <2>1, <2>4 DEF Placed, AtWork, InSession
  <2>7. \A i : Frame(s, i)' = Frame(s, i)
    BY <2>1 DEF Frame
  <2>8. \A i \in 1..(pos[s] - 1) : i \in 1..Len(ran[s])
    BY <1>2, <2>2
  <2>9. RanFrames(s)'
    BY <1>2, <2>1, <2>3, <2>4, <2>7, <2>8 DEF RanFrames, AtWork, InSession
  <2>10. Outcome(s)'
    BY <1>5, <2>4 DEF Outcome
  <2> QED
    BY <1>2, <1>4, <2>4, <2>5, <2>6, <2>9, <2>10, ChainStep
<1>8. CASE End(s)
  <2> DEFINE e == IF answer[s] = "cancelled" THEN "cancelled" ELSE "none"
  <2>1. /\ pc' = [pc EXCEPT ![s] = "ended"] /\ chain' = [chain EXCEPT ![s] = NoChain]
        /\ pos' = [pos EXCEPT ![s] = 0] /\ ran' = [ran EXCEPT ![s] = <<>>]
        /\ retries' = [retries EXCEPT ![s] = 0] /\ answer' = [answer EXCEPT ![s] = e]
    BY <1>8 DEF End, Goto, Answer
  <2>2. NoChain \in [behaviors : Seq(Behavior), handler : Handler \cup {None}]
    BY EmptySeq DEF NoChain
  <2>3. /\ pc' \in [Request -> Active \cup {"new", "ended"}] /\ pc'[s] = "ended"
        /\ chain' \in [Request -> [behaviors : Seq(Behavior), handler : Handler \cup {None}]]
        /\ pos' \in [Request -> Nat] /\ retries' \in [Request -> 0..MaxRetries]
        /\ ran' \in [Request -> Seq(Behavior \cup Handler)] /\ ran'[s] = <<>>
        /\ answer' \in [Request -> Answers]
    BY <1>3, <2>1, <2>2, EmptySeq DEF Answers
  <2>4. TypeOK' /\ Others(s)
    <3>1. Others(s)
      BY <1>3, <1>4, <1>5, <2>1, KeptStays DEF Others
    <3> QED
      BY <1>2, <1>4, <1>5, <2>3, <3>1 DEF TypeOK
  <2>5. Placed(s)'
    BY <2>3 DEF Placed, Active, AtWork, InSession
  <2>6. Len(ran'[s]) = 0
    BY <2>3, EmptySeq
  <2>7. RanFrames(s)' /\ Outcome(s)'
    BY <1>5, <2>3, <2>6 DEF RanFrames, Outcome, AtWork, InSession
  <2> QED
    BY <1>2, <1>4, <2>3, <2>4, <2>5, <2>7, ChainStep
<1> QED
  BY <1>6, <1>7, <1>8

\* A behavior is cancelled before it has called the next frame.
LEMMA CancelStep ==
    ASSUME DispatchInv, NEW s \in Request, Cancel(s)
    PROVE  DispatchInv'
<1>1. /\ pc[s] \in Active \ {"outward"}
      /\ IF pc[s] = "close" THEN CloseRaises(s, "cancelled") ELSE Raise(s, "cancelled")
  BY DEF Cancel
<1>close. CASE pc[s] = "close"
  BY <1>1, <1>close, CloseStep DEF Raised
<1>2. CASE pc[s] \in AtWork \ {"close"}
  BY <1>1, <1>2, RaiseStep
<1>3. CASE pc[s] = "inward"
  <2>1. /\ TypeOK /\ Kept(s) = {} /\ chain[s].handler \in Handler
        /\ Len(chain[s].behaviors) \in Nat /\ pos[s] \in Nat /\ pos[s] >= 1
        /\ pos[s] <= Len(chain[s].behaviors) + 1
        /\ Len(ran[s]) = pos[s] - 1 /\ Len(ran[s]) <= Len(chain[s].behaviors) + 1
        /\ \A i \in 1..Len(ran[s]) : ran[s][i] = Frame(s, i)
    BY <1>3, InwardFacts
  <2>2. /\ pc' = [pc EXCEPT ![s] = "outward"]
        /\ answer' = [answer EXCEPT ![s] = "cancelled"]
        /\ failedAt' = [failedAt EXCEPT ![s] = "inward"]
        /\ UNCHANGED <<handlers, behaviors, chain, pos, ran, durable, retries, holds, unclosed>>
        /\ ~ AtHandler(s)
    BY <1>1, <1>3, <2>1 DEF Cancel, Raise, Goto, Answer, InSession, tables, pool, TypeOK
  <2>3. pc'[s] = "outward" /\ TypeOK' /\ Others(s)
    <3>1. /\ pc' \in [Request -> Active \cup {"new", "ended"}]
          /\ answer' \in [Request -> Answers]
          /\ failedAt' \in [Request -> Active \cup {"none"}]
      BY <2>1, <2>2 DEF TypeOK, Active, Answers
    <3>2. TypeOK'
      BY <2>1, <2>2, <3>1 DEF TypeOK
    <3>3. Others(s) /\ pc'[s] = "outward"
      BY <2>1, <2>2, KeptStays DEF TypeOK, Others
    <3> QED
      BY <3>2, <3>3
  <2>4. Placed(s)'
    BY <2>1, <2>2, <2>3 DEF Placed, AtWork, InSession
  <2>5. \A i : Frame(s, i)' = Frame(s, i)
    BY <2>2 DEF Frame
  <2>6. RanFrames(s)'
    BY <2>1, <2>2, <2>3, <2>5 DEF RanFrames, AtWork, InSession
  <2>7. Outcome(s)'
    BY <2>2, <2>3 DEF Outcome, AtHandler
  <2> QED
    BY <2>1, <2>2, <2>3, <2>4, <2>6, <2>7, ChainStep
<1> QED
  BY <1>1, <1>close, <1>2, <1>3 DEF Active, AtWork

\* Registrations change no send: its closures hold what they were made with.
\* Nor does a connection that a session left behind and that comes back.
LEMMA RegistrationStep ==
    ASSUME DispatchInv, UNCHANGED sends,
           handlers' \in [Type -> Handler \cup {None}], behaviors' \in Seq(Behavior),
           holds' \subseteq holds, unclosed' \subseteq unclosed,
           \A q \in Request : Kept(q)' = Kept(q)
    PROVE  DispatchInv'
<1>1. TypeOK' /\ PoolKept'
  BY FewerHeld DEF DispatchInv, TypeOK, sends
<1>2. ASSUME NEW s \in Request PROVE Good(s)'
  <2>1. Good(s)
    BY DEF DispatchInv
  <2>2. Placed(s)' /\ RanFrames(s)' /\ Holding(s)' /\ Outcome(s)'
    BY <2>1 DEF Good, Placed, RanFrames, Holding, Outcome, AtHandler, KindOf, Frame, sends
  <2> QED
    BY <2>2 DEF Good
<1> QED
  BY <1>1, <1>2 DEF DispatchInv

LEMMA DispatchInit == Init => DispatchInv
<1> SUFFICES ASSUME Init PROVE DispatchInv
  OBVIOUS
<1>1. TypeOK
  <2>1. ASSUME NEW t \in Type, t \notin Later
        PROVE  (CHOOSE h \in Accepts[t] : TRUE) \in Handler
    <3>1. Accepts[t] # {} /\ Accepts[t] \subseteq Handler
      BY TypeAssumption, LaterAssumption
    <3>2. (CHOOSE h \in Accepts[t] : TRUE) \in Accepts[t]
      BY <3>1
    <3> QED
      BY <3>1, <3>2
  <2>2. handlers \in [Type -> Handler \cup {None}]
    BY <2>1 DEF Init
  <2>3. behaviors \in Seq(Behavior) /\ NoChain \in [behaviors : Seq(Behavior), handler : Handler \cup {None}]
        /\ <<>> \in Seq(Behavior \cup Handler)
    BY EmptySeq DEF Init, NoChain
  <2>4. 0 \in 0..MaxRetries
    BY BoundAssumption
  <2> QED
    BY <2>2, <2>3, <2>4 DEF Init, TypeOK, Answers
<1>2. PoolKept
  BY FS_EmptySet, BoundAssumption DEF Init, PoolKept
<1>3. ASSUME NEW s \in Request PROVE Good(s)
  <2>1. pc[s] = "new" /\ ran[s] = <<>> /\ ~ durable[s] /\ Kept(s) = {}
    BY DEF Init, Kept
  <2>2. Len(ran[s]) = 0
    BY <2>1, EmptySeq
  <2> QED
    BY <2>1, <2>2 DEF Good, Placed, RanFrames, Holding, Outcome, Active, AtWork, InSession
<1> QED
  BY <1>1, <1>2, <1>3 DEF DispatchInv

LEMMA DispatchStep == DispatchInv /\ [Next]_vars => DispatchInv'
<1> SUFFICES ASSUME DispatchInv, [Next]_vars PROVE DispatchInv'
  OBVIOUS
<1>1. handlers \in [Type -> Handler \cup {None}] /\ behaviors \in Seq(Behavior)
  BY DEF DispatchInv, TypeOK
<1>2. ASSUME NEW t \in Type, RegisterHandler(t) PROVE DispatchInv'
  <2>1. PICK h \in Accepts[t] : handlers' = [handlers EXCEPT ![t] = h]
    BY <1>2 DEF RegisterHandler
  <2>2. h \in Handler
    BY TypeAssumption
  <2> QED
    BY <1>1, <1>2, <2>1, <2>2, RegistrationStep, KeptStays DEF RegisterHandler, pool
<1>3. CASE AddBehavior
  <2>1. PICK b \in Behavior : behaviors' = Append(behaviors, b)
    BY <1>3 DEF AddBehavior
  <2>2. behaviors' \in Seq(Behavior)
    BY <1>1, <2>1, AppendProperties
  <2> QED
    BY <1>1, <1>3, <2>2, RegistrationStep, KeptStays DEF AddBehavior, pool
<1>4. ASSUME NEW s \in Request, Step(s) PROVE DispatchInv'
  <2>1. CASE CallNext(s) \/ AnswerInstead(s) \/ CallHandler(s)
    BY <2>1, CallStep
  <2>2. CASE Return(s) \/ Retry(s) \/ End(s)
    BY <2>2, OutwardStep
  <2>3. CASE \/ Begin(s) \/ Acquire(s) \/ ExecuteReturns(s) \/ DatabaseCommits(s) \/ CommitReturns(s)
             \/ Rollback(s) \/ Close(s) \/ Post(s)
    BY <2>3, HandlerStep
  <2>4. CASE Refuse(s) \/ PoolTimeout(s) \/ ExecuteRaises(s) \/ CommitFails(s) \/ PostRaises(s)
    <3>1. /\ pc[s] \in AtWork \ {"close"}
          /\ Raise(s, "error") \/ Raise(s, "cancelled")
      BY <2>4 DEF Refuse, PoolTimeout, ExecuteRaises, CommitFails, PostRaises, Works, AtWork, InSession
    <3> QED
      BY <3>1, RaiseStep
  <2>5. CASE CloseRaises(s, "error")
    BY <2>5, CloseStep DEF Raised
  <2> QED
    BY <1>4, <2>1, <2>2, <2>3, <2>4, <2>5 DEF Step
<1>5. ASSUME NEW s \in Request, Send(s) \/ SendUnknown(s) \/ Cancel(s) PROVE DispatchInv'
  BY <1>5, SendStep, CancelStep
<1>6. CASE UNCHANGED vars
  BY <1>1, <1>6, RegistrationStep, KeptStays DEF vars, tables, pool
<1>7. ASSUME NEW session \in Sessions, Collect(session) PROVE DispatchInv'
  <2>1. /\ session \in unclosed /\ holds' = holds \ {session} /\ unclosed' = unclosed \ {session}
        /\ UNCHANGED <<handlers, behaviors, sends>>
    BY <1>7 DEF Collect, tables
  <2>2. \A q \in Request : Kept(q)' = Kept(q)
    BY <2>1 DEF Kept
  <2> QED
    BY <1>1, <2>1, <2>2, RegistrationStep
<1> QED
  BY <1>2, <1>3, <1>4, <1>5, <1>6, <1>7 DEF Next

LEMMA DispatchInvInductive == Spec => []DispatchInv
BY DispatchInit, DispatchStep, PTL DEF Spec

-----------------------------------------------------------------------------

\* Every variable of the dispatch keeps its type.
THEOREM TypeCorrect == Spec => []TypeOK
<1>1. DispatchInv => TypeOK
  BY DEF DispatchInv
<1> QED
  BY <1>1, DispatchInvInductive, PTL

\* The behaviors that run around a command, and the handler that executes it,
\* are those registered when it was sent, outermost first, whatever is
\* registered while it waits and however often it is retried.
THEOREM ChainIsAsRegistered == Spec => []RunsAsRegistered
<1>1. DispatchInv => RunsAsRegistered
  <2> SUFFICES ASSUME DispatchInv, NEW s \in Request, pc[s] \in Active
               PROVE  IsPrefix(ran[s], Append(chain[s].behaviors, chain[s].handler))
    BY DEF RunsAsRegistered
  <2> DEFINE B == Behavior \cup Handler
             bs == chain[s].behaviors
             f == Append(bs, chain[s].handler)
             m == Len(ran[s])
  <2>1. TypeOK /\ Placed(s) /\ RanFrames(s)
    BY DEF DispatchInv, Good
  <2>2. /\ chain[s].handler \in B /\ bs \in Seq(B) /\ Len(bs) \in Nat
        /\ ran[s] \in Seq(B) /\ m \in Nat /\ pos[s] \in Nat
        /\ pos[s] <= Len(bs) + 1
    <3>1. /\ bs \in Seq(Behavior) /\ Len(bs) \in Nat /\ ran[s] \in Seq(B) /\ m \in Nat
          /\ pos[s] \in 1..(Len(bs) + 1) /\ chain[s].handler \in Handler
      BY <2>1, SendTypes DEF Placed
    <3>2. bs \in Seq(B)
      BY <3>1, SeqMonotonic
    <3> QED
      BY <3>1, <3>2
  <2>3. m <= Len(bs) + 1
    BY <2>1, <2>2 DEF RanFrames, Active, AtWork
  <2>4. \A i \in 1..m : ran[s][i] = IF i <= Len(bs) THEN bs[i] ELSE chain[s].handler
    BY <2>1 DEF RanFrames, Frame
  <2> HIDE DEF B, bs, m
  <2>5. /\ f \in Seq(B) /\ Len(f) = Len(bs) + 1
        /\ \A i \in 1..Len(bs) : f[i] = bs[i]
        /\ f[Len(bs) + 1] = chain[s].handler
    BY <2>2, AppendProperties
  <2> HIDE DEF f
  <2>6. /\ SubSeq(ran[s], 1, m) \in Seq(B) /\ Len(SubSeq(ran[s], 1, m)) = m
        /\ \A i \in 1..m : SubSeq(ran[s], 1, m)[i] = ran[s][i]
    BY <2>2, PrefixProperties DEF m
  <2>7. /\ SubSeq(f, 1, m) \in Seq(B) /\ Len(SubSeq(f, 1, m)) = m
        /\ \A i \in 1..m : SubSeq(f, 1, m)[i] = f[i]
    BY <2>2, <2>3, <2>5, PrefixProperties
  <2>8. ASSUME NEW i \in 1..m PROVE ran[s][i] = f[i]
    <3>1. i \in 1..Len(bs) \/ i = Len(bs) + 1
      BY <2>2, <2>3
    <3> QED
      BY <2>2, <2>4, <2>5, <3>1
  <2>9. SubSeq(ran[s], 1, m) = SubSeq(f, 1, m)
    BY <2>6, <2>7, <2>8, SeqEqual
  <2> QED
    BY <2>3, <2>5, <2>9 DEF IsPrefix, f, bs, m
<1> QED
  BY <1>1, DispatchInvInductive, PTL

\* Whatever raises, is cancelled or fails to roll back, a connection that is
\* out belongs to a session in progress, or to one whose close() raised or was
\* cancelled in its turn; and the pool never gives out more than it has.
THEOREM ConnectionsComeBack == Spec => []NoConnectionKept
<1>1. DispatchInv => NoConnectionKept
  BY DEF DispatchInv, PoolKept, Good, Holding, Kept, NoConnectionKept
<1> QED
  BY <1>1, DispatchInvInductive, PTL

\* What a transactional use case answers is what is in the database, unless
\* the answer to COMMIT was lost, or close() or _post_execute failed after it.
THEOREM AnswersAreDurable == Spec => []DurableAsAnswered
<1>1. DispatchInv => DurableAsAnswered
  BY DEF DispatchInv, Good, Outcome, DurableAsAnswered
<1> QED
  BY <1>1, DispatchInvInductive, PTL
=============================================================================
