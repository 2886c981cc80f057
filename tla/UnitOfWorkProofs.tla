-------------------------- MODULE UnitOfWorkProofs --------------------------
(***************************************************************************)
(* Proofs about UnitOfWork, for any set of units, any number of handlers   *)
(* and any bounds.  TypeInv types the variables, DispatchInv strengthens   *)
(* DispatchAfterCommit until every step preserves it, HandlerInv does so   *)
(* for HandlersBeforeKafka, and OrderInv for PublishedInOrder.  From these *)
(* follow what a normal return of commit() means, what a unit that gave up *)
(* can still do, and that the unit of work implements EventLog.            *)
(***************************************************************************)
EXTENDS UnitOfWork, SequenceTheorems, TLAPS

\* While a batch is being published its position is inside the batch.
BatchPosition ==
    \A u \in Uow : pc[u] \in {"dispatch", "send"} => next[u] \in 1..Len(pending[u])

TypeInv == TypeOK /\ BatchPosition

\* What ties a unit's events to its durable changes: a unit dispatches only
\* when all it staged is durable, and holds events of staged changes only.
UnitDispatch(u) ==
    /\ durable[u] <= staged[u]
    /\ pc[u] \in {"committed", "dispatch", "send"} => staged[u] = durable[u]
    /\ pc[u] \in {"body", "commit", "committed", "dispatch", "send"} =>
          pending[u] \in Seq(1..staged[u])
    /\ uncollected[u] \in Seq(1..changes[u])
    /\ sending[u] <= durable[u]

DispatchInv == (\A u \in Uow : UnitDispatch(u)) /\ DispatchAfterCommit

\* Every handler was called with event i of unit u.
Handled(u, i) == \A h \in 1..NumHandlers : Call(u, i, h) \in attempted

\* How far the handlers have got with the event at hand.
UnitHandled(u) ==
    /\ pc[u] = "dispatch" =>
          \A h \in 1..sub[u] : Call(u, pending[u][next[u]], h) \in attempted
    /\ sending[u] # 0 => Handled(u, sending[u])

HandlerInv == (\A u \in Uow : UnitHandled(u)) /\ HandlersBeforeKafka

-----------------------------------------------------------------------------

\* The types of one unit's variables.
LEMMA UnitTypes ==
    ASSUME TypeOK, NEW u \in Uow
    PROVE  /\ changes[u] \in Nat /\ staged[u] \in Nat /\ durable[u] \in Nat
           /\ sending[u] \in Nat /\ next[u] \in Nat
           /\ sub[u] \in 0..NumHandlers /\ copies[u] \in 0..MaxCopies
           /\ pending[u] \in Seq(1..MaxChanges)
           /\ uncollected[u] \in Seq(1..MaxChanges)
BY NumHandlersAssumption, BoundsAssumption DEF TypeOK

LEMMA IncrementBelow == \A m, n \in Nat : m < n => m + 1 \in 1..n /\ m + 1 \in 0..n
OBVIOUS

\* The event publish_many is at.
LEMMA CurrentEvent ==
    ASSUME TypeInv, NEW u \in Uow, pc[u] \in {"dispatch", "send"}
    PROVE  pending[u][next[u]] \in 1..MaxChanges
<1>1. next[u] \in 1..Len(pending[u])
  BY DEF TypeInv, BatchPosition
<1>2. pending[u] \in Seq(1..MaxChanges)
  BY UnitTypes DEF TypeInv
<1> QED
  BY <1>1, <1>2, ElementOfSeq

LEMMA ChangeTypes ==
    ASSUME TypeInv, NEW u \in Uow, Change(u)
    PROVE  TypeInv'
<1> DEFINE i == changes[u] + 1
<1>1. i \in 1..MaxChanges /\ i \in 0..MaxChanges
  <2>1. changes[u] \in Nat /\ changes[u] < MaxChanges
    BY UnitTypes DEF Change, TypeInv
  <2> QED
    BY <2>1, BoundsAssumption, IncrementBelow
<1>2. /\ changes' = [changes EXCEPT ![u] = i]
      /\ changes'[u] = i
  BY DEF Change, TypeInv, TypeOK
<1> HIDE DEF i
<1>3. changes' \in [Uow -> 0..MaxChanges]
  BY <1>1, <1>2 DEF TypeInv, TypeOK
<1>4. raised' \in [Uow -> SUBSET (1..MaxChanges)]
  <2>1. raised \in [Uow -> SUBSET (1..MaxChanges)]
    BY DEF TypeInv, TypeOK
  <2>2. raised' = raised \/ raised' = [raised EXCEPT ![u] = @ \cup {i}]
    BY <1>2 DEF Change
  <2> QED
    BY <1>1, <2>1, <2>2
<1>5. uncollected' \in [Uow -> Seq(1..MaxChanges)]
  <2>1. uncollected \in [Uow -> Seq(1..MaxChanges)]
    BY DEF TypeInv, TypeOK
  <2>2. uncollected' = uncollected \/ uncollected' = [uncollected EXCEPT ![u] = Append(uncollected[u], i)]
    BY <1>2 DEF Change
  <2>3. Append(uncollected[u], i) \in Seq(1..MaxChanges)
    BY <1>1, <2>1, AppendProperties
  <2> QED
    BY <2>1, <2>2, <2>3
<1>6. TypeOK'
  BY <1>3, <1>4, <1>5 DEF Change, TypeInv, TypeOK, busVars
<1>7. BatchPosition'
  BY DEF Change, TypeInv, BatchPosition, busVars
<1> QED
  BY <1>6, <1>7 DEF TypeInv

LEMMA HandleInProcessTypes ==
    ASSUME TypeInv, NEW u \in Uow, HandleInProcess(u)
    PROVE  TypeInv'
<1> DEFINE n == sub[u] + 1
           i == pending[u][next[u]]
<1>1. n \in 1..NumHandlers /\ n \in 0..NumHandlers
  <2>1. sub[u] \in Nat /\ sub[u] < NumHandlers
    BY UnitTypes DEF HandleInProcess, TypeInv
  <2> QED
    BY <2>1, NumHandlersAssumption, IncrementBelow
<1>2. i \in 1..MaxChanges
  BY CurrentEvent DEF HandleInProcess
<1>3. /\ sub' = [sub EXCEPT ![u] = n]
      /\ attempted' = attempted \cup {Call(u, i, n)}
  BY DEF HandleInProcess
<1> HIDE DEF n, i
<1>4. sub' \in [Uow -> 0..NumHandlers]
  BY <1>1, <1>3 DEF TypeInv, TypeOK
<1>5. attempted' \subseteq [uow : Uow, change : 1..MaxChanges, handler : 1..NumHandlers]
  <2>1. attempted \subseteq [uow : Uow, change : 1..MaxChanges, handler : 1..NumHandlers]
    BY DEF TypeInv, TypeOK
  <2>2. Call(u, i, n) \in [uow : Uow, change : 1..MaxChanges, handler : 1..NumHandlers]
    BY <1>1, <1>2 DEF Call
  <2> QED
    BY <1>3, <2>1, <2>2
<1>6. TypeOK'
  BY <1>4, <1>5 DEF HandleInProcess, TypeInv, TypeOK, unitVars
<1>7. BatchPosition'
  BY DEF HandleInProcess, TypeInv, BatchPosition, unitVars
<1> QED
  BY <1>6, <1>7 DEF TypeInv

LEMMA SendToKafkaTypes ==
    ASSUME TypeInv, NEW u \in Uow, SendToKafka(u)
    PROVE  TypeInv'
<1> DEFINE i == pending[u][next[u]]
<1>1. i \in 0..MaxChanges
  <2>1. i \in 1..MaxChanges
    BY CurrentEvent DEF SendToKafka
  <2> QED
    BY <2>1
<1>2. /\ sending' = [sending EXCEPT ![u] = i]
      /\ copies' = [copies EXCEPT ![u] = 0]
      /\ pc' = [pc EXCEPT ![u] = "send"]
      /\ pc[u] = "dispatch"
  BY DEF SendToKafka, Goto
<1> HIDE DEF i
<1>3. sending' \in [Uow -> 0..MaxChanges]
  BY <1>1, <1>2 DEF TypeInv, TypeOK
<1>4. copies' \in [Uow -> 0..MaxCopies]
  BY <1>2, BoundsAssumption DEF TypeInv, TypeOK
<1>5. pc' \in [Uow -> PcStates]
  BY <1>2 DEF TypeInv, TypeOK, PcStates
<1>6. TypeOK'
  BY <1>3, <1>4, <1>5 DEF SendToKafka, TypeInv, TypeOK, unitVars
<1>7. BatchPosition'
  BY <1>2 DEF SendToKafka, TypeInv, TypeOK, BatchPosition, unitVars
<1> QED
  BY <1>6, <1>7 DEF TypeInv

LEMMA BrokerAppendsTypes ==
    ASSUME TypeInv, NEW u \in Uow, BrokerAppends(u)
    PROVE  TypeInv'
<1> DEFINE n == copies[u] + 1
           e == Event(u, sending[u])
           Events == [uow : Uow, change : 1..MaxChanges]
<1>1. n \in 0..MaxCopies
  <2>1. copies[u] \in Nat /\ copies[u] < MaxCopies
    BY UnitTypes DEF BrokerAppends, TypeInv
  <2> QED
    BY <2>1, BoundsAssumption, IncrementBelow
<1>2. e \in Events
  <2>1. sending[u] \in 1..MaxChanges
    BY DEF BrokerAppends, TypeInv, TypeOK
  <2> QED
    BY <2>1 DEF Event
<1>3. copies' = [copies EXCEPT ![u] = n] /\ topic' = Append(topic, e)
  BY DEF BrokerAppends
<1>4. topic \in Seq(Events)
  BY DEF TypeInv, TypeOK
<1> HIDE DEF n, e, Events
<1>5. copies' \in [Uow -> 0..MaxCopies]
  BY <1>1, <1>3 DEF TypeInv, TypeOK
<1>6. topic' \in Seq(Events)
  BY <1>2, <1>3, <1>4, AppendProperties
<1>7. TypeOK'
  BY <1>5, <1>6 DEF BrokerAppends, TypeInv, TypeOK, unitVars, Events
<1>8. BatchPosition'
  BY DEF BrokerAppends, TypeInv, BatchPosition, unitVars
<1> QED
  BY <1>7, <1>8 DEF TypeInv

LEMMA SendAcknowledgedTypes ==
    ASSUME TypeInv, NEW u \in Uow, SendAcknowledged(u)
    PROVE  TypeInv'
<1> DEFINE n == next[u] + 1
<1>1. n \in 1..Len(pending[u]) /\ n \in Nat \ {0}
  <2>1. next[u] \in Nat /\ Len(pending[u]) \in Nat /\ next[u] < Len(pending[u])
    BY UnitTypes, LenProperties DEF SendAcknowledged, TypeInv
  <2> QED
    BY <2>1, IncrementBelow
<1>2. /\ next' = [next EXCEPT ![u] = n]
      /\ sub' = [sub EXCEPT ![u] = 0]
      /\ sending' = [sending EXCEPT ![u] = 0]
      /\ pc' = [pc EXCEPT ![u] = "dispatch"]
      /\ pending' = pending
  BY DEF SendAcknowledged, Goto, unitVars
<1> HIDE DEF n
<1>3. next' \in [Uow -> Nat \ {0}]
  BY <1>1, <1>2 DEF TypeInv, TypeOK
<1>4. sub' \in [Uow -> 0..NumHandlers]
  BY <1>2, NumHandlersAssumption DEF TypeInv, TypeOK
<1>5. sending' \in [Uow -> 0..MaxChanges]
  BY <1>2, BoundsAssumption DEF TypeInv, TypeOK
<1>6. pc' \in [Uow -> PcStates]
  BY <1>2 DEF TypeInv, TypeOK, PcStates
<1>7. TypeOK'
  BY <1>3, <1>4, <1>5, <1>6 DEF SendAcknowledged, TypeInv, TypeOK, unitVars
<1>8. BatchPosition'
  <2>1. ASSUME NEW v \in Uow, pc'[v] \in {"dispatch", "send"}
        PROVE  next'[v] \in 1..Len(pending[v])
    <3>1. CASE v = u
      BY <1>1, <1>2, <3>1 DEF TypeInv, TypeOK
    <3>2. CASE v # u
      BY <1>2, <2>1, <3>2 DEF TypeInv, TypeOK, BatchPosition
    <3> QED
      BY <3>1, <3>2
  <2> QED
    BY <1>2, <2>1 DEF BatchPosition
<1> QED
  BY <1>7, <1>8 DEF TypeInv

\* The variables always have their types, and publish_many never indexes
\* outside the list it iterates over.
THEOREM TypeCorrect == Spec => []TypeInv
<1>1. Init => TypeInv
  BY NumHandlersAssumption, BoundsAssumption
     DEF Init, TypeInv, TypeOK, BatchPosition, PcStates
<1>2. TypeInv /\ [Next]_vars => TypeInv'
  <2> SUFFICES ASSUME TypeInv, [Next]_vars
               PROVE  TypeInv'
    OBVIOUS
  <2> USE NumHandlersAssumption, BoundsAssumption
      DEF TypeInv, TypeOK, BatchPosition, PcStates, Goto, unitVars, busVars
  <2>1. ASSUME NEW u \in Uow, Enter(u) PROVE TypeInv'
    <3>1. pc' \in [Uow -> PcStates]
      BY <2>1 DEF Enter
    <3>2. pending' \in [Uow -> Seq(1..MaxChanges)]
      BY <2>1 DEF Enter
    <3>3. TypeOK'
      BY <2>1, <3>1, <3>2 DEF Enter
    <3>4. BatchPosition'
      BY <2>1, <3>1, <3>2 DEF Enter
    <3> QED
      BY <3>3, <3>4
  <2>2. ASSUME NEW u \in Uow, Change(u) PROVE TypeInv'
    BY <2>2, ChangeTypes
  <2>3. ASSUME NEW u \in Uow, Persist(u) PROVE TypeInv'
    <3>1. staged' \in [Uow -> 0..MaxChanges]
      BY <2>3 DEF Persist, Collect
    <3>2. pending' \in [Uow -> Seq(1..MaxChanges)]
      BY <2>3 DEF Persist, Collect
    <3>3. uncollected' \in [Uow -> Seq(1..MaxChanges)]
      BY <2>3 DEF Persist, Collect
    <3>4. TypeOK'
      BY <2>3, <3>1, <3>2, <3>3 DEF Persist, Collect
    <3>5. BatchPosition'
      BY <2>3, <3>1, <3>2, <3>3 DEF Persist, Collect
    <3> QED
      BY <3>4, <3>5
  <2>4. ASSUME NEW u \in Uow, CallCommit(u) PROVE TypeInv'
    <3>1. TypeOK'
      BY <2>4 DEF CallCommit
    <3>2. BatchPosition'
      BY <2>4 DEF CallCommit
    <3> QED
      BY <3>1, <3>2
  <2>5. ASSUME NEW u \in Uow, RaiseInBody(u) PROVE TypeInv'
    <3>1. TypeOK'
      BY <2>5 DEF RaiseInBody
    <3>2. BatchPosition'
      BY <2>5 DEF RaiseInBody
    <3> QED
      BY <3>1, <3>2
  <2>6. ASSUME NEW u \in Uow, ReturnFromBody(u) PROVE TypeInv'
    <3>1. TypeOK'
      BY <2>6 DEF ReturnFromBody
    <3>2. BatchPosition'
      BY <2>6 DEF ReturnFromBody
    <3> QED
      BY <3>1, <3>2
  <2>7. ASSUME NEW u \in Uow, DatabaseCommits(u) PROVE TypeInv'
    <3>1. TypeOK'
      BY <2>7 DEF DatabaseCommits
    <3>2. BatchPosition'
      BY <2>7 DEF DatabaseCommits
    <3> QED
      BY <3>1, <3>2
  <2>8. ASSUME NEW u \in Uow, CommitReturns(u) PROVE TypeInv'
    <3>1. TypeOK'
      BY <2>8 DEF CommitReturns
    <3>2. BatchPosition'
      BY <2>8 DEF CommitReturns
    <3> QED
      BY <3>1, <3>2
  <2>9. ASSUME NEW u \in Uow, StartDispatch(u) PROVE TypeInv'
    <3>1. pc' \in [Uow -> PcStates]
      BY <2>9 DEF StartDispatch
    <3>2. next' \in [Uow -> Nat \ {0}]
      BY <2>9 DEF StartDispatch
    <3>3. sub' \in [Uow -> 0..NumHandlers]
      BY <2>9 DEF StartDispatch
    <3>4. TypeOK'
      BY <2>9, <3>1, <3>2, <3>3 DEF StartDispatch
    <3>5. BatchPosition'
      <4>1. 1 \in 1..Len(pending[u])
        BY <2>9, EmptySeq DEF StartDispatch
      <4>2. next' = [next EXCEPT ![u] = 1] /\ pc' = [pc EXCEPT ![u] = "dispatch"]
        BY <2>9 DEF StartDispatch
      <4>3. pending' = pending
        BY <2>9 DEF StartDispatch
      <4> QED
        BY <4>1, <4>2, <4>3
    <3> QED
      BY <3>4, <3>5
  <2>10. ASSUME NEW u \in Uow, HandleInProcess(u) PROVE TypeInv'
    BY <2>10, HandleInProcessTypes
  <2>11. ASSUME NEW u \in Uow, SendToKafka(u) PROVE TypeInv'
    BY <2>11, SendToKafkaTypes
  <2>12. ASSUME NEW u \in Uow, BrokerAppends(u) PROVE TypeInv'
    BY <2>12, BrokerAppendsTypes
  <2>13. ASSUME NEW u \in Uow, SendAcknowledged(u) PROVE TypeInv'
    BY <2>13, SendAcknowledgedTypes
  <2>14. ASSUME NEW u \in Uow, BatchPublished(u) PROVE TypeInv'
    <3>1. pc' \in [Uow -> PcStates]
      BY <2>14 DEF BatchPublished
    <3>2. sending' \in [Uow -> 0..MaxChanges]
      BY <2>14 DEF BatchPublished
    <3>3. pending' \in [Uow -> Seq(1..MaxChanges)]
      BY <2>14 DEF BatchPublished
    <3>4. confirmed' \in [Uow -> 0..MaxChanges]
      BY <2>14 DEF BatchPublished
    <3>5. TypeOK'
      BY <2>14, <3>1, <3>2, <3>3, <3>4 DEF BatchPublished
    <3>6. BatchPosition'
      BY <2>14, <3>1, <3>2, <3>3, <3>4 DEF BatchPublished
    <3> QED
      BY <3>5, <3>6
  <2>15. ASSUME NEW u \in Uow, RollbackInCommit(u) PROVE TypeInv'
    <3>1. pc' \in [Uow -> PcStates]
      BY <2>15 DEF RollbackInCommit, Discard
    <3>2. staged' \in [Uow -> 0..MaxChanges]
      BY <2>15 DEF RollbackInCommit, Discard
    <3>3. pending' \in [Uow -> Seq(1..MaxChanges)]
      BY <2>15 DEF RollbackInCommit, Discard
    <3>4. TypeOK'
      BY <2>15, <3>1, <3>2, <3>3 DEF RollbackInCommit, Discard
    <3>5. BatchPosition'
      BY <2>15, <3>1, <3>2, <3>3 DEF RollbackInCommit, Discard
    <3> QED
      BY <3>4, <3>5
  <2>16. ASSUME NEW u \in Uow, RollbackInExit(u) PROVE TypeInv'
    <3>1. pc' \in [Uow -> PcStates]
      BY <2>16 DEF RollbackInExit, Discard
    <3>2. staged' \in [Uow -> 0..MaxChanges]
      BY <2>16 DEF RollbackInExit, Discard
    <3>3. pending' \in [Uow -> Seq(1..MaxChanges)]
      BY <2>16 DEF RollbackInExit, Discard
    <3>4. TypeOK'
      BY <2>16, <3>1, <3>2, <3>3 DEF RollbackInExit, Discard
    <3>5. BatchPosition'
      BY <2>16, <3>1, <3>2, <3>3 DEF RollbackInExit, Discard
    <3> QED
      BY <3>4, <3>5
  <2>17. ASSUME NEW u \in Uow, Close(u) PROVE TypeInv'
    <3>1. TypeOK'
      BY <2>17 DEF Close
    <3>2. BatchPosition'
      BY <2>17 DEF Close
    <3> QED
      BY <3>1, <3>2
  <2>18. ASSUME NEW u \in Uow, CommitFails(u) PROVE TypeInv'
    <3>1. pc' \in [Uow -> PcStates]
      BY <2>18 DEF CommitFails, Fault
    <3>2. faults' \in 0..MaxFaults
      BY <2>18 DEF CommitFails, Fault
    <3>3. TypeOK'
      BY <2>18, <3>1, <3>2 DEF CommitFails, Fault
    <3>4. BatchPosition'
      BY <2>18, <3>1, <3>2 DEF CommitFails, Fault
    <3> QED
      BY <3>3, <3>4
  <2>19. ASSUME NEW u \in Uow, SendFails(u) PROVE TypeInv'
    <3>1. pc' \in [Uow -> PcStates]
      BY <2>19 DEF SendFails, Fault
    <3>2. faults' \in 0..MaxFaults
      BY <2>19 DEF SendFails, Fault
    <3>3. TypeOK'
      BY <2>19, <3>1, <3>2 DEF SendFails, Fault
    <3>4. BatchPosition'
      BY <2>19, <3>1, <3>2 DEF SendFails, Fault
    <3> QED
      BY <3>3, <3>4
  <2>20. ASSUME NEW u \in Uow, RollbackFails(u) PROVE TypeInv'
    <3>1. pc' \in [Uow -> PcStates]
      BY <2>20 DEF RollbackFails, Fault
    <3>2. faults' \in 0..MaxFaults
      BY <2>20 DEF RollbackFails, Fault
    <3>3. TypeOK'
      BY <2>20, <3>1, <3>2 DEF RollbackFails, Fault
    <3>4. BatchPosition'
      BY <2>20, <3>1, <3>2 DEF RollbackFails, Fault
    <3> QED
      BY <3>3, <3>4
  <2>21. ASSUME NEW u \in Uow, Cancel(u) PROVE TypeInv'
    <3>1. pc' \in [Uow -> PcStates]
      BY <2>21 DEF Cancel, Fault, Ended
    <3>2. faults' \in 0..MaxFaults
      BY <2>21 DEF Cancel, Fault, Ended
    <3>3. TypeOK'
      BY <2>21, <3>1, <3>2 DEF Cancel, Fault, Ended
    <3>4. BatchPosition'
      BY <2>21, <3>1, <3>2 DEF Cancel, Fault, Ended
    <3> QED
      BY <3>3, <3>4
  <2>22. CASE Crash
    <3>1. pc' \in [Uow -> PcStates]
      BY <2>22 DEF Crash, Fault, Ended
    <3>2. faults' \in 0..MaxFaults
      BY <2>22 DEF Crash, Fault, Ended
    <3>3. TypeOK'
      BY <2>22, <3>1, <3>2 DEF Crash, Fault, Ended
    <3>4. BatchPosition'
      BY <2>22, <3>1, <3>2 DEF Crash, Fault, Ended
    <3> QED
      BY <3>3, <3>4
  <2>23. CASE UNCHANGED vars
    BY <2>23 DEF vars
  <2> QED
    BY <2>1, <2>2, <2>3, <2>4, <2>5, <2>6, <2>7, <2>8, <2>9, <2>10, <2>11, <2>12, <2>13, <2>14, <2>15, <2>16, <2>17, <2>18, <2>19, <2>20, <2>21, <2>22, <2>23
       DEF Next, Step, Failure
<1> QED
  BY <1>1, <1>2, PTL DEF Spec

-----------------------------------------------------------------------------

LEMMA SeqWidens ==
    ASSUME NEW m \in Nat, NEW n \in Nat, m <= n, NEW s \in Seq(1..m)
    PROVE  s \in Seq(1..n)
BY SeqMonotonic, 1..m \subseteq 1..n

\* A change in memory does not touch what is staged, durable or sent.
LEMMA ChangeDispatch ==
    ASSUME TypeInv, DispatchInv, NEW u \in Uow, Change(u)
    PROVE  DispatchInv'
<1>1. /\ changes' = [changes EXCEPT ![u] = @ + 1]
      /\ UNCHANGED <<pc, pending, staged, durable, sending, topic, attempted>>
  BY DEF Change, busVars
<1>2. ASSUME NEW v \in Uow PROVE UnitDispatch(v)'
  <2>1. UnitDispatch(v)
    BY DEF DispatchInv
  <2>2. changes[v] \in Nat /\ changes'[v] \in Nat /\ changes[v] <= changes'[v]
    <3>1. changes'[v] = IF v = u THEN changes[u] + 1 ELSE changes[v]
      BY <1>1 DEF TypeInv, TypeOK
    <3>2. changes[v] \in Nat /\ changes[u] \in Nat
      BY UnitTypes DEF TypeInv
    <3> QED
      BY <3>1, <3>2
  <2>3. uncollected[v] \in Seq(1..changes'[v])
    BY <2>1, <2>2, SeqWidens DEF UnitDispatch
  <2>4. uncollected'[v] \in Seq(1..changes'[v])
    <3>1. CASE uncollected' = uncollected
      BY <2>3, <3>1
    <3>2. CASE uncollected' = [uncollected EXCEPT ![u] = Append(@, changes'[u])]
      <4>1. CASE v # u
        BY <2>3, <3>2, <4>1
      <4>2. CASE v = u
        <5>1. changes'[u] \in 1..changes'[u]
          <6>1. changes'[u] = changes[u] + 1
            BY <1>1 DEF TypeInv, TypeOK
          <6>2. changes[u] \in Nat
            BY UnitTypes DEF TypeInv
          <6> QED
            BY <6>1, <6>2
        <5>2. uncollected'[u] = Append(uncollected[u], changes'[u])
          BY <3>2 DEF TypeInv, TypeOK
        <5> QED
          BY <2>3, <4>2, <5>1, <5>2, AppendProperties
      <4> QED
        BY <4>1, <4>2
    <3> QED
      BY <3>1, <3>2 DEF Change
  <2> QED
    BY <1>1, <2>1, <2>4 DEF UnitDispatch
<1>3. DispatchAfterCommit'
  BY <1>1 DEF DispatchInv, DispatchAfterCommit
<1> QED
  BY <1>2, <1>3 DEF DispatchInv

\* What a unit collects is staged in the same step.
LEMMA PersistDispatch ==
    ASSUME TypeInv, DispatchInv, NEW u \in Uow, Persist(u)
    PROVE  DispatchInv'
<1>1. /\ pc[u] = "body" /\ staged[u] < changes[u]
      /\ staged' = [staged EXCEPT ![u] = changes[u]]
      /\ pending' = [pending EXCEPT ![u] = pending[u] \o uncollected[u]]
      /\ uncollected' = [uncollected EXCEPT ![u] = <<>>]
      /\ UNCHANGED <<pc, changes, durable, sending, topic, attempted>>
  BY DEF Persist, Collect, busVars
<1>2. ASSUME NEW v \in Uow PROVE UnitDispatch(v)'
  <2>1. UnitDispatch(v)
    BY DEF DispatchInv
  <2>2. CASE v # u
    BY <1>1, <2>1, <2>2 DEF UnitDispatch, TypeInv, TypeOK
  <2>3. CASE v = u
    <3>1. staged'[u] = changes[u] /\ changes[u] \in Nat /\ staged[u] \in Nat
      BY <1>1, UnitTypes DEF TypeInv, TypeOK
    <3>2. pending[u] \in Seq(1..changes[u])
      BY <1>1, <2>1, <2>3, <3>1, SeqWidens DEF UnitDispatch
    <3>3. uncollected[u] \in Seq(1..changes[u])
      BY <2>1, <2>3 DEF UnitDispatch
    <3>4. pending'[u] = pending[u] \o uncollected[u] /\ uncollected'[u] = <<>>
      BY <1>1 DEF TypeInv, TypeOK
    <3>5. pending'[u] \in Seq(1..staged'[u])
      BY <3>1, <3>2, <3>3, <3>4, ConcatProperties
    <3>6. durable[u] <= staged'[u] /\ sending[u] <= durable[u]
      BY <1>1, <2>1, <2>3, <3>1, UnitTypes DEF UnitDispatch, TypeInv
    <3>7. uncollected'[u] \in Seq(1..changes[u])
      BY <3>4
    <3> QED
      BY <1>1, <2>3, <3>1, <3>5, <3>6, <3>7 DEF UnitDispatch
  <2> QED
    BY <2>2, <2>3
<1>3. DispatchAfterCommit'
  BY <1>1 DEF DispatchInv, DispatchAfterCommit
<1> QED
  BY <1>2, <1>3 DEF DispatchInv

\* The database only ever makes more changes durable.
LEMMA DatabaseCommitsDispatch ==
    ASSUME TypeInv, DispatchInv, NEW u \in Uow, DatabaseCommits(u)
    PROVE  DispatchInv'
<1>1. /\ pc[u] = "commit" /\ pc' = [pc EXCEPT ![u] = "committed"]
      /\ durable' = [durable EXCEPT ![u] = staged[u]]
      /\ UNCHANGED <<pending, uncollected, changes, staged, sending, topic, attempted>>
  BY DEF DatabaseCommits, Goto, unitVars, busVars
<1>2. ASSUME NEW v \in Uow
      PROVE  durable[v] \in Nat /\ durable'[v] \in Nat /\ durable[v] <= durable'[v]
  <2>1. durable'[v] = IF v = u THEN staged[u] ELSE durable[v]
    BY <1>1 DEF TypeInv, TypeOK
  <2>2. durable[v] \in Nat /\ staged[u] \in Nat
    BY UnitTypes DEF TypeInv
  <2>3. durable[u] <= staged[u]
    BY DEF DispatchInv, UnitDispatch
  <2> QED
    BY <2>1, <2>2, <2>3
<1>3. ASSUME NEW v \in Uow PROVE UnitDispatch(v)'
  <2>1. UnitDispatch(v)
    BY DEF DispatchInv
  <2>2. CASE v # u
    BY <1>1, <2>1, <2>2 DEF UnitDispatch, TypeInv, TypeOK
  <2>3. CASE v = u
    <3>1. durable'[u] = staged[u] /\ pc'[u] = "committed"
      BY <1>1 DEF TypeInv, TypeOK
    <3>2. sending[u] <= staged[u]
      BY <2>1, <2>3, UnitTypes DEF UnitDispatch, TypeInv
    <3>3. staged[u] \in Nat
      BY UnitTypes DEF TypeInv
    <3> QED
      BY <1>1, <2>1, <2>3, <3>1, <3>2, <3>3 DEF UnitDispatch
  <2> QED
    BY <2>2, <2>3
<1>4. ASSUME NEW k \in DOMAIN topic PROVE topic[k].change <= durable'[topic[k].uow]
  <2>1. topic[k].uow \in Uow /\ topic[k].change \in Nat
    <3> DEFINE Events == [uow : Uow, change : 1..MaxChanges]
    <3>1. topic[k] \in Events
      <4>1. topic \in Seq(Events)
        BY DEF TypeInv, TypeOK
      <4> HIDE DEF Events
      <4>2. k \in 1..Len(topic)
        BY <1>4, <4>1, LenProperties
      <4> QED
        BY <4>1, <4>2, ElementOfSeq
    <3> QED
      BY <3>1
  <2>2. topic[k].change <= durable[topic[k].uow]
    BY <1>4 DEF DispatchInv, DispatchAfterCommit
  <2> QED
    BY <1>2, <2>1, <2>2
<1>5. ASSUME NEW c \in attempted PROVE c.change <= durable'[c.uow]
  <2>1. c.uow \in Uow /\ c.change \in Nat
    <3>1. c \in [uow : Uow, change : 1..MaxChanges, handler : 1..NumHandlers]
      BY <1>5 DEF TypeInv, TypeOK
    <3> QED
      BY <3>1
  <2>2. c.change <= durable[c.uow]
    BY <1>5 DEF DispatchInv, DispatchAfterCommit
  <2> QED
    BY <1>2, <2>1, <2>2
<1> QED
  BY <1>1, <1>3, <1>4, <1>5 DEF DispatchInv, DispatchAfterCommit

\* The broker adds exactly the event in the producer's hands, at the end.
LEMMA TopicGrows ==
    ASSUME TypeInv, NEW u \in Uow, BrokerAppends(u)
    PROVE  /\ Len(topic) \in Nat
           /\ DOMAIN topic = 1..Len(topic)
           /\ DOMAIN topic' = 1..(Len(topic) + 1)
           /\ \A k \in 1..Len(topic) : topic'[k] = topic[k]
           /\ topic'[Len(topic) + 1] = Event(u, sending[u])
<1> DEFINE e == Event(u, sending[u])
<1> DEFINE Events == [uow : Uow, change : 1..MaxChanges]
<1>1. topic' = Append(topic, e)
  BY DEF BrokerAppends
<1>2. e \in Events
  BY DEF BrokerAppends, Event, TypeInv, TypeOK
<1>3. topic \in Seq(Events)
  BY DEF TypeInv, TypeOK
<1> HIDE DEF e, Events
<1> QED
  BY <1>1, <1>2, <1>3, AppendProperties, LenProperties DEF e

LEMMA IntervalGrows == \A n \in Nat : \A h \in 1..(n + 1) : h \in 1..n \/ h = n + 1
OBVIOUS

\* What the producer holds is durable already, however late it is appended.
LEMMA BrokerAppendsDispatch ==
    ASSUME TypeInv, DispatchInv, NEW u \in Uow, BrokerAppends(u)
    PROVE  DispatchInv'
<1> DEFINE e == Event(u, sending[u])
<1>1. UNCHANGED <<pc, changes, uncollected, pending, staged, durable, sending, attempted>>
  BY DEF BrokerAppends, unitVars
<1>2. e.uow = u /\ e.change <= durable[u]
  BY DEF DispatchInv, UnitDispatch, Event
<1> HIDE DEF e
<1>5. /\ Len(topic) \in Nat
      /\ DOMAIN topic = 1..Len(topic) /\ DOMAIN topic' = 1..(Len(topic) + 1)
      /\ \A k \in 1..Len(topic) : topic'[k] = topic[k]
      /\ topic'[Len(topic) + 1] = e
  BY TopicGrows DEF e
<1>6. ASSUME NEW k \in DOMAIN topic' PROVE topic'[k].change <= durable[topic'[k].uow]
  <2>1. CASE k \in DOMAIN topic
    BY <1>5, <2>1 DEF DispatchInv, DispatchAfterCommit
  <2>2. CASE k = Len(topic) + 1
    <3>1. topic'[k] = e
      BY <1>5, <2>2
    <3> QED
      BY <1>2, <3>1
  <2> QED
    BY <1>5, <2>1, <2>2
<1>7. ASSUME NEW v \in Uow PROVE UnitDispatch(v)'
  BY <1>1 DEF DispatchInv, UnitDispatch
<1> QED
  BY <1>1, <1>6, <1>7 DEF DispatchInv, DispatchAfterCommit

\* The event at hand is one of a durable change.
LEMMA DispatchingDurable ==
    ASSUME TypeInv, DispatchInv, NEW u \in Uow, pc[u] \in {"dispatch", "send"}
    PROVE  pending[u][next[u]] \in 1..durable[u]
<1>1. next[u] \in 1..Len(pending[u])
  BY DEF TypeInv, BatchPosition
<1>2. pending[u] \in Seq(1..durable[u])
  BY DEF DispatchInv, UnitDispatch
<1> QED
  BY <1>1, <1>2, ElementOfSeq

LEMMA HandleInProcessDispatch ==
    ASSUME TypeInv, DispatchInv, NEW u \in Uow, HandleInProcess(u)
    PROVE  DispatchInv'
<1> DEFINE c == Call(u, pending[u][next[u]], sub[u] + 1)
<1>1. c.uow = u /\ c.change <= durable[u]
  BY DispatchingDurable DEF HandleInProcess, Call
<1>2. /\ attempted' = attempted \cup {c}
      /\ UNCHANGED <<pc, changes, uncollected, pending, staged, durable, sending, topic>>
  BY DEF HandleInProcess, unitVars
<1> HIDE DEF c
<1> QED
  BY <1>1, <1>2 DEF DispatchInv, UnitDispatch, DispatchAfterCommit

LEMMA SendToKafkaDispatch ==
    ASSUME TypeInv, DispatchInv, NEW u \in Uow, SendToKafka(u)
    PROVE  DispatchInv'
<1> DEFINE i == pending[u][next[u]]
<1>1. i <= durable[u]
  BY DispatchingDurable DEF SendToKafka
<1>2. /\ pc[u] = "dispatch"
      /\ pc' = [pc EXCEPT ![u] = "send"]
      /\ sending' = [sending EXCEPT ![u] = i]
      /\ UNCHANGED <<changes, uncollected, pending, staged, durable, topic, attempted>>
  BY DEF SendToKafka, Goto, unitVars
<1> HIDE DEF i
<1>3. ASSUME NEW v \in Uow PROVE UnitDispatch(v)'
  <2>1. CASE v # u
    BY <1>2, <1>3, <2>1 DEF DispatchInv, UnitDispatch, TypeInv, TypeOK
  <2>2. CASE v = u
    BY <1>1, <1>2, <2>2 DEF DispatchInv, UnitDispatch, TypeInv, TypeOK
  <2> QED
    BY <2>1, <2>2
<1> QED
  BY <1>2, <1>3 DEF DispatchInv, DispatchAfterCommit

LEMMA AlwaysDispatchInv == Spec => []DispatchInv
<1>1. Init => DispatchInv
  BY BoundsAssumption DEF Init, DispatchInv, UnitDispatch, DispatchAfterCommit
<1>2. TypeInv /\ DispatchInv /\ [Next]_vars => DispatchInv'
  <2> SUFFICES ASSUME TypeInv, DispatchInv, [Next]_vars
               PROVE  DispatchInv'
    OBVIOUS
  <2> USE NumHandlersAssumption, BoundsAssumption
      DEF TypeInv, TypeOK, BatchPosition, DispatchInv, Goto, unitVars, busVars
  <2>1. ASSUME NEW u \in Uow, Enter(u) PROVE DispatchInv'
    <3>1. ASSUME NEW v \in Uow PROVE UnitDispatch(v)'
      <4>1. CASE v # u
        BY <2>1, <3>1, <4>1 DEF Enter, UnitDispatch
      <4>2. CASE v = u
        BY <2>1, <4>2 DEF Enter, UnitDispatch
      <4> QED
        BY <4>1, <4>2
    <3>2. DispatchAfterCommit'
      BY <2>1 DEF Enter, UnitDispatch, DispatchAfterCommit
    <3> QED
      BY <3>1, <3>2
  <2>2. ASSUME NEW u \in Uow, Change(u) PROVE DispatchInv'
    BY <2>2, ChangeDispatch
  <2>3. ASSUME NEW u \in Uow, Persist(u) PROVE DispatchInv'
    BY <2>3, PersistDispatch
  <2>4. ASSUME NEW u \in Uow, CallCommit(u) PROVE DispatchInv'
    <3>1. ASSUME NEW v \in Uow PROVE UnitDispatch(v)'
      BY <2>4, <3>1 DEF CallCommit, UnitDispatch
    <3>2. DispatchAfterCommit'
      BY <2>4 DEF CallCommit, UnitDispatch, DispatchAfterCommit
    <3> QED
      BY <3>1, <3>2
  <2>5. ASSUME NEW u \in Uow, RaiseInBody(u) PROVE DispatchInv'
    <3>1. ASSUME NEW v \in Uow PROVE UnitDispatch(v)'
      BY <2>5, <3>1 DEF RaiseInBody, UnitDispatch
    <3>2. DispatchAfterCommit'
      BY <2>5 DEF RaiseInBody, UnitDispatch, DispatchAfterCommit
    <3> QED
      BY <3>1, <3>2
  <2>6. ASSUME NEW u \in Uow, ReturnFromBody(u) PROVE DispatchInv'
    <3>1. ASSUME NEW v \in Uow PROVE UnitDispatch(v)'
      BY <2>6, <3>1 DEF ReturnFromBody, UnitDispatch
    <3>2. DispatchAfterCommit'
      BY <2>6 DEF ReturnFromBody, UnitDispatch, DispatchAfterCommit
    <3> QED
      BY <3>1, <3>2
  <2>7. ASSUME NEW u \in Uow, DatabaseCommits(u) PROVE DispatchInv'
    BY <2>7, DatabaseCommitsDispatch
  <2>8. ASSUME NEW u \in Uow, CommitReturns(u) PROVE DispatchInv'
    <3>1. ASSUME NEW v \in Uow PROVE UnitDispatch(v)'
      BY <2>8, <3>1 DEF CommitReturns, UnitDispatch
    <3>2. DispatchAfterCommit'
      BY <2>8 DEF CommitReturns, UnitDispatch, DispatchAfterCommit
    <3> QED
      BY <3>1, <3>2
  <2>9. ASSUME NEW u \in Uow, StartDispatch(u) PROVE DispatchInv'
    <3>1. ASSUME NEW v \in Uow PROVE UnitDispatch(v)'
      BY <2>9, <3>1 DEF StartDispatch, UnitDispatch
    <3>2. DispatchAfterCommit'
      BY <2>9 DEF StartDispatch, UnitDispatch, DispatchAfterCommit
    <3> QED
      BY <3>1, <3>2
  <2>10. ASSUME NEW u \in Uow, HandleInProcess(u) PROVE DispatchInv'
    BY <2>10, HandleInProcessDispatch
  <2>11. ASSUME NEW u \in Uow, SendToKafka(u) PROVE DispatchInv'
    BY <2>11, SendToKafkaDispatch
  <2>12. ASSUME NEW u \in Uow, BrokerAppends(u) PROVE DispatchInv'
    BY <2>12, BrokerAppendsDispatch
  <2>13. ASSUME NEW u \in Uow, SendAcknowledged(u) PROVE DispatchInv'
    <3>1. ASSUME NEW v \in Uow PROVE UnitDispatch(v)'
      <4>1. CASE v # u
        BY <2>13, <3>1, <4>1 DEF SendAcknowledged, UnitDispatch
      <4>2. CASE v = u
        BY <2>13, <4>2 DEF SendAcknowledged, UnitDispatch
      <4> QED
        BY <4>1, <4>2
    <3>2. DispatchAfterCommit'
      BY <2>13 DEF SendAcknowledged, UnitDispatch, DispatchAfterCommit
    <3> QED
      BY <3>1, <3>2
  <2>14. ASSUME NEW u \in Uow, BatchPublished(u) PROVE DispatchInv'
    <3>1. ASSUME NEW v \in Uow PROVE UnitDispatch(v)'
      <4>1. CASE v # u
        BY <2>14, <3>1, <4>1 DEF BatchPublished, UnitDispatch
      <4>2. CASE v = u
        BY <2>14, <4>2 DEF BatchPublished, UnitDispatch
      <4> QED
        BY <4>1, <4>2
    <3>2. DispatchAfterCommit'
      BY <2>14 DEF BatchPublished, UnitDispatch, DispatchAfterCommit
    <3> QED
      BY <3>1, <3>2
  <2>15. ASSUME NEW u \in Uow, RollbackInCommit(u) PROVE DispatchInv'
    <3>1. ASSUME NEW v \in Uow PROVE UnitDispatch(v)'
      <4>1. CASE v # u
        BY <2>15, <3>1, <4>1 DEF RollbackInCommit, Discard, UnitDispatch
      <4>2. CASE v = u
        BY <2>15, <4>2 DEF RollbackInCommit, Discard, UnitDispatch
      <4> QED
        BY <4>1, <4>2
    <3>2. DispatchAfterCommit'
      BY <2>15 DEF RollbackInCommit, Discard, UnitDispatch, DispatchAfterCommit
    <3> QED
      BY <3>1, <3>2
  <2>16. ASSUME NEW u \in Uow, RollbackInExit(u) PROVE DispatchInv'
    <3>1. ASSUME NEW v \in Uow PROVE UnitDispatch(v)'
      <4>1. CASE v # u
        BY <2>16, <3>1, <4>1 DEF RollbackInExit, Discard, UnitDispatch
      <4>2. CASE v = u
        BY <2>16, <4>2 DEF RollbackInExit, Discard, UnitDispatch
      <4> QED
        BY <4>1, <4>2
    <3>2. DispatchAfterCommit'
      BY <2>16 DEF RollbackInExit, Discard, UnitDispatch, DispatchAfterCommit
    <3> QED
      BY <3>1, <3>2
  <2>17. ASSUME NEW u \in Uow, Close(u) PROVE DispatchInv'
    <3>1. ASSUME NEW v \in Uow PROVE UnitDispatch(v)'
      <4>1. CASE v # u
        BY <2>17, <3>1, <4>1 DEF Close, UnitDispatch
      <4>2. CASE v = u
        BY <2>17, <4>2 DEF Close, UnitDispatch
      <4> QED
        BY <4>1, <4>2
    <3>2. DispatchAfterCommit'
      BY <2>17 DEF Close, UnitDispatch, DispatchAfterCommit
    <3> QED
      BY <3>1, <3>2
  <2>18. ASSUME NEW u \in Uow, CommitFails(u) PROVE DispatchInv'
    <3>1. ASSUME NEW v \in Uow PROVE UnitDispatch(v)'
      BY <2>18, <3>1 DEF CommitFails, Fault, UnitDispatch
    <3>2. DispatchAfterCommit'
      BY <2>18 DEF CommitFails, Fault, UnitDispatch, DispatchAfterCommit
    <3> QED
      BY <3>1, <3>2
  <2>19. ASSUME NEW u \in Uow, SendFails(u) PROVE DispatchInv'
    <3>1. ASSUME NEW v \in Uow PROVE UnitDispatch(v)'
      BY <2>19, <3>1 DEF SendFails, Fault, UnitDispatch
    <3>2. DispatchAfterCommit'
      BY <2>19 DEF SendFails, Fault, UnitDispatch, DispatchAfterCommit
    <3> QED
      BY <3>1, <3>2
  <2>20. ASSUME NEW u \in Uow, RollbackFails(u) PROVE DispatchInv'
    <3>1. ASSUME NEW v \in Uow PROVE UnitDispatch(v)'
      BY <2>20, <3>1 DEF RollbackFails, Fault, UnitDispatch
    <3>2. DispatchAfterCommit'
      BY <2>20 DEF RollbackFails, Fault, UnitDispatch, DispatchAfterCommit
    <3> QED
      BY <3>1, <3>2
  <2>21. ASSUME NEW u \in Uow, Cancel(u) PROVE DispatchInv'
    <3>1. ASSUME NEW v \in Uow PROVE UnitDispatch(v)'
      BY <2>21, <3>1 DEF Cancel, Fault, Ended, UnitDispatch
    <3>2. DispatchAfterCommit'
      BY <2>21 DEF Cancel, Fault, Ended, UnitDispatch, DispatchAfterCommit
    <3> QED
      BY <3>1, <3>2
  <2>22. CASE Crash
    BY <2>22 DEF Crash, Fault, Ended, UnitDispatch, DispatchAfterCommit
  <2>23. CASE UNCHANGED vars
    BY <2>23 DEF vars, UnitDispatch, DispatchAfterCommit
  <2> QED
    BY <2>1, <2>2, <2>3, <2>4, <2>5, <2>6, <2>7, <2>8, <2>9, <2>10, <2>11, <2>12, <2>13, <2>14, <2>15, <2>16, <2>17, <2>18, <2>19, <2>20, <2>21, <2>22, <2>23
       DEF Next, Step, Failure
<1> QED
  BY <1>1, <1>2, TypeCorrect, PTL DEF Spec

\* No event reaches a handler or the topic before its change is durable.
THEOREM DispatchedAfterCommit == Spec => []DispatchAfterCommit
<1>1. DispatchInv => DispatchAfterCommit
  BY DEF DispatchInv
<1> QED
  BY <1>1, AlwaysDispatchInv, PTL

-----------------------------------------------------------------------------

LEMMA HandleInProcessHandled ==
    ASSUME TypeInv, HandlerInv, NEW u \in Uow, HandleInProcess(u)
    PROVE  HandlerInv'
<1> DEFINE i == pending[u][next[u]]
           n == sub[u] + 1
<1>1. /\ pc[u] = "dispatch"
      /\ attempted' = attempted \cup {Call(u, i, n)}
      /\ sub' = [sub EXCEPT ![u] = n]
      /\ UNCHANGED <<pc, pending, next, sending, topic>>
  BY DEF HandleInProcess, unitVars
<1>2. \A h \in 1..n : Call(u, i, h) \in attempted'
  <2>1. sub[u] \in Nat
    BY UnitTypes, NumHandlersAssumption DEF TypeInv
  <2>2. \A h \in 1..sub[u] : Call(u, i, h) \in attempted
    BY <1>1 DEF HandlerInv, UnitHandled
  <2> QED
    BY <1>1, <2>1, <2>2, IntervalGrows
<1>3. sub'[u] = n /\ \A v \in Uow : v # u => sub'[v] = sub[v]
  BY <1>1 DEF TypeInv, TypeOK
<1> HIDE DEF i, n
<1>4. ASSUME NEW v \in Uow PROVE UnitHandled(v)'
  <2>1. Handled(v, sending[v]) => Handled(v, sending[v])'
    BY <1>1 DEF Handled
  <2>2. CASE v # u
    BY <1>1, <1>3, <1>4, <2>1, <2>2 DEF HandlerInv, UnitHandled
  <2>3. CASE v = u
    BY <1>1, <1>2, <1>3, <2>1, <2>3 DEF HandlerInv, UnitHandled, i
  <2> QED
    BY <2>2, <2>3
<1> QED
  BY <1>1, <1>4 DEF HandlerInv, HandlersBeforeKafka

\* Kafka gets an event only after every in-process handler was called with it.
THEOREM HandledBeforeKafka == Spec => []HandlersBeforeKafka
<1>1. Init => HandlerInv
  BY DEF Init, HandlerInv, UnitHandled, HandlersBeforeKafka
<1>2. TypeInv /\ HandlerInv /\ [Next]_vars => HandlerInv'
  <2> SUFFICES ASSUME TypeInv, HandlerInv, [Next]_vars
               PROVE  HandlerInv'
    OBVIOUS
  <2> USE NumHandlersAssumption, BoundsAssumption
      DEF TypeInv, TypeOK, BatchPosition, HandlerInv, Handled, Goto, unitVars, busVars
  <2>1. ASSUME NEW u \in Uow, Enter(u) PROVE HandlerInv'
    <3>1. ASSUME NEW v \in Uow PROVE UnitHandled(v)'
      BY <2>1, <3>1 DEF Enter, UnitHandled
    <3>2. HandlersBeforeKafka'
      BY <2>1 DEF Enter, UnitHandled, HandlersBeforeKafka
    <3> QED
      BY <3>1, <3>2
  <2>2. ASSUME NEW u \in Uow, Change(u) PROVE HandlerInv'
    <3>1. ASSUME NEW v \in Uow PROVE UnitHandled(v)'
      BY <2>2, <3>1 DEF Change, UnitHandled
    <3>2. HandlersBeforeKafka'
      BY <2>2 DEF Change, UnitHandled, HandlersBeforeKafka
    <3> QED
      BY <3>1, <3>2
  <2>3. ASSUME NEW u \in Uow, Persist(u) PROVE HandlerInv'
    <3>1. ASSUME NEW v \in Uow PROVE UnitHandled(v)'
      BY <2>3, <3>1 DEF Persist, Collect, UnitHandled
    <3>2. HandlersBeforeKafka'
      BY <2>3 DEF Persist, Collect, UnitHandled, HandlersBeforeKafka
    <3> QED
      BY <3>1, <3>2
  <2>4. ASSUME NEW u \in Uow, CallCommit(u) PROVE HandlerInv'
    <3>1. ASSUME NEW v \in Uow PROVE UnitHandled(v)'
      BY <2>4, <3>1 DEF CallCommit, UnitHandled
    <3>2. HandlersBeforeKafka'
      BY <2>4 DEF CallCommit, UnitHandled, HandlersBeforeKafka
    <3> QED
      BY <3>1, <3>2
  <2>5. ASSUME NEW u \in Uow, RaiseInBody(u) PROVE HandlerInv'
    <3>1. ASSUME NEW v \in Uow PROVE UnitHandled(v)'
      BY <2>5, <3>1 DEF RaiseInBody, UnitHandled
    <3>2. HandlersBeforeKafka'
      BY <2>5 DEF RaiseInBody, UnitHandled, HandlersBeforeKafka
    <3> QED
      BY <3>1, <3>2
  <2>6. ASSUME NEW u \in Uow, ReturnFromBody(u) PROVE HandlerInv'
    <3>1. ASSUME NEW v \in Uow PROVE UnitHandled(v)'
      BY <2>6, <3>1 DEF ReturnFromBody, UnitHandled
    <3>2. HandlersBeforeKafka'
      BY <2>6 DEF ReturnFromBody, UnitHandled, HandlersBeforeKafka
    <3> QED
      BY <3>1, <3>2
  <2>7. ASSUME NEW u \in Uow, DatabaseCommits(u) PROVE HandlerInv'
    <3>1. ASSUME NEW v \in Uow PROVE UnitHandled(v)'
      BY <2>7, <3>1 DEF DatabaseCommits, UnitHandled
    <3>2. HandlersBeforeKafka'
      BY <2>7 DEF DatabaseCommits, UnitHandled, HandlersBeforeKafka
    <3> QED
      BY <3>1, <3>2
  <2>8. ASSUME NEW u \in Uow, CommitReturns(u) PROVE HandlerInv'
    <3>1. ASSUME NEW v \in Uow PROVE UnitHandled(v)'
      BY <2>8, <3>1 DEF CommitReturns, UnitHandled
    <3>2. HandlersBeforeKafka'
      BY <2>8 DEF CommitReturns, UnitHandled, HandlersBeforeKafka
    <3> QED
      BY <3>1, <3>2
  <2>9. ASSUME NEW u \in Uow, StartDispatch(u) PROVE HandlerInv'
    <3>1. ASSUME NEW v \in Uow PROVE UnitHandled(v)'
      <4>1. CASE v # u
        BY <2>9, <3>1, <4>1 DEF StartDispatch, UnitHandled
      <4>2. CASE v = u
        <5>1. sub'[u] = 0 /\ UNCHANGED <<sending, attempted>>
          BY <2>9 DEF StartDispatch
        <5>2. 1..sub'[u] = {}
          BY <5>1
        <5>3. sending'[u] # 0 => Handled(u, sending[u])
          BY <5>1 DEF UnitHandled
        <5> QED
          BY <4>2, <5>1, <5>2, <5>3 DEF UnitHandled
      <4> QED
        BY <4>1, <4>2
    <3>2. HandlersBeforeKafka'
      BY <2>9 DEF StartDispatch, UnitHandled, HandlersBeforeKafka
    <3> QED
      BY <3>1, <3>2
  <2>10. ASSUME NEW u \in Uow, HandleInProcess(u) PROVE HandlerInv'
    BY <2>10, HandleInProcessHandled
  <2>11. ASSUME NEW u \in Uow, SendToKafka(u) PROVE HandlerInv'
    <3>1. ASSUME NEW v \in Uow PROVE UnitHandled(v)'
      BY <2>11, <3>1 DEF SendToKafka, UnitHandled
    <3>2. HandlersBeforeKafka'
      BY <2>11 DEF SendToKafka, UnitHandled, HandlersBeforeKafka
    <3> QED
      BY <3>1, <3>2
  <2>12. ASSUME NEW u \in Uow, BrokerAppends(u) PROVE HandlerInv'
    <3>1. ASSUME NEW v \in Uow PROVE UnitHandled(v)'
      BY <2>12, <3>1 DEF BrokerAppends, Event, UnitHandled
    <3>2. HandlersBeforeKafka'
      <4>1. /\ \A h \in 1..NumHandlers : Call(u, sending[u], h) \in attempted
            /\ attempted' = attempted
        BY <2>12 DEF BrokerAppends, UnitHandled
      <4>2. Event(u, sending[u]).uow = u /\ Event(u, sending[u]).change = sending[u]
        BY DEF Event
      <4> QED
        <5>1. ASSUME NEW k \in DOMAIN topic', NEW h \in 1..NumHandlers
              PROVE  Call(topic'[k].uow, topic'[k].change, h) \in attempted
          <6>1. CASE k \in DOMAIN topic
            BY <2>12, <6>1, TopicGrows DEF HandlersBeforeKafka
          <6>2. CASE k = Len(topic) + 1
            BY <2>12, <4>1, <4>2, <6>2, TopicGrows
          <6> QED
            BY <2>12, <6>1, <6>2, TopicGrows, IntervalGrows
        <5> QED
          BY <4>1, <5>1 DEF HandlersBeforeKafka
    <3> QED
      BY <3>1, <3>2
  <2>13. ASSUME NEW u \in Uow, SendAcknowledged(u) PROVE HandlerInv'
    <3>1. ASSUME NEW v \in Uow PROVE UnitHandled(v)'
      <4>1. CASE v # u
        BY <2>13, <3>1, <4>1 DEF SendAcknowledged, UnitHandled
      <4>2. CASE v = u
        <5>1. sub'[u] = 0 /\ sending'[u] = 0
          BY <2>13 DEF SendAcknowledged
        <5>2. 1..sub'[u] = {}
          BY <5>1
        <5>3. sending'[u] # 0 => Handled(u, sending[u])
          BY <5>1 DEF UnitHandled
        <5> QED
          BY <4>2, <5>1, <5>2, <5>3 DEF UnitHandled
      <4> QED
        BY <4>1, <4>2
    <3>2. HandlersBeforeKafka'
      BY <2>13 DEF SendAcknowledged, UnitHandled, HandlersBeforeKafka
    <3> QED
      BY <3>1, <3>2
  <2>14. ASSUME NEW u \in Uow, BatchPublished(u) PROVE HandlerInv'
    <3>1. ASSUME NEW v \in Uow PROVE UnitHandled(v)'
      BY <2>14, <3>1 DEF BatchPublished, UnitHandled
    <3>2. HandlersBeforeKafka'
      BY <2>14 DEF BatchPublished, UnitHandled, HandlersBeforeKafka
    <3> QED
      BY <3>1, <3>2
  <2>15. ASSUME NEW u \in Uow, RollbackInCommit(u) PROVE HandlerInv'
    <3>1. ASSUME NEW v \in Uow PROVE UnitHandled(v)'
      BY <2>15, <3>1 DEF RollbackInCommit, Discard, UnitHandled
    <3>2. HandlersBeforeKafka'
      BY <2>15 DEF RollbackInCommit, Discard, UnitHandled, HandlersBeforeKafka
    <3> QED
      BY <3>1, <3>2
  <2>16. ASSUME NEW u \in Uow, RollbackInExit(u) PROVE HandlerInv'
    <3>1. ASSUME NEW v \in Uow PROVE UnitHandled(v)'
      BY <2>16, <3>1 DEF RollbackInExit, Discard, UnitHandled
    <3>2. HandlersBeforeKafka'
      BY <2>16 DEF RollbackInExit, Discard, UnitHandled, HandlersBeforeKafka
    <3> QED
      BY <3>1, <3>2
  <2>17. ASSUME NEW u \in Uow, Close(u) PROVE HandlerInv'
    <3>1. ASSUME NEW v \in Uow PROVE UnitHandled(v)'
      BY <2>17, <3>1 DEF Close, UnitHandled
    <3>2. HandlersBeforeKafka'
      BY <2>17 DEF Close, UnitHandled, HandlersBeforeKafka
    <3> QED
      BY <3>1, <3>2
  <2>18. ASSUME NEW u \in Uow, CommitFails(u) PROVE HandlerInv'
    <3>1. ASSUME NEW v \in Uow PROVE UnitHandled(v)'
      BY <2>18, <3>1 DEF CommitFails, Fault, UnitHandled
    <3>2. HandlersBeforeKafka'
      BY <2>18 DEF CommitFails, Fault, UnitHandled, HandlersBeforeKafka
    <3> QED
      BY <3>1, <3>2
  <2>19. ASSUME NEW u \in Uow, SendFails(u) PROVE HandlerInv'
    <3>1. ASSUME NEW v \in Uow PROVE UnitHandled(v)'
      BY <2>19, <3>1 DEF SendFails, Fault, UnitHandled
    <3>2. HandlersBeforeKafka'
      BY <2>19 DEF SendFails, Fault, UnitHandled, HandlersBeforeKafka
    <3> QED
      BY <3>1, <3>2
  <2>20. ASSUME NEW u \in Uow, RollbackFails(u) PROVE HandlerInv'
    <3>1. ASSUME NEW v \in Uow PROVE UnitHandled(v)'
      BY <2>20, <3>1 DEF RollbackFails, Fault, UnitHandled
    <3>2. HandlersBeforeKafka'
      BY <2>20 DEF RollbackFails, Fault, UnitHandled, HandlersBeforeKafka
    <3> QED
      BY <3>1, <3>2
  <2>21. ASSUME NEW u \in Uow, Cancel(u) PROVE HandlerInv'
    <3>1. ASSUME NEW v \in Uow PROVE UnitHandled(v)'
      BY <2>21, <3>1 DEF Cancel, Fault, Ended, UnitHandled
    <3>2. HandlersBeforeKafka'
      BY <2>21 DEF Cancel, Fault, Ended, UnitHandled, HandlersBeforeKafka
    <3> QED
      BY <3>1, <3>2
  <2>22. CASE Crash
    BY <2>22 DEF Crash, Fault, Ended, UnitHandled, HandlersBeforeKafka
  <2>23. CASE UNCHANGED vars
    BY <2>23 DEF vars, UnitHandled, HandlersBeforeKafka
  <2> QED
    BY <2>1, <2>2, <2>3, <2>4, <2>5, <2>6, <2>7, <2>8, <2>9, <2>10, <2>11, <2>12, <2>13, <2>14, <2>15, <2>16, <2>17, <2>18, <2>19, <2>20, <2>21, <2>22, <2>23
       DEF Next, Step, Failure
<1>3. HandlerInv => HandlersBeforeKafka
  BY DEF HandlerInv
<1> QED
  BY <1>1, <1>2, <1>3, TypeCorrect, PTL DEF Spec

-----------------------------------------------------------------------------
(* The order of a unit's events, and the refinement of EventLog            *)

\* Where a unit can still come to publish, or to raise events.
Alive == {"new", "body", "commit", "committed", "dispatch", "send"}

Elements(s) == {s[k] : k \in 1..Len(s)}
Sorted(s) == \A k, l \in 1..Len(s) : k <= l => s[k] <= s[l]

\* The events of the batch that publish_many is not through with.
From(u) == IF pc[u] \in {"dispatch", "send"} THEN next[u] ELSE 1
InBatch(u) == {pending[u][k] : k \in From(u)..Len(pending[u])}

\* The counters of a unit, and what the aggregate holds: later changes than
\* those staged.
UnitCounters(u) ==
    /\ raised[u] \subseteq 1..changes[u]
    /\ staged[u] <= changes[u]
    /\ confirmed[u] <= durable[u]
    /\ pc[u] = "commit" => durable[u] < staged[u]
    /\ Elements(uncollected[u]) \subseteq raised[u]
    /\ \A i \in Elements(uncollected[u]) : staged[u] < i
    /\ Sorted(uncollected[u])

\* What the producer holds, perhaps after the caller gave up, is the next event
\* that is missing, or the last one that is not.
UnitSending(u) ==
    /\ Published(u) \subseteq raised[u]
    /\ pc[u] \in Alive => (pc[u] = "send" <=> sending[u] # 0)
    /\ pc[u] = "send" => sending[u] = pending[u][next[u]]
    /\ sending[u] # 0 =>
        /\ sending[u] \in raised[u]
        /\ \A i \in raised[u] : i < sending[u] => i \in Published(u)
        /\ \A i \in Published(u) : i <= sending[u]
        /\ copies[u] > 0 => sending[u] \in Published(u)

\* What is not published waits in the batch or in the aggregate, in order.
UnitBatch(u) ==
    pc[u] \in Alive =>
        /\ pc[u] = "new" => pending[u] = <<>>
        /\ Sorted(pending[u])
        /\ InBatch(u) \subseteq raised[u]
        /\ raised[u] \subseteq Published(u) \cup InBatch(u) \cup Elements(uncollected[u])
        /\ \A i \in Published(u), j \in InBatch(u) : i <= j

UnitOrder(u) == UnitCounters(u) /\ UnitSending(u) /\ UnitBatch(u)

OrderInv == (\A u \in Uow : UnitOrder(u)) /\ PublishedInOrder

\* Sequences of numbers and their order.
LEMMA AppendSorted ==
    ASSUME NEW n \in Nat, NEW s \in Seq(1..n), NEW e \in Nat,
           \A i \in Elements(s) : i <= e, Sorted(s)
    PROVE  Elements(Append(s, e)) = Elements(s) \cup {e} /\ Sorted(Append(s, e))
<1>1. /\ Len(Append(s, e)) = Len(s) + 1 /\ Len(s) \in Nat
      /\ \A k \in 1..Len(s) : Append(s, e)[k] = s[k] /\ s[k] \in Nat
      /\ Append(s, e)[Len(s) + 1] = e
  <2>1. s \in Seq(Nat)
    BY SeqMonotonic, 1..n \subseteq Nat
  <2> QED
    BY <2>1, AppendProperties, LenProperties, ElementOfSeq
<1>2. 1..(Len(s) + 1) = 1..Len(s) \cup {Len(s) + 1}
  BY <1>1
<1>3. \A k \in 1..Len(s) : s[k] <= e
  BY DEF Elements
<1> DEFINE a == Append(s, e)
<1> HIDE DEF a
<1>4. Elements(a) = Elements(s) \cup {e}
  BY <1>1, <1>2 DEF Elements, a
<1>5. Sorted(a)
  <2> SUFFICES ASSUME NEW k \in 1..Len(a), NEW l \in 1..Len(a), k <= l
               PROVE  a[k] <= a[l]
    BY DEF Sorted
  <2>1. CASE l = Len(s) + 1
    BY <1>1, <1>2, <1>3, <2>1 DEF a
  <2>2. CASE l \in 1..Len(s)
    <3>1. k \in 1..Len(s)
      BY <1>1, <2>2 DEF a
    <3> QED
      BY <1>1, <2>2, <3>1 DEF a, Sorted
  <2> QED
    BY <1>1, <1>2, <2>1, <2>2 DEF a
<1> QED
  BY <1>4, <1>5 DEF a

LEMMA ConcatSorted ==
    ASSUME NEW n \in Nat, NEW s \in Seq(1..n), NEW t \in Seq(1..n),
           \A i \in Elements(s), j \in Elements(t) : i <= j, Sorted(s), Sorted(t)
    PROVE  Elements(s \o t) = Elements(s) \cup Elements(t) /\ Sorted(s \o t)
<1> DEFINE c == s \o t
<1>1. /\ Len(c) = Len(s) + Len(t) /\ Len(s) \in Nat /\ Len(t) \in Nat
      /\ \A k \in 1..(Len(s) + Len(t)) : c[k] = IF k <= Len(s) THEN s[k] ELSE t[k - Len(s)]
  BY ConcatProperties, LenProperties
<1> HIDE DEF c
<1>2. \A k \in 1..Len(s) : k \in 1..(Len(s) + Len(t)) /\ c[k] = s[k]
  BY <1>1
<1>3. \A k \in 1..Len(t) : k + Len(s) \in 1..(Len(s) + Len(t)) /\ c[k + Len(s)] = t[k]
  <2> SUFFICES ASSUME NEW k \in 1..Len(t)
               PROVE  k + Len(s) \in 1..(Len(s) + Len(t)) /\ c[k + Len(s)] = t[k]
    OBVIOUS
  <2>1. k + Len(s) \in 1..(Len(s) + Len(t)) /\ ~(k + Len(s) <= Len(s)) /\ (k + Len(s)) - Len(s) = k
    BY <1>1
  <2> QED
    BY <1>1, <2>1
<1>4. \A k \in 1..(Len(s) + Len(t)) : k \in 1..Len(s) \/ \E l \in 1..Len(t) : k = l + Len(s)
  <2> SUFFICES ASSUME NEW k \in 1..(Len(s) + Len(t)), k \notin 1..Len(s)
               PROVE  \E l \in 1..Len(t) : k = l + Len(s)
    OBVIOUS
  <2>1. k - Len(s) \in 1..Len(t) /\ k = (k - Len(s)) + Len(s)
    BY <1>1
  <2> QED
    BY <2>1
<1>5. Elements(c) = Elements(s) \cup Elements(t)
  <2>1. Elements(c) \subseteq Elements(s) \cup Elements(t)
    <3> SUFFICES ASSUME NEW k \in 1..Len(c) PROVE c[k] \in Elements(s) \cup Elements(t)
      BY DEF Elements
    <3> QED
      BY <1>1, <1>2, <1>3, <1>4 DEF Elements
  <2>2. Elements(s) \subseteq Elements(c)
    BY <1>1, <1>2 DEF Elements
  <2>3. Elements(t) \subseteq Elements(c)
    BY <1>1, <1>3 DEF Elements
  <2> QED
    BY <2>1, <2>2, <2>3
<1>6. Sorted(c)
  <2> SUFFICES ASSUME NEW k \in 1..Len(c), NEW l \in 1..Len(c), k <= l
               PROVE  c[k] <= c[l]
    BY DEF Sorted
  <2>1. CASE k \in 1..Len(s) /\ l \in 1..Len(s)
    BY <1>2, <2>1 DEF Sorted
  <2>2. CASE k \in 1..Len(s) /\ l \notin 1..Len(s)
    <3>1. PICK m \in 1..Len(t) : l = m + Len(s)
      BY <1>1, <1>4, <2>2
    <3>2. s[k] \in Elements(s) /\ t[m] \in Elements(t)
      BY <2>2 DEF Elements
    <3> QED
      BY <1>2, <1>3, <2>2, <3>1, <3>2
  <2>3. CASE k \notin 1..Len(s)
    <3>1. PICK i \in 1..Len(t) : k = i + Len(s)
      BY <1>1, <1>4, <2>3
    <3>2. PICK j \in 1..Len(t) : l = j + Len(s)
      <4>1. l \notin 1..Len(s)
        BY <1>1, <3>1
      <4> QED
        BY <1>1, <1>4, <4>1
    <3>3. i <= j
      BY <1>1, <3>1, <3>2
    <3> QED
      BY <1>3, <3>1, <3>2, <3>3 DEF Sorted
  <2> QED
    BY <2>1, <2>2, <2>3
<1> QED
  BY <1>5, <1>6 DEF c

\* What a unit's order is about.
Concerns(u) == <<pc[u], changes[u], raised[u], uncollected[u], pending[u], staged[u],
                 durable[u], confirmed[u], next[u], sending[u], copies[u]>>

\* A step of u moves nobody else.
LEMMA OthersUnmoved ==
    ASSUME TypeInv, NEW u \in Uow, Step(u) \/ Failure(u), NEW v \in Uow, v # u
    PROVE  Concerns(v)' = Concerns(v)
<1> USE DEF Concerns, TypeInv, TypeOK, Goto, unitVars, busVars
<1>1. ASSUME Enter(u) \/ Change(u) \/ Persist(u) \/ CallCommit(u) \/ RaiseInBody(u) \/ ReturnFromBody(u)
      PROVE  Concerns(v)' = Concerns(v)
  BY <1>1 DEF Enter, Change, Persist, Collect, CallCommit, RaiseInBody, ReturnFromBody
<1>2. ASSUME DatabaseCommits(u) \/ CommitReturns(u) \/ StartDispatch(u) \/ HandleInProcess(u) \/ SendToKafka(u)
      PROVE  Concerns(v)' = Concerns(v)
  BY <1>2 DEF DatabaseCommits, CommitReturns, StartDispatch, HandleInProcess, SendToKafka
<1>3. ASSUME BrokerAppends(u) \/ SendAcknowledged(u) \/ BatchPublished(u)
      PROVE  Concerns(v)' = Concerns(v)
  BY <1>3 DEF BrokerAppends, SendAcknowledged, BatchPublished
<1>4. ASSUME RollbackInCommit(u) \/ RollbackInExit(u) \/ Close(u) \/ Failure(u)
      PROVE  Concerns(v)' = Concerns(v)
  BY <1>4 DEF RollbackInCommit, RollbackInExit, Discard, Close, Failure, CommitFails, SendFails,
              RollbackFails, Cancel
<1> QED
  BY <1>1, <1>2, <1>3, <1>4 DEF Step

\* Who does not move keeps its order.
LEMMA OrderKept ==
    ASSUME NEW u, UnitOrder(u), Concerns(u)' = Concerns(u), Published(u)' = Published(u)
    PROVE  UnitOrder(u)'
BY DEF UnitOrder, UnitCounters, UnitSending, UnitBatch, Concerns, From, InBatch, Elements, Sorted

\* A unit that gives up, or has: what the producer holds stays in its hands.
LEMMA GivesUp ==
    ASSUME TypeInv, DispatchInv, NEW u \in Uow, UnitOrder(u), pc'[u] \notin Alive,
           staged'[u] \in {staged[u], durable[u]},
           UNCHANGED <<changes, raised, uncollected, durable, confirmed, sending, copies, topic>>
    PROVE  UnitOrder(u)'
<1>1. /\ changes[u] \in Nat /\ staged[u] \in Nat /\ durable[u] \in Nat /\ durable[u] <= staged[u]
      /\ \A i \in Elements(uncollected[u]) : i \in Nat
  <2>1. \A k \in 1..Len(uncollected[u]) : uncollected[u][k] \in 1..MaxChanges
    BY UnitTypes, ElementOfSeq DEF TypeInv
  <2> QED
    BY <2>1, UnitTypes DEF TypeInv, DispatchInv, UnitDispatch, Elements
<1>2. Published(u)' = Published(u)
  BY DEF Published
<1>3. UnitCounters(u)'
  <2>1. Elements(uncollected[u])' = Elements(uncollected[u]) /\ Sorted(uncollected[u])' = Sorted(uncollected[u])
    BY DEF Elements, Sorted
  <2>2. staged'[u] <= staged[u] /\ staged'[u] \in Nat /\ pc'[u] # "commit"
    BY <1>1 DEF Alive
  <2>3. UnitCounters(u)
    BY DEF UnitOrder
  <2> QED
    BY <1>1, <2>1, <2>2, <2>3 DEF UnitCounters
<1>4. UnitSending(u)'
  BY <1>2 DEF UnitOrder, UnitSending, Alive
<1> QED
  BY <1>3, <1>4 DEF UnitOrder, UnitBatch

\* What the types and the invariants say of u in short.
LEMMA UnitKnown ==
    ASSUME TypeInv, DispatchInv, OrderInv, NEW u \in Uow
    PROVE  /\ UnitOrder(u) /\ UnitDispatch(u)
           /\ changes[u] \in Nat /\ staged[u] \in Nat /\ durable[u] \in Nat /\ confirmed[u] \in Nat
           /\ raised[u] \subseteq Nat /\ Published(u) \subseteq Nat
           /\ \A k \in 1..Len(pending[u]) : pending[u][k] \in Nat
           /\ Len(pending[u]) \in Nat /\ Len(uncollected[u]) \in Nat
           /\ \A i \in Elements(pending[u]) \cup Elements(uncollected[u]) : i \in Nat
<1>1. /\ \A k \in 1..Len(pending[u]) : pending[u][k] \in 1..MaxChanges
      /\ \A k \in 1..Len(uncollected[u]) : uncollected[u][k] \in 1..MaxChanges
      /\ Len(pending[u]) \in Nat /\ Len(uncollected[u]) \in Nat
  BY UnitTypes, ElementOfSeq, LenProperties DEF TypeInv
<1>2. raised[u] \subseteq 1..MaxChanges /\ confirmed[u] \in 0..MaxChanges
  BY DEF TypeInv, TypeOK
<1>3. UnitOrder(u) /\ UnitDispatch(u) /\ Published(u) \subseteq raised[u]
  BY DEF OrderInv, DispatchInv, UnitOrder, UnitSending
<1> QED
  BY <1>1, <1>2, <1>3, UnitTypes DEF TypeInv, Elements

-----------------------------------------------------------------------------

\* Every event of the topic is of some unit.
LEMMA TopicOfUnits ==
    ASSUME TypeInv
    PROVE  \A k \in DOMAIN topic :
              topic[k].uow \in Uow /\ topic[k].change \in Published(topic[k].uow)
<1> DEFINE Events == [uow : Uow, change : 1..MaxChanges]
<1>1. topic \in Seq(Events)
  BY DEF TypeInv, TypeOK
<1> HIDE DEF Events
<1>2. \A k \in DOMAIN topic : topic[k] \in Events
  BY <1>1, LenProperties, ElementOfSeq
<1> QED
  BY <1>2 DEF Published, Events

\* In the body, a change that may raise an event: the latest.
LEMMA ChangeOrder ==
    ASSUME TypeInv, DispatchInv, OrderInv, NEW u \in Uow, Change(u)
    PROVE  UnitOrder(u)' /\ PublishedInOrder'
<1> DEFINE i == changes[u] + 1
<1>1. /\ pc[u] = "body" /\ changes'[u] = i /\ UNCHANGED <<pc, pending, staged, durable, confirmed, busVars>>
      /\ \/ raised'[u] = raised[u] \cup {i} /\ uncollected'[u] = Append(uncollected[u], i)
         \/ UNCHANGED <<raised, uncollected>>
      /\ \A v \in Uow : v # u => raised'[v] = raised[v]
  BY DEF Change, TypeInv, TypeOK
<1>2. Published(u)' = Published(u)
  BY <1>1 DEF Published, busVars
<1>3. /\ UnitCounters(u) /\ UnitSending(u) /\ UnitBatch(u) /\ changes[u] \in Nat /\ staged[u] \in Nat
      /\ staged[u] < i /\ raised[u] \subseteq Nat /\ Published(u) \subseteq raised[u]
      /\ \A j \in raised[u] : j < i /\ j <= i
  BY UnitKnown DEF UnitOrder, UnitCounters, UnitSending
<1>4. i \in Nat /\ i \in 1..i /\ 1..changes[u] \subseteq 1..i
  BY <1>3
<1>5. raised[u] \subseteq 1..changes[u] /\ Elements(uncollected[u]) \subseteq raised[u]
  BY <1>3 DEF UnitCounters
<1>6. Elements(Append(uncollected[u], i)) = Elements(uncollected[u]) \cup {i}
      /\ Sorted(Append(uncollected[u], i))
  <2>1. \A j \in Elements(uncollected[u]) : j <= i
    BY <1>3, <1>5
  <2>2. uncollected[u] \in Seq(1..MaxChanges) /\ Sorted(uncollected[u])
    BY <1>3, UnitTypes DEF TypeInv, UnitCounters
  <2> QED
    BY <1>4, <2>1, <2>2, AppendSorted, BoundsAssumption
<1> DEFINE new == uncollected'[u]
<1>7. /\ raised'[u] \subseteq raised[u] \cup {i} /\ raised[u] \subseteq raised'[u]
      /\ Elements(new) \subseteq raised'[u] /\ Sorted(new)
      /\ Elements(uncollected[u]) \subseteq Elements(new)
      /\ i \in raised'[u] => i \in Elements(new) \/ i \in raised[u]
      /\ \A j \in Elements(new) : staged[u] < j
  <2>1. CASE raised'[u] = raised[u] \cup {i} /\ new = Append(uncollected[u], i)
    <3> HIDE DEF i, new
    <3> QED
      BY <1>3, <1>5, <1>6, <2>1 DEF UnitCounters
  <2>2. CASE UNCHANGED <<raised, uncollected>>
    BY <1>3, <1>5, <2>2 DEF UnitCounters
  <2> QED
    BY <1>1, <2>1, <2>2
<1> HIDE DEF i
<1>8. Elements(uncollected[u])' = Elements(new) /\ Sorted(uncollected[u])' = Sorted(new)
  BY DEF Elements, Sorted
<1> HIDE DEF new
<1>9. UnitCounters(u)'
  <2>1. raised'[u] \subseteq 1..changes'[u]
    BY <1>1, <1>4, <1>5, <1>7
  <2>2. staged'[u] <= changes'[u]
    BY <1>1, <1>3, <1>4
  <2>3. confirmed'[u] <= durable'[u] /\ pc'[u] # "commit"
    BY <1>1, <1>3 DEF UnitCounters
  <2>4. \A j \in Elements(uncollected[u])' : staged'[u] < j
    BY <1>1, <1>7, <1>8
  <2> QED
    BY <1>1, <1>7, <1>8, <2>1, <2>2, <2>3, <2>4 DEF UnitCounters
<1>10. UnitSending(u)'
  BY <1>1, <1>2, <1>3, <1>7 DEF UnitSending, Alive, busVars
<1>11. UnitBatch(u)'
  <2>1. InBatch(u)' = InBatch(u)
    BY <1>1 DEF InBatch, From, busVars
  <2>2. UnitBatch(u) => InBatch(u) \subseteq raised'[u]
    BY <1>1, <1>7 DEF UnitBatch, Alive
  <2>3. raised'[u] \subseteq Published(u) \cup InBatch(u) \cup Elements(new)
    BY <1>1, <1>3, <1>7 DEF UnitBatch, Alive
  <2>4. Sorted(pending[u])'
    BY <1>1, <1>3 DEF UnitBatch, Alive, Sorted
  <2> QED
    BY <1>1, <1>2, <1>3, <1>8, <2>1, <2>2, <2>3, <2>4 DEF UnitBatch, Alive
<1>12. PublishedInOrder'
  <2>1. topic' = topic /\ \A v : Published(v)' = Published(v)
    BY <1>1 DEF Published, busVars
  <2>2. ASSUME NEW k \in DOMAIN topic, NEW j \in raised'[topic[k].uow], j < topic[k].change
        PROVE  j \in Published(topic[k].uow)
    <3>1. topic[k].change \in Published(topic[k].uow) /\ topic[k].uow \in Uow
      BY <2>2, TopicOfUnits
    <3>2. CASE j \in raised[topic[k].uow]
      BY <2>2, <3>2 DEF OrderInv, PublishedInOrder
    <3>3. CASE j \notin raised[topic[k].uow]
      <4>1. topic[k].uow = u /\ j = i
        BY <1>1, <1>7, <2>2, <3>1, <3>3
      <4>2. topic[k].change < i /\ topic[k].change \in Nat
        BY <1>3, <3>1, <4>1
      <4> QED
        BY <1>4, <2>2, <4>1, <4>2
    <3> QED
      BY <3>2, <3>3
  <2> QED
    BY <2>1, <2>2 DEF OrderInv, PublishedInOrder
<1> QED
  BY <1>9, <1>10, <1>11, <1>12 DEF UnitOrder

\* What a unit collects goes to the end of the pending events: later changes.
LEMMA PersistOrder ==
    ASSUME TypeInv, DispatchInv, OrderInv, NEW u \in Uow, Persist(u)
    PROVE  UnitOrder(u)'
<1>1. /\ pc[u] = "body" /\ staged'[u] = changes[u] /\ pending'[u] = pending[u] \o uncollected[u]
      /\ uncollected'[u] = <<>> /\ UNCHANGED <<pc, changes, raised, durable, confirmed, busVars>>
  BY DEF Persist, Collect, TypeInv, TypeOK
<1>2. /\ UnitCounters(u) /\ UnitSending(u) /\ UnitBatch(u) /\ changes[u] \in Nat /\ staged[u] \in Nat
      /\ pending[u] \in Seq(1..staged[u]) /\ Published(u)' = Published(u)
      /\ \A i \in Elements(pending[u]) \cup Elements(uncollected[u]) : i \in Nat
  BY <1>1, UnitKnown DEF UnitOrder, UnitDispatch, Published, busVars
<1>3. \A i \in Elements(pending[u]) : i <= staged[u]
  BY <1>2, ElementOfSeq DEF Elements
<1>4. \A i \in Elements(pending[u]), j \in Elements(uncollected[u]) : i <= j
  BY <1>2, <1>3 DEF UnitCounters
<1> DEFINE new == pending[u] \o uncollected[u]
<1>5. Elements(new) = Elements(pending[u]) \cup Elements(uncollected[u]) /\ Sorted(new)
  <2>1. Sorted(pending[u]) /\ Sorted(uncollected[u])
    BY <1>1, <1>2 DEF UnitCounters, UnitBatch, Alive
  <2> QED
    BY <1>4, <2>1, UnitTypes, ConcatSorted, BoundsAssumption DEF TypeInv
<1> HIDE DEF new
<1>6. /\ InBatch(u) = Elements(pending[u]) /\ InBatch(u)' = Elements(new)
      /\ Elements(uncollected[u])' = {} /\ Sorted(uncollected[u])' /\ Sorted(pending[u])' = Sorted(new)
  <2>1. From(u) = 1 /\ From(u)' = 1
    BY <1>1 DEF From
  <2> QED
    BY <1>1, <2>1 DEF InBatch, Elements, Sorted, new
<1>7. UnitCounters(u)'
  BY <1>1, <1>2, <1>6 DEF UnitCounters
<1>8. UnitSending(u)'
  BY <1>1, <1>2 DEF UnitSending, Alive, busVars
<1>9. UnitBatch(u)'
  <2>1. Elements(new) \subseteq raised[u]
    BY <1>1, <1>2, <1>5, <1>6 DEF UnitBatch, UnitCounters, Alive
  <2>2. raised[u] \subseteq Published(u) \cup Elements(new)
    BY <1>1, <1>2, <1>5, <1>6 DEF UnitBatch, Alive
  <2>3. \A i \in Published(u), j \in Elements(new) : i <= j
    <3>1. ASSUME NEW i \in Published(u), NEW j \in Elements(uncollected[u]) PROVE i <= j
      <4>1. i \in Nat /\ i <= staged[u]
        <5>1. PICK k \in DOMAIN topic : topic[k].uow = u /\ topic[k].change = i
          BY <3>1 DEF Published
        <5>2. i <= durable[u] /\ durable[u] <= staged[u] /\ durable[u] \in Nat /\ i \in Nat
          BY <3>1, <5>1, UnitKnown DEF DispatchInv, DispatchAfterCommit, UnitDispatch
        <5> QED
          BY <1>2, <5>2
      <4>2. j \in Nat /\ staged[u] < j
        BY <1>2, <3>1 DEF UnitCounters
      <4> QED
        BY <1>2, <4>1, <4>2
    <3> QED
      BY <1>1, <1>2, <1>5, <1>6, <3>1 DEF UnitBatch, Alive
  <2> QED
    BY <1>1, <1>2, <1>5, <1>6, <2>1, <2>2, <2>3 DEF UnitBatch
<1> QED
  BY <1>7, <1>8, <1>9 DEF UnitOrder

\* A unit that goes on without the producer.
LEMMA GoesOn ==
    ASSUME NEW u \in Uow, UnitOrder(u),
           pc[u] \in Alive \ {"send"}, pc'[u] \in Alive \ {"send", "new"},
           pending'[u] = pending[u], From(u)' = From(u),
           UNCHANGED <<changes, raised, uncollected, staged, sending, copies, topic>>,
           confirmed'[u] <= durable'[u], pc'[u] = "commit" => durable'[u] < staged[u]
    PROVE  UnitOrder(u)'
<1>1. /\ Published(u)' = Published(u) /\ InBatch(u)' = InBatch(u)
      /\ Elements(uncollected[u])' = Elements(uncollected[u])
      /\ Sorted(uncollected[u])' = Sorted(uncollected[u]) /\ Sorted(pending[u])' = Sorted(pending[u])
  BY DEF Published, InBatch, Elements, Sorted
<1>2. UnitCounters(u)'
  BY <1>1 DEF UnitOrder, UnitCounters
<1>3. UnitSending(u)'
  BY <1>1 DEF UnitOrder, UnitSending
<1>4. UnitBatch(u)'
  BY <1>1 DEF UnitOrder, UnitBatch
<1> QED
  BY <1>2, <1>3, <1>4 DEF UnitOrder

LEMMA GoingOnOrder ==
    ASSUME TypeInv, DispatchInv, OrderInv, NEW u \in Uow,
           \/ Enter(u) \/ CallCommit(u) \/ DatabaseCommits(u) \/ CommitReturns(u)
           \/ StartDispatch(u) \/ HandleInProcess(u)
    PROVE  UnitOrder(u)'
<1>1. /\ UnitOrder(u) /\ UnitDispatch(u) /\ UnitCounters(u) /\ UnitBatch(u)
      /\ durable[u] \in Nat /\ confirmed[u] \in Nat /\ staged[u] \in Nat
      /\ confirmed[u] <= durable[u] /\ durable[u] <= staged[u]
  BY UnitKnown DEF UnitOrder, UnitCounters, UnitDispatch
<1> USE DEF TypeInv, TypeOK, Goto, unitVars, busVars, Alive, From
<1>2. CASE Enter(u)
  <2>1. pending[u] = <<>>
    BY <1>1, <1>2 DEF Enter, UnitBatch
  <2> QED
    BY <1>1, <1>2, <2>1, GoesOn DEF Enter
<1>3. CASE CallCommit(u)
  BY <1>1, <1>3, GoesOn DEF CallCommit
<1>4. CASE DatabaseCommits(u)
  <2>1. durable'[u] = staged[u] /\ confirmed'[u] <= durable'[u]
    BY <1>1, <1>4 DEF DatabaseCommits
  <2> QED
    BY <1>1, <1>4, <2>1, GoesOn DEF DatabaseCommits
<1>5. CASE CommitReturns(u)
  <2>1. /\ pc[u] = "committed" /\ pc'[u] = "body" /\ durable'[u] = durable[u]
        /\ confirmed'[u] = durable[u] /\ UNCHANGED <<unitVars, busVars>>
    BY <1>5 DEF CommitReturns
  <2>2. confirmed'[u] <= durable'[u]
    BY <1>1, <2>1
  <2> QED
    BY <1>1, <2>1, <2>2, GoesOn
<1>6. CASE StartDispatch(u)
  BY <1>1, <1>6, GoesOn DEF StartDispatch
<1>7. CASE HandleInProcess(u)
  BY <1>1, <1>7, GoesOn DEF HandleInProcess
<1> QED
  BY <1>2, <1>3, <1>4, <1>5, <1>6, <1>7

\* The event at hand is the first of those left of the batch.
LEMMA AtHand ==
    ASSUME TypeInv, DispatchInv, OrderInv, NEW u \in Uow, pc[u] \in {"dispatch", "send"}
    PROVE  /\ pending[u][next[u]] \in InBatch(u) /\ pending[u][next[u]] \in Nat \ {0}
           /\ \A i \in InBatch(u) : pending[u][next[u]] <= i
           /\ \A i \in Elements(uncollected[u]) : pending[u][next[u]] < i
<1> DEFINE e == pending[u][next[u]]
<1>1. next[u] \in 1..Len(pending[u]) /\ Len(pending[u]) \in Nat
  BY UnitKnown DEF TypeInv, BatchPosition
<1>2. e \in 1..durable[u] /\ durable[u] = staged[u] /\ durable[u] \in Nat
  BY DispatchingDurable, UnitKnown DEF UnitDispatch
<1>3. \A k \in next[u]..Len(pending[u]) : k \in 1..Len(pending[u]) /\ next[u] <= k
  BY <1>1
<1>4. Sorted(pending[u])
  BY UnitKnown DEF UnitOrder, UnitBatch, Alive
<1>5. InBatch(u) = {pending[u][k] : k \in next[u]..Len(pending[u])}
  BY DEF InBatch, From
<1>6. e \in InBatch(u)
  BY <1>1, <1>5
<1>7. \A i \in InBatch(u) : e <= i
  BY <1>1, <1>3, <1>4, <1>5 DEF Sorted
<1>8. \A i \in Elements(uncollected[u]) : staged[u] < i /\ i \in Nat
  BY UnitKnown DEF UnitOrder, UnitCounters
<1> HIDE DEF e
<1>9. \A i \in Elements(uncollected[u]) : e < i
  BY <1>2, <1>8
<1>10. e \in Nat \ {0}
  BY <1>2
<1> QED
  BY <1>6, <1>7, <1>9, <1>10 DEF e

LEMMA SendToKafkaOrder ==
    ASSUME TypeInv, DispatchInv, OrderInv, NEW u \in Uow, SendToKafka(u)
    PROVE  UnitOrder(u)'
<1> DEFINE e == pending[u][next[u]]
<1>1. /\ pc[u] = "dispatch" /\ pc'[u] = "send" /\ sending'[u] = e /\ copies'[u] = 0
      /\ UNCHANGED <<unitVars, durable, confirmed, next, topic>>
  BY DEF SendToKafka, Goto, TypeInv, TypeOK
<1>2. e \in InBatch(u) /\ e \in Nat \ {0} /\ (\A i \in InBatch(u) : e <= i)
      /\ \A i \in Elements(uncollected[u]) : e < i
  BY <1>1, AtHand
<1>3. /\ UnitCounters(u) /\ UnitSending(u) /\ UnitBatch(u) /\ raised[u] \subseteq Nat
      /\ Published(u)' = Published(u) /\ InBatch(u)' = InBatch(u)
      /\ Elements(uncollected[u])' = Elements(uncollected[u])
      /\ Sorted(uncollected[u])' = Sorted(uncollected[u]) /\ Sorted(pending[u])' = Sorted(pending[u])
  BY <1>1, UnitKnown DEF UnitOrder, Published, InBatch, From, Elements, Sorted, unitVars
<1>4. e \in raised[u] /\ \A i \in Published(u) : i <= e
  BY <1>1, <1>2, <1>3 DEF UnitBatch, Alive
<1>5. ASSUME NEW i \in raised[u], i < e PROVE i \in Published(u)
  <2>1. i \in Published(u) \cup InBatch(u) \cup Elements(uncollected[u])
    BY <1>1, <1>3, <1>5 DEF UnitBatch, Alive
  <2>2. i \in Nat /\ ~(e <= i) /\ ~(e < i)
    BY <1>2, <1>3, <1>5
  <2> QED
    BY <1>2, <2>1, <2>2
<1>6. pending'[u][next'[u]] = e /\ raised' = raised
  BY <1>1 DEF unitVars
<1> HIDE DEF e
<1>7. UnitSending(u)'
  BY <1>1, <1>2, <1>3, <1>4, <1>5, <1>6 DEF UnitSending
<1>8. UnitCounters(u)'
  BY <1>1, <1>3 DEF UnitCounters, unitVars
<1>9. UnitBatch(u)'
  BY <1>1, <1>3 DEF UnitBatch, Alive, unitVars
<1> QED
  BY <1>7, <1>8, <1>9 DEF UnitOrder

\* The topic has one event more, of one unit.
LEMMA OneMore ==
    ASSUME TypeInv, NEW u \in Uow, BrokerAppends(u)
    PROVE  /\ Len(topic) \in Nat
           /\ DOMAIN topic = 1..Len(topic)
           /\ DOMAIN topic' = DOMAIN topic \cup {Len(topic) + 1}
           /\ \A k \in DOMAIN topic : topic'[k] = topic[k]
           /\ topic'[Len(topic) + 1].uow = u
           /\ topic'[Len(topic) + 1].change = sending[u]
<1> DEFINE e == Event(u, sending[u])
<1>1. e.uow = u /\ e.change = sending[u]
  BY DEF Event
<1> HIDE DEF e
<1>2. /\ Len(topic) \in Nat /\ DOMAIN topic = 1..Len(topic)
      /\ DOMAIN topic' = 1..(Len(topic) + 1)
      /\ \A k \in 1..Len(topic) : topic'[k] = topic[k]
      /\ topic'[Len(topic) + 1] = e
  BY TopicGrows DEF e
<1>3. 1..(Len(topic) + 1) = 1..Len(topic) \cup {Len(topic) + 1}
  BY <1>2
<1> QED
  BY <1>1, <1>2, <1>3

LEMMA PublishedGrows ==
    ASSUME TypeInv, NEW u \in Uow, BrokerAppends(u)
    PROVE  /\ Published(u)' = Published(u) \cup {sending[u]}
           /\ \A v \in Uow : v # u => Published(v)' = Published(v)
<1> DEFINE n == Len(topic) + 1
<1>1. /\ DOMAIN topic' = DOMAIN topic \cup {n}
      /\ \A k \in DOMAIN topic : topic'[k] = topic[k]
      /\ topic'[n].uow = u /\ topic'[n].change = sending[u]
  BY OneMore
<1> HIDE DEF n
<1>2. ASSUME NEW v \in Uow, NEW i
      PROVE  i \in Published(v)' <=> i \in Published(v) \/ (v = u /\ i = sending[u])
  <2>1. i \in Published(v)' <=> \E k \in DOMAIN topic' : topic'[k].uow = v /\ topic'[k].change = i
    BY DEF Published
  <2>2. i \in Published(v) <=> \E k \in DOMAIN topic : topic[k].uow = v /\ topic[k].change = i
    BY DEF Published
  <2> QED
    BY <1>1, <2>1, <2>2
<1>3. Published(u)' = Published(u) \cup {sending[u]}
  BY <1>2
<1> QED
  BY <1>2, <1>3

LEMMA BrokerAppendsOrder ==
    ASSUME TypeInv, DispatchInv, OrderInv, NEW u \in Uow, BrokerAppends(u)
    PROVE  UnitOrder(u)' /\ PublishedInOrder'
<1>1. /\ sending[u] # 0 /\ UNCHANGED <<pc, unitVars, durable, confirmed, next, sending>>
      /\ Published(u)' = Published(u) \cup {sending[u]}
      /\ \A v \in Uow : v # u => Published(v)' = Published(v)
  BY PublishedGrows DEF BrokerAppends
<1>2. /\ UnitCounters(u) /\ UnitSending(u) /\ UnitBatch(u) /\ raised[u] \subseteq Nat
      /\ InBatch(u)' = InBatch(u) /\ Elements(uncollected[u])' = Elements(uncollected[u])
      /\ Sorted(uncollected[u])' = Sorted(uncollected[u]) /\ Sorted(pending[u])' = Sorted(pending[u])
  BY <1>1, UnitKnown DEF UnitOrder, InBatch, From, Elements, Sorted, unitVars
<1>3. /\ sending[u] \in raised[u] /\ sending[u] \in Nat
      /\ \A i \in raised[u] : i < sending[u] => i \in Published(u)
      /\ \A i \in Published(u) : i <= sending[u]
  BY <1>1, <1>2 DEF UnitSending
<1>4. UnitCounters(u)'
  BY <1>1, <1>2 DEF UnitCounters, unitVars
<1>5. UnitSending(u)'
  BY <1>1, <1>2, <1>3 DEF UnitSending, unitVars
<1>6. UnitBatch(u)'
  <2>1. pc[u] \in Alive => pc[u] = "send" /\ \A j \in InBatch(u) : sending[u] <= j
    BY <1>1, <1>2, AtHand DEF UnitSending
  <2> QED
    BY <1>1, <1>2, <2>1 DEF UnitBatch, unitVars
<1>7. PublishedInOrder'
  <2> DEFINE n == Len(topic) + 1
  <2>1. /\ DOMAIN topic = 1..Len(topic) /\ DOMAIN topic' = DOMAIN topic \cup {n}
        /\ \A k \in DOMAIN topic : topic'[k] = topic[k]
        /\ topic'[n].uow = u /\ topic'[n].change = sending[u]
    BY OneMore
  <2>2. \A k \in DOMAIN topic : \A j \in 1..k : j \in DOMAIN topic
    <3>1. Len(topic) \in Nat
      BY OneMore
    <3> QED
      BY <2>1, <3>1
  <2>3. \A j \in 1..n : j \in DOMAIN topic \/ j = n
    BY <2>1, OneMore
  <2> HIDE DEF n
  <2>4. \A k \in DOMAIN topic' : topic'[k].uow \in Uow
    BY <2>1, TopicOfUnits
  <2>5. ASSUME NEW k \in DOMAIN topic', NEW v \in Uow, v = topic'[k].uow,
               NEW i \in raised[v], i < topic'[k].change
        PROVE  i \in Published(v)'
    <3>1. CASE k \in DOMAIN topic
      <4>1. topic[k].uow = v /\ i < topic[k].change
        BY <2>1, <2>5, <3>1
      <4>2. i \in Published(v)
        BY <2>5, <3>1, <4>1 DEF OrderInv, PublishedInOrder
      <4> QED
        BY <1>1, <4>2
    <3>2. CASE k = n
      <4>1. v = u /\ i \in raised[u] /\ i < sending[u]
        BY <2>1, <2>5, <3>2
      <4>2. i \in Published(u)
        BY <1>3, <4>1
      <4> QED
        BY <1>1, <4>1, <4>2
    <3> QED
      BY <2>1, <3>1, <3>2
  <2>6. ASSUME NEW k \in DOMAIN topic', NEW j \in 1..k, topic'[j].uow = topic'[k].uow
        PROVE  topic'[j].change <= topic'[k].change
    <3>1. CASE k \in DOMAIN topic
      <4>1. j \in DOMAIN topic
        BY <2>2, <3>1
      <4>2. topic'[k] = topic[k] /\ topic'[j] = topic[j]
        BY <2>1, <3>1, <4>1
      <4> QED
        BY <2>6, <3>1, <4>2 DEF OrderInv, PublishedInOrder
    <3>2. CASE k = n
      <4>1. CASE j = n
        BY <1>3, <2>1, <3>2, <4>1
      <4>2. CASE j \in DOMAIN topic
        <5>1. topic[j].uow = u
          BY <2>1, <2>6, <3>2, <4>2
        <5>2. topic[j].change \in Published(u)
          BY <4>2, <5>1 DEF Published
        <5>3. topic[j].change <= sending[u]
          BY <1>3, <5>2
        <5> QED
          BY <2>1, <3>2, <4>2, <5>3
      <4> QED
        BY <2>3, <3>2, <4>1, <4>2
    <3> QED
      BY <2>1, <3>1, <3>2
  <2>7. raised' = raised
    BY <1>1 DEF unitVars
  <2>8. ASSUME NEW k \in DOMAIN topic'
        PROVE  \A i \in raised'[topic'[k].uow] : i < topic'[k].change =>
                  i \in {topic'[l].change : l \in {l \in DOMAIN topic' : topic'[l].uow = topic'[k].uow}}
    BY <2>4, <2>5, <2>7, <2>8 DEF Published
  <2> QED
    BY <2>6, <2>8 DEF PublishedInOrder, Published
<1> QED
  BY <1>4, <1>5, <1>6, <1>7 DEF UnitOrder

LEMMA SendAcknowledgedOrder ==
    ASSUME TypeInv, DispatchInv, OrderInv, NEW u \in Uow, SendAcknowledged(u)
    PROVE  UnitOrder(u)'
<1> DEFINE e == pending[u][next[u]]
           left == {pending[u][k] : k \in (next[u] + 1)..Len(pending[u])}
<1>1. /\ pc[u] = "send" /\ copies[u] > 0 /\ pc'[u] = "dispatch" /\ sending'[u] = 0
      /\ next'[u] = next[u] + 1 /\ UNCHANGED <<unitVars, durable, confirmed, copies, topic>>
  BY DEF SendAcknowledged, Goto, TypeInv, TypeOK
<1>2. /\ UnitCounters(u) /\ UnitSending(u) /\ UnitBatch(u)
      /\ Published(u)' = Published(u) /\ Elements(uncollected[u])' = Elements(uncollected[u])
      /\ Sorted(uncollected[u])' = Sorted(uncollected[u]) /\ Sorted(pending[u])' = Sorted(pending[u])
      /\ InBatch(u)' = left
  BY <1>1, UnitKnown DEF UnitOrder, Published, InBatch, From, Elements, Sorted, unitVars
<1>3. InBatch(u) = left \cup {e}
  <2>1. next[u] \in 1..Len(pending[u]) /\ Len(pending[u]) \in Nat
    BY <1>1, UnitKnown DEF TypeInv, BatchPosition
  <2>2. next[u]..Len(pending[u]) = ((next[u] + 1)..Len(pending[u])) \cup {next[u]}
    BY <2>1
  <2> QED
    BY <1>1, <2>2 DEF InBatch, From
<1>4. e \in Published(u)
  BY <1>1, <1>2, AtHand DEF UnitSending, Alive
<1> HIDE DEF e, left
<1>5. UnitCounters(u)'
  BY <1>1, <1>2 DEF UnitCounters, unitVars
<1>6. UnitSending(u)'
  BY <1>1, <1>2 DEF UnitSending, unitVars
<1>7. UnitBatch(u)'
  BY <1>1, <1>2, <1>3, <1>4 DEF UnitBatch, Alive, unitVars
<1> QED
  BY <1>5, <1>6, <1>7 DEF UnitOrder

LEMMA BatchPublishedOrder ==
    ASSUME TypeInv, DispatchInv, OrderInv, NEW u \in Uow, BatchPublished(u)
    PROVE  UnitOrder(u)'
<1> DEFINE e == pending[u][next[u]]
<1>1. /\ pc[u] = "send" /\ copies[u] > 0 /\ next[u] = Len(pending[u]) /\ pc'[u] = "body"
      /\ sending'[u] = 0 /\ pending'[u] = <<>> /\ confirmed'[u] = durable[u]
      /\ UNCHANGED <<changes, raised, uncollected, staged, durable, next, copies, topic>>
  BY DEF BatchPublished, Goto, TypeInv, TypeOK
<1>2. /\ UnitCounters(u) /\ UnitSending(u) /\ UnitBatch(u) /\ durable[u] \in Nat
      /\ Published(u)' = Published(u) /\ Elements(uncollected[u])' = Elements(uncollected[u])
      /\ Sorted(uncollected[u])' = Sorted(uncollected[u]) /\ Sorted(pending[u])'
      /\ InBatch(u)' = {}
  BY <1>1, UnitKnown DEF UnitOrder, Published, InBatch, From, Elements, Sorted
<1>3. InBatch(u) = {e}
  <2>1. next[u]..Len(pending[u]) = {next[u]}
    BY <1>1, UnitKnown
  <2> QED
    BY <1>1, <2>1 DEF InBatch, From
<1>4. e \in Published(u)
  BY <1>1, <1>2, AtHand DEF UnitSending, Alive
<1> HIDE DEF e
<1>5. UnitCounters(u)'
  BY <1>1, <1>2 DEF UnitCounters
<1>6. UnitSending(u)'
  BY <1>1, <1>2 DEF UnitSending
<1>7. UnitBatch(u)'
  BY <1>1, <1>2, <1>3, <1>4 DEF UnitBatch, Alive
<1> QED
  BY <1>5, <1>6, <1>7 DEF UnitOrder

\* A unit that fails, leaves its body or is on its way out.
LEMMA LeavingOrder ==
    ASSUME TypeInv, DispatchInv, OrderInv, NEW u \in Uow,
           \/ RaiseInBody(u) \/ ReturnFromBody(u) \/ Failure(u)
           \/ RollbackInCommit(u) \/ RollbackInExit(u) \/ Close(u)
    PROVE  UnitOrder(u)'
<1>1. UnitOrder(u)
  BY DEF OrderInv
<1>2. UNCHANGED <<changes, raised, uncollected, durable, confirmed, sending, copies, topic>>
  BY DEF RaiseInBody, ReturnFromBody, Failure, CommitFails, SendFails, RollbackFails, Cancel,
         RollbackInCommit, RollbackInExit, Discard, Close, unitVars, busVars
<1>3. staged'[u] \in {staged[u], durable[u]}
  BY DEF RaiseInBody, ReturnFromBody, Failure, CommitFails, SendFails, RollbackFails, Cancel,
         RollbackInCommit, RollbackInExit, Discard, Close, unitVars, TypeInv, TypeOK
<1>4. pc'[u] \in {"exit", "close", "rollback", "leaked", "done"}
  BY DEF RaiseInBody, ReturnFromBody, Failure, CommitFails, SendFails, RollbackFails, Cancel,
         RollbackInCommit, RollbackInExit, Close, Goto, TypeInv, TypeOK
<1>5. pc'[u] \notin Alive
  BY <1>4 DEF Alive
<1> QED
  BY <1>1, <1>2, <1>3, <1>5, GivesUp

\* A step that leaves the topic and the events alone leaves their order alone.
LEMMA OrderOfTopicKept ==
    ASSUME OrderInv, UNCHANGED <<topic, raised>>
    PROVE  PublishedInOrder' /\ \A v : Published(v)' = Published(v)
BY DEF OrderInv, PublishedInOrder, Published

LEMMA StepOrder ==
    ASSUME TypeInv, DispatchInv, OrderInv, NEW u \in Uow, Step(u) \/ Failure(u)
    PROVE  OrderInv'
<1>1. ASSUME UnitOrder(u)', \A v \in Uow : v # u => Published(v)' = Published(v)
      PROVE  \A v \in Uow : UnitOrder(v)'
  <2>1. ASSUME NEW v \in Uow, v # u PROVE UnitOrder(v)'
    <3>1. Concerns(v)' = Concerns(v)
      BY <2>1, OthersUnmoved
    <3>2. UnitOrder(v)
      BY DEF OrderInv
    <3> QED
      BY <1>1, <2>1, <3>1, <3>2, OrderKept
  <2> QED
    BY <1>1, <2>1
<1>2. ASSUME UnitOrder(u)', UNCHANGED <<topic, raised>> PROVE OrderInv'
  BY <1>1, <1>2, OrderOfTopicKept DEF OrderInv
<1>3. CASE Change(u)
  <2>1. topic' = topic
    BY <1>3 DEF Change, busVars
  <2>2. \A v \in Uow : Published(v)' = Published(v)
    BY <2>1 DEF Published
  <2> QED
    BY <1>1, <1>3, <2>2, ChangeOrder DEF OrderInv
<1>4. CASE BrokerAppends(u)
  BY <1>1, <1>4, BrokerAppendsOrder, PublishedGrows DEF OrderInv
<1>5. CASE Persist(u)
  BY <1>2, <1>5, PersistOrder DEF Persist, busVars
<1>6. CASE \/ Enter(u) \/ CallCommit(u) \/ DatabaseCommits(u) \/ CommitReturns(u)
           \/ StartDispatch(u) \/ HandleInProcess(u)
  <2>1. UNCHANGED <<topic, raised>>
    BY <1>6 DEF Enter, CallCommit, DatabaseCommits, CommitReturns, StartDispatch, HandleInProcess,
                unitVars, busVars
  <2> QED
    BY <1>2, <1>6, <2>1, GoingOnOrder
<1>7. CASE SendToKafka(u)
  BY <1>2, <1>7, SendToKafkaOrder DEF SendToKafka, unitVars
<1>8. CASE SendAcknowledged(u)
  BY <1>2, <1>8, SendAcknowledgedOrder DEF SendAcknowledged, unitVars
<1>9. CASE BatchPublished(u)
  BY <1>2, <1>9, BatchPublishedOrder DEF BatchPublished
<1>10. CASE \/ RaiseInBody(u) \/ ReturnFromBody(u) \/ Failure(u)
            \/ RollbackInCommit(u) \/ RollbackInExit(u) \/ Close(u)
  <2>1. UNCHANGED <<topic, raised>>
    BY <1>10 DEF RaiseInBody, ReturnFromBody, Failure, CommitFails, SendFails, RollbackFails, Cancel,
                 RollbackInCommit, RollbackInExit, Discard, Close, unitVars, busVars
  <2> QED
    BY <1>2, <1>10, <2>1, LeavingOrder
<1> QED
  BY <1>3, <1>4, <1>5, <1>6, <1>7, <1>8, <1>9, <1>10 DEF Step

LEMMA CrashOrder ==
    ASSUME TypeInv, DispatchInv, OrderInv, Crash
    PROVE  OrderInv'
<1>1. /\ UNCHANGED <<unitVars, durable, confirmed, busVars>>
      /\ \A v \in Uow : pc'[v] = pc[v] \/ pc'[v] = "crashed"
  BY DEF Crash, TypeInv, TypeOK
<1>2. PublishedInOrder' /\ \A v \in Uow : Published(v)' = Published(v)
  BY <1>1, OrderOfTopicKept DEF unitVars, busVars
<1>3. ASSUME NEW v \in Uow PROVE UnitOrder(v)'
  <2>1. UnitOrder(v)
    BY DEF OrderInv
  <2>2. CASE pc'[v] = pc[v]
    <3>1. Concerns(v)' = Concerns(v)
      BY <1>1, <2>2 DEF Concerns, unitVars, busVars
    <3> QED
      BY <1>2, <2>1, <3>1, OrderKept
  <2>3. CASE pc'[v] = "crashed"
    <3>1. pc'[v] \notin Alive
      BY <2>3 DEF Alive
    <3> QED
      BY <1>1, <2>1, <3>1, GivesUp DEF unitVars, busVars
  <2> QED
    BY <1>1, <2>2, <2>3
<1> QED
  BY <1>2, <1>3 DEF OrderInv

LEMMA AlwaysOrderInv == Spec => []OrderInv
<1>1. ASSUME Init PROVE OrderInv
  <2>1. DOMAIN topic = {} /\ \A u \in Uow : Published(u) = {}
    BY <1>1, EmptySeq DEF Init, Published
  <2>2. ASSUME NEW u \in Uow PROVE UnitOrder(u)
    <3>1. /\ raised[u] = {} /\ staged[u] = 0 /\ changes[u] = 0 /\ confirmed[u] = 0 /\ durable[u] = 0
          /\ pc[u] = "new" /\ uncollected[u] = <<>> /\ pending[u] = <<>> /\ sending[u] = 0
      BY <1>1 DEF Init
    <3>2. /\ Elements(uncollected[u]) = {} /\ Sorted(uncollected[u])
          /\ Sorted(pending[u]) /\ InBatch(u) = {}
      BY <3>1, EmptySeq DEF Elements, Sorted, InBatch, From
    <3> QED
      BY <2>1, <3>1, <3>2 DEF UnitOrder, UnitCounters, UnitSending, UnitBatch
  <2> QED
    BY <2>1, <2>2 DEF OrderInv, PublishedInOrder
<1>2. ASSUME TypeInv, DispatchInv, OrderInv, [Next]_vars PROVE OrderInv'
  <2>1. CASE UNCHANGED vars
    <3>1. UNCHANGED <<topic, raised>> /\ \A u : Concerns(u)' = Concerns(u)
      BY <2>1 DEF vars, Concerns, unitVars, busVars
    <3>2. PublishedInOrder' /\ \A u : Published(u)' = Published(u)
      BY <1>2, <3>1, OrderOfTopicKept
    <3> QED
      BY <1>2, <3>1, <3>2, OrderKept DEF OrderInv
  <2> QED
    BY <1>2, <2>1, StepOrder, CrashOrder DEF Next
<1> QED
  BY <1>1, <1>2, TypeCorrect, AlwaysDispatchInv, PTL DEF Spec

\* Order of one unit's events in the topic: for any units, handlers, bounds
\* and faults, no event appears before an earlier one of its unit, and none is
\* skipped (publish_many's loop, with everything that feeds it).
THEOREM PublishedByOrder == Spec => []PublishedInOrder
<1>1. OrderInv => PublishedInOrder
  BY DEF OrderInv
<1> QED
  BY <1>1, AlwaysOrderInv, PTL

-----------------------------------------------------------------------------
(* What a normal return of commit() means                                  *)

\* Events up to the last confirmed change are published.
UnitConfirmed(u) == \A i \in raised[u] : i <= confirmed[u] => i \in Published(u)
ConfirmedInv == \A u \in Uow : UnitConfirmed(u)

\* A batch that is published, and nothing left in the aggregate that is durable.
LEMMA ReturnConfirms ==
    ASSUME TypeInv, DispatchInv, OrderInv, NEW u \in Uow, CommitReturns(u) \/ BatchPublished(u)
    PROVE  UnitConfirmed(u)'
<1>1. /\ pc[u] \in {"committed", "send"} /\ confirmed'[u] = durable[u] /\ UNCHANGED <<raised, topic>>
  BY DEF CommitReturns, BatchPublished, TypeInv, TypeOK, unitVars, busVars
<1>2. /\ staged[u] = durable[u] /\ durable[u] \in Nat /\ raised[u] \subseteq Nat
      /\ raised[u] \subseteq Published(u) \cup InBatch(u) \cup Elements(uncollected[u])
      /\ \A i \in Elements(uncollected[u]) : durable[u] < i
  BY <1>1, UnitKnown DEF UnitDispatch, UnitOrder, UnitBatch, UnitCounters, Alive
<1>3. InBatch(u) \subseteq Published(u)
  <2>1. CASE CommitReturns(u)
    <3>1. pending[u] = <<>> /\ From(u) = 1
      BY <2>1 DEF CommitReturns, From
    <3> QED
      BY <3>1, EmptySeq DEF InBatch
  <2>2. CASE BatchPublished(u)
    <3>1. pc[u] = "send" /\ copies[u] > 0 /\ next[u] = Len(pending[u])
      BY <2>2 DEF BatchPublished
    <3>2. next[u]..Len(pending[u]) = {next[u]}
      BY <3>1, UnitKnown
    <3>3. InBatch(u) = {pending[u][next[u]]}
      BY <3>1, <3>2 DEF InBatch, From
    <3>4. UnitSending(u) /\ pending[u][next[u]] # 0
      BY <3>1, UnitKnown, AtHand DEF UnitOrder
    <3>5. pending[u][next[u]] \in Published(u)
      BY <3>1, <3>4 DEF UnitSending
    <3> QED
      BY <3>3, <3>5
  <2> QED
    BY <2>1, <2>2
<1>4. ASSUME NEW i \in raised[u], i <= durable[u] PROVE i \in Published(u)
  BY <1>2, <1>3, <1>4
<1>5. Published(u)' = Published(u)
  BY <1>1 DEF Published
<1> QED
  BY <1>1, <1>4, <1>5 DEF UnitConfirmed

LEMMA AlwaysConfirmedInv == Spec => []ConfirmedInv
<1>1. Init => ConfirmedInv
  BY DEF Init, ConfirmedInv, UnitConfirmed
<1>2. ASSUME TypeInv, DispatchInv, OrderInv, ConfirmedInv, [Next]_vars PROVE ConfirmedInv'
  <2> SUFFICES ASSUME NEW v \in Uow PROVE UnitConfirmed(v)'
    BY DEF ConfirmedInv
  <2>1. UnitConfirmed(v)
    BY <1>2 DEF ConfirmedInv
  <2>2. ASSUME raised'[v] = raised[v], confirmed'[v] = confirmed[v], Published(v) \subseteq Published(v)'
        PROVE  UnitConfirmed(v)'
    BY <2>1, <2>2 DEF UnitConfirmed
  <2>3. ASSUME topic' = topic PROVE Published(v)' = Published(v)
    BY <2>3 DEF Published
  <2>4. CASE UNCHANGED vars
    BY <2>2, <2>3, <2>4 DEF vars, unitVars, busVars
  <2>5. CASE Crash
    BY <2>2, <2>3, <2>5 DEF Crash, unitVars, busVars
  <2>6. ASSUME NEW u \in Uow, Step(u) \/ Failure(u), v # u PROVE UnitConfirmed(v)'
    <3>1. raised'[v] = raised[v] /\ confirmed'[v] = confirmed[v]
      BY <1>2, <2>6, OthersUnmoved DEF Concerns
    <3>2. topic' = topic \/ BrokerAppends(u)
      <4>1. CASE Step(u)
        BY <4>1 DEF Step, Enter, Change, Persist, CallCommit, RaiseInBody, ReturnFromBody,
              DatabaseCommits, CommitReturns, StartDispatch, HandleInProcess, SendToKafka,
              SendAcknowledged, BatchPublished, RollbackInCommit, RollbackInExit, Discard, Close,
              unitVars, busVars
      <4>2. CASE Failure(u)
        BY <4>2 DEF Failure, CommitFails, SendFails, RollbackFails, Cancel, unitVars, busVars
      <4> QED
        BY <2>6, <4>1, <4>2
    <3>3. Published(v)' = Published(v)
      BY <1>2, <2>3, <2>6, <3>2, PublishedGrows
    <3> QED
      BY <2>2, <3>1, <3>3
  <2>7. CASE CommitReturns(v) \/ BatchPublished(v)
    BY <1>2, <2>7, ReturnConfirms
  <2>8. CASE Change(v)
    <3>1. /\ topic' = topic /\ confirmed' = confirmed /\ raised'[v] \subseteq raised[v] \cup {changes[v] + 1}
      BY <1>2, <2>8 DEF Change, TypeInv, TypeOK, busVars
    <3>2. ~(changes[v] + 1 <= confirmed[v])
      BY <1>2, UnitKnown DEF UnitDispatch, UnitOrder, UnitCounters
    <3> QED
      BY <2>1, <2>3, <3>1, <3>2 DEF UnitConfirmed
  <2>9. CASE BrokerAppends(v)
    <3>1. UNCHANGED <<raised, confirmed>>
      BY <2>9 DEF BrokerAppends, unitVars
    <3> QED
      BY <1>2, <2>2, <2>9, <3>1, PublishedGrows
  <2>10. ASSUME \/ Enter(v) \/ Persist(v) \/ CallCommit(v) \/ RaiseInBody(v) \/ ReturnFromBody(v)
                \/ DatabaseCommits(v) \/ StartDispatch(v) \/ HandleInProcess(v) \/ SendToKafka(v)
                \/ SendAcknowledged(v) \/ RollbackInCommit(v) \/ RollbackInExit(v) \/ Close(v)
                \/ Failure(v)
         PROVE  UnitConfirmed(v)'
    <3>1. UNCHANGED <<raised, confirmed, topic>>
      BY <2>10 DEF Failure, Enter, Persist, Collect, CallCommit, RaiseInBody, ReturnFromBody,
            DatabaseCommits, StartDispatch, HandleInProcess, SendToKafka,
            SendAcknowledged, RollbackInCommit, RollbackInExit, Discard, Close,
            CommitFails, SendFails, RollbackFails, Cancel, unitVars, busVars
    <3> QED
      BY <2>2, <2>3, <3>1
  <2>11. ASSUME Step(v) \/ Failure(v) PROVE UnitConfirmed(v)'
    BY <2>7, <2>8, <2>9, <2>10, <2>11 DEF Step
  <2> QED
    BY <1>2, <2>4, <2>5, <2>6, <2>11 DEF Next
<1> QED
  BY <1>1, <1>2, TypeCorrect, AlwaysDispatchInv, AlwaysOrderInv, PTL DEF Spec

\* When commit() returns normally nothing of it is missing: every event of a
\* change committed by then is in the topic and was offered to every handler,
\* whatever happened before and whichever commit of the unit it was.
THEOREM ReturnedMeansDispatched == Spec => []ConfirmedMeansDispatched
<1>1. ASSUME ConfirmedInv, HandlersBeforeKafka PROVE ConfirmedMeansDispatched
  <2> SUFFICES ASSUME NEW u \in Uow, NEW i \in raised[u], i <= confirmed[u]
               PROVE  /\ i \in Published(u)
                      /\ \A h \in 1..NumHandlers : Call(u, i, h) \in attempted
    BY DEF ConfirmedMeansDispatched
  <2>1. i \in Published(u)
    BY <1>1 DEF ConfirmedInv, UnitConfirmed
  <2>2. PICK k \in DOMAIN topic : topic[k].uow = u /\ topic[k].change = i
    BY <2>1 DEF Published
  <2> QED
    BY <1>1, <2>1, <2>2 DEF HandlersBeforeKafka
<1> QED
  BY <1>1, AlwaysConfirmedInv, HandledBeforeKafka, PTL

-----------------------------------------------------------------------------
(* What a unit that gave up can still do                                   *)

\* After a failure, a cancellation or a crash only the event the producer
\* holds can still reach the topic, and no handler is called.
THEOREM GivenUpForGood == Spec => AbandonedBatch
<1>1. ASSUME TypeInv, [Next]_vars, NEW u \in Uow, pc[u] \in {"rollback", "exit", "close"} \cup Ended
      PROVE  /\ Published(u)' \subseteq Published(u) \cup {sending[u]}
             /\ {c \in attempted' : c.uow = u} \subseteq attempted
  <2>1. ASSUME topic' = topic PROVE Published(u)' = Published(u)
    BY <2>1 DEF Published
  <2>2. CASE UNCHANGED vars \/ Crash
    BY <2>1, <2>2 DEF vars, Crash, busVars
  <2>3. ASSUME NEW v \in Uow, Step(v) \/ Failure(v)
        PROVE  /\ Published(u)' \subseteq Published(u) \cup {sending[u]}
               /\ {c \in attempted' : c.uow = u} \subseteq attempted
    <3>1. CASE BrokerAppends(v)
      <4>1. attempted' = attempted
        BY <3>1 DEF BrokerAppends
      <4> QED
        BY <1>1, <3>1, <4>1, PublishedGrows
    <3>2. CASE HandleInProcess(v)
      <4>1. v # u /\ topic' = topic
        BY <1>1, <3>2 DEF HandleInProcess, Ended
      <4>2. \A c \in attempted' : c \in attempted \/ c.uow = v
        BY <3>2 DEF HandleInProcess, Call
      <4> QED
        BY <2>1, <4>1, <4>2
    <3>3. CASE ~BrokerAppends(v) /\ ~HandleInProcess(v)
      <4>1. UNCHANGED <<topic, attempted>>
        BY <2>3, <3>3 DEF Step, Failure, Enter, Change, Persist, CallCommit, RaiseInBody,
              ReturnFromBody, DatabaseCommits, CommitReturns, StartDispatch, SendToKafka,
              SendAcknowledged, BatchPublished, RollbackInCommit, RollbackInExit, Discard, Close,
              CommitFails, SendFails, RollbackFails, Cancel, unitVars, busVars
      <4> QED
        BY <2>1, <4>1
    <3> QED
      BY <3>1, <3>2, <3>3
  <2> QED
    BY <1>1, <2>2, <2>3 DEF Next
<1>2. TypeInv /\ [Next]_vars =>
        [\A u \in Uow : pc[u] \in {"rollback", "exit", "close"} \cup Ended =>
            /\ Published(u)' \subseteq Published(u) \cup {sending[u]}
            /\ {c \in attempted' : c.uow = u} \subseteq attempted]_vars
  BY <1>1
<1> QED
  BY <1>2, TypeCorrect, PTL DEF Spec, AbandonedBatch

-----------------------------------------------------------------------------
(* The unit of work implements the event log                               *)

THEOREM EventLogImplemented == Spec => ImplementsEventLog
<1>1. ASSUME Init PROVE Promise!Init
  BY <1>1 DEF Init, Promise!Init
<1>2. ASSUME TypeInv, DispatchInv, OrderInv, [Next]_vars PROVE [Promise!Next]_(Promise!vars)
  <2>1. ASSUME UNCHANGED <<raised, durable, topic>> PROVE [Promise!Next]_(Promise!vars)
    BY <2>1 DEF Promise!vars
  <2>2. CASE UNCHANGED vars \/ Crash
    BY <2>1, <2>2 DEF vars, Crash, unitVars, busVars
  <2>3. ASSUME NEW u \in Uow, Change(u) PROVE [Promise!Next]_(Promise!vars)
    <3>1. CASE UNCHANGED raised
      BY <2>1, <2>3, <3>1 DEF Change, busVars
    <3>2. CASE ~UNCHANGED raised
      <4> DEFINE i == changes[u] + 1
      <4>1. raised' = [raised EXCEPT ![u] = @ \cup {i}] /\ UNCHANGED <<durable, topic>>
        BY <1>2, <2>3, <3>2 DEF Change, TypeInv, TypeOK, busVars
      <4>2. i \in 1..MaxChanges
        BY <1>2, <2>3, UnitTypes, BoundsAssumption, IncrementBelow DEF Change, TypeInv
      <4>3. i > durable[u] /\ \A j \in raised[u] : j < i
        BY <1>2, UnitKnown DEF UnitDispatch, UnitOrder, UnitCounters
      <4> HIDE DEF i
      <4>4. Promise!Raise(u)
        BY <4>1, <4>2, <4>3 DEF Promise!Raise
      <4> QED
        BY <4>4 DEF Promise!Next
    <3> QED
      BY <3>1, <3>2
  <2>4. ASSUME NEW u \in Uow, DatabaseCommits(u) PROVE [Promise!Next]_(Promise!vars)
    <3>1. /\ durable' = [durable EXCEPT ![u] = staged[u]] /\ UNCHANGED <<raised, topic>>
      BY <2>4 DEF DatabaseCommits, unitVars, busVars
    <3>2. durable[u] < staged[u]
      BY <1>2, <2>4, UnitKnown DEF DatabaseCommits, UnitOrder, UnitCounters
    <3>3. staged[u] \in 1..MaxChanges /\ staged[u] > durable[u]
      BY <1>2, <3>2, BoundsAssumption DEF TypeInv, TypeOK
    <3>4. Promise!Commit(u)
      BY <3>1, <3>3 DEF Promise!Commit
    <3> QED
      BY <3>4 DEF Promise!Next
  <2>5. ASSUME NEW u \in Uow, BrokerAppends(u) PROVE [Promise!Next]_(Promise!vars)
    <3> DEFINE i == sending[u]
    <3>1. /\ i # 0 /\ topic' = Append(topic, [uow |-> u, change |-> i]) /\ UNCHANGED <<raised, durable>>
      BY <2>5 DEF BrokerAppends, Event, unitVars
    <3>2. Promise!Logged(u) = Published(u)
      BY DEF Promise!Logged, Published
    <3>3. /\ i \in raised[u] /\ i <= durable[u]
          /\ \A j \in raised[u] : j < i => j \in Promise!Logged(u)
          /\ \A j \in Promise!Logged(u) : j <= i
      BY <1>2, <3>1, <3>2, UnitKnown DEF UnitDispatch, UnitOrder, UnitSending
    <3> HIDE DEF i
    <3>4. Promise!Publish(u)
      BY <3>1, <3>3 DEF Promise!Publish
    <3> QED
      BY <3>4 DEF Promise!Next
  <2>6. ASSUME NEW u \in Uow, Step(u) \/ Failure(u),
               ~Change(u), ~DatabaseCommits(u), ~BrokerAppends(u)
        PROVE  UNCHANGED <<raised, durable, topic>>
    BY <2>6 DEF Step, Failure, Enter, Persist, Collect, CallCommit, RaiseInBody, ReturnFromBody,
          CommitReturns, StartDispatch, HandleInProcess, SendToKafka,
          SendAcknowledged, BatchPublished, RollbackInCommit, RollbackInExit, Discard, Close,
          CommitFails, SendFails, RollbackFails, Cancel, unitVars, busVars
  <2> QED
    BY <1>2, <2>1, <2>2, <2>3, <2>4, <2>5, <2>6 DEF Next
<1> QED
  BY <1>1, <1>2, TypeCorrect, AlwaysDispatchInv, AlwaysOrderInv, PTL
  DEF Spec, ImplementsEventLog, Promise!Spec
=============================================================================
