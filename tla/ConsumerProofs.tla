--------------------------- MODULE ConsumerProofs ---------------------------
(***************************************************************************)
(* What the group commits was offered, in the order of each partition, and *)
(* is never taken back: for any members, partitions, logs and faults.      *)
(***************************************************************************)
EXTENDS Consumer, TLAPS

InHand(m, t) == pc[m] = "handle" /\ msg[m] = t

\* What p's owner has fetched since it was assigned p is done with, but for
\* the one message it has in hand.
FetchedIsKnown ==
    \A p \in Partition : \A o \in Offset(p) :
        o < position[p] => \/ <<p, o>> \in offered
                           \/ owner[p] \in Member /\ InHand(owner[p], <<p, o>>)

\* A loop has in hand, even after others took over its partitions, the first
\* message of a partition that was not done with when it was fetched.
InHandInOrder ==
    \A m \in Member : pc[m] = "handle" =>
        \A o \in Offset(msg[m][1]) : o < msg[m][2] => <<msg[m][1], o>> \in offered

\* What the loops and the broker keep to.
Assigned ==
    /\ TypeOK
    /\ msg \in [Member -> Message \cup {<<>>}]
    /\ \A p \in Partition : committed[p] <= position[p]

ConsumerInv ==
    /\ Assigned
    /\ FetchedIsKnown
    /\ InHandInOrder
    /\ CommittedWasOffered
    /\ OfferedInOrder

\* The messages are those of the partitions.
LEMMA Messages ==
    /\ \A p \in Partition : \A o \in Offset(p) : <<p, o>> \in Message
    /\ \A t \in Message : /\ t[1] \in Partition /\ t[2] \in Offset(t[1])
                          /\ t = <<t[1], t[2]>>
BY DEF Message

LEMMA Offsets ==
    ASSUME NEW p \in Partition
    PROVE  /\ LogLen[p] \in Nat /\ Offset(p) \subseteq Nat
           /\ \A n \in Nat : n < LogLen[p] => n \in Offset(p)
BY LogLenAssumption DEF Offset

\* What holds at first.
LEMMA ConsumerInitially == Init => ConsumerInv
<1> SUFFICES ASSUME Init PROVE ConsumerInv
  OBVIOUS
<1>1. TypeOK
  BY LogLenAssumption, MaxFaultsAssumption DEF Init, TypeOK, PcStates
<1>2. Assigned
  BY <1>1 DEF Assigned, Init
<1>3. \A p \in Partition : Offset(p) \subseteq Nat
  BY Offsets
<1> QED
  BY <1>2, <1>3 DEF Init, ConsumerInv, FetchedIsKnown, InHandInOrder, CommittedWasOffered,
                     OfferedInOrder

\* A rebalance: every partition goes on from what is committed, all of which
\* was offered; the loops keep what they have in hand.
LEMMA RebalancePreserves ==
    ASSUME ConsumerInv, NEW members \in SUBSET Member, Rebalance(members),
           UNCHANGED <<kind, committed, offered, succeeded>>,
           faults' \in 0..MaxFaults,
           pc' \in [Member -> PcStates], msg' \in [Member -> Message \cup {<<>>}],
           \A n \in Member : pc'[n] \in {"handle", "commit"} => pc[n] = pc'[n] /\ msg'[n] = msg[n]
    PROVE  ConsumerInv'
<1>1. /\ group' \subseteq Member /\ position' = [p \in Partition |-> committed[p]]
      /\ owner' \in [Partition -> Member \cup {NoMember}]
  BY DEF Rebalance
<1>2. \A p \in Partition : committed[p] \in Nat /\ committed[p] <= LogLen[p]
  BY DEF ConsumerInv, Assigned, TypeOK
<1>3. TypeOK'
  BY <1>1, <1>2 DEF ConsumerInv, Assigned, TypeOK
<1>4. Assigned'
  BY <1>1, <1>2, <1>3 DEF Assigned
<1>5. FetchedIsKnown'
  BY <1>1 DEF ConsumerInv, CommittedWasOffered, FetchedIsKnown
<1>6. InHandInOrder'
  BY DEF ConsumerInv, InHandInOrder
<1> QED
  BY <1>4, <1>5, <1>6 DEF ConsumerInv, CommittedWasOffered, OfferedInOrder

LEMMA FaultCounts ==
    ASSUME faults \in 0..MaxFaults, Fault
    PROVE  faults' \in 0..MaxFaults
BY MaxFaultsAssumption DEF Fault

LEMMA MembershipPreserves ==
    ASSUME ConsumerInv, NEW m \in Member,
           Start(m) \/ Expel(m) \/ Rejoin(m) \/ LeaveDead(m) \/ Leave(m)
    PROVE  ConsumerInv'
<1>1. /\ pc \in [Member -> PcStates] /\ msg \in [Member -> Message \cup {<<>>}]
      /\ group \subseteq Member /\ faults \in 0..MaxFaults
  BY DEF ConsumerInv, Assigned, TypeOK
<1>2. CASE Start(m)
  <2>1. /\ Rebalance(group \cup {m}) /\ pc' = [pc EXCEPT ![m] = "poll"]
        /\ UNCHANGED <<kind, committed, msg, offered, succeeded, faults>>
    BY <1>2 DEF Start, Goto
  <2> QED
    BY <1>1, <2>1, RebalancePreserves DEF PcStates
<1>3. CASE Rejoin(m)
  BY <1>1, <1>3, RebalancePreserves DEF Rejoin
<1>4. CASE LeaveDead(m)
  BY <1>1, <1>4, RebalancePreserves DEF LeaveDead
<1>5. CASE Expel(m)
  BY <1>1, <1>5, RebalancePreserves, FaultCounts DEF Expel
<1>6. CASE Leave(m)
  <2>1. /\ Rebalance(group \ {m}) /\ pc' = [pc EXCEPT ![m] = "down"]
        /\ msg' = [msg EXCEPT ![m] = <<>>] /\ faults' \in 0..MaxFaults
        /\ UNCHANGED <<kind, committed, offered, succeeded>>
    BY <1>1, <1>6, FaultCounts DEF Leave, Drop, Goto
  <2> QED
    BY <1>1, <2>1, RebalancePreserves DEF PcStates
<1> QED
  BY <1>2, <1>3, <1>4, <1>5, <1>6

-----------------------------------------------------------------------------

\* The next message of a partition is taken in hand: all before it are done
\* with, as the loop has nothing in hand.
LEMMA PollPreserves ==
    ASSUME ConsumerInv, NEW m \in Member, Poll(m)
    PROVE  ConsumerInv'
<1>1. PICK p \in Partition : /\ owner[p] = m /\ position[p] < LogLen[p]
                             /\ msg' = [msg EXCEPT ![m] = <<p, position[p]>>]
                             /\ position' = [position EXCEPT ![p] = @ + 1]
  BY DEF Poll
<1>2. /\ pc[m] = "poll" /\ pc' = [pc EXCEPT ![m] = "handle"]
      /\ UNCHANGED <<kind, committed, group, owner, offered, succeeded, faults>>
  BY DEF Poll, Goto
<1>3. /\ pc \in [Member -> PcStates] /\ msg \in [Member -> Message \cup {<<>>}]
      /\ position \in [Partition -> Nat] /\ committed \in [Partition -> Nat]
      /\ owner \in [Partition -> Member \cup {NoMember}]
      /\ \A q \in Partition : committed[q] <= position[q] /\ position[q] <= LogLen[q]
  BY DEF ConsumerInv, Assigned, TypeOK
<1>4. position[p] \in Offset(p) /\ <<p, position[p]>> \in Message /\ position[p] \in Nat
  BY <1>1, <1>3, Offsets, Messages
<1>5. /\ position' \in [Partition -> Nat] /\ position'[p] = position[p] + 1
      /\ \A q \in Partition \ {p} : position'[q] = position[q]
      /\ position[p] + 1 <= LogLen[p]
  BY <1>1, <1>3, Offsets
<1>6. /\ pc' \in [Member -> PcStates] /\ msg' \in [Member -> Message \cup {<<>>}]
      /\ pc'[m] = "handle" /\ msg'[m] = <<p, position[p]>>
      /\ \A n \in Member \ {m} : pc'[n] = pc[n] /\ msg'[n] = msg[n]
  BY <1>1, <1>2, <1>3, <1>4 DEF PcStates
<1>7. \A q \in Partition : committed[q] <= position'[q] /\ position'[q] <= LogLen[q]
  <2> SUFFICES ASSUME NEW q \in Partition
               PROVE  committed[q] <= position'[q] /\ position'[q] <= LogLen[q]
    OBVIOUS
  <2>1. /\ committed[q] \in Nat /\ position[q] \in Nat /\ LogLen[q] \in Nat
        /\ committed[q] <= position[q] /\ position[q] <= LogLen[q]
    BY <1>3, Offsets
  <2>2. position'[q] = position[q] \/ (position'[q] = position[q] + 1 /\ position[q] + 1 <= LogLen[q])
    BY <1>5
  <2> QED
    BY <2>1, <2>2
<1>8. TypeOK'
  <2>1. \A n \in Member : pc'[n] \in {"handle", "commit"} => msg'[n] \in Message
    BY <1>4, <1>6 DEF ConsumerInv, Assigned, TypeOK
  <2>2. \A q \in Partition : committed'[q] <= LogLen[q] /\ position'[q] <= LogLen[q]
    BY <1>2, <1>7 DEF ConsumerInv, Assigned, TypeOK
  <2> QED
    BY <1>2, <1>5, <1>6, <2>1, <2>2 DEF ConsumerInv, Assigned, TypeOK
<1>9. Assigned'
  BY <1>2, <1>6, <1>7, <1>8 DEF Assigned
<1>10. \A q \in Partition : owner[q] = m => \A o \in Offset(q) : o < position[q] => <<q, o>> \in offered
  BY <1>2 DEF ConsumerInv, FetchedIsKnown, InHand
<1>11. FetchedIsKnown'
  <2> SUFFICES ASSUME NEW q \in Partition, NEW o \in Offset(q), o < position'[q], <<q, o>> \notin offered
               PROVE  owner[q] \in Member /\ pc'[owner[q]] = "handle" /\ msg'[owner[q]] = <<q, o>>
    BY <1>2 DEF FetchedIsKnown, InHand
  <2>1. CASE q = p
    <3>1. o \in Nat /\ o = position[p]
      BY <1>1, <1>4, <1>5, <1>10, <2>1, Offsets
    <3> QED
      BY <1>1, <1>6, <2>1, <3>1
  <2>2. CASE q # p
    <3>1. o < position[q]
      BY <1>5, <2>2
    <3>2. owner[q] # m
      BY <1>10, <3>1
    <3> QED
      BY <1>6, <3>1, <3>2 DEF ConsumerInv, FetchedIsKnown, InHand
  <2> QED
    BY <2>1, <2>2
<1>12. InHandInOrder'
  <2> SUFFICES ASSUME NEW n \in Member, pc'[n] = "handle", NEW o \in Offset(msg'[n][1]), o < msg'[n][2]
               PROVE  <<msg'[n][1], o>> \in offered
    BY <1>2 DEF InHandInOrder
  <2>1. CASE n = m
    BY <1>1, <1>6, <1>10, <2>1
  <2>2. CASE n # m
    BY <1>6, <2>2 DEF ConsumerInv, InHandInOrder
  <2> QED
    BY <2>1, <2>2
<1> QED
  BY <1>2, <1>9, <1>11, <1>12 DEF ConsumerInv, CommittedWasOffered, OfferedInOrder

\* A loop is done with the message in its hands: all before it were.
LEMMA DonePreserves ==
    ASSUME ConsumerInv, NEW m \in Member, NEW state \in PcStates \ {"handle"},
           pc[m] = "handle", pc' = [pc EXCEPT ![m] = state],
           \/ msg' = msg
           \/ state = "poll" /\ msg' = [msg EXCEPT ![m] = <<>>],
           offered' = offered \cup {msg[m]},
           succeeded' \subseteq succeeded \cup {msg[m]},
           UNCHANGED <<kind, committed, group, owner, position, faults>>
    PROVE  ConsumerInv'
<1>1. /\ pc \in [Member -> PcStates] /\ msg \in [Member -> Message \cup {<<>>}]
      /\ msg[m] \in Message /\ succeeded \subseteq offered
  BY DEF ConsumerInv, Assigned, TypeOK
<1>2. /\ pc' \in [Member -> PcStates] /\ msg' \in [Member -> Message \cup {<<>>}]
      /\ \A n \in Member : /\ pc'[n] = "handle" => pc[n] = "handle" /\ n # m /\ msg'[n] = msg[n]
                           /\ pc'[n] \in {"handle", "commit"} => msg'[n] \in Message
      /\ \A n \in Member \ {m} : pc'[n] = pc[n] /\ msg'[n] = msg[n]
  BY <1>1 DEF ConsumerInv, Assigned, TypeOK
<1>3. Assigned'
  BY <1>1, <1>2 DEF ConsumerInv, Assigned, TypeOK
<1>4. FetchedIsKnown'
  BY <1>2 DEF ConsumerInv, FetchedIsKnown, InHand
<1>5. InHandInOrder'
  BY <1>2 DEF ConsumerInv, InHandInOrder
<1>6. OfferedInOrder'
  BY DEF ConsumerInv, InHandInOrder, OfferedInOrder
<1> QED
  BY <1>3, <1>4, <1>5, <1>6 DEF ConsumerInv, CommittedWasOffered

\* A loop that stops, or goes on, without a commit.
LEMMA MovesOnPreserves ==
    ASSUME ConsumerInv, NEW m \in Member, NEW state \in {"poll", "dead"},
           pc[m] \in {"poll", "commit"}, pc' = [pc EXCEPT ![m] = state],
           msg' = msg \/ msg' = [msg EXCEPT ![m] = <<>>],
           faults' \in 0..MaxFaults,
           UNCHANGED <<kind, committed, group, owner, position, offered, succeeded>>
    PROVE  ConsumerInv'
<1>1. pc \in [Member -> PcStates] /\ msg \in [Member -> Message \cup {<<>>}]
  BY DEF ConsumerInv, Assigned, TypeOK
<1>2. /\ pc' \in [Member -> PcStates] /\ msg' \in [Member -> Message \cup {<<>>}]
      /\ \A n \in Member : pc'[n] \in {"handle", "commit"} => n # m
      /\ \A n \in Member \ {m} : pc'[n] = pc[n] /\ msg'[n] = msg[n]
  BY <1>1 DEF PcStates
<1>3. Assigned'
  BY <1>2 DEF ConsumerInv, Assigned, TypeOK
<1>4. FetchedIsKnown'
  BY <1>2 DEF ConsumerInv, FetchedIsKnown, InHand
<1>5. InHandInOrder'
  BY <1>2 DEF ConsumerInv, InHandInOrder
<1> QED
  BY <1>3, <1>4, <1>5 DEF ConsumerInv, CommittedWasOffered, OfferedInOrder

\* commit(): the loop has nothing in hand that is not done with, so all it has
\* fetched was offered.
LEMMA CommitPreserves ==
    ASSUME ConsumerInv, NEW m \in Member, Commit(m)
    PROVE  ConsumerInv'
<1>1. /\ pc[m] = "commit" /\ pc' = [pc EXCEPT ![m] = "poll"] /\ msg' = [msg EXCEPT ![m] = <<>>]
      /\ committed' = [p \in Partition |-> IF owner[p] = m THEN position[p] ELSE committed[p]]
      /\ UNCHANGED <<kind, group, owner, position, offered, succeeded, faults>>
  BY DEF Commit, Drop, Goto
<1>2. /\ pc \in [Member -> PcStates] /\ msg \in [Member -> Message \cup {<<>>}]
      /\ position \in [Partition -> Nat] /\ committed \in [Partition -> Nat]
      /\ \A q \in Partition : committed[q] <= position[q] /\ position[q] <= LogLen[q]
  BY DEF ConsumerInv, Assigned, TypeOK
<1>3. /\ pc' \in [Member -> PcStates] /\ msg' \in [Member -> Message \cup {<<>>}]
      /\ \A n \in Member : pc'[n] \in {"handle", "commit"} => n # m
      /\ \A n \in Member \ {m} : pc'[n] = pc[n] /\ msg'[n] = msg[n]
  BY <1>1, <1>2 DEF PcStates
<1>4. /\ committed' \in [Partition -> Nat]
      /\ \A q \in Partition : committed'[q] <= position[q] /\ committed'[q] <= LogLen[q]
  BY <1>1, <1>2, Offsets DEF ConsumerInv, Assigned, TypeOK
<1>5. Assigned'
  BY <1>1, <1>3, <1>4 DEF ConsumerInv, Assigned, TypeOK
<1>6. FetchedIsKnown'
  BY <1>1, <1>3 DEF ConsumerInv, FetchedIsKnown, InHand
<1>7. InHandInOrder'
  BY <1>1, <1>3 DEF ConsumerInv, InHandInOrder
<1>8. CommittedWasOffered'
  BY <1>1 DEF ConsumerInv, FetchedIsKnown, InHand, CommittedWasOffered
<1> QED
  BY <1>1, <1>5, <1>6, <1>7, <1>8 DEF ConsumerInv, OfferedInOrder

\* Every other step of a consume loop.
LEMMA LoopPreserves ==
    ASSUME ConsumerInv, NEW m \in Member,
           \/ ConsumeLoopError(m) \/ HandlerReturns(m) \/ HandlerRaises(m)
           \/ NoHandler(m) \/ CommitRefused(m) \/ CommitFails(m)
    PROVE  ConsumerInv'
<1>1. faults \in 0..MaxFaults
  BY DEF ConsumerInv, Assigned, TypeOK
<1>2. CASE ConsumeLoopError(m)
  BY <1>1, <1>2, MovesOnPreserves DEF ConsumeLoopError, Goto
<1>3. CASE HandlerReturns(m)
  BY <1>3, DonePreserves DEF HandlerReturns, Goto, PcStates
<1>4. CASE HandlerRaises(m)
  BY <1>4, DonePreserves DEF HandlerRaises, Drop, Goto, PcStates
<1>5. CASE NoHandler(m)
  BY <1>5, DonePreserves DEF NoHandler, Goto, PcStates
<1>6. CASE CommitRefused(m)
  BY <1>1, <1>6, MovesOnPreserves DEF CommitRefused, Drop, Goto
<1>7. CASE CommitFails(m)
  BY <1>1, <1>7, MovesOnPreserves, FaultCounts DEF CommitFails, Drop, Goto
<1> QED
  BY <1>2, <1>3, <1>4, <1>5, <1>6, <1>7

LEMMA ConsumerInvInductive == ConsumerInv /\ [Next]_vars => ConsumerInv'
<1>1. ASSUME ConsumerInv, UNCHANGED vars PROVE ConsumerInv'
  <2> USE <1>1 DEF vars
  <2>1. Assigned'
    BY DEF ConsumerInv, Assigned, TypeOK
  <2>2. FetchedIsKnown' /\ InHandInOrder'
    BY DEF ConsumerInv, FetchedIsKnown, InHandInOrder, InHand
  <2> QED
    BY <2>1, <2>2 DEF ConsumerInv, CommittedWasOffered, OfferedInOrder
<1> QED
  BY <1>1, MembershipPreserves, PollPreserves, CommitPreserves, LoopPreserves DEF Next, Step

LEMMA AlwaysConsumerInv == Spec => []ConsumerInv
BY ConsumerInitially, ConsumerInvInductive, PTL DEF Spec

-----------------------------------------------------------------------------

\* Every variable of the consumer group keeps its type, no offset beyond the
\* log.
THEOREM TypeCorrect == Spec => []TypeOK
<1>1. ConsumerInv => TypeOK
  BY DEF ConsumerInv, Assigned
<1> QED
  BY <1>1, AlwaysConsumerInv, PTL

\* consume(): whatever is committed, by whichever member and however late, a
\* loop was done with.
THEOREM OnlyOfferedIsCommitted == Spec => []CommittedWasOffered
<1>1. ConsumerInv => CommittedWasOffered
  BY DEF ConsumerInv
<1> QED
  BY <1>1, AlwaysConsumerInv, PTL

\* consume(): no loop is done with a message before all earlier ones of its
\* partition were.
THEOREM OfferedByOffset == Spec => []OfferedInOrder
<1>1. ConsumerInv => OfferedInOrder
  BY DEF ConsumerInv
<1> QED
  BY <1>1, AlwaysConsumerInv, PTL

\* consume(): no commit, late or repeated, moves the group back.
THEOREM CommitsOnlyAdvance == Spec => CommittedMonotone
<1>1. ConsumerInv /\ [Next]_vars => [\A p \in Partition : committed[p] <= committed'[p]]_vars
  <2> SUFFICES ASSUME ConsumerInv, Next, NEW p \in Partition PROVE committed[p] <= committed'[p]
    OBVIOUS
  <2>1. committed[p] \in Nat /\ committed[p] <= position[p]
    BY DEF ConsumerInv, Assigned, TypeOK
  <2>2. ASSUME NEW m \in Member, Commit(m) PROVE committed[p] <= committed'[p]
    BY <2>1, <2>2 DEF Commit
  <2>3. committed' = committed \/ \E m \in Member : Commit(m)
    BY DEF Next, Step, Start, Expel, Leave, CommitFails, Rejoin, LeaveDead, Poll,
           ConsumeLoopError, HandlerReturns, HandlerRaises, NoHandler, CommitRefused
  <2> QED
    BY <2>1, <2>2, <2>3
<1> QED
  BY <1>1, AlwaysConsumerInv, PTL DEF Spec, CommittedMonotone
=============================================================================
