------------------------------ MODULE Consumer ------------------------------
(***************************************************************************)
(* KafkaConsumerManager: the consume loop of each member of one consumer   *)
(* group, over the partitions of the subscribed topics.                    *)
(*                                                                         *)
(* Offsets count from 0.  Partition p holds LogLen[p] messages from the    *)
(* start: the producer side is UnitOfWork's.  A message is "routed" (its   *)
(* event type has a registered handler), "unrouted" (it has none) or       *)
(* "corrupt" (the value deserializer raises on it).                        *)
(*                                                                         *)
(* The broker's group protocol and the client's positions are external:    *)
(* every membership change reassigns all partitions and restarts each from *)
(* the group's committed offset (aiokafka's eager protocol).               *)
(***************************************************************************)
EXTENDS Naturals, FiniteSets

CONSTANTS
    Member,       \* processes running a consumer of the group
    Partition,    \* partitions of the subscribed topics
    LogLen,       \* LogLen[p]: messages in partition p
    NoMember,     \* owner of a partition while the group is empty
    MaxFaults     \* bound: failed commits, expulsions, crashes and stops

ASSUME LogLenAssumption == LogLen \in [Partition -> Nat]
ASSUME NoMemberAssumption == NoMember \notin Member
ASSUME MaxFaultsAssumption == MaxFaults \in Nat

VARIABLES
    kind,       \* kind[p][o]: the message at offset o of partition p
    committed,  \* committed[p]: the group's committed offset
    group,      \* members the broker knows
    owner,      \* owner[p]: the member p is assigned to
    position,   \* position[p]: the next offset p's owner will fetch
    pc,         \* pc[m]: where m's consume loop is
    msg,        \* msg[m]: <<partition, offset>> of the message in hand
    offered,    \* messages a loop is done with: handled, failed or unrouted
    succeeded,  \* messages a handler returned from normally
    faults      \* faults so far

vars == <<kind, committed, group, owner, position, pc, msg, offered, succeeded, faults>>

-----------------------------------------------------------------------------

Offset(p) == 0..(LogLen[p] - 1)
Message == UNION {{p} \X Offset(p) : p \in Partition}
Kind(t) == kind[t[1]][t[2]]
Kinds == {f \in [Partition -> UNION {[Offset(p) -> {"routed", "unrouted", "corrupt"}] : p \in Partition}] :
              \A p \in Partition : DOMAIN f[p] = Offset(p)}

\* "down": not started, or the process is gone.  "dead": consume() raised, but
\* the client still sits in the group.
PcStates == {"down", "poll", "handle", "commit", "dead"}
Running == {m \in Member : pc[m] \in {"poll", "handle", "commit"}}

Goto(m, state) == pc' = [pc EXCEPT ![m] = state]
\* The loop is done with what it had in hand.
Drop(m, state) == Goto(m, state) /\ msg' = [msg EXCEPT ![m] = <<>>]
Fault == faults < MaxFaults /\ faults' = faults + 1

TypeOK ==
    /\ kind \in Kinds
    /\ committed \in [Partition -> Nat]
    /\ group \subseteq Member
    /\ owner \in [Partition -> Member \cup {NoMember}]
    /\ position \in [Partition -> Nat]
    /\ \A p \in Partition : committed[p] <= LogLen[p] /\ position[p] <= LogLen[p]
    /\ pc \in [Member -> PcStates]
    /\ \A m \in Member : pc[m] \in {"handle", "commit"} => msg[m] \in Message
    /\ offered \subseteq Message
    /\ succeeded \subseteq offered
    /\ faults \in 0..MaxFaults

\* A new group reads from the start (auto_offset_reset = "earliest").
Init ==
    /\ kind \in Kinds
    /\ committed = [p \in Partition |-> 0]
    /\ group = {}
    /\ owner = [p \in Partition |-> NoMember]
    /\ position = [p \in Partition |-> 0]
    /\ pc = [m \in Member |-> "down"]
    /\ msg = [m \in Member |-> <<>>]
    /\ offered = {}
    /\ succeeded = {}
    /\ faults = 0

-----------------------------------------------------------------------------
(* Mutants: plausible bugs, none of them a step of Next.                   *)

\* The position is committed when a message is fetched (auto-commit).
CommitOnPoll(m) ==
    /\ pc[m] = "poll"
    /\ \E p \in Partition :
        /\ owner[p] = m
        /\ position[p] < LogLen[p]
        /\ kind[p][position[p]] # "corrupt"
        /\ msg' = [msg EXCEPT ![m] = <<p, position[p]>>]
        /\ position' = [position EXCEPT ![p] = @ + 1]
        /\ committed' = [committed EXCEPT ![p] = position[p] + 1]
    /\ Goto(m, "handle")
    /\ UNCHANGED <<kind, group, owner, offered, succeeded, faults>>

\* A message without a handler is kept in hand until one is registered.
WaitForHandler(m) ==
    /\ pc[m] = "handle"
    /\ Kind(msg[m]) = "unrouted"
    /\ UNCHANGED vars

\* commit() is given the offset in hand instead of the assigned positions.
CommitInHand(m) ==
    /\ pc[m] = "commit"
    /\ committed' = [committed EXCEPT ![msg[m][1]] = msg[m][2] + 1]
    /\ Drop(m, "poll")
    /\ UNCHANGED <<kind, group, owner, position, offered, succeeded, faults>>

\* stop() commits what its client has fetched, the message in hand included.
CommitOnStop(m) ==
    /\ pc[m] # "down"
    /\ Fault
    /\ Drop(m, "down")
    /\ group' = group \ {m}
    /\ committed' = [p \in Partition |-> IF owner[p] = m THEN position[p] ELSE committed[p]]
    /\ owner' \in [Partition -> IF group' = {} THEN {NoMember} ELSE group']
    /\ position' = committed'
    /\ UNCHANGED <<kind, offered, succeeded>>

-----------------------------------------------------------------------------
(* Group membership                                                        *)

\* All partitions go to some of the members and restart where the group has
\* committed.
Rebalance(members) ==
    /\ group' = members
    /\ owner' \in [Partition -> IF members = {} THEN {NoMember} ELSE members]
    /\ position' = [p \in Partition |-> committed[p]]

\* start(): a new consumer joins, then consume() begins.
Start(m) ==
    /\ pc[m] = "down"
    /\ Goto(m, "poll")
    /\ Rebalance(group \cup {m})
    /\ UNCHANGED <<kind, committed, msg, offered, succeeded, faults>>

\* The broker drops a member that is too slow (session or poll timeout); its
\* loop runs on, and may have a message in hand.
Expel(m) ==
    /\ m \in group
    /\ pc[m] # "dead"
    /\ Fault
    /\ Rebalance(group \ {m})
    /\ UNCHANGED <<kind, committed, pc, msg, offered, succeeded>>

Rejoin(m) ==
    /\ m \in Running \ group
    /\ Rebalance(group \cup {m})
    /\ UNCHANGED <<kind, committed, pc, msg, offered, succeeded, faults>>

\* A client whose loop died no longer polls and leaves the group in the end.
LeaveDead(m) ==
    /\ m \in group
    /\ pc[m] = "dead"
    /\ Rebalance(group \ {m})
    /\ UNCHANGED <<kind, committed, pc, msg, offered, succeeded, faults>>

\* stop(), or the process dies, at any point of the loop.
Leave(m) ==
    /\ pc[m] # "down"
    /\ Fault
    /\ Drop(m, "down")
    /\ Rebalance(group \ {m})
    /\ UNCHANGED <<kind, committed, offered, succeeded>>

-----------------------------------------------------------------------------
(* The consume loop                                                        *)

\* `async for msg in self._consumer`: the next message of an assigned
\* partition; fetching it moves the position past it.
Poll(m) ==
    /\ pc[m] = "poll"
    /\ \E p \in Partition :
        /\ owner[p] = m
        /\ position[p] < LogLen[p]
        /\ kind[p][position[p]] # "corrupt"
        /\ msg' = [msg EXCEPT ![m] = <<p, position[p]>>]
        /\ position' = [position EXCEPT ![p] = @ + 1]
    /\ Goto(m, "handle")
    /\ UNCHANGED <<kind, committed, group, owner, offered, succeeded, faults>>

\* The deserializer raises out of the loop: consume() logs and re-raises.
ConsumeLoopError(m) ==
    /\ pc[m] = "poll"
    /\ \E p \in Partition :
        owner[p] = m /\ position[p] < LogLen[p] /\ kind[p][position[p]] = "corrupt"
    /\ Goto(m, "dead")
    /\ UNCHANGED <<kind, committed, group, owner, position, msg, offered, succeeded, faults>>

HandlerReturns(m) ==
    /\ pc[m] = "handle"
    /\ Kind(msg[m]) = "routed"
    /\ offered' = offered \cup {msg[m]}
    /\ succeeded' = succeeded \cup {msg[m]}
    /\ Goto(m, "commit")
    /\ UNCHANGED <<kind, committed, group, owner, position, msg, faults>>

\* Logged, and on to the next message without a commit ("TODO: Send to
\* dead-letter queue").  A value that is JSON but not an object ends here too.
HandlerRaises(m) ==
    /\ pc[m] = "handle"
    /\ Kind(msg[m]) = "routed"
    /\ offered' = offered \cup {msg[m]}
    /\ Drop(m, "poll")
    /\ UNCHANGED <<kind, committed, group, owner, position, succeeded, faults>>

NoHandler(m) ==
    /\ pc[m] = "handle"
    /\ Kind(msg[m]) = "unrouted"
    /\ offered' = offered \cup {msg[m]}
    /\ Goto(m, "commit")
    /\ UNCHANGED <<kind, committed, group, owner, position, msg, succeeded, faults>>

\* commit() without offsets: every position of the current assignment.
Commit(m) ==
    /\ pc[m] = "commit"
    /\ m \in group
    /\ committed' = [p \in Partition |-> IF owner[p] = m THEN position[p] ELSE committed[p]]
    /\ Drop(m, "poll")
    /\ UNCHANGED <<kind, group, owner, position, offered, succeeded, faults>>

\* The broker refuses a commit of a member it expelled; logged like a handler
\* failure.
CommitRefused(m) ==
    /\ pc[m] = "commit"
    /\ m \notin group
    /\ Drop(m, "poll")
    /\ UNCHANGED <<kind, committed, group, owner, position, offered, succeeded, faults>>

CommitFails(m) ==
    /\ pc[m] = "commit"
    /\ Fault
    /\ Drop(m, "poll")
    /\ UNCHANGED <<kind, committed, group, owner, position, offered, succeeded>>

-----------------------------------------------------------------------------

Step(m) ==
    \/ Rejoin(m) \/ LeaveDead(m)
    \/ Poll(m) \/ ConsumeLoopError(m)
    \/ HandlerReturns(m) \/ HandlerRaises(m) \/ NoHandler(m)
    \/ Commit(m) \/ CommitRefused(m)

Next == \E m \in Member : Step(m) \/ Start(m) \/ Expel(m) \/ Leave(m) \/ CommitFails(m)

Spec == Init /\ [][Next]_vars

\* A running loop goes on, and a client that stopped polling is noticed.
\* Nothing in the repository restarts a consumer, so Start is not fair.
FairSpec == Spec /\ \A m \in Member : WF_vars(Step(m))

-----------------------------------------------------------------------------
(* Properties                                                              *)

\* The group never commits past a message no loop has finished with, however
\* members are expelled, rejoin and commit late: a message is lost to the
\* group only if its handler raised or it had none.
CommittedWasOffered ==
    \A p \in Partition : \A o \in Offset(p) : o < committed[p] => <<p, o>> \in offered

\* Within a partition messages are finished in offset order, redeliveries
\* apart: none is offered while an earlier one never was.
OfferedInOrder ==
    \A t \in offered : \A o \in Offset(t[1]) : o < t[2] => <<t[1], o>> \in offered

\* A member that was expelled and commits late never moves the group back.
CommittedMonotone ==
    [][\A p \in Partition : committed[p] <= committed'[p]]_vars

\* As long as some loop keeps running, every message is offered, unless a
\* message that cannot be decoded stops the loops.
EveryMessageOffered ==
    (/\ <>[](Running # {})
     /\ \A p \in Partition : \A o \in Offset(p) : kind[p][o] # "corrupt")
    => \A t \in Message : <>(t \in offered)

-----------------------------------------------------------------------------
(* What documentation claims and the code does not do                      *)

\* "Manual commit after processing": what is committed was processed by its
\* handler.
CommittedWasProcessed ==
    \A p \in Partition : \A o \in Offset(p) :
        (o < committed[p] /\ kind[p][o] = "routed") => <<p, o>> \in succeeded
=============================================================================
