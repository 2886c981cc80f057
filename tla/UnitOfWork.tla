----------------------------- MODULE UnitOfWork -----------------------------
(***************************************************************************)
(* SqlAlchemyUnitOfWork and the KafkaEventBus it dispatches to: one        *)
(* control state per unit of work (one HTTP command each), cut at every    *)
(* await, with the database, the in-process handlers and the Kafka topic   *)
(* as their environment.                                                   *)
(*                                                                         *)
(* A unit's changes are numbered 1, 2, ...  A change may raise a domain    *)
(* event; the event of change i of unit u is [uow |-> u, change |-> i].    *)
(* The topic is the partition of one aggregate: the message key is the     *)
(* aggregate's id, so all of its events share a partition.                 *)
(***************************************************************************)
EXTENDS Naturals, Sequences, FiniteSets

CONSTANTS
    Uow,            \* units of work
    NumHandlers,    \* in-process handlers subscribed to the event type
    MaxChanges,     \* bound: changes a unit makes
    MaxCopies,      \* bound: times the broker appends one send (producer retries)
    MaxFaults       \* bound: database, broker, cancellation faults and crashes

ASSUME NumHandlersAssumption == NumHandlers \in Nat
ASSUME BoundsAssumption ==
    MaxChanges \in Nat /\ MaxCopies \in Nat \ {0} /\ MaxFaults \in Nat

VARIABLES
    pc,          \* pc[u]: where the command runs
    changes,     \* changes[u]: changes made to the aggregate in memory
    raised,      \* raised[u]: those that registered a domain event
    uncollected, \* AggregateRoot._domain_events, as change numbers
    pending,     \* UnitOfWork._pending_events, as change numbers
    staged,      \* changes 1..staged[u] are in the session
    durable,     \* changes 1..durable[u] are committed in the database
    confirmed,   \* durable[u] when commit() last returned normally
    next,        \* publish_many's position in pending[u]
    sub,         \* handlers InProcessEventBus.publish has called
    sending,     \* the event in the producer's hands, 0 when none
    copies,      \* times the broker has appended it
    topic,       \* the partition, a sequence of events
    attempted,   \* handler calls made so far
    faults       \* faults so far

unitVars == <<changes, raised, uncollected, pending, staged>>
busVars  == <<next, sub, sending, copies, topic, attempted>>
vars == <<pc, unitVars, durable, confirmed, busVars, faults>>

-----------------------------------------------------------------------------

PcStates == {"new", "body", "commit", "committed", "dispatch", "send",
             "rollback", "exit", "close", "done", "leaked", "crashed"}

\* The command is over.  "leaked": rollback() raised inside __aexit__, so
\* close() was skipped and the session kept.  "crashed": the process died.
Ended == {"done", "leaked", "crashed"}

Event(u, i)      == [uow |-> u, change |-> i]
Call(u, i, h)    == [uow |-> u, change |-> i, handler |-> h]
Published(u)     == {topic[k].change : k \in {k \in DOMAIN topic : topic[k].uow = u}}

Goto(u, state) == pc' = [pc EXCEPT ![u] = state]
Fault == faults < MaxFaults /\ faults' = faults + 1

TypeOK ==
    /\ pc \in [Uow -> PcStates]
    /\ changes \in [Uow -> 0..MaxChanges]
    /\ raised \in [Uow -> SUBSET (1..MaxChanges)]
    /\ uncollected \in [Uow -> Seq(1..MaxChanges)]
    /\ pending \in [Uow -> Seq(1..MaxChanges)]
    /\ staged \in [Uow -> 0..MaxChanges]
    /\ durable \in [Uow -> 0..MaxChanges]
    /\ confirmed \in [Uow -> 0..MaxChanges]
    /\ next \in [Uow -> Nat \ {0}]
    /\ sub \in [Uow -> 0..NumHandlers]
    /\ sending \in [Uow -> 0..MaxChanges]
    /\ copies \in [Uow -> 0..MaxCopies]
    /\ topic \in Seq([uow : Uow, change : 1..MaxChanges])
    /\ attempted \subseteq [uow : Uow, change : 1..MaxChanges, handler : 1..NumHandlers]
    /\ faults \in 0..MaxFaults

Init ==
    /\ pc = [u \in Uow |-> "new"]
    /\ changes = [u \in Uow |-> 0]
    /\ raised = [u \in Uow |-> {}]
    /\ uncollected = [u \in Uow |-> <<>>]
    /\ pending = [u \in Uow |-> <<>>]
    /\ staged = [u \in Uow |-> 0]
    /\ durable = [u \in Uow |-> 0]
    /\ confirmed = [u \in Uow |-> 0]
    /\ next = [u \in Uow |-> 1]
    /\ sub = [u \in Uow |-> 0]
    /\ sending = [u \in Uow |-> 0]
    /\ copies = [u \in Uow |-> 0]
    /\ topic = <<>>
    /\ attempted = {}
    /\ faults = 0

-----------------------------------------------------------------------------
(* Mutants: plausible bugs, none of them a step of Next.  Each property    *)
(* below is violated when one of these replaces the action it is named for *)
(* in PROJECT.json.                                                        *)

\* commit() dispatches before it commits.
DispatchBeforeCommit(u) ==
    /\ pc[u] = "body"
    /\ pending[u] # <<>>
    /\ next' = [next EXCEPT ![u] = 1]
    /\ sub' = [sub EXCEPT ![u] = 0]
    /\ Goto(u, "dispatch")
    /\ UNCHANGED <<unitVars, durable, confirmed, sending, copies, topic,
                   attempted, faults>>

\* register_events replaces the pending events instead of extending them.
PersistOverwrites(u) ==
    /\ pc[u] = "body"
    /\ staged[u] < changes[u]
    /\ staged' = [staged EXCEPT ![u] = changes[u]]
    /\ pending' = [pending EXCEPT ![u] = uncollected[u]]
    /\ uncollected' = [uncollected EXCEPT ![u] = <<>>]
    /\ UNCHANGED <<pc, changes, raised, durable, confirmed, busVars, faults>>

\* commit() returns without looking at the pending events.
ForgetPending(u) ==
    /\ pc[u] = "committed"
    /\ confirmed' = [confirmed EXCEPT ![u] = durable[u]]
    /\ Goto(u, "body")
    /\ UNCHANGED <<unitVars, durable, busVars, faults>>

\* A handler that raises is called again.
HandleAgain(u) ==
    /\ pc[u] = "dispatch"
    /\ sub[u] < NumHandlers
    /\ attempted' = attempted \cup {Call(u, pending[u][next[u]], sub[u] + 1)}
    /\ UNCHANGED <<pc, unitVars, durable, confirmed, next, sub, sending, copies,
                   topic, faults>>

\* publish logs a failed send and lets publish_many go on.
SwallowSendError(u) ==
    /\ pc[u] = "send"
    /\ Fault
    /\ next[u] < Len(pending[u])
    /\ next' = [next EXCEPT ![u] = @ + 1]
    /\ sub' = [sub EXCEPT ![u] = 0]
    /\ Goto(u, "dispatch")
    /\ UNCHANGED <<unitVars, durable, confirmed, sending, copies, topic, attempted>>

\* __aexit__ flushes a pending event before it closes.
FlushOnExit(u) ==
    /\ pc[u] = "exit"
    /\ pending[u] # <<>>
    /\ topic' = Append(topic, Event(u, pending[u][Len(pending[u])]))
    /\ Goto(u, "close")
    /\ UNCHANGED <<unitVars, durable, confirmed, next, sub, sending, copies,
                   attempted, faults>>

-----------------------------------------------------------------------------
(* The body of `async with uow:`                                           *)

\* __aenter__: a new session and an empty list of pending events.
Enter(u) ==
    /\ pc[u] = "new"
    /\ Goto(u, "body")
    /\ pending' = [pending EXCEPT ![u] = <<>>]
    /\ UNCHANGED <<changes, raised, uncollected, staged, durable, confirmed,
                   busVars, faults>>

\* The command changes its aggregate; most changes register an event.
Change(u) ==
    /\ pc[u] = "body"
    /\ changes[u] < MaxChanges
    /\ changes' = [changes EXCEPT ![u] = @ + 1]
    /\ \/ /\ raised' = [raised EXCEPT ![u] = @ \cup {changes'[u]}]
          /\ uncollected' = [uncollected EXCEPT ![u] = Append(@, changes'[u])]
       \/ UNCHANGED <<raised, uncollected>>
    /\ UNCHANGED <<pc, pending, staged, durable, confirmed, busVars, faults>>

\* collect_events: the aggregate's events move to the unit's pending list.
Collect(u) ==
    /\ pending' = [pending EXCEPT ![u] = @ \o uncollected[u]]
    /\ uncollected' = [uncollected EXCEPT ![u] = <<>>]

\* repository.save(aggregate), then uow.register_events(aggregate).
Persist(u) ==
    /\ pc[u] = "body"
    /\ staged[u] < changes[u]
    /\ staged' = [staged EXCEPT ![u] = changes[u]]
    /\ Collect(u)
    /\ UNCHANGED <<pc, changes, raised, durable, confirmed, busVars, faults>>

\* commit() with something to commit (an empty commit changes nothing).
CallCommit(u) ==
    /\ pc[u] = "body"
    /\ durable[u] < staged[u]
    /\ Goto(u, "commit")
    /\ UNCHANGED <<unitVars, durable, confirmed, busVars, faults>>

RaiseInBody(u) ==
    /\ pc[u] = "body"
    /\ Goto(u, "exit")
    /\ UNCHANGED <<unitVars, durable, confirmed, busVars, faults>>

ReturnFromBody(u) ==
    /\ pc[u] = "body"
    /\ Goto(u, "close")
    /\ UNCHANGED <<unitVars, durable, confirmed, busVars, faults>>

-----------------------------------------------------------------------------
(* commit()                                                                *)

\* The database applies the transaction; session.commit() has not returned.
DatabaseCommits(u) ==
    /\ pc[u] = "commit"
    /\ durable' = [durable EXCEPT ![u] = staged[u]]
    /\ Goto(u, "committed")
    /\ UNCHANGED <<unitVars, confirmed, busVars, faults>>

\* session.commit() returned and there is nothing to dispatch.
CommitReturns(u) ==
    /\ pc[u] = "committed"
    /\ pending[u] = <<>>
    /\ confirmed' = [confirmed EXCEPT ![u] = durable[u]]
    /\ Goto(u, "body")
    /\ UNCHANGED <<unitVars, durable, busVars, faults>>

StartDispatch(u) ==
    /\ pc[u] = "committed"
    /\ pending[u] # <<>>
    /\ next' = [next EXCEPT ![u] = 1]
    /\ sub' = [sub EXCEPT ![u] = 0]
    /\ Goto(u, "dispatch")
    /\ UNCHANGED <<unitVars, durable, confirmed, sending, copies, topic,
                   attempted, faults>>

\* session.commit() raises, before or after the database applied it.
CommitFails(u) ==
    /\ pc[u] \in {"commit", "committed"}
    /\ Fault
    /\ Goto(u, "rollback")
    /\ UNCHANGED <<unitVars, durable, confirmed, busVars>>

-----------------------------------------------------------------------------
(* KafkaEventBus.publish_many, one event after the other                   *)

\* The next subscribed handler runs; what it raises is logged and dropped.
HandleInProcess(u) ==
    /\ pc[u] = "dispatch"
    /\ sub[u] < NumHandlers
    /\ sub' = [sub EXCEPT ![u] = @ + 1]
    /\ attempted' = attempted \cup {Call(u, pending[u][next[u]], sub[u] + 1)}
    /\ UNCHANGED <<pc, unitVars, durable, confirmed, next, sending, copies,
                   topic, faults>>

\* Every handler was called: hand the event to the producer.
SendToKafka(u) ==
    /\ pc[u] = "dispatch"
    /\ sub[u] = NumHandlers
    /\ sending' = [sending EXCEPT ![u] = pending[u][next[u]]]
    /\ copies' = [copies EXCEPT ![u] = 0]
    /\ Goto(u, "send")
    /\ UNCHANGED <<unitVars, durable, confirmed, next, sub, topic, attempted, faults>>

\* The broker appends what the producer holds, again when the producer
\* retries, and also after the caller stopped waiting for it.
BrokerAppends(u) ==
    /\ sending[u] # 0
    /\ copies[u] < MaxCopies
    /\ copies' = [copies EXCEPT ![u] = @ + 1]
    /\ topic' = Append(topic, Event(u, sending[u]))
    /\ UNCHANGED <<pc, unitVars, durable, confirmed, next, sub, sending,
                   attempted, faults>>

\* send_and_wait returns: on to the next event of the batch.
SendAcknowledged(u) ==
    /\ pc[u] = "send"
    /\ copies[u] > 0
    /\ next[u] < Len(pending[u])
    /\ sending' = [sending EXCEPT ![u] = 0]
    /\ next' = [next EXCEPT ![u] = @ + 1]
    /\ sub' = [sub EXCEPT ![u] = 0]
    /\ Goto(u, "dispatch")
    /\ UNCHANGED <<unitVars, durable, confirmed, copies, topic, attempted, faults>>

\* The last send_and_wait returns: publish_many and commit() return.
BatchPublished(u) ==
    /\ pc[u] = "send"
    /\ copies[u] > 0
    /\ next[u] = Len(pending[u])
    /\ sending' = [sending EXCEPT ![u] = 0]
    /\ pending' = [pending EXCEPT ![u] = <<>>]
    /\ confirmed' = [confirmed EXCEPT ![u] = durable[u]]
    /\ Goto(u, "body")
    /\ UNCHANGED <<changes, raised, uncollected, staged, durable, next, sub,
                   copies, topic, attempted, faults>>

\* send_and_wait raises, whether or not the broker has the event.
SendFails(u) ==
    /\ pc[u] = "send"
    /\ Fault
    /\ Goto(u, "rollback")
    /\ UNCHANGED <<unitVars, durable, confirmed, busVars>>

-----------------------------------------------------------------------------
(* rollback() and __aexit__                                                *)

\* session.rollback() returns: unsaved changes and pending events are gone.
Discard(u) ==
    /\ staged' = [staged EXCEPT ![u] = durable[u]]
    /\ pending' = [pending EXCEPT ![u] = <<>>]
    /\ UNCHANGED <<changes, raised, uncollected, durable, confirmed, busVars>>

\* commit() rolls back and re-raises into __aexit__.
RollbackInCommit(u) ==
    /\ pc[u] = "rollback"
    /\ Goto(u, "exit")
    /\ Discard(u)
    /\ UNCHANGED faults

\* __aexit__ with an exception rolls back (again), then closes.
RollbackInExit(u) ==
    /\ pc[u] = "exit"
    /\ Goto(u, "close")
    /\ Discard(u)
    /\ UNCHANGED faults

\* session.rollback() raises: out of commit() into __aexit__, or out of
\* __aexit__ before close() and the reset of the session.
RollbackFails(u) ==
    /\ pc[u] \in {"rollback", "exit"}
    /\ Fault
    /\ Goto(u, IF pc[u] = "rollback" THEN "exit" ELSE "leaked")
    /\ UNCHANGED <<unitVars, durable, confirmed, busVars>>

\* session.close() drops what was not committed.
Close(u) ==
    /\ pc[u] = "close"
    /\ Goto(u, "done")
    /\ staged' = [staged EXCEPT ![u] = durable[u]]
    /\ UNCHANGED <<changes, raised, uncollected, pending, durable, confirmed,
                   busVars, faults>>

-----------------------------------------------------------------------------
(* Faults of the environment                                               *)

\* The client disconnects: CancelledError at an await.  `except Exception`
\* does not catch it, so commit()'s own rollback is skipped.
Cancel(u) ==
    /\ pc[u] \notin Ended \cup {"new"}
    /\ Fault
    /\ Goto(u, IF pc[u] \in {"exit", "close"} THEN "leaked" ELSE "exit")
    /\ UNCHANGED <<unitVars, durable, confirmed, busVars>>

\* The process dies; the memory of every running unit is lost.  Units still
\* "new" are commands the restarted process will run.
Crash ==
    /\ Fault
    /\ \E u \in Uow : pc[u] \notin Ended \cup {"new"}
    /\ pc' = [u \in Uow |-> IF pc[u] \in Ended \cup {"new"} THEN pc[u] ELSE "crashed"]
    /\ UNCHANGED <<unitVars, durable, confirmed, busVars>>

-----------------------------------------------------------------------------

Step(u) ==
    \/ Enter(u) \/ Change(u) \/ Persist(u) \/ CallCommit(u)
    \/ RaiseInBody(u) \/ ReturnFromBody(u)
    \/ DatabaseCommits(u) \/ CommitReturns(u) \/ StartDispatch(u)
    \/ HandleInProcess(u) \/ SendToKafka(u) \/ BrokerAppends(u)
    \/ SendAcknowledged(u) \/ BatchPublished(u)
    \/ RollbackInCommit(u) \/ RollbackInExit(u) \/ Close(u)

Failure(u) == CommitFails(u) \/ SendFails(u) \/ RollbackFails(u) \/ Cancel(u)

Next == (\E u \in Uow : Step(u) \/ Failure(u)) \/ Crash

Spec == Init /\ [][Next]_vars

\* The event loop runs every ready task, the producer's requests time out, and
\* a call to the database returns or raises: the last is an assumption, no
\* command timeout is set (database.py), so a server that acknowledges and
\* never answers is left to ServiceProcess.  Nothing forces a fault.
FairSpec == Spec /\ \A u \in Uow : WF_vars(Step(u))

-----------------------------------------------------------------------------
(* Properties                                                              *)

\* Domain events reach a handler or the topic only for changes the database
\* has committed, whatever fails and in whatever order the units run
\* (UnitOfWork's "dispatched only after successful commit").
DispatchAfterCommit ==
    /\ \A k \in DOMAIN topic : topic[k].change <= durable[topic[k].uow]
    /\ \A c \in attempted : c.change <= durable[c.uow]

\* The topic never carries an event of a unit while one of the unit's earlier
\* events is missing, and never goes back to an earlier one: a batch is cut
\* short by a failure, not punched full of holes (publish_many is sequential,
\* and stops at the first send that raises).
PublishedInOrder ==
    \A k \in DOMAIN topic :
        LET u == topic[k].uow IN
        /\ \A i \in raised[u] : i < topic[k].change => i \in Published(u)
        /\ \A j \in 1..k : topic[j].uow = u => topic[j].change <= topic[k].change

\* Other services never learn of an event before every in-process handler of
\* this service was called with it ("First dispatch to in-process handlers").
HandlersBeforeKafka ==
    \A k \in DOMAIN topic : \A h \in 1..NumHandlers :
        Call(topic[k].uow, topic[k].change, h) \in attempted

\* When commit() returns normally, every event of every committed change is
\* in the topic and was offered to every handler: no event is forgotten
\* between two commits of one unit.
ConfirmedMeansDispatched ==
    \A u \in Uow : \A i \in raised[u] : i <= confirmed[u] =>
        /\ i \in Published(u)
        /\ \A h \in 1..NumHandlers : Call(u, i, h) \in attempted

\* Once an exception or a cancellation left publish_many, the rest of the
\* batch is abandoned for good: only the event the producer already holds may
\* still appear, and no handler is called any more.
AbandonedBatch ==
    [][\A u \in Uow : pc[u] \in {"rollback", "exit", "close"} \cup Ended =>
        /\ Published(u)' \subseteq Published(u) \cup {sending[u]}
        /\ {c \in attempted' : c.uow = u} \subseteq attempted]_vars

\* Every unit that was entered comes to its end.
UnitsEnd == \A u \in Uow : pc[u] # "new" ~> pc[u] \in Ended

\* Every event of a committed change reaches the topic, unless some database,
\* broker or process fails or a caller is cancelled.
CommittedEventsPublished ==
    \A u \in Uow : \A i \in 1..MaxChanges :
        (i \in raised[u] /\ i <= durable[u]) ~> (i \in Published(u) \/ faults > 0)

\* The unit of work implements the abstract event log.
Promise == INSTANCE EventLog WITH log <- topic
ImplementsEventLog == Promise!Spec
=============================================================================
