------------------------------ MODULE EventLog ------------------------------
(***************************************************************************)
(* What the kernel promises a reader of a service's Kafka topic, without   *)
(* saying how: business transactions raise events about their changes,     *)
(* changes become durable, and the topic carries the events of durable     *)
(* changes only, each transaction's in the order of its changes and with   *)
(* none skipped.  The last event of a transaction may appear again (a      *)
(* producer retries), and a transaction may stop publishing at any time.   *)
(*                                                                         *)
(* UnitOfWork is shown to implement this module.                           *)
(***************************************************************************)
EXTENDS Naturals, Sequences

CONSTANTS Uow,        \* the business transactions (units of work)
          MaxChanges  \* a transaction's changes are 1, 2, ..., MaxChanges

VARIABLES raised,     \* raised[u]: the changes of u that raised a domain event
          durable,    \* durable[u]: changes 1..durable[u] of u are committed
          log         \* the topic, a sequence of [uow, change] records

vars == <<raised, durable, log>>

\* The changes of u whose event the topic carries.
Logged(u) == {log[k].change : k \in {k \in DOMAIN log : log[k].uow = u}}

Init ==
    /\ raised = [u \in Uow |-> {}]
    /\ durable = [u \in Uow |-> 0]
    /\ log = <<>>

\* A change not committed yet, later than every change that raised an event.
Raise(u) ==
    \E i \in 1..MaxChanges :
        /\ i > durable[u]
        /\ \A j \in raised[u] : j < i
        /\ raised' = [raised EXCEPT ![u] = @ \cup {i}]
        /\ UNCHANGED <<durable, log>>

Commit(u) ==
    \E n \in 1..MaxChanges :
        /\ n > durable[u]
        /\ durable' = [durable EXCEPT ![u] = n]
        /\ UNCHANGED <<raised, log>>

\* The event of a committed change, when no earlier event of u is missing and
\* no later one has been published.
Publish(u) ==
    \E i \in raised[u] :
        /\ i <= durable[u]
        /\ \A j \in raised[u] : j < i => j \in Logged(u)
        /\ \A j \in Logged(u) : j <= i
        /\ log' = Append(log, [uow |-> u, change |-> i])
        /\ UNCHANGED <<raised, durable>>

Next == \E u \in Uow : Raise(u) \/ Commit(u) \/ Publish(u)

Spec == Init /\ [][Next]_vars
=============================================================================
