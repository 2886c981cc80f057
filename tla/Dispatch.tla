------------------------------ MODULE Dispatch ------------------------------
(***************************************************************************)
(* Mediator, UseCase and DatabaseManager: commands and queries sent through *)
(* pipeline behaviors to a handler that runs a use case, with or without a *)
(* database session.  Handlers and behaviors may be registered while sends *)
(* are under way, a handler may send from inside its own transaction, a    *)
(* behavior may answer itself, raise, or call the next one again, and a    *)
(* send may be cancelled at any await.                                     *)
(*                                                                         *)
(* The session takes its connection from the pool with its first statement *)
(* and gives it back when it commits, rolls back or is closed; a close()   *)
(* that raises or is cancelled may leave it checked out.                   *)
(***************************************************************************)
EXTENDS Naturals, Sequences, FiniteSets, SequencesExt

CONSTANTS
    Request,        \* the commands and queries sent
    Inner,          \* <<child, parent>>: the parent's handler sends the child
    Type,           \* command and query types
    TypeOf,         \* TypeOf[s]: the type of s
    Handler,        \* handlers
    Accepts,        \* Accepts[t]: the handlers made for type t
    Later,          \* the types whose handler is not registered from the start
    Kind,           \* Kind[h]: what h runs
    Behavior,       \* pipeline behaviors
    None,           \* no handler
    PoolSize,       \* pool_size + max_overflow
    MaxBehaviors,   \* bound: behaviors registered
    MaxRetries      \* bound: calls of the next handler again, per send

ASSUME InnerAssumption == Inner \subseteq Request \X Request
ASSUME TypeAssumption == TypeOf \in [Request -> Type] /\ Accepts \in [Type -> SUBSET Handler]
ASSUME LaterAssumption == Later \subseteq Type /\ \A t \in Type : Accepts[t] # {}
ASSUME KindAssumption == Kind \in [Handler -> {"plain", "transactional", "read"}]
ASSUME NoneAssumption == None \notin Handler
ASSUME BoundAssumption == PoolSize \in Nat \ {0} /\ MaxBehaviors \in Nat /\ MaxRetries \in Nat

VARIABLES
    handlers,   \* _command_handlers and _query_handlers
    behaviors,  \* _pipeline_behaviors
    pc,         \* pc[s]: where s is
    chain,      \* chain[s]: the behaviors and the handler its closures hold
    pos,        \* pos[s]: the frame of the chain that runs, from the outermost
    ran,        \* ran[s]: what was called, frame by frame
    answer,     \* answer[s]: what the frame at pos[s] returned or raised
    failedAt,   \* failedAt[s]: where its handler's last run raised
    durable,    \* durable[s]: its handler's last run is committed
    retries,    \* retries[s]: calls of the next handler again
    holds,      \* the sessions that have a connection
    unclosed    \* those of them whose close() did not return

tables == <<handlers, behaviors>>
sends == <<pc, chain, pos, ran, answer, failedAt, durable, retries>>
pool == <<holds, unclosed>>
vars == <<tables, sends, pool>>

-----------------------------------------------------------------------------

InSession == {"execute", "commit", "committed", "rollback", "close"}
Active == {"inward", "check", "post", "outward"} \cup InSession
Answers == {"none", "ok", "fail", "error", "cancelled"}
Raised == {"error", "cancelled"}

\* A send has a session for every run of its handler.
Sessions == Request \X (0..MaxRetries)
Session(s) == <<s, retries[s]>>

TypeOK ==
    /\ handlers \in [Type -> Handler \cup {None}]
    /\ behaviors \in Seq(Behavior)
    /\ pc \in [Request -> Active \cup {"new", "ended"}]
    /\ chain \in [Request -> [behaviors : Seq(Behavior), handler : Handler \cup {None}]]
    /\ pos \in [Request -> Nat]
    /\ ran \in [Request -> Seq(Behavior \cup Handler)]
    /\ answer \in [Request -> Answers]
    /\ failedAt \in [Request -> Active \cup {"none"}]
    /\ durable \in [Request -> BOOLEAN]
    /\ retries \in [Request -> 0..MaxRetries]
    /\ holds \subseteq Sessions
    /\ unclosed \subseteq Sessions

NoChain == [behaviors |-> <<>>, handler |-> None]

Init ==
    /\ handlers = [t \in Type |-> IF t \in Later THEN None ELSE CHOOSE h \in Accepts[t] : TRUE]
    /\ behaviors = <<>>
    /\ pc = [s \in Request |-> "new"]
    /\ chain = [s \in Request |-> NoChain]
    /\ pos = [s \in Request |-> 0]
    /\ ran = [s \in Request |-> <<>>]
    /\ answer = [s \in Request |-> "none"]
    /\ failedAt = [s \in Request |-> "none"]
    /\ durable = [s \in Request |-> FALSE]
    /\ retries = [s \in Request |-> 0]
    /\ holds = {}
    /\ unclosed = {}

Goto(s, state) == pc' = [pc EXCEPT ![s] = state]
Answer(s, a) == answer' = [answer EXCEPT ![s] = a]
Call(s, callee) == ran' = [ran EXCEPT ![s] = Append(@, callee)]

\* The last run of the handler is of no more interest.
ForgetRun(s) ==
    /\ failedAt' = [failedAt EXCEPT ![s] = "none"]
    /\ durable' = [durable EXCEPT ![s] = FALSE]

KindOf(s) == Kind[chain[s].handler]
AtHandler(s) == pos[s] = Len(chain[s].behaviors) + 1
Free == Cardinality(holds) < PoolSize

Children(s) == {c \in Request : <<c, s>> \in Inner}
Idle(s) == \A c \in Children(s) : pc[c] \in {"new", "ended"}
ChildCancelled(s) == \E c \in Children(s) : pc[c] = "ended" /\ answer[c] = "cancelled"

\* _execute runs: a session's first statement has found its connection, and
\* no send of its own is under way.
Works(s) ==
    /\ pc[s] = "execute"
    /\ KindOf(s) = "plain" \/ Session(s) \in holds
    /\ Idle(s)

\* A child is sent by a parent that works.
MayStart(s) ==
    /\ pc[s] = "new"
    /\ \A p \in Request : <<s, p>> \in Inner => Works(p) /\ ~ChildCancelled(p)

\* The handler's run ends with an exception: out of the session by way of
\* rollback when session() catches it, straight to its finally otherwise.
Raise(s, how) ==
    /\ Answer(s, how)
    /\ failedAt' = [failedAt EXCEPT ![s] = IF pc[s] = "rollback" THEN @ ELSE pc[s]]
    /\ Goto(s, IF pc[s] \notin InSession \/ KindOf(s) = "plain" THEN "outward"
               ELSE IF KindOf(s) = "transactional" /\ how = "error" THEN "rollback" ELSE "close")
    /\ UNCHANGED <<tables, chain, pos, ran, durable, retries, pool>>

-----------------------------------------------------------------------------
(* Mutants: plausible bugs, none of them a step of Next.                   *)

\* The handler is looked up when it is called, not when the command is sent.
CallCurrentHandler(s) ==
    /\ pc[s] = "inward"
    /\ AtHandler(s)
    /\ Call(s, handlers[TypeOf[s]])
    /\ Goto(s, "check")
    /\ UNCHANGED <<tables, chain, pos, answer, failedAt, durable, retries, pool>>

\* pool_timeout is None.
WaitForConnection(s) ==
    /\ pc[s] = "execute" /\ KindOf(s) # "plain" /\ Session(s) \notin holds
    /\ ~Free
    /\ UNCHANGED vars

\* session.close() runs after the block and not in its finally.
CloseAfterSuccess(s) ==
    /\ pc[s] = "close"
    /\ holds' = IF answer[s] \in Raised THEN holds ELSE holds \ {Session(s)}
    /\ Goto(s, IF answer[s] \in Raised THEN "outward" ELSE "post")
    /\ UNCHANGED <<tables, chain, pos, ran, answer, failedAt, durable, retries, unclosed>>

\* session() commits in its finally.
CommitAnyway(s) ==
    /\ pc[s] = "rollback"
    /\ durable' = [durable EXCEPT ![s] = TRUE]
    /\ holds' = holds \ {Session(s)}
    /\ Goto(s, "close")
    /\ UNCHANGED <<tables, chain, pos, ran, answer, failedAt, retries, unclosed>>

-----------------------------------------------------------------------------
(* Mediator                                                                *)

\* register_command_handler and register_query_handler: a second registration
\* of a type overwrites the first with a warning.
RegisterHandler(t) ==
    /\ \E h \in Accepts[t] : handlers' = [handlers EXCEPT ![t] = h]
    /\ UNCHANGED <<behaviors, sends, pool>>

AddBehavior ==
    /\ Len(behaviors) < MaxBehaviors
    /\ \E b \in Behavior : behaviors' = Append(behaviors, b)
    /\ UNCHANGED <<handlers, sends, pool>>

\* No handler for the type: ValueError, before any behavior runs.
SendUnknown(s) ==
    /\ MayStart(s)
    /\ handlers[TypeOf[s]] = None
    /\ Goto(s, "ended")
    /\ UNCHANGED <<tables, chain, pos, ran, answer, failedAt, durable, retries, pool>>

\* send() and query(): the handler and the list of behaviors, as they are
\* now, go into the closures of the chain.
Send(s) ==
    /\ MayStart(s)
    /\ handlers[TypeOf[s]] # None
    /\ chain' = [chain EXCEPT ![s] = [behaviors |-> behaviors, handler |-> handlers[TypeOf[s]]]]
    /\ pos' = [pos EXCEPT ![s] = 1]
    /\ Goto(s, "inward")
    /\ UNCHANGED <<tables, ran, answer, failedAt, durable, retries, pool>>

\* A behavior that calls the next handler.
CallNext(s) ==
    /\ pc[s] = "inward"
    /\ ~AtHandler(s)
    /\ Call(s, chain[s].behaviors[pos[s]])
    /\ pos' = [pos EXCEPT ![s] = @ + 1]
    /\ UNCHANGED <<tables, pc, chain, answer, failedAt, durable, retries, pool>>

\* A behavior that refuses the request, or answers without the handler.
AnswerInstead(s) ==
    /\ pc[s] = "inward"
    /\ ~AtHandler(s)
    /\ Call(s, chain[s].behaviors[pos[s]])
    /\ \E a \in {"ok", "error"} : Answer(s, a)
    /\ Goto(s, "outward")
    /\ UNCHANGED <<tables, chain, pos, failedAt, durable, retries, pool>>

CallHandler(s) ==
    /\ pc[s] = "inward"
    /\ AtHandler(s)
    /\ Call(s, chain[s].handler)
    /\ Goto(s, "check")
    /\ UNCHANGED <<tables, chain, pos, answer, failedAt, durable, retries, pool>>

\* The frame inside answered a behavior, which passes the answer on, or
\* returns or raises something else; a cancellation it cannot catch.
Return(s) ==
    /\ pc[s] = "outward"
    /\ pos[s] > 1
    /\ pos' = [pos EXCEPT ![s] = @ - 1]
    /\ \E a \in IF answer[s] = "cancelled" THEN {"cancelled"} ELSE {answer[s], "ok", "error"} : Answer(s, a)
    /\ ForgetRun(s)
    /\ UNCHANGED <<tables, pc, chain, ran, retries, pool>>

\* A behavior that calls the next handler again: the closure is still there.
Retry(s) ==
    /\ pc[s] = "outward"
    /\ pos[s] > 1
    /\ answer[s] \in {"fail", "error"}
    /\ retries[s] < MaxRetries
    /\ retries' = [retries EXCEPT ![s] = @ + 1]
    /\ ran' = [ran EXCEPT ![s] = SubSeq(@, 1, pos[s] - 1)]
    /\ Goto(s, "inward")
    /\ ForgetRun(s)
    /\ Answer(s, "none")
    /\ UNCHANGED <<tables, chain, pos, pool>>

\* The outermost frame answers the caller, and its closures are gone.  Of the
\* answer only a cancellation matters on: no handler catches it.
End(s) ==
    /\ pc[s] = "outward"
    /\ pos[s] = 1
    /\ Goto(s, "ended")
    /\ chain' = [chain EXCEPT ![s] = NoChain]
    /\ pos' = [pos EXCEPT ![s] = 0]
    /\ ran' = [ran EXCEPT ![s] = <<>>]
    /\ ForgetRun(s)
    /\ retries' = [retries EXCEPT ![s] = 0]
    /\ Answer(s, IF answer[s] = "cancelled" THEN "cancelled" ELSE "none")
    /\ UNCHANGED <<tables, pool>>

-----------------------------------------------------------------------------
(* UseCase, TransactionalUseCase and the session                           *)

\* _validate or _authorize raises.
Refuse(s) ==
    /\ pc[s] = "check"
    /\ Raise(s, "error")

Begin(s) ==
    /\ pc[s] = "check"
    /\ Goto(s, "execute")
    /\ UNCHANGED <<tables, chain, pos, ran, answer, failedAt, durable, retries, pool>>

\* The first statement of the session.
Acquire(s) ==
    /\ pc[s] = "execute" /\ KindOf(s) # "plain" /\ Session(s) \notin holds
    /\ Free
    /\ holds' = holds \cup {Session(s)}
    /\ UNCHANGED <<tables, sends, unclosed>>

\* No connection came back within pool_timeout.
PoolTimeout(s) ==
    /\ pc[s] = "execute" /\ KindOf(s) # "plain" /\ Session(s) \notin holds
    /\ ~Free
    /\ Raise(s, "error")

\* _execute returns a result, of success or of failure: both commit.
ExecuteReturns(s) ==
    /\ Works(s)
    /\ ~ChildCancelled(s)
    /\ \E a \in {"ok", "fail"} : Answer(s, a)
    /\ Goto(s, CASE KindOf(s) = "transactional" -> "commit"
                 [] KindOf(s) = "read" -> "close"
                 [] KindOf(s) = "plain" -> "post")
    /\ UNCHANGED <<tables, chain, pos, ran, failedAt, durable, retries, pool>>

\* _execute raises, or a send of its own does.
ExecuteRaises(s) ==
    /\ Works(s)
    /\ Raise(s, IF ChildCancelled(s) THEN "cancelled" ELSE "error")

\* COMMIT takes effect in the database; the answer is on its way.
DatabaseCommits(s) ==
    /\ pc[s] = "commit"
    /\ durable' = [durable EXCEPT ![s] = TRUE]
    /\ Goto(s, "committed")
    /\ UNCHANGED <<tables, chain, pos, ran, answer, failedAt, retries, pool>>

CommitReturns(s) ==
    /\ pc[s] = "committed"
    /\ holds' = holds \ {Session(s)}
    /\ Goto(s, "close")
    /\ UNCHANGED <<tables, chain, pos, ran, answer, failedAt, durable, retries, unclosed>>

\* session.commit() raises: nothing was committed, or the answer was lost.
CommitFails(s) ==
    /\ pc[s] \in {"commit", "committed"}
    /\ Raise(s, "error")

\* session.rollback(), which may itself raise.
Rollback(s) ==
    /\ pc[s] = "rollback"
    /\ holds' \in {holds, holds \ {Session(s)}}
    /\ Goto(s, "close")
    /\ UNCHANGED <<tables, chain, pos, ran, answer, failedAt, durable, retries, unclosed>>

\* finally: session.close()
Close(s) ==
    /\ pc[s] = "close"
    /\ holds' = holds \ {Session(s)}
    /\ Goto(s, IF answer[s] \in Raised THEN "outward" ELSE "post")
    /\ UNCHANGED <<tables, chain, pos, ran, answer, failedAt, durable, retries, unclosed>>

\* session.close() raises or is cancelled, in place of what was on its way out:
\* with or without the connection back in the pool.
CloseRaises(s, how) ==
    /\ pc[s] = "close"
    /\ Answer(s, how)
    /\ failedAt' = [failedAt EXCEPT ![s] = IF answer[s] \in Raised THEN @ ELSE "close"]
    /\ holds' \in {holds, holds \ {Session(s)}}
    /\ unclosed' = unclosed \cup (holds' \cap {Session(s)})
    /\ Goto(s, "outward")
    /\ UNCHANGED <<tables, chain, pos, ran, durable, retries>>

\* A session that nobody closed is garbage collected, and its connection is
\* back in the pool.
Collect(session) ==
    /\ session \in unclosed
    /\ holds' = holds \ {session}
    /\ unclosed' = unclosed \ {session}
    /\ UNCHANGED <<tables, sends>>

\* _post_execute
Post(s) ==
    /\ pc[s] = "post"
    /\ Goto(s, "outward")
    /\ UNCHANGED <<tables, chain, pos, ran, answer, failedAt, durable, retries, pool>>

PostRaises(s) ==
    /\ pc[s] = "post"
    /\ Raise(s, "error")

\* The task is cancelled at the await of its innermost send: CancelledError is
\* no Exception, so session() goes to its finally without rollback(), and the
\* close() there is one more await.
Cancel(s) ==
    /\ pc[s] \in Active \ {"outward"}
    /\ pc[s] = "inward" => ~AtHandler(s)
    /\ Idle(s)
    /\ IF pc[s] = "close" THEN CloseRaises(s, "cancelled") ELSE Raise(s, "cancelled")

-----------------------------------------------------------------------------

Step(s) ==
    \/ CallNext(s) \/ AnswerInstead(s) \/ CallHandler(s) \/ Return(s) \/ Retry(s) \/ End(s)
    \/ Refuse(s) \/ Begin(s) \/ Acquire(s) \/ PoolTimeout(s)
    \/ ExecuteReturns(s) \/ ExecuteRaises(s) \/ DatabaseCommits(s) \/ CommitReturns(s) \/ CommitFails(s)
    \/ Rollback(s) \/ Close(s) \/ CloseRaises(s, "error") \/ Post(s) \/ PostRaises(s)

Next ==
    \/ \E t \in Type : RegisterHandler(t)
    \/ AddBehavior
    \/ \E s \in Request : Send(s) \/ SendUnknown(s) \/ Step(s) \/ Cancel(s)
    \/ \E session \in Sessions : Collect(session)

Spec == Init /\ [][Next]_vars

\* Tasks that can run do, the database answers or its connection breaks, and
\* pool_timeout ends every wait for a connection.
FairSpec == Spec /\ \A s \in Request : WF_vars(Step(s))

-----------------------------------------------------------------------------
(* Properties                                                              *)

\* The behaviors that run around a command, and the handler that executes it,
\* are those registered when it was sent, outermost first, whatever is
\* registered while it waits and however often it is retried.
RunsAsRegistered ==
    \A s \in Request : pc[s] \in Active =>
        IsPrefix(ran[s], Append(chain[s].behaviors, chain[s].handler))

\* Whatever raises, is cancelled or fails to roll back, a connection that is
\* out belongs to a session in progress, or to one whose close() raised or was
\* cancelled in its turn; and the pool never gives out more than it has.
NoConnectionKept ==
    /\ \A s \in Request, run \in 0..MaxRetries : <<s, run>> \in holds \ unclosed =>
          run = retries[s] /\ pc[s] \in InSession /\ KindOf(s) # "plain"
    /\ Cardinality(holds) <= PoolSize

\* What a transactional use case answers is what is in the database: a result
\* means committed, an exception means nothing is, unless the answer to COMMIT
\* was lost, or close() or _post_execute failed after it.
DurableAsAnswered ==
    \A s \in Request : pc[s] = "outward" /\ AtHandler(s) =>
        IF answer[s] \in Raised
        THEN durable[s] => failedAt[s] \in {"committed", "close", "post"}
        ELSE durable[s] = (KindOf(s) = "transactional")

\* Every send is answered, although handlers wait for a connection while they
\* or their callers hold the last one.
SendsEnd == \A s \in Request : pc[s] = "inward" ~> pc[s] = "ended"
=============================================================================
