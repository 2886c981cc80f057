--------------------------- MODULE ServiceProcess ---------------------------
(***************************************************************************)
(* Startup, health probes and shutdown of one service process:             *)
(*   services/*/main.py       the lifespan and the registered checks       *)
(*   fastapi.py               default_lifespan and the /health routes      *)
(*   infrastructure/health.py HealthCheckRegistry                          *)
(*   database.py, cache.py, messaging.py  initialize, close, health_check  *)
(*                                                                         *)
(* The lifespan opens the resources one after the other, uvicorn serves,   *)
(* and after SIGTERM uvicorn lets the requests in flight finish before the *)
(* lifespan closes the resources.  A readiness probe is a task that awaits *)
(* the registered checks one by one, so dependencies change between two    *)
(* checks of one probe, and probes overlap.                                *)
(*                                                                         *)
(* A dependency is "up", "down" (it refuses or the client gives up at      *)
(* once) or "silent" (connected, but nothing comes back).  No client here  *)
(* is given a timeout for a silent one: whether the check ever returns is  *)
(* up to the library and the kernel, so no fairness is assumed of it.      *)
(* Kafka's check asks the producer for the partitions of a topic, and is   *)
(* answered from the cluster's metadata once the topic is in it, with or   *)
(* without brokers.                                                        *)
(***************************************************************************)
EXTENDS Integers, Sequences, FiniteSets

CONSTANTS
    Opens,      \* the resources in the order the lifespan initializes them
    Closes,     \* the resources in the order the lifespan closes them
    Checks,     \* the resources in the order their checks were registered
    Eager,      \* those whose initialize() connects: it fails if they are not up
    Cached,     \* those whose check is answered from what the client remembers
    Probes,     \* the health requests that may arrive
    MaxTurns    \* bound: how often a dependency changes its status

Resources == {Opens[i] : i \in DOMAIN Opens}
Checked   == {Checks[i] : i \in DOMAIN Checks}

ASSUME OrdersAssumption ==
    /\ Opens \in Seq(Resources)
    /\ Closes \in Seq(Resources)
    /\ Resources \subseteq {Closes[i] : i \in DOMAIN Closes}
    /\ Checks \in Seq(Resources)
ASSUME MaxTurnsAssumption == MaxTurns \in Nat

Statuses == {"up", "down", "silent"}
Phases   == {"starting", "serving", "draining", "closing", "ended"}
Kinds    == {"live", "ready"}

VARIABLES
    phase,      \* where the process is between start and exit
    done,       \* how many of Opens (starting) or of Closes (closing) are done
    open,       \* the resources initialized and not closed
    broken,     \* an initialize or close raised, or the start was interrupted
    status,     \* what each dependency does when it is asked
    probe,      \* the health requests
    sawUp,      \* history: the dependencies up at some moment of each probe
    known,      \* those of Cached whose client remembers the answer
    turns       \* how often a dependency has changed so far

vars == <<phase, done, open, broken, status, probe, sawUp, known, turns>>

\* at: how many checks have returned; healthy: the local overall_status;
\* failed: history, the checks of this very probe that did not return True.
Probe == [state : {"waiting", "checking", "answered"}, kind : Kinds,
          at : 0 .. Len(Checks), healthy : BOOLEAN, failed : SUBSET Checked,
          answer : {0, 200, 503}]
Fresh == [state : {"waiting"}, kind : Kinds, at : {0}, healthy : {TRUE},
          failed : {{}}, answer : {0}]

TypeOK ==
    /\ phase \in Phases
    /\ done \in Nat
    /\ open \subseteq Resources
    /\ broken \in BOOLEAN
    /\ status \in [Resources -> Statuses]
    /\ probe \in [Probes -> Probe]
    /\ sawUp \in [Probes -> SUBSET Resources]
    /\ known \subseteq Cached
    /\ turns \in 0 .. MaxTurns

Up == {d \in Resources : status[d] = "up"}

Init ==
    /\ phase = "starting"
    /\ done = 0
    /\ open = {}
    /\ broken = FALSE
    /\ status \in [Resources -> {"up", "down"}]
    /\ probe \in [Probes -> Fresh]
    /\ sawUp = [p \in Probes |-> {}]
    /\ known = {}
    /\ turns = 0

-----------------------------------------------------------------------------
(* Startup: default_lifespan runs the service's lifespan up to its yield.  *)

\* The engine and the Redis pool are only created: they connect when used.
\* The Kafka producer connects, so it must find the brokers.
Initialize ==
    /\ phase = "starting" /\ done < Len(Opens)
    /\ LET d == Opens[done + 1] IN
          /\ d \in Eager => status[d] = "up"
          /\ open' = open \cup {d}
    /\ done' = done + 1
    /\ UNCHANGED <<phase, broken, status, probe, sawUp, known, turns>>

\* The exception leaves the lifespan before its yield: uvicorn gives up, and
\* what was initialized before is not closed.
InitializeFails ==
    /\ phase = "starting" /\ done < Len(Opens)
    /\ Opens[done + 1] \in Eager
    /\ status[Opens[done + 1]] # "up"
    /\ phase' = "ended"
    /\ broken' = TRUE
    /\ UNCHANGED <<done, open, status, probe, sawUp, known, turns>>

\* Mutant: the last initialize is started as a task and not awaited.
ServeEarly ==
    /\ phase = "starting" /\ done + 1 >= Len(Opens)
    /\ phase' = "serving"
    /\ done' = 0
    /\ UNCHANGED <<open, broken, status, probe, sawUp, known, turns>>

\* The lifespan has yielded: uvicorn opens its socket.
Serve ==
    /\ phase = "starting" /\ done = Len(Opens)
    /\ phase' = "serving"
    /\ done' = 0
    /\ UNCHANGED <<open, broken, status, probe, sawUp, known, turns>>

\* SIGTERM before the socket is open: uvicorn leaves without the shutdown.
Interrupt ==
    /\ phase = "starting"
    /\ phase' = "ended"
    /\ broken' = TRUE
    /\ UNCHANGED <<done, open, status, probe, sawUp, known, turns>>

-----------------------------------------------------------------------------
(* Health probes.                                                          *)

Receive(p) ==
    /\ phase = "serving"
    /\ probe[p].state = "waiting"
    /\ probe' = [probe EXCEPT ![p].state = "checking"]
    /\ sawUp' = [sawUp EXCEPT ![p] = Up]
    /\ UNCHANGED <<phase, done, open, broken, status, known, turns>>

Checking(p) ==
    /\ probe[p].state = "checking"
    /\ probe[p].kind = "ready"
    /\ probe[p].at < Len(Checks)

Asked(p) == Checks[probe[p].at + 1]

\* The dependency is there (SELECT 1, PING), or its client need not ask it.
Passes(p) ==
    /\ Checking(p)
    /\ Asked(p) \in open
    /\ status[Asked(p)] = "up" \/ Asked(p) \in known
    /\ known' = known \cup ({Asked(p)} \cap Cached)

\* Mutant: the status of the last check overwrites the overall one.
LastCheckWins(p) ==
    /\ Passes(p)
    /\ probe' = [probe EXCEPT ![p].at = @ + 1, ![p].healthy = TRUE]
    /\ UNCHANGED <<phase, done, open, broken, status, sawUp, turns>>

\* The check returned True: overall_status stays what it was.
CheckPasses(p) ==
    /\ Passes(p)
    /\ probe' = [probe EXCEPT ![p].at = @ + 1]
    /\ UNCHANGED <<phase, done, open, broken, status, sawUp, turns>>

\* Mutant: the overall status is a field of the registry.
FailsForAll(p) ==
    /\ Checking(p)
    /\ probe' = [q \in Probes |->
                   IF q = p THEN [probe[p] EXCEPT !.at = @ + 1, !.healthy = FALSE,
                                                  !.failed = @ \cup {Asked(p)}]
                            ELSE [probe[q] EXCEPT !.healthy = FALSE]]
    /\ UNCHANGED <<phase, done, open, broken, status, sawUp, known, turns>>

\* The check returned False or raised, which check_all takes alike: the
\* dependency is down, the wait for it was given up, the pool was exhausted,
\* or the manager was never initialized.
CheckFails(p) ==
    /\ Checking(p)
    /\ probe' = [probe EXCEPT ![p].at = @ + 1, ![p].healthy = FALSE,
                              ![p].failed = @ \cup {Asked(p)}]
    /\ UNCHANGED <<phase, done, open, broken, status, sawUp, known, turns>>

\* Mutant: the probe waits until it can answer that the service is ready.
AnswerWhenReady(p) ==
    /\ probe[p].state = "checking" /\ probe[p].kind = "ready"
    /\ probe[p].at = Len(Checks) /\ probe[p].healthy
    /\ probe' = [probe EXCEPT ![p].state = "answered", ![p].answer = 200]
    /\ UNCHANGED <<phase, done, open, broken, status, sawUp, known, turns>>

\* /health/ready: every check must have passed.
AnswerReady(p) ==
    /\ probe[p].state = "checking" /\ probe[p].kind = "ready"
    /\ probe[p].at = Len(Checks)
    /\ probe' = [probe EXCEPT ![p].state = "answered",
                              ![p].answer = IF probe[p].healthy THEN 200 ELSE 503]
    /\ UNCHANGED <<phase, done, open, broken, status, sawUp, known, turns>>

\* /health/live: check_liveness is True, no dependency is asked.
AnswerLive(p) ==
    /\ probe[p].state = "checking" /\ probe[p].kind = "live"
    /\ probe' = [probe EXCEPT ![p].state = "answered", ![p].answer = 200]
    /\ UNCHANGED <<phase, done, open, broken, status, sawUp, known, turns>>

-----------------------------------------------------------------------------
(* Shutdown.                                                               *)

\* SIGTERM: uvicorn stops accepting and waits for the requests in flight.
Terminate ==
    /\ phase = "serving"
    /\ phase' = "draining"
    /\ UNCHANGED <<done, open, broken, status, probe, sawUp, known, turns>>

\* The images set no --timeout-graceful-shutdown: it waits for all of them.
Drained ==
    /\ phase = "draining"
    /\ \A p \in Probes : probe[p].state # "checking"
    /\ phase' = "closing"
    /\ UNCHANGED <<done, open, broken, status, probe, sawUp, known, turns>>

Close ==
    /\ phase = "closing" /\ done < Len(Closes)
    /\ open' = open \ {Closes[done + 1]}
    /\ done' = done + 1
    /\ UNCHANGED <<phase, broken, status, probe, sawUp, known, turns>>

\* A close() that raises ends the lifespan: the later ones are never closed.
CloseFails ==
    /\ phase = "closing" /\ done < Len(Closes)
    /\ phase' = "ended"
    /\ broken' = TRUE
    /\ UNCHANGED <<done, open, status, probe, sawUp, known, turns>>

\* Mutant: the last resource of the lifespan is not closed.
EndEarly ==
    /\ phase = "closing" /\ done + 1 = Len(Closes)
    /\ phase' = "ended"
    /\ UNCHANGED <<done, open, broken, status, probe, sawUp, known, turns>>

End ==
    /\ phase = "closing" /\ done = Len(Closes)
    /\ phase' = "ended"
    /\ UNCHANGED <<done, open, broken, status, probe, sawUp, known, turns>>

-----------------------------------------------------------------------------
(* The dependencies.                                                       *)

Turn(d) ==
    /\ turns < MaxTurns
    /\ turns' = turns + 1
    /\ \E s \in Statuses \ {status[d]} :
          /\ status' = [status EXCEPT ![d] = s]
          /\ sawUp' = [p \in Probes |->
                         IF s = "up" /\ probe[p].state = "checking"
                         THEN sawUp[p] \cup {d} ELSE sawUp[p]]
    /\ UNCHANGED <<phase, done, open, broken, probe, known>>

\* A check that failed leaves its topic among those whose metadata the client
\* goes on asking for.
Learn(d) ==
    /\ d \in open /\ status[d] = "up"
    /\ \E p \in Probes : d \in probe[p].failed
    /\ known' = known \cup {d}
    /\ UNCHANGED <<phase, done, open, broken, status, probe, sawUp, turns>>

-----------------------------------------------------------------------------
Lifecycle == Initialize \/ InitializeFails \/ Serve
                \/ Drained \/ Close \/ CloseFails \/ End

Next ==
    \/ Lifecycle
    \/ Interrupt
    \/ Terminate
    \/ \E p \in Probes : \/ Receive(p)
                         \/ CheckPasses(p)
                         \/ CheckFails(p)
                         \/ AnswerReady(p)
                         \/ AnswerLive(p)
    \/ \E d \in Resources : Turn(d)
    \/ \E d \in Cached : Learn(d)

\* What the event loop runs on its own: a check whose dependency is not
\* silent returns, one way or the other.
Proceeds(p) ==
    \/ CheckPasses(p)
    \/ Checking(p) /\ status[Asked(p)] # "silent" /\ CheckFails(p)
    \/ AnswerReady(p)
    \/ AnswerLive(p)

Spec == /\ Init /\ [][Next]_vars
        /\ WF_vars(Lifecycle)
        /\ \A p \in Probes : WF_vars(Proceeds(p))

-----------------------------------------------------------------------------
(* Properties.                                                             *)

\* A readiness probe that answers 200 vouches for every checked dependency:
\* each was up at some moment between the arrival of the probe and its answer,
\* whatever changed between two checks and whatever the other probes saw (not
\* all at one moment: the checks are awaited one by one).  It does not vouch
\* for Kafka once the producer knows the topic it asks for: that check passes
\* with every broker down.
ReadyWasTrue ==
    \A p \in Probes : (probe[p].kind = "ready" /\ probe[p].answer = 200)
                         => /\ Checked \ Cached \subseteq sawUp[p]
                            /\ Checked \ known \subseteq sawUp[p]

\* A readiness probe answers 503 for a reason of its own: one of its own
\* checks did not pass.  What an overlapping probe saw does not count.
NotReadyHadCause ==
    \A p \in Probes : probe[p].answer = 503 => probe[p].failed # {}

\* A check never runs on a manager that is not initialized yet or is closed
\* already: requests are served between the two halves of the lifespan only.
UsedWhileOpen ==
    \A p \in Probes : Checking(p) => Checked \subseteq open

\* A process that ends with a connection open had an initialize or a close
\* raise, or was interrupted before it served: the two orders of the lifespan
\* name the same resources, each once.
ClosedUnlessBroken ==
    phase = "ended" /\ ~broken => open = {}

\* A process told to stop ends, provided no dependency stays silent (from
\* some moment on each is up or down): a probe
\* waiting for a silent one keeps uvicorn, which has no limit for the drain,
\* from ever reaching the second half of the lifespan.
StopsWhenTold ==
    <>[](\A d \in Resources : status[d] # "silent")
        => (phase = "draining" ~> phase = "ended")
=============================================================================
