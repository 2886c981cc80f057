-------------------------- MODULE RequestPipeline --------------------------
(***************************************************************************)
(* A request's way through the gateway, the proxy and one service: the     *)
(* middlewares that create_app stacks around the endpoints of each app,    *)
(* the context variables they set, the exceptions they turn into answers.  *)
(*                                                                         *)
(* Each middleware is a dispatch that runs code, calls the next one and    *)
(* runs code on its result.  BaseHTTPMiddleware starts the next one in a   *)
(* task of its own, with a copy of the context variables: what a dispatch  *)
(* sets is seen further in, never further out.  Every step of a dispatch   *)
(* between two task switches is one action.                                *)
(*                                                                         *)
(* What the limiter's verdict depends on is RateLimiter's; what the        *)
(* endpoints do is left open.                                              *)
(***************************************************************************)
EXTENDS Naturals, FiniteSets, Sequences, SequencesExt

CONSTANTS
    Request,      \* requests of clients
    Tenant,       \* tenants named in headers
    Input,        \* Input[r]: what r's client may send
    Raisable,     \* what the service's endpoints may raise
    MaxCancels    \* bound: requests cancelled

\* DomainException and its subclasses, all derived from it directly: no
\* except clause for one of them hides that of another.
DomainErrors ==
    {"DomainException", "EntityNotFound", "EntityAlreadyExists", "BusinessRuleViolation",
     "ConcurrencyConflict", "AuthorizationError", "TenantAccessDenied", "ValidationError",
     "RateLimitExceeded", "ExternalServiceError"}
Exceptions == DomainErrors \cup {"Exception"}

\* What ErrorHandlerMiddleware answers: the first except clause that fits.
StatusOf ==
    [exc \in Exceptions |->
        CASE exc = "EntityNotFound" -> 404
          [] exc \in {"EntityAlreadyExists", "ConcurrencyConflict"} -> 409
          [] exc \in {"AuthorizationError", "TenantAccessDenied"} -> 403
          [] exc = "RateLimitExceeded" -> 429
          [] exc \in {"ValidationError", "BusinessRuleViolation"} -> 422
          [] exc \in {"DomainException", "ExternalServiceError"} -> 400
          [] exc = "Exception" -> 500]

Targets == {"health", "proxied", "unknown", "preflight"}
Header == [target : Targets, tenant : Tenant \cup {"none", "malformed"}, correlation : BOOLEAN]

ASSUME TenantAssumption == {"none", "malformed"} \cap Tenant = {}
ASSUME InputAssumption == Input \in [Request -> SUBSET Header]
ASSUME RaisableAssumption == Raisable \subseteq Exceptions
ASSUME MaxCancelsAssumption == MaxCancels \in Nat

VARIABLES
    request,    \* request[r]: what r's client sent
    frames,     \* frames[a][r]: contexts of r's running dispatches, outermost first
    outcome,    \* outcome[a][r]: what the last dispatch to finish returned or raised
    called,     \* requests the gateway has sent downstream
    limited,    \* requests the limiter turned away
    cancelled,  \* <<a, r>> whose task a's server cancelled
    recorded,   \* recorded[a][r]: the metrics of r
    answer      \* answer[a][r]: what a answered

vars == <<request, frames, outcome, called, limited, cancelled, recorded, answer>>

-----------------------------------------------------------------------------
(* Apps, contexts, outcomes                                                *)

App == {"gateway", "service"}

Statuses == {StatusOf[e] : e \in Exceptions} \cup {200, 502}

\* uuid4 and the client's ids never collide.
NoId == <<"none">>
CorrelationIds == {NoId} \cup ((App \cup {"client"}) \X Request)
Context == [tenant : Tenant \cup {"none"}, correlation : CorrelationIds]
EmptyContext == [tenant |-> "none", correlation |-> NoId]

NoOutcome == [kind |-> "none"]
Response(status, id) == [kind |-> "response", status |-> status, id |-> id]
Raised(exc) == [kind |-> "raised", exc |-> exc]
Responses == [kind : {"response"}, status : Statuses, id : CorrelationIds]
Raises == [kind : {"raised"}, exc : Exceptions \cup {"CancelledError"}]

NoAnswer == [status |-> 0, id |-> NoId]
NoRecord == [status |-> 0, tenant |-> "none"]

\* What the client's headers say.
TenantOf(r) == IF request[r].tenant \in Tenant THEN request[r].tenant ELSE "none"
IdOf(a, r) == IF request[r].correlation THEN <<"client", r>> ELSE <<a, r>>

TypeOK ==
    /\ request \in [Request -> Header]
    /\ frames \in [App -> [Request -> Seq(Context)]]
    /\ outcome \in [App -> [Request -> {NoOutcome} \cup Responses \cup Raises]]
    /\ called \subseteq Request
    /\ limited \subseteq Request
    /\ cancelled \subseteq App \X Request
    /\ recorded \in [App -> [Request -> {NoRecord} \cup [status : Statuses, tenant : Tenant \cup {"none"}]]]
    /\ answer \in [App -> [Request -> {NoAnswer} \cup [status : Statuses, id : CorrelationIds]]]

Init ==
    /\ request \in {q \in [Request -> Header] : \A r \in Request : q[r] \in Input[r]}
    /\ frames = [a \in App |-> [r \in Request |-> <<>>]]
    /\ outcome = [a \in App |-> [r \in Request |-> NoOutcome]]
    /\ called = {}
    /\ limited = {}
    /\ cancelled = {}
    /\ recorded = [a \in App |-> [r \in Request |-> NoRecord]]
    /\ answer = [a \in App |-> [r \in Request |-> NoAnswer]]

-----------------------------------------------------------------------------
(* The stack of dispatches                                                 *)

\* Mutant: the error handler is added last, as a top-level catcher would be.
CatcherOutermost(a) ==
    <<"logging", "tenant", "correlation", "cors", "error_handler">>
        \o (IF a = "gateway" THEN <<"limiter">> ELSE <<>>)

\* The add_middleware calls of create_app, then the gateway's own.
Added(a) ==
    <<"error_handler", "logging", "tenant", "correlation", "cors">>
        \o (IF a = "gateway" THEN <<"limiter">> ELSE <<>>)

\* Starlette puts each middleware outside those added before.
Stack == [a \in App |-> Reverse(Added(a)) \o <<"endpoint">>]

\* r's innermost dispatch in a, before it calls the next one...
Inward(a, r, layer) ==
    /\ frames[a][r] # <<>>
    /\ outcome[a][r] = NoOutcome
    /\ Stack[a][Len(frames[a][r])] = layer

\* ... and once that one returned or raised.
Outward(a, r, layer) ==
    /\ frames[a][r] # <<>>
    /\ outcome[a][r] # NoOutcome
    /\ Stack[a][Len(frames[a][r])] = layer

\* The dispatch goes on with context c, and the next one with a copy of it.
CallNext(a, r, c) ==
    /\ frames' = [frames EXCEPT ![a][r] = Append([@ EXCEPT ![Len(@)] = c], c)]
    /\ UNCHANGED outcome

\* The dispatch ends, returning or raising o.
Finish(a, r, o) ==
    /\ frames' = [frames EXCEPT ![a][r] = Front(@)]
    /\ outcome' = [outcome EXCEPT ![a][r] = o]

Mine(a, r) == Last(frames[a][r])
Bookkeeping == <<request, called, limited, cancelled, recorded, answer>>

-----------------------------------------------------------------------------
(* Mutants: plausible bugs, none of them a step of Next.                   *)

\* The tenant is a module variable instead of a context variable.
SharedTenant(a, r) ==
    /\ Inward(a, r, "tenant")
    /\ LET Set(fs) == [i \in DOMAIN fs |-> [fs[i] EXCEPT !.tenant = TenantOf(r)]] IN
       frames' = [frames EXCEPT ![a] =
           [s \in Request |-> IF s = r THEN Append(Set(@[s]), Last(Set(@[s]))) ELSE Set(@[s])]]
    /\ UNCHANGED <<request, outcome, called, limited, cancelled, recorded, answer>>

\* The header is set only if the response has none yet.
KeepHeader(a, r) ==
    /\ Outward(a, r, "correlation")
    /\ Finish(a, r, IF outcome[a][r].kind = "response" /\ outcome[a][r].id = NoId
                    THEN Response(outcome[a][r].status, Mine(a, r).correlation) ELSE outcome[a][r])
    /\ UNCHANGED Bookkeeping

\* status_code starts at 0, so that the finally block of a cancelled request
\* finds it bound and counts it.
CountCancelled(a, r) ==
    /\ Inward(a, r, "endpoint")
    /\ Cardinality(cancelled) < MaxCancels
    /\ cancelled' = cancelled \cup {<<a, r>>}
    /\ frames' = [frames EXCEPT ![a][r] = <<>>]
    /\ outcome' = [outcome EXCEPT ![a][r] = Raised("CancelledError")]
    /\ recorded' = [recorded EXCEPT ![a][r] = [status |-> 0, tenant |-> Mine(a, r).tenant]]
    /\ UNCHANGED <<request, called, limited, answer>>


-----------------------------------------------------------------------------
(* Middlewares, on the way in                                              *)

\* The limiter lets a request pass: exempt, admitted, or Redis failed.
LimiterPasses(r) ==
    /\ Inward("gateway", r, "limiter")
    /\ CallNext("gateway", r, Mine("gateway", r))
    /\ UNCHANGED Bookkeeping

LimiterRaises(r) ==
    /\ Inward("gateway", r, "limiter")
    /\ request[r].target # "health"
    /\ limited' = limited \cup {r}
    /\ Finish("gateway", r, Raised("RateLimitExceeded"))
    /\ UNCHANGED <<request, called, cancelled, recorded, answer>>

\* CORSMiddleware answers a preflight itself.
CorsAnswers(r) ==
    /\ Inward("gateway", r, "cors")
    /\ request[r].target = "preflight"
    /\ Finish("gateway", r, Response(200, NoId))
    /\ UNCHANGED Bookkeeping

\* The client's id, or a new one.
CorrelationIn(a, r) ==
    /\ Inward(a, r, "correlation")
    /\ CallNext(a, r, [Mine(a, r) EXCEPT !.correlation = IdOf(a, r)])
    /\ UNCHANGED Bookkeeping

\* A missing or malformed header leaves the tenant as it was.
TenantIn(a, r) ==
    /\ Inward(a, r, "tenant")
    /\ CallNext(a, r, [Mine(a, r) EXCEPT
            !.tenant = IF request[r].tenant \in Tenant THEN request[r].tenant ELSE @])
    /\ UNCHANGED Bookkeeping

\* Nothing that changes state is done before the next dispatch is called.
PassIn(a, r) ==
    /\ \/ Inward(a, r, "cors") /\ request[r].target # "preflight"
       \/ Inward(a, r, "logging")
       \/ Inward(a, r, "error_handler")
    /\ CallNext(a, r, Mine(a, r))
    /\ UNCHANGED Bookkeeping

-----------------------------------------------------------------------------
(* Endpoints                                                               *)

OwnEndpoint(r) ==
    /\ Inward("gateway", r, "endpoint")
    /\ request[r].target = "health"
    /\ Finish("gateway", r, Response(200, NoId))
    /\ UNCHANGED Bookkeeping

\* No prefix of ROUTE_MAP matches.
RouteNotFound(r) ==
    /\ Inward("gateway", r, "endpoint")
    /\ request[r].target = "unknown"
    /\ Finish("gateway", r, Response(404, NoId))
    /\ UNCHANGED Bookkeeping

\* Reading the body fails, as when the client is gone.
ProxyRaises(r) ==
    /\ Inward("gateway", r, "endpoint")
    /\ request[r].target = "proxied"
    /\ r \notin called
    /\ Finish("gateway", r, Raised("Exception"))
    /\ UNCHANGED Bookkeeping

\* forward_request sends the client's own headers.
Forward(r) ==
    /\ Inward("gateway", r, "endpoint")
    /\ request[r].target = "proxied"
    /\ r \notin called
    /\ called' = called \cup {r}
    /\ UNCHANGED <<request, frames, outcome, limited, cancelled, recorded, answer>>

\* The service's answer, with its headers.
Relay(r) ==
    /\ Inward("gateway", r, "endpoint")
    /\ answer["service"][r] # NoAnswer
    /\ Finish("gateway", r, Response(answer["service"][r].status, answer["service"][r].id))
    /\ UNCHANGED Bookkeeping

\* httpx.RequestError: no connection, or no answer in time.  The service may
\* be working on the request, and goes on.
RequestError(r) ==
    /\ Inward("gateway", r, "endpoint")
    /\ request[r].target = "proxied"
    /\ Finish("gateway", r, Response(502, NoId))
    /\ UNCHANGED Bookkeeping

\* A response: also what FastAPI makes of an HTTPException, which never gets
\* to the middlewares.
EndpointReturns(r) ==
    /\ Inward("service", r, "endpoint")
    /\ Finish("service", r, Response(200, NoId))
    /\ UNCHANGED Bookkeeping

EndpointRaises(r) ==
    /\ Inward("service", r, "endpoint")
    /\ \E e \in Raisable : Finish("service", r, Raised(e))
    /\ UNCHANGED Bookkeeping

-----------------------------------------------------------------------------
(* Middlewares, on the way out                                             *)

\* Every Exception becomes a response.
ErrorHandlerOut(a, r) ==
    /\ Outward(a, r, "error_handler")
    /\ Finish(a, r, IF outcome[a][r].kind = "raised"
                    THEN Response(StatusOf[outcome[a][r].exc], NoId) ELSE outcome[a][r])
    /\ UNCHANGED Bookkeeping

\* The status and the tenant of the request are counted in the metrics.
LoggingOut(a, r) ==
    /\ Outward(a, r, "logging")
    /\ recorded' = [recorded EXCEPT ![a][r] =
            [status |-> IF outcome[a][r].kind = "response" THEN outcome[a][r].status ELSE 500,
             tenant |-> Mine(a, r).tenant]]
    /\ Finish(a, r, outcome[a][r])
    /\ UNCHANGED <<request, called, limited, cancelled, answer>>

CorrelationOut(a, r) ==
    /\ Outward(a, r, "correlation")
    /\ Finish(a, r, IF outcome[a][r].kind = "response"
                    THEN Response(outcome[a][r].status, Mine(a, r).correlation) ELSE outcome[a][r])
    /\ UNCHANGED Bookkeeping

\* Nothing is done with the result.
PassOut(a, r) ==
    /\ \E layer \in {"tenant", "cors", "limiter"} : Outward(a, r, layer)
    /\ Finish(a, r, outcome[a][r])
    /\ UNCHANGED Bookkeeping

-----------------------------------------------------------------------------
(* The server                                                              *)

\* The server calls the outermost dispatch, in a task of the request's own.
Receive(a, r) ==
    /\ a = "service" => r \in called
    /\ frames[a][r] = <<>>
    /\ outcome[a][r] = NoOutcome
    /\ frames' = [frames EXCEPT ![a][r] = <<EmptyContext>>]
    /\ UNCHANGED <<request, outcome, called, limited, cancelled, recorded, answer>>

\* Starlette's ServerErrorMiddleware answers 500 to what is still raised, if it
\* is an Exception: to CancelledError nothing is sent.
Answer(a, r) ==
    /\ frames[a][r] = <<>>
    /\ outcome[a][r] # NoOutcome
    /\ <<a, r>> \notin cancelled
    /\ answer[a][r] = NoAnswer
    /\ answer' = [answer EXCEPT ![a][r] =
            IF outcome[a][r].kind = "response"
            THEN [status |-> outcome[a][r].status, id |-> outcome[a][r].id]
            ELSE [status |-> 500, id |-> NoId]]
    /\ UNCHANGED <<request, frames, outcome, called, limited, cancelled, recorded>>

\* The server cancels the request's task at whatever await it is, Redis's in
\* the limiter included.  The task awaits in the outermost dispatch, whose task
\* group cancels the ones it started, and they theirs: no dispatch makes an
\* answer of it.  That of the metrics finds status_code unbound in its finally
\* block and raises UnboundLocalError in place of CancelledError, before it
\* counts anything, into a task whose result nobody reads.
Cancel(a, r) ==
    /\ frames[a][r] # <<>> \/ outcome[a][r] # NoOutcome
    /\ <<a, r>> \notin cancelled
    /\ answer[a][r] = NoAnswer
    /\ Cardinality(cancelled) < MaxCancels
    /\ cancelled' = cancelled \cup {<<a, r>>}
    /\ frames' = [frames EXCEPT ![a][r] = <<>>]
    /\ outcome' = [outcome EXCEPT ![a][r] = Raised("CancelledError")]
    /\ UNCHANGED <<request, called, limited, recorded, answer>>

-----------------------------------------------------------------------------

Middleware(a, r) ==
    \/ PassIn(a, r) \/ CorrelationIn(a, r) \/ TenantIn(a, r)
    \/ ErrorHandlerOut(a, r) \/ LoggingOut(a, r) \/ CorrelationOut(a, r) \/ PassOut(a, r)
    \/ Receive(a, r) \/ Answer(a, r)

GatewayStep(r) ==
    \/ Middleware("gateway", r)
    \/ LimiterPasses(r) \/ LimiterRaises(r) \/ CorsAnswers(r)
    \/ OwnEndpoint(r) \/ RouteNotFound(r)
    \/ ProxyRaises(r) \/ Forward(r) \/ Relay(r) \/ RequestError(r)

ServiceStep(r) == Middleware("service", r) \/ EndpointReturns(r) \/ EndpointRaises(r)

Next == \E r \in Request : GatewayStep(r) \/ ServiceStep(r) \/ (\E a \in App : Cancel(a, r))

Spec == Init /\ [][Next]_vars

\* The limiter's transaction, which has no timeout.
AwaitsRedis(r) == Inward("gateway", r, "limiter") /\ request[r].target # "health"

\* The gateway's event loop runs every ready task and httpx's timeouts expire.
\* Nothing is assumed of Redis, nor of the service.
FairSpec == Spec /\ \A r \in Request : WF_vars(GatewayStep(r) /\ ~ AwaitsRedis(r))

-----------------------------------------------------------------------------
(* Properties                                                              *)

\* A request turned back before it got to the metrics.
CutShort(a, r) == a = "gateway" /\ (request[r].target = "preflight" \/ r \in limited)

\* However requests interleave, an endpoint runs under the tenant and the
\* correlation id of its own request, and no dispatch under another's.
OwnContext ==
    \A a \in App, r \in Request :
        /\ \A i \in DOMAIN frames[a][r] :
            /\ frames[a][r][i].tenant \in {"none", TenantOf(r)}
            /\ frames[a][r][i].correlation \in {NoId, IdOf(a, r)}
        /\ Inward(a, r, "endpoint") =>
            Mine(a, r) = [tenant |-> TenantOf(r), correlation |-> IdOf(a, r)]

\* The metrics count a request that is answered under the status its client
\* gets and the tenant it named, and miss only those turned back before.
RecordedWhatWasSent ==
    \A a \in App, r \in Request : answer[a][r] # NoAnswer =>
        IF CutShort(a, r) THEN recorded[a][r] = NoRecord
        ELSE recorded[a][r] = [status |-> answer[a][r].status, tenant |-> TenantOf(r)]

\* An answer carries the id its request was logged under in the app that
\* gives it, errors included.
AnswersAreTraced ==
    \A a \in App, r \in Request :
        answer[a][r] # NoAnswer /\ ~CutShort(a, r) => answer[a][r].id = IdOf(a, r)


-----------------------------------------------------------------------------
(* What documentation claims and the code does not do                      *)

\* "Global Error Handler (Top-level exception catcher)": RateLimitExceeded is
\* answered with the 429 the handler has for it.
LimitedGets429 ==
    \A r \in limited : answer["gateway"][r] # NoAnswer => answer["gateway"][r].status = 429
=============================================================================
