------------------------- MODULE MCRequestPipeline -------------------------
(* RequestPipeline with two requests.                                      *)
EXTENDS RequestPipeline

CONSTANTS r1, r2, t1, t2

TwoRequests == {r1, r2}
TwoTenants == {t1, t2}
SomeExceptions == {"EntityNotFound", "Exception"}

\* A request to a service, next to one of each other kind.
Sent(target, tenant, correlation) == [target |-> target, tenant |-> tenant, correlation |-> correlation]
Inputs == [r \in TwoRequests |->
    IF r = r1 THEN {Sent("proxied", t1, TRUE)}
    ELSE {Sent("proxied", t2, FALSE), Sent("health", "none", FALSE),
          Sent("unknown", "malformed", FALSE), Sent("preflight", "none", FALSE)}]
=============================================================================
