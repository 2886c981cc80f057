-------------------------- MODULE MCServiceProcess --------------------------
(* ServiceProcess with the resources and the orders of main.py, the same   *)
(* in all five services.                                                   *)
EXTENDS ServiceProcess

CONSTANTS postgres, redis, kafka, p1, p2

InitializeOrder == <<postgres, redis, kafka>>
CloseOrder == <<kafka, redis, postgres>>
CheckOrder == <<postgres, redis, kafka>>
=============================================================================
