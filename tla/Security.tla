------------------------------ MODULE Security ------------------------------
(***************************************************************************)
(* The services of security/ in one specification, for one run to check.   *)
(* They share no state and do not call each other; a behaviour follows one *)
(* of them, and the others stand still.                                    *)
(***************************************************************************)
EXTENDS RateLimiter, AuditLog, Access, Certificates

VARIABLE service    \* the one this behaviour follows

securityVars == <<limiterVars, auditVars, accessVars, certVars, service>>

\* Which key the limiter's history is about matters where the limiter moves.
AnyKey == CHOOSE k \in Key : TRUE

TypeOK == LimiterTypeOK /\ AuditTypeOK /\ AccessTypeOK /\ CertTypeOK

Init ==
  /\ service \in {"limiter", "audit", "access", "certificates"}
  /\ LimiterInit /\ AuditInit /\ AccessInit /\ CertInit
  /\ service # "limiter" => answer.key = AnyKey /\ window.key = AnyKey

Next ==
  /\ UNCHANGED service
  /\ \/ /\ service = "limiter" /\ LimiterNext
        /\ UNCHANGED <<auditVars, accessVars, certVars>>
     \/ /\ service = "audit" /\ AuditNext
        /\ UNCHANGED <<limiterVars, accessVars, certVars>>
     \/ /\ service = "access" /\ AccessNext
        /\ UNCHANGED <<limiterVars, auditVars, certVars>>
     \/ /\ service = "certificates" /\ CertNext
        /\ UNCHANGED <<limiterVars, auditVars, accessVars>>

Spec == Init /\ [][Next]_securityVars
=============================================================================
