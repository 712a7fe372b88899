-------------------------- MODULE GrowOnlyKnowledge --------------------------
(***************************************************************************)
(* What a replicated grow-only counter promises, with no messages in it.   *)
(* truth[m] is the number of increments m made, known[n][m] what replica n *)
(* reports of them.  A replica may learn at any time any amount that is    *)
(* true, it never reports more, and it goes back only by starting afresh.  *)
(***************************************************************************)
EXTENDS Integers

CONSTANT Node

VARIABLES truth, known

kvars == <<truth, known>>

KInit ==
  /\ truth = [n \in Node |-> 0]
  /\ known = [n \in Node |-> [m \in Node |-> 0]]

\* n's report moves forward, up to what is true after the step.
Advances(n) ==
  /\ known' \in [Node -> [Node -> Nat]]
  /\ \A m \in Node : known[n][m] <= known'[n][m] /\ known'[n][m] <= truth'[m]
  /\ \A o \in Node \ {n} : known'[o] = known[o]

Learn(n) == Advances(n) /\ UNCHANGED truth

\* n makes increments and reports them to itself at once.
Grow(n) ==
  /\ truth' \in [Node -> Nat]
  /\ truth'[n] > truth[n]
  /\ \A o \in Node \ {n} : truth'[o] = truth[o]
  /\ Advances(n)
  /\ known'[n][n] > known[n][n]

Forget(n) ==
  /\ known' = [known EXCEPT ![n] = [m \in Node |-> 0]]
  /\ UNCHANGED truth

KNext == \E n \in Node : Learn(n) \/ Grow(n) \/ Forget(n)

KSpec == KInit /\ [][KNext]_kvars
=============================================================================
