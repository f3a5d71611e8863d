----------------------------- MODULE Component ------------------------------
(***************************************************************************)
(* An object of the program with its environment.  A model has one part,   *)
(* chosen in the initial state; st is the record of its members and of     *)
(* what its environment knows.  The modules that extend this one give the  *)
(* initial records and the steps of one family of parts each.              *)
(***************************************************************************)
EXTENDS Integers, Sequences, FiniteSets

VARIABLES
  part,  \* the part that is modelled
  st     \* its state

componentVars == <<part, st>>

\* The state after a step, and a step that happens in parts of S at one place.
Become(s) == st' = s /\ UNCHANGED part
In(S, place) == part \in S /\ st.at = place

-----------------------------------------------------------------------------
(***************************************************************************)
(* A pure function of the code as a part of a sum: it is called with one   *)
(* of its inputs and gives its result in one step.  What the result has to *)
(* be is stated over [in, out] when it is done.                            *)
(***************************************************************************)

Called(in) == [at |-> "call", in |-> in]
\* The initial states: p is called with one of the inputs.
Call(p, inputs) == part = p /\ \E in \in inputs : st = Called(in)
Returns(p, out) ==
  In({p}, "call") /\ part' = part /\ st' = [at |-> "done", in |-> st.in, out |-> out]
Done(p) == In({p}, "done")

Abs(n) == IF n < 0 THEN -n ELSE n
Sign(n) == IF n > 0 THEN 1 ELSE -1
Least(a, b) == IF a < b THEN a ELSE b
Greatest(a, b) == IF a > b THEN a ELSE b
\* A conversion to int rounds towards zero.
Truncated(n, d) == IF n >= 0 THEN n \div d ELSE -((-n) \div d)
=============================================================================
