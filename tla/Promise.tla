------------------------------ MODULE Promise ------------------------------
(***************************************************************************)
(* What a DriverFuture promises, without its threads, runtime and loop: one *)
(* outcome, fixed once; whoever is told anything is told that outcome; a    *)
(* callback is called at most once, after the outcome is fixed, and only if *)
(* its kind fits.                                                           *)
(***************************************************************************)
EXTENDS Naturals

CONSTANTS Callbacks,  \* callbacks that may be registered
          Fits(_, _), \* whether a callback is called for an outcome
          Outcomes    \* what a settled future can read as

VARIABLES outcome,    \* "none" or the outcome
          told,       \* what readers and callbacks were told
          calls       \* how often each callback was called

promiseVars == <<outcome, told, calls>>

Init == /\ outcome \in {"none"} \cup Outcomes
        /\ told = {}
        /\ calls = [c \in Callbacks |-> 0]

\* The outcome is fixed, and may be reported in the same step.
Fix(v) == /\ outcome = "none"
          /\ outcome' = v
          /\ told' \in {told, told \cup {v}}
          /\ calls' = calls

\* A reader is told the outcome.
Tell == /\ outcome # "none"
        /\ told' = told \cup {outcome}
        /\ UNCHANGED <<outcome, calls>>

\* A callback is called with the outcome.
Call(c) == /\ outcome # "none" /\ Fits(c, outcome)
           /\ calls[c] = 0
           /\ calls' = [calls EXCEPT ![c] = 1]
           /\ told' = told \cup {outcome}
           /\ outcome' = outcome

Next == \/ \E v \in Outcomes : Fix(v)
        \/ Tell
        \/ \E c \in Callbacks : Call(c)

Spec == Init /\ [][Next]_promiseVars
=============================================================================
