------------------------------ MODULE Policies ------------------------------
(***************************************************************************)
(* Retry policies and retry sessions, the application's own and the        *)
(* built-in ones, as the driver calls them (src/src/policies/retry). A     *)
(* call of Python may return something of the wrong class, or raise. The   *)
(* driver's loop over the attempts of a request is external, and so is     *)
(* what a built-in session decides.                                        *)
(***************************************************************************)
EXTENDS Naturals, Sequences

CONSTANTS Requests,     \* requests in flight
          PyObjects,    \* retry session objects of the application
          MaxEvents     \* bound: calls on a retry session before an attempt may fail

ASSUME ObjectsAssumption == "raises" \notin PyObjects
ASSUME RequestsAssumption == "application" \notin Requests
ASSUME EventsAssumption == MaxEvents \in Nat

VARIABLES policy,       \* the retry policy of the profile, as PyRetryPolicy holds it
          objects,      \* the class of each Python session object
          retrySession, \* of a request: the session the driver asks
          retried,      \* the built-in sessions that have used their retry up
          attempt,      \* of a request: what the driver is doing with it
          handed,       \* history: of a request, what the Python new_session did
          log           \* history: of a session, the calls made on it

policyVars == <<policy, objects, retrySession, retried, attempt, handed, log>>

\* The classes a retry policy, and a session object, may be of.
PolicyObjects == {"Default", "Downgrading", "Fallthrough", "Python", "object"}
SessionKinds == {"Default", "Downgrading", "Fallthrough", "Python"}

\* A session the driver made for one request, and one behind an object of the
\* application, which all requests that were handed the object ask.
Own(r) == <<"own", r>>
Shared(o) == <<"object", o>>
NoSession == <<"none", "none">>
Sessions == {Own(r) : r \in Requests} \cup {Shared(o) : o \in PyObjects}

PyDecisions == {"RetrySameTarget", "RetryNextTarget", "DontRetry", "IgnoreWriteError"}

Event(by, answer, did) == [by |-> by, answer |-> answer, did |-> did]

\* PyRetryPolicy::extract: an object without new_session is refused, and the profile
\* keeps the default policy.
RetryPolicyOf(obj) == IF obj = "object" THEN "Default" ELSE obj

PolicyInit ==
  /\ \E obj \in PolicyObjects : policy = RetryPolicyOf(obj)
  /\ objects \in [PyObjects -> SessionKinds]
  /\ retrySession = [r \in Requests |-> NoSession]
  /\ retried = {}
  /\ attempt = [r \in Requests |-> "new"]
  /\ handed = [r \in Requests |-> "none"]
  /\ log = [s \in Sessions |-> <<>>]

-----------------------------------------------------------------------------
(* Sessions *)

\* PyCustomRetryPolicy::new_session, and new_session of a built-in policy. The session
\* behind a Python object of a built-in class is shared with that object, not copied.
SessionFor(r, o) == IF policy # "Python" \/ o = "raises" THEN Own(r) ELSE Shared(o)

\* The class of a session; the one made because Python raised is a DefaultRetrySession.
KindOf(s) ==
  IF s[1] = "object" THEN objects[s[2]] ELSE IF policy = "Python" THEN "Default" ELSE policy

\* PyCustomRetrySession::decide_should_retry and From<&PyRetryDecision>: an error, or an
\* object of another class, is DontRetry.
DecisionOf(answer) == IF answer \in PyDecisions THEN answer ELSE "DontRetry"

\* decide_should_retry of a built-in session, under its lock. External: for the errors a
\* default session retries once (Unavailable, a timeout) it does so on another node; a
\* downgrading one on the same node, with a lower consistency.
BuiltinDecision(kind, s) ==
  CASE kind = "Fallthrough" \/ s \in retried -> "DontRetry"
    [] kind = "Default" /\ s \notin retried -> "RetryNextTarget"
    [] kind = "Downgrading" /\ s \notin retried -> "RetrySameTarget"

\* The decision of session s, asked by a request or by the application.
Decision(s, answer) ==
  IF KindOf(s) = "Python" THEN DecisionOf(answer) ELSE BuiltinDecision(KindOf(s), s)

\* What the answers of a session may be: a built-in one has none of its own.
Answers(s) == IF KindOf(s) = "Python" THEN PyDecisions \cup {"other", "raises"} ELSE {"builtin"}

\* A session is asked: it has used its retry up, unless it has none.
Asked(by, s, answer) ==
  /\ answer \in Answers(s)
  /\ log' = [log EXCEPT ![s] = Append(@, Event(by, answer, Decision(s, answer)))]
  /\ retried' = IF KindOf(s) \in {"Default", "Downgrading"} THEN retried \cup {s} ELSE retried

\* Mutant: a reset does not reach the session.
ResetForgotten(by, s) ==
  /\ log' = [log EXCEPT ![s] = Append(@, Event(by, "builtin", "reset"))]
  /\ UNCHANGED retried

\* reset: a built-in session has its retry again. A Python session's reset() is called,
\* and an exception of it ignored.
Reset(by, s) ==
  /\ log' = [log EXCEPT ![s] = Append(@, Event(by, "builtin", "reset"))]
  /\ retried' = retried \ {s}

-----------------------------------------------------------------------------
(* Requests *)

StartRequest(r, o) ==
  /\ attempt[r] = "new" /\ (policy # "Python" => o = "raises")
  /\ retrySession' = [retrySession EXCEPT ![r] = SessionFor(r, o)]
  /\ handed' = [handed EXCEPT ![r] = o]
  /\ attempt' = [attempt EXCEPT ![r] = "sent"]
  /\ UNCHANGED <<policy, objects, retried, log>>

\* External: an attempt succeeds, or fails with an error that a retry may help.
AttemptEnds(r, ok) ==
  /\ attempt[r] = "sent" /\ (~ok => Len(log[retrySession[r]]) < MaxEvents)
  /\ attempt' = [attempt EXCEPT ![r] = IF ok THEN "done" ELSE "failed"]
  /\ UNCHANGED <<policy, objects, retrySession, retried, handed, log>>

\* The driver asks the session of a request whose attempt failed.
Decide(r, answer) ==
  /\ attempt[r] = "failed"
  /\ Asked(r, retrySession[r], answer)
  /\ attempt' = [attempt EXCEPT ![r] =
       CASE Decision(retrySession[r], answer) \in {"RetrySameTarget", "RetryNextTarget"} -> "sent"
         [] Decision(retrySession[r], answer) = "DontRetry" -> "error"
         [] Decision(retrySession[r], answer) = "IgnoreWriteError" -> "done"]
  /\ UNCHANGED <<policy, objects, retrySession, handed>>

\* The driver resets the session of a request it goes on with, to fetch its next page.
ResetSession(r) ==
  /\ attempt[r] = "sent" /\ Len(log[retrySession[r]]) < MaxEvents
  /\ Reset(r, retrySession[r])
  /\ UNCHANGED <<policy, objects, retrySession, attempt, handed>>

\* The application calls decide_should_retry, or reset, of an object of a built-in class.
AskObject(o) ==
  /\ objects[o] # "Python" /\ Len(log[Shared(o)]) < MaxEvents
  /\ Asked("application", Shared(o), "builtin")
  /\ UNCHANGED <<policy, objects, retrySession, attempt, handed>>

ResetObject(o) ==
  /\ objects[o] # "Python" /\ Len(log[Shared(o)]) < MaxEvents
  /\ Reset("application", Shared(o))
  /\ UNCHANGED <<policy, objects, retrySession, attempt, handed>>

PolicyNext ==
  \/ \E r \in Requests :
       \/ \E o \in PyObjects \cup {"raises"} : StartRequest(r, o)
       \/ \E ok \in BOOLEAN : AttemptEnds(r, ok)
       \/ \E answer \in PyDecisions \cup {"builtin", "other", "raises"} : Decide(r, answer)
       \/ ResetSession(r)
  \/ \E o \in PyObjects : AskObject(o) \/ ResetObject(o)

PolicySpec == PolicyInit /\ [][PolicyNext]_policyVars

-----------------------------------------------------------------------------
(* Properties *)

Retry == {"RetrySameTarget", "RetryNextTarget"}

\* The application handed q and r the same session object.
Together(q, r) == handed[q] = handed[r] /\ handed[r] \in PyObjects

\* The calls on session s that asked for a decision on request r.
DecidedFor(s, r) == {i \in DOMAIN log[s] : log[s][i].by = r /\ log[s][i].did # "reset"}

\* Between calls i and j on session s it was reset.
ResetBetween(s, i, j) == \E k \in DOMAIN log[s] : i < k /\ k < j /\ log[s][k].did = "reset"

\* Call i on session s retried.
RetriedAt(s, i) == i \in DOMAIN log[s] /\ log[s][i].did \in Retry

\* A request is tried again exactly as long as its retry session says so: an answer that
\* is no decision, or an exception, ends it with the error of its last attempt. A
\* built-in session retries once from one reset to the next, whoever asks it, and refuses
\* only what comes after that. Only the requests that were handed the object it is
\* behind ask it, and the application; a session the driver makes, as it does when the
\* policy raises, is asked about its one request (policies/retry/policies.rs).
PoliciesObeyed ==
  /\ \A r \in Requests : attempt[r] # "new" =>
       LET s == retrySession[r]
           event == log[s] IN
       /\ \A i \in DecidedFor(s, r) :
            /\ (\E j \in DecidedFor(s, r) : i < j) \/ attempt[r] \in {"sent", "failed"} =>
                 event[i].did \in Retry
            /\ event[i].answer \in PyDecisions => event[i].did = event[i].answer
            /\ event[i].answer \in {"other", "raises"} => attempt[r] = "error"
       /\ attempt[r] = "error" => \E i \in DecidedFor(s, r) : event[i].did = "DontRetry"
       /\ \A i \in DOMAIN event :
            \/ event[i].by = r
            \/ event[i].by = "application" /\ handed[r] \in PyObjects
            \/ Together(event[i].by, r)
  /\ \A s \in Sessions : KindOf(s) # "Python" =>
       /\ KindOf(s) = "Fallthrough" => \A i \in DOMAIN log[s] : ~RetriedAt(s, i)
       /\ \A i, j \in DOMAIN log[s] :
            i < j /\ RetriedAt(s, i) /\ RetriedAt(s, j) => ResetBetween(s, i, j)
       /\ \A j \in DOMAIN log[s] :
            KindOf(s) # "Fallthrough" /\ log[s][j].did = "DontRetry" =>
              \E i \in DOMAIN log[s] : i < j /\ RetriedAt(s, i) /\ ~ResetBetween(s, i, j)
=============================================================================
