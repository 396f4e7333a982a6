---------------------------- MODULE FuturePromise ----------------------------
(***************************************************************************)
(* Future, Promise and Then: a tree of futures.  A root is the future of a *)
(* Promise, or of the std::async in SendEncryptedPacket, which waits for   *)
(* the answer to a call.  Then starts a detached thread that waits for its *)
(* future, runs a callback and sets the promise behind the future that     *)
(* Then returned.  Nobody catches what is thrown in that thread.           *)
(*                                                                         *)
(* A Future<void> is only ever waited for: whether it holds a value or an  *)
(* exception makes no difference to its Get and to its Then.               *)
(*                                                                         *)
(* The caller is one thread.  It drops a future by destroying the last     *)
(* Future of it; the last reference to a future of std::async waits for    *)
(* the task.                                                               *)
(***************************************************************************)
EXTENDS Naturals

CONSTANT MaxFutures   \* bound: futures made

ASSUME MaxFuturesAssumption == MaxFutures \in Nat

Futures == 1 .. MaxFutures

VARIABLES
  made,       \* futures made so far, numbered in this order
  source,     \* per future: "promise", "async" or "then"; "none": not made
  void,       \* per future: it is a Future<void>
  parent,     \* per future: the one Then was called on; 0 for a root
  root,       \* per future: the root of its tree
  result,     \* per future: what its shared state holds
  owned,      \* per future: the Promise behind a root exists
  held,       \* per future: the caller has a Future of it
  thread,     \* per future: where the thread stands that is to complete it
  caller,     \* what the caller is doing, and with which future
  ended       \* the process has ended

treeVars == <<made, source, void, parent, root>>
vars == <<treeVars, result, owned, held, thread, caller, ended>>

Idle == <<"idle", 0>>

Init ==
  /\ made = 0
  /\ source = [f \in Futures |-> "none"]
  /\ void = [f \in Futures |-> FALSE]
  /\ parent = [f \in Futures |-> 0]
  /\ root = [f \in Futures |-> 0]
  /\ result = [f \in Futures |-> "none"]
  /\ owned = [f \in Futures |-> FALSE]
  /\ held = [f \in Futures |-> FALSE]
  /\ thread = [f \in Futures |-> "none"]
  /\ caller = Idle
  /\ ended = FALSE

Running == ~ended
Free == Running /\ caller = Idle
Satisfied(f) == result[f] # "none"

\* wait() returns when the shared state holds something.  MutReady waits for a
\* value, MutReadyAlways does not wait.
MutReady(f) == result[f] = "value"

MutReadyAlways(f) == TRUE

Ready(f) == Satisfied(f)

\* A new future, f being what Then was called on.
Make(s, v, f) ==
  /\ made < MaxFutures
  /\ made' = made + 1
  /\ source' = [source EXCEPT ![made + 1] = s]
  /\ void' = [void EXCEPT ![made + 1] = v]
  /\ parent' = [parent EXCEPT ![made + 1] = f]
  /\ root' = [root EXCEPT ![made + 1] = IF f = 0 THEN made + 1 ELSE root[f]]

-----------------------------------------------------------------------------
(* Roots.                                                                  *)

\* A Promise and the one GetFuture it allows.
NewPromise(v) ==
  /\ Free
  /\ Make("promise", v, 0)
  /\ owned' = [owned EXCEPT ![made + 1] = TRUE]
  /\ held' = [held EXCEPT ![made + 1] = TRUE]
  /\ UNCHANGED <<result, thread, caller, ended>>

\* SetValue or SetException; a second one throws at whoever calls it.
Set(f, r) ==
  /\ Running
  /\ owned[f] /\ ~Satisfied(f)
  /\ result' = [result EXCEPT ![f] = r]
  /\ UNCHANGED <<treeVars, owned, held, thread, caller, ended>>

\* A promise that is destroyed before it is set leaves an exception.
DestroyPromise(f) ==
  /\ Running
  /\ owned[f]
  /\ owned' = [owned EXCEPT ![f] = FALSE]
  /\ result' = [result EXCEPT ![f] = IF Satisfied(f) THEN @ ELSE "exception"]
  /\ UNCHANGED <<treeVars, held, thread, caller, ended>>

\* SendEncryptedPacket: the call is made, std::async waits for its answer.
SendEncryptedPacket ==
  /\ Free
  /\ Make("async", FALSE, 0)
  /\ held' = [held EXCEPT ![made + 1] = TRUE]
  /\ UNCHANGED <<result, owned, thread, caller, ended>>

\* The answer, or an exception: an error of the call, a broken promise of the
\* client, an answer of another type.  A call need not be answered.
Answer(f, r) ==
  /\ Running
  /\ source[f] = "async" /\ ~Satisfied(f)
  /\ result' = [result EXCEPT ![f] = r]
  /\ UNCHANGED <<treeVars, owned, held, thread, caller, ended>>

-----------------------------------------------------------------------------
(* The caller.                                                             *)

\* Then throws unless its Future is valid.
Valid(f) == held[f]

Then(f, v) ==
  /\ Free
  /\ Valid(f)
  /\ Make("then", v, f)
  /\ held' = [held EXCEPT ![made + 1] = TRUE]
  /\ thread' = [thread EXCEPT ![made + 1] = "waiting"]
  /\ UNCHANGED <<result, owned, caller, ended>>

\* The threads that have a reference to the shared state of f, which they keep
\* until they end.  MutReferenced is a Then that refers to the Future of its
\* caller.
MutReferenced(f) == FALSE

Referenced(f) ==
  \E g \in Futures : parent[g] = f /\ thread[g] \in {"waiting", "calling"}

\* The caller destroys its Future of f.
Waits(f) == source[f] = "async" /\ ~Satisfied(f) /\ ~Referenced(f)

Drop(f) ==
  /\ Free
  /\ held[f]
  /\ held' = [held EXCEPT ![f] = FALSE]
  /\ caller' = IF Waits(f) THEN <<"dropping", f>> ELSE Idle
  /\ UNCHANGED <<treeVars, result, owned, thread, ended>>

Get(f) ==
  /\ Free
  /\ held[f]
  /\ caller' = <<"getting", f>>
  /\ UNCHANGED <<treeVars, result, owned, held, thread, ended>>

\* Get returns or throws, the destructor returns.  What the caller does with an
\* exception is not our business.
Return(f) ==
  /\ Running
  /\ caller \in {<<"dropping", f>>, <<"getting", f>>}
  /\ Ready(f)
  /\ caller' = Idle
  /\ UNCHANGED <<treeVars, result, owned, held, thread, ended>>

-----------------------------------------------------------------------------
(* The detached thread that completes g.                                   *)

\* wait() returns.  A valued future is then asked for its value, whose exception
\* ends the process.  MutAsked takes the value of any future for granted,
\* MutAskedVoid also asks those without one.
MutAsked(f) == "value"

MutAskedVoid(f) == result[f]

Asked(f) == IF void[f] THEN "value" ELSE result[f]

WaitReturns(g) ==
  /\ Running
  /\ thread[g] = "waiting"
  /\ Ready(parent[g])
  /\ \/ /\ Asked(parent[g]) = "value"
        /\ thread' = [thread EXCEPT ![g] = "calling"]
        /\ UNCHANGED ended
     \/ /\ Asked(parent[g]) = "exception"
        /\ thread' = [thread EXCEPT ![g] = "failed"]
        /\ ended' = TRUE
  /\ UNCHANGED <<treeVars, result, owned, held, caller>>

\* The callback returns, SetValue completes g.
CallbackReturns(g) ==
  /\ Running
  /\ thread[g] = "calling"
  /\ thread' = [thread EXCEPT ![g] = "done"]
  /\ result' = [result EXCEPT ![g] = "value"]
  /\ UNCHANGED <<treeVars, owned, held, caller, ended>>

\* An exception of the callback leaves the thread.
CallbackThrows(g) ==
  /\ Running
  /\ thread[g] = "calling"
  /\ thread' = [thread EXCEPT ![g] = "threw"]
  /\ ended' = TRUE
  /\ UNCHANGED <<treeVars, result, owned, held, caller>>

-----------------------------------------------------------------------------
Results == {"value", "exception"}

Root(f) ==
  \/ \E r \in Results : Set(f, r) \/ Answer(f, r)
  \/ DestroyPromise(f)

Caller(f) ==
  \/ \E v \in BOOLEAN : Then(f, v)
  \/ Drop(f)
  \/ Get(f)
  \/ Return(f)

ThenThread(g) == WaitReturns(g) \/ CallbackReturns(g) \/ CallbackThrows(g)

Next ==
  \/ \E v \in BOOLEAN : NewPromise(v)
  \/ SendEncryptedPacket
  \/ \E f \in Futures : Root(f) \/ Caller(f) \/ ThenThread(f)

Safety == Init /\ [][Next]_vars

\* Threads that can run do run, callbacks come to an end.
Fairness == \A f \in Futures : WF_vars(Return(f)) /\ WF_vars(ThenThread(f))

Spec == Safety /\ Fairness

-----------------------------------------------------------------------------
(* Properties.                                                             *)

\* Types; every future that has been made hangs on an earlier one or is a root, and
\* a thread completes those that Then made.
TypeOK ==
  /\ made \in 0 .. MaxFutures
  /\ source \in [Futures -> {"none", "promise", "async", "then"}]
  /\ void \in [Futures -> BOOLEAN]
  /\ parent \in [Futures -> 0 .. MaxFutures]
  /\ root \in [Futures -> 0 .. MaxFutures]
  /\ result \in [Futures -> {"none"} \cup Results]
  /\ owned \in [Futures -> BOOLEAN]
  /\ held \in [Futures -> BOOLEAN]
  /\ thread \in [Futures -> {"none", "waiting", "calling", "done", "failed", "threw"}]
  /\ caller \in {Idle} \cup ({"dropping", "getting"} \X Futures)
  /\ ended \in BOOLEAN
  /\ \A f \in Futures :
       /\ f <= made <=> source[f] # "none"
       /\ f <= made => parent[f] < f /\ root[f] \in 1 .. f
       /\ thread[f] # "none" <=> source[f] = "then"

\* The callback whose result completes g has begun.
Called(g) == thread[g] \in {"calling", "done", "threw"}

\* A callback runs only after the root of its tree has been set, and after the
\* callback it was chained to has returned.
CallbacksInOrder ==
  \A g \in Futures : Called(g) =>
    /\ Satisfied(root[g])
    /\ parent[g] # root[g] => thread[parent[g]] = "done"

\* A failure is not mistaken for a value, except where it is that of a
\* Future<void>, which nobody asks.
FailureStopsChain ==
  \A g \in Futures :
    Called(g) /\ result[root[g]] = "exception" => void[root[g]]

\* The process ends only when a callback throws, or when the failure of a root
\* reaches a Then on it; no failure gets further than that.
EndsOnlyByException ==
  /\ ended => \E g \in Futures :
       \/ thread[g] = "threw"
       \/ /\ thread[g] = "failed" /\ parent[g] = root[g]
          /\ result[root[g]] = "exception" /\ ~void[root[g]]
  /\ \A g \in Futures : source[g] = "then" => result[g] # "exception"

\* The caller waits for a future it drops only when nothing was chained to it:
\* SendMessage(...).Then(...) does not stop the user interface.
ChainedDropReturns ==
  \A f, g \in Futures : parent[g] = f => caller # <<"dropping", f>>

\* Once a root is set, every callback in its tree runs and every caller that waits
\* for one of its futures gets away, or the process ends.
CallbacksRun ==
  \A g \in Futures :
    /\ (source[g] = "then" /\ Satisfied(root[g])) ~> (Called(g) \/ ended)
    /\ (caller[2] = g /\ Satisfied(root[g])) ~> (caller[2] # g \/ ended)

=============================================================================
