------------------------- MODULE FuturePromiseProofs -------------------------
(***************************************************************************)
(* The safety of FuturePromise for any number of futures in any trees.     *)
(***************************************************************************)
EXTENDS FuturePromise, TLAPS

(* The inductive invariant behind the safety properties.                   *)

\* Every future hangs in the tree of its root; only roots are set from outside, and
\* what Then made holds the value of its callback or nothing.
TreeInv ==
  \A f \in Futures :
    /\ f > made => parent[f] = 0 /\ result[f] = "none" /\ ~owned[f] /\ ~held[f]
    /\ f <= made =>
         /\ parent[f] = 0 <=> source[f] # "then"
         /\ root[f] = IF parent[f] = 0 THEN f ELSE root[parent[f]]
    /\ owned[f] => source[f] = "promise"
    /\ source[f] = "then" => result[f] = IF thread[f] = "done" THEN "value" ELSE "none"

\* A thread that is past its wait has found what its future held.
WaitInv ==
  \A g \in Futures :
    /\ Called(g) => \/ result[parent[g]] = "value"
                    \/ Satisfied(parent[g]) /\ void[parent[g]]
    /\ thread[g] = "failed" => ~void[parent[g]] /\ result[parent[g]] = "exception"

EndInv == ended => \E g \in Futures : thread[g] \in {"failed", "threw"}

IInv ==
  /\ TypeOK
  /\ TreeInv
  /\ WaitInv
  /\ EndInv
  /\ CallbacksInOrder
  /\ FailureStopsChain
  /\ ChainedDropReturns

-----------------------------------------------------------------------------
LEMMA InitInv == Init => IInv
<1> SUFFICES ASSUME Init PROVE IInv
  OBVIOUS
<1> USE MaxFuturesAssumption DEF Init, Futures
<1>1. TypeOK
  <2>1. \A f \in Futures : ~(f <= made) /\ source[f] = "none" /\ thread[f] = "none"
    OBVIOUS
  <2>2. caller \in {Idle} \cup ({"dropping", "getting"} \X Futures)
    OBVIOUS
  <2>3. result \in [Futures -> {"none"} \cup Results]
    BY DEF Results
  <2>4. /\ made \in 0 .. MaxFutures
        /\ source \in [Futures -> {"none", "promise", "async", "then"}]
        /\ parent \in [Futures -> 0 .. MaxFutures]
        /\ root \in [Futures -> 0 .. MaxFutures]
        /\ thread \in [Futures -> {"none", "waiting", "calling", "done", "failed", "threw"}]
    OBVIOUS
  <2>5. /\ void \in [Futures -> BOOLEAN]
        /\ owned \in [Futures -> BOOLEAN]
        /\ held \in [Futures -> BOOLEAN]
        /\ ended \in BOOLEAN
    OBVIOUS
  <2> HIDE DEF Init, Futures
  <2> QED BY <2>1, <2>2, <2>3, <2>4, <2>5 DEF TypeOK
<1>2. TreeInv BY DEF TreeInv
<1>3. WaitInv /\ EndInv BY DEF WaitInv, EndInv, Called
<1>4. CallbacksInOrder /\ FailureStopsChain BY DEF CallbacksInOrder, FailureStopsChain, Called
<1>5. ChainedDropReturns BY DEF ChainedDropReturns
<1> QED BY <1>1, <1>2, <1>3, <1>4, <1>5 DEF IInv

\* A new future leaves the earlier ones as they are.
LEMMA MakeInv ==
  ASSUME IInv, Free, NEW s \in {"promise", "async", "then"}, NEW v \in BOOLEAN,
         NEW f \in 0 .. made, Make(s, v, f), f = 0 <=> s # "then",
         owned' = [owned EXCEPT ![made + 1] = s = "promise"],
         held' = [held EXCEPT ![made + 1] = TRUE],
         thread' = [thread EXCEPT ![made + 1] = IF s = "then" THEN "waiting" ELSE "none"],
         UNCHANGED <<result, caller, ended>>
  PROVE  IInv'
<1> USE MaxFuturesAssumption DEF Futures, Make, Free, IInv
<1> DEFINE n == made + 1
<1>1. n \in Futures /\ made' = n /\ thread[n] = "none" /\ source[n] = "none"
  BY DEF TypeOK
<1>2. /\ source' \in [Futures -> {"none", "promise", "async", "then"}]
      /\ void' \in [Futures -> BOOLEAN]
      /\ parent' \in [Futures -> 0 .. MaxFutures]
      /\ root' \in [Futures -> 0 .. MaxFutures]
      /\ owned' \in [Futures -> BOOLEAN]
      /\ held' \in [Futures -> BOOLEAN]
      /\ thread' \in [Futures -> {"none", "waiting", "calling", "done", "failed", "threw"}]
  BY <1>1 DEF TypeOK
<1>3. /\ source'[n] = s /\ parent'[n] = f /\ root'[n] = IF f = 0 THEN n ELSE root[f]
      /\ thread'[n] = IF s = "then" THEN "waiting" ELSE "none"
      /\ owned'[n] = (s = "promise")
  BY <1>1 DEF TypeOK
<1>4. \A g \in Futures : g # n => /\ parent'[g] = parent[g] /\ root'[g] = root[g]
                                  /\ thread'[g] = thread[g] /\ source'[g] = source[g]
                                  /\ void'[g] = void[g] /\ owned'[g] = owned[g]
                                  /\ held'[g] = held[g]
  BY <1>1 DEF TypeOK
<1>12. TypeOK'
  <2>1. ASSUME NEW g \in Futures
        PROVE  /\ g <= made' <=> source'[g] # "none"
               /\ g <= made' => parent'[g] < g /\ root'[g] \in 1 .. g
               /\ thread'[g] # "none" <=> source'[g] = "then"
    <3>1. CASE g = n BY <3>1, <1>1, <1>3 DEF TypeOK
    <3>2. CASE g # n BY <3>2, <1>1, <1>4 DEF TypeOK
    <3> QED BY <3>1, <3>2
  <2>2. made' \in 0 .. MaxFutures BY <1>1
  <2> QED BY <1>2, <2>1, <2>2 DEF TypeOK
<1>13. TreeInv'
  <2> SUFFICES ASSUME NEW g \in Futures
        PROVE  /\ g > made' =>
                    parent'[g] = 0 /\ result[g] = "none" /\ ~owned'[g] /\ ~held'[g]
               /\ g <= made' =>
                    /\ parent'[g] = 0 <=> source'[g] # "then"
                    /\ root'[g] = IF parent'[g] = 0 THEN g ELSE root'[parent'[g]]
               /\ owned'[g] => source'[g] = "promise"
               /\ source'[g] = "then"
                    => result[g] = IF thread'[g] = "done" THEN "value" ELSE "none"
    BY DEF TreeInv
  <2>1. CASE g = n BY <2>1, <1>1, <1>3, <1>4 DEF TypeOK, TreeInv
  <2>2. CASE g # n
    <3>1. g <= made => parent[g] # n BY <1>1 DEF TypeOK
    <3>2. g > made' => g > made BY <1>1 DEF TypeOK
    <3>3. g <= made' => g <= made BY <2>2, <1>1 DEF TypeOK
    <3>4. g <= made /\ parent[g] # 0 => root'[parent[g]] = root[parent[g]]
      BY <3>1, <1>4 DEF TypeOK
    <3> QED BY <2>2, <3>2, <3>3, <3>4, <1>4 DEF TreeInv
  <2> QED BY <2>1, <2>2
<1>5. thread'[n] \in {"none", "waiting"}
  BY <1>1 DEF TypeOK
<1>6. ASSUME NEW g \in Futures, thread[g] # "none"
      PROVE  parent[g] \in Futures /\ parent[g] # n /\ root[g] \in Futures /\ root[g] # n
  <2>1. g <= made /\ source[g] = "then" BY <1>6 DEF TypeOK
  <2>2. parent[g] # 0 BY <2>1 DEF TreeInv
  <2>3. parent[g] < g /\ root[g] \in 1 .. g /\ parent[g] \in Nat BY <2>1 DEF TypeOK
  <2>4. made \in Nat /\ g \in Nat /\ g <= MaxFutures BY DEF TypeOK
  <2> HIDE DEF IInv, Make
  <2> QED BY <2>1, <2>2, <2>3, <2>4
<1>7. WaitInv'
  BY SMTT(20), <1>4, <1>5, <1>6 DEF TypeOK, WaitInv, Called, Satisfied
<1>8. EndInv'
  BY DEF EndInv, Running
<1>9. CallbacksInOrder'
  BY SMTT(20), <1>4, <1>5, <1>6 DEF TypeOK, CallbacksInOrder, Called, Satisfied
<1>10. FailureStopsChain'
  BY <1>4, <1>5, <1>6 DEF TypeOK, FailureStopsChain, Called
<1>11. ChainedDropReturns'
  BY DEF ChainedDropReturns, Idle
<1> QED BY <1>12, <1>13, <1>7, <1>8, <1>9, <1>10, <1>11

\* A root gets its value or exception.
LEMMA ResultInv ==
  ASSUME IInv, NEW f \in Futures, source[f] \in {"promise", "async"}, ~Satisfied(f),
         NEW r \in Results, result' = [result EXCEPT ![f] = r],
         owned' = owned \/ owned' = [owned EXCEPT ![f] = FALSE],
         UNCHANGED <<treeVars, held, thread, caller, ended>>
  PROVE  IInv'
<1> USE DEF IInv, treeVars
<1>1. result' \in [Futures -> {"none"} \cup Results] /\ owned' \in [Futures -> BOOLEAN]
  BY DEF TypeOK, Results
<1>2. \A g \in Futures : Satisfied(g) => result'[g] = result[g]
  BY DEF TypeOK
<1>3. TypeOK'
  BY <1>1 DEF TypeOK
<1>4. TreeInv'
  <2>1. f <= made BY DEF TypeOK, Futures
  <2>2. \A g \in Futures : g # f => result'[g] = result[g] /\ owned'[g] = owned[g]
    BY DEF TypeOK
  <2>3. owned'[f] => owned[f] BY DEF TypeOK
  <2> QED BY <2>1, <2>2, <2>3 DEF TypeOK, TreeInv, Futures
<1>5. \A g \in Futures : thread[g] # "none" => parent[g] \in Futures /\ root[g] \in Futures
  BY DEF TypeOK, TreeInv, Futures
<1>6. WaitInv'
  BY <1>2, <1>5 DEF TypeOK, WaitInv, Called, Satisfied
<1>7. EndInv'
  BY DEF EndInv
<1>8. CallbacksInOrder'
  BY <1>2, <1>5 DEF TypeOK, CallbacksInOrder, Called, Satisfied
<1>9. FailureStopsChain'
  BY <1>2, <1>5 DEF TypeOK, CallbacksInOrder, FailureStopsChain, Called, Satisfied
<1>10. ChainedDropReturns'
  BY DEF ChainedDropReturns
<1> QED BY <1>3, <1>4, <1>6, <1>7, <1>8, <1>9, <1>10

\* Only whether the Promise of a root exists changes, or what the caller holds and
\* waits for.
LEMMA CallerInv ==
  ASSUME IInv, owned' \in [Futures -> BOOLEAN], held' \in [Futures -> BOOLEAN],
         \A f \in Futures : (owned'[f] => owned[f]) /\ (held'[f] => held[f]),
         caller' \in {Idle} \cup ({"dropping", "getting"} \X Futures),
         \A f, g \in Futures : parent[g] = f => caller' # <<"dropping", f>>,
         UNCHANGED <<treeVars, result, thread, ended>>
  PROVE  IInv'
<1> USE DEF IInv, treeVars
<1>1. TypeOK'
  BY DEF TypeOK
<1>2. TreeInv'
  BY DEF TypeOK, TreeInv
<1>3. WaitInv' /\ EndInv'
  BY DEF WaitInv, EndInv, Called, Satisfied
<1>4. CallbacksInOrder' /\ FailureStopsChain'
  BY DEF CallbacksInOrder, FailureStopsChain, Called, Satisfied
<1>5. ChainedDropReturns'
  BY DEF ChainedDropReturns
<1> QED BY <1>1, <1>2, <1>3, <1>4, <1>5

\* What a thread waits for is the root of its tree or was made by Then itself.
LEMMA ParentOfThen ==
  ASSUME IInv, NEW g \in Futures, source[g] = "then"
  PROVE  /\ parent[g] \in Futures /\ root[g] \in Futures
         /\ \/ parent[g] = root[g]
            \/ source[parent[g]] = "then" /\ root[g] = root[parent[g]]
<1> USE DEF IInv, Futures
<1>1. g <= made /\ parent[g] # 0
  BY DEF TypeOK, TreeInv
<1>2. parent[g] \in Futures /\ parent[g] <= made /\ root[g] \in Futures
  BY <1>1, MaxFuturesAssumption DEF TypeOK
<1>3. root[g] = root[parent[g]]
  BY <1>1 DEF TreeInv
<1>4. CASE parent[parent[g]] = 0
  BY <1>2, <1>3, <1>4 DEF TreeInv
<1>5. CASE parent[parent[g]] # 0
  BY <1>2, <1>3, <1>5 DEF TreeInv
<1> QED BY <1>2, <1>4, <1>5

\* A thread moves from its wait to its callback, or fails, or leaves its callback by
\* an exception.
LEMMA ThreadInv ==
  ASSUME IInv, NEW g \in Futures,
         \/ thread[g] = "waiting" /\ WaitReturns(g)
         \/ CallbackThrows(g)
  PROVE  IInv'
<1> DEFINE t == thread'[g]
<1> USE DEF IInv, treeVars
<1>1. /\ source[g] = "then" /\ thread[g] \in {"waiting", "calling"}
      /\ UNCHANGED <<treeVars, result, owned, held, caller>>
  BY DEF WaitReturns, CallbackThrows, TypeOK
<1>2. /\ t \in {"calling", "failed", "threw"}
      /\ thread' = [thread EXCEPT ![g] = t]
      /\ ended' \in BOOLEAN
      /\ t = "calling" => thread[g] = "waiting" /\ Asked(parent[g]) = "value" /\ ~ended'
      /\ t = "failed" => Asked(parent[g]) = "exception"
      /\ t = "threw" => thread[g] = "calling"
      /\ t # "threw" => Satisfied(parent[g])
  <2>1. /\ thread \in [Futures -> {"none", "waiting", "calling", "done", "failed", "threw"}]
        /\ ended \in BOOLEAN
    BY DEF TypeOK
  <2> HIDE DEF IInv
  <2>2. CASE WaitReturns(g)
    <3>1. thread[g] = "waiting" /\ Satisfied(parent[g]) /\ ~ended
      BY <2>2 DEF WaitReturns, Ready, Running
    <3>2. CASE /\ Asked(parent[g]) = "value"
               /\ thread' = [thread EXCEPT ![g] = "calling"]
               /\ UNCHANGED ended
      BY <2>1, <3>1, <3>2
    <3>3. CASE /\ Asked(parent[g]) = "exception"
               /\ thread' = [thread EXCEPT ![g] = "failed"]
               /\ ended' = TRUE
      BY <2>1, <3>1, <3>3
    <3> QED BY <2>2, <3>2, <3>3 DEF WaitReturns
  <2>3. CASE CallbackThrows(g)
    BY <2>1, <2>3 DEF CallbackThrows
  <2> QED BY <2>2, <2>3
<1>3. /\ thread' \in [Futures -> {"none", "waiting", "calling", "done", "failed", "threw"}]
      /\ \A h \in Futures : h # g => thread'[h] = thread[h]
      /\ \A h \in Futures : thread'[h] = "done" <=> thread[h] = "done"
  BY <1>1, <1>2 DEF TypeOK
<1> HIDE DEF t
<1>4. t = thread'[g]
  BY DEF t
<1>5. TypeOK'
  BY <1>1, <1>2, <1>3, <1>4 DEF TypeOK
<1>6. TreeInv'
  BY <1>1, <1>3 DEF TypeOK, TreeInv
<1>7. /\ parent[g] \in Futures /\ root[g] \in Futures
      /\ \/ parent[g] = root[g]
         \/ source[parent[g]] = "then" /\ root[g] = root[parent[g]]
  BY <1>1, ParentOfThen
<1>8. WaitInv'
  <2>1. /\ Called(g)' => \/ result[parent[g]] = "value"
                         \/ Satisfied(parent[g]) /\ void[parent[g]]
        /\ t = "failed" => ~void[parent[g]] /\ result[parent[g]] = "exception"
    BY <1>2, <1>4 DEF Called, WaitInv, Asked
  <2> QED BY <2>1, <1>1, <1>3, <1>4 DEF WaitInv, Called, Satisfied
<1>9. EndInv'
  <2>1. CASE t \in {"failed", "threw"} BY <2>1, <1>4 DEF EndInv
  <2>2. CASE t = "calling" BY <2>2, <1>2 DEF EndInv
  <2> QED BY <2>1, <2>2, <1>2
<1>10. ASSUME source[parent[g]] = "then", Satisfied(parent[g])
       PROVE  Called(parent[g]) /\ thread[parent[g]] = "done"
  BY <1>7, <1>10 DEF TreeInv, Satisfied, Called
<1>11. CallbacksInOrder'
  <2>1. Called(g)' => /\ Satisfied(root[g])
                      /\ parent[g] # root[g] => thread[parent[g]] = "done"
    <3>1. CASE t = "threw"
      BY <3>1, <1>2 DEF CallbacksInOrder, Called
    <3>2. CASE t = "calling"
      BY <3>2, <1>2, <1>7, <1>10 DEF CallbacksInOrder
    <3> QED BY <3>1, <3>2, <1>2, <1>4 DEF Called
  <2>2. \A h \in Futures : thread[h] # "none" => parent[h] \in Futures
    BY ParentOfThen DEF TypeOK
  <2>3. parent[g] \in Futures
    BY <1>7
  <2> QED BY <2>1, <2>2, <2>3, <1>1, <1>3 DEF CallbacksInOrder, Called, Satisfied
<1>12. FailureStopsChain'
  <2>1. Called(g)' /\ result[root[g]] = "exception" => void[root[g]]
    <3>1. CASE t = "threw"
      BY <3>1, <1>2 DEF FailureStopsChain, Called
    <3>2. CASE t = "calling" /\ parent[g] = root[g]
      BY <3>2, <1>2 DEF Asked
    <3>3. CASE t = "calling" /\ parent[g] # root[g]
      BY <3>3, <1>2, <1>7, <1>10 DEF FailureStopsChain
    <3> QED BY <3>1, <3>2, <3>3, <1>2, <1>4 DEF Called
  <2> QED BY <2>1, <1>1, <1>3 DEF FailureStopsChain, Called
<1>13. ChainedDropReturns'
  BY <1>1 DEF ChainedDropReturns
<1> QED BY <1>5, <1>6, <1>8, <1>9, <1>11, <1>12, <1>13

LEMMA CallbackReturnsInv ==
  ASSUME IInv, NEW g \in Futures, CallbackReturns(g)
  PROVE  IInv'
<1> USE DEF IInv, treeVars
<1>1. /\ source[g] = "then" /\ thread[g] = "calling" /\ result[g] = "none"
      /\ thread' = [thread EXCEPT ![g] = "done"]
      /\ result' = [result EXCEPT ![g] = "value"]
      /\ ~ended /\ UNCHANGED <<treeVars, owned, held, caller, ended>>
  BY DEF CallbackReturns, Running, TypeOK, TreeInv
<1>2. /\ thread' \in [Futures -> {"none", "waiting", "calling", "done", "failed", "threw"}]
      /\ result' \in [Futures -> {"none"} \cup Results]
      /\ thread'[g] = "done" /\ result'[g] = "value"
      /\ \A h \in Futures : h # g => thread'[h] = thread[h] /\ result'[h] = result[h]
  BY <1>1 DEF TypeOK, Results
<1>3. TypeOK'
  BY <1>1, <1>2 DEF TypeOK
<1>4. TreeInv'
  <2>1. g <= made BY <1>1 DEF TypeOK
  <2> QED BY <2>1, <1>1, <1>2 DEF TypeOK, TreeInv, Futures
<1>5. \A h \in Futures : thread[h] # "none" => parent[h] \in Futures /\ root[h] \in Futures
  BY ParentOfThen DEF TypeOK
<1>6. \A h \in Futures : Satisfied(h) => Satisfied(h)' /\ result'[h] = result[h]
  BY <1>1, <1>2 DEF Satisfied
<1>7. \A h \in Futures : (Called(h)' <=> Called(h)) /\ (thread[h] = "done" => thread'[h] = "done")
  BY <1>1, <1>2 DEF Called
<1>8. WaitInv'
  <2> SUFFICES ASSUME NEW h \in Futures
        PROVE  /\ Called(h)' => \/ result'[parent[h]] = "value"
                                \/ result'[parent[h]] # "none" /\ void[parent[h]]
               /\ thread'[h] = "failed" => ~void[parent[h]] /\ result'[parent[h]] = "exception"
    BY <1>1 DEF WaitInv, Satisfied
  <2>1. Called(h)' \/ thread'[h] = "failed" => Satisfied(parent[h]) /\ parent[h] \in Futures
    BY <1>1, <1>2, <1>5, <1>7 DEF WaitInv, Satisfied, Called
  <2> QED BY <2>1, <1>1, <1>2, <1>6, <1>7 DEF WaitInv, Satisfied
<1>9. EndInv'
  BY <1>1 DEF EndInv
<1>10. CallbacksInOrder'
  <2> SUFFICES ASSUME NEW h \in Futures, Called(h)
        PROVE  Satisfied(root[h])' /\ (parent[h] # root[h] => thread'[parent[h]] = "done")
    BY <1>1, <1>7 DEF CallbacksInOrder, Satisfied
  <2>1. parent[h] \in Futures /\ root[h] \in Futures
    BY <1>5 DEF Called
  <2> QED BY <2>1, <1>1, <1>6, <1>7 DEF CallbacksInOrder, Satisfied
<1>11. FailureStopsChain'
  <2> SUFFICES ASSUME NEW h \in Futures, Called(h), result'[root[h]] = "exception"
        PROVE  void[root[h]]
    BY <1>1, <1>7 DEF FailureStopsChain
  <2>1. root[h] \in Futures
    BY <1>5 DEF Called
  <2>2. result[root[h]] = "exception"
    BY <2>1, <1>2
  <2> QED BY <2>2 DEF FailureStopsChain
<1>12. ChainedDropReturns'
  BY <1>1 DEF ChainedDropReturns
<1> QED BY <1>3, <1>4, <1>8, <1>9, <1>10, <1>11, <1>12

\* The caller makes a root or chains to a future it holds.
LEMMA NewFutureInv ==
  ASSUME IInv, \/ \E v \in BOOLEAN : NewPromise(v)
               \/ SendEncryptedPacket
               \/ \E f \in Futures, v \in BOOLEAN : Then(f, v)
  PROVE  IInv'
<1> DEFINE n == made + 1
<1> USE DEF IInv
<1>1. made < MaxFutures =>
        /\ n \in Futures /\ ~owned[n] /\ thread[n] = "none"
        /\ owned = [owned EXCEPT ![n] = FALSE]
        /\ thread = [thread EXCEPT ![n] = "none"]
  <2>1. made \in Nat /\ owned \in [Futures -> BOOLEAN]
    BY MaxFuturesAssumption DEF TypeOK
  <2>2. SUFFICES ASSUME made < MaxFutures
        PROVE  /\ n \in Futures /\ ~owned[n] /\ thread[n] = "none"
               /\ owned = [owned EXCEPT ![n] = FALSE]
               /\ thread = [thread EXCEPT ![n] = "none"]
    OBVIOUS
  <2>3. n \in Futures /\ n > made
    BY <2>1, <2>2, MaxFuturesAssumption DEF Futures
  <2>4. ~owned[n] /\ thread[n] = "none"
    BY <2>1, <2>3 DEF TypeOK, TreeInv
  <2> QED BY <2>1, <2>3, <2>4 DEF TypeOK
<1>2. 0 \in 0 .. made /\ \A f \in Futures : held[f] => f \in 1 .. made
  BY MaxFuturesAssumption DEF TypeOK, TreeInv, Futures
<1>3. ASSUME NEW v \in BOOLEAN, NewPromise(v) PROVE IInv'
  <2>1. made < MaxFutures
    BY <1>3 DEF NewPromise, Make
  <2>2. owned' = [owned EXCEPT ![made + 1] = "promise" = "promise"]
    BY <1>3 DEF NewPromise
  <2>3. thread' = [thread EXCEPT ![made + 1] =
                     IF "promise" = "then" THEN "waiting" ELSE "none"]
    BY <1>1, <1>3, <2>1 DEF NewPromise
  <2> QED BY <1>2, <1>3, <2>2, <2>3, MakeInv DEF NewPromise
<1>4. CASE SendEncryptedPacket
  <2>1. made < MaxFutures
    BY <1>4 DEF SendEncryptedPacket, Make
  <2>2. owned' = [owned EXCEPT ![made + 1] = "async" = "promise"]
    BY <1>1, <1>4, <2>1 DEF SendEncryptedPacket
  <2>3. thread' = [thread EXCEPT ![made + 1] =
                     IF "async" = "then" THEN "waiting" ELSE "none"]
    BY <1>1, <1>4, <2>1 DEF SendEncryptedPacket
  <2> QED BY <1>2, <1>4, <2>2, <2>3, MakeInv DEF SendEncryptedPacket
<1>5. ASSUME NEW f \in Futures, NEW v \in BOOLEAN, Then(f, v) PROVE IInv'
  <2>1. made < MaxFutures
    BY <1>5 DEF Then, Make
  <2>2. owned' = [owned EXCEPT ![made + 1] = "then" = "promise"]
    BY <1>1, <1>5, <2>1 DEF Then
  <2>3. thread' = [thread EXCEPT ![made + 1] =
                     IF "then" = "then" THEN "waiting" ELSE "none"]
    BY <1>5 DEF Then
  <2>4. f \in 0 .. made /\ f # 0
    BY <1>2, <1>5, MaxFuturesAssumption DEF Then, Valid, TypeOK, Futures
  <2> QED BY <1>5, <2>2, <2>3, <2>4, MakeInv DEF Then
<1> QED BY <1>3, <1>4, <1>5

LEMMA RootInv ==
  ASSUME IInv, NEW f \in Futures, Root(f)
  PROVE  IInv'
<1> USE DEF IInv, Results
<1>1. ASSUME NEW r \in Results, Set(f, r) PROVE IInv'
  <2>1. source[f] = "promise" BY <1>1 DEF Set, TreeInv
  <2> QED BY <1>1, <2>1, ResultInv DEF Set
<1>2. ASSUME NEW r \in Results, Answer(f, r) PROVE IInv'
  BY <1>2, ResultInv DEF Answer
<1>3. CASE DestroyPromise(f) /\ Satisfied(f)
  <2>1. result' = result /\ owned' \in [Futures -> BOOLEAN]
    BY <1>3 DEF DestroyPromise, TypeOK
  <2>2. /\ caller' \in {Idle} \cup ({"dropping", "getting"} \X Futures)
        /\ held' \in [Futures -> BOOLEAN]
    BY <1>3 DEF DestroyPromise, TypeOK
  <2>3. \A g \in Futures : (owned'[g] => owned[g]) /\ (held'[g] => held[g])
    BY <1>3 DEF DestroyPromise, TypeOK
  <2>4. \A g, h \in Futures : parent[h] = g => caller' # <<"dropping", g>>
    BY <1>3 DEF DestroyPromise, ChainedDropReturns
  <2>5. UNCHANGED <<treeVars, result, thread, ended>>
    BY <1>3, <2>1 DEF DestroyPromise
  <2> HIDE DEF IInv
  <2> QED BY <2>1, <2>2, <2>3, <2>4, <2>5, CallerInv
<1>4. CASE DestroyPromise(f) /\ ~Satisfied(f)
  <2>1. source[f] = "promise" BY <1>4 DEF DestroyPromise, TreeInv
  <2> QED BY <1>4, <2>1, ResultInv DEF DestroyPromise
<1> QED BY <1>1, <1>2, <1>3, <1>4 DEF Root

LEMMA DropGetReturnInv ==
  ASSUME IInv, NEW f \in Futures, Drop(f) \/ Get(f) \/ Return(f)
  PROVE  IInv'
<1> USE DEF IInv
<1>1. /\ owned' \in [Futures -> BOOLEAN] /\ held' \in [Futures -> BOOLEAN]
      /\ \A g \in Futures : (owned'[g] => owned[g]) /\ (held'[g] => held[g])
      /\ UNCHANGED <<treeVars, result, thread, ended>>
  BY DEF Drop, Get, Return, TypeOK
<1>2. /\ caller' \in {Idle, <<"dropping", f>>, <<"getting", f>>}
      /\ caller' = <<"dropping", f>> => Waits(f)
  BY DEF Drop, Get, Return, Idle
<1>3. caller' \in {Idle} \cup ({"dropping", "getting"} \X Futures)
  BY <1>2
<1>4. Waits(f) => \A g \in Futures : parent[g] # f
  <2> SUFFICES ASSUME Waits(f), NEW g \in Futures, parent[g] = f PROVE FALSE
    OBVIOUS
  <2>1. source[g] = "then"
    BY DEF TreeInv, TypeOK, Futures
  <2>2. thread[g] \in {"done", "failed", "threw"}
    BY <2>1 DEF Waits, Referenced, TypeOK
  <2>3. Satisfied(f)
    BY <2>2 DEF WaitInv, Called, Satisfied
  <2> QED BY <2>3 DEF Waits
<1>5. \A g, h \in Futures : parent[h] = g => caller' # <<"dropping", g>>
  BY <1>2, <1>4 DEF Idle
<1> HIDE DEF IInv
<1> QED BY <1>1, <1>3, <1>5, CallerInv

LEMMA NextInv == IInv /\ [Next]_vars => IInv'
<1> SUFFICES ASSUME IInv, [Next]_vars PROVE IInv'
  OBVIOUS
<1>1. CASE \/ \E v \in BOOLEAN : NewPromise(v)
           \/ SendEncryptedPacket
           \/ \E f \in Futures, v \in BOOLEAN : Then(f, v)
  BY <1>1, NewFutureInv
<1>2. ASSUME NEW f \in Futures, Root(f) PROVE IInv'
  BY <1>2, RootInv
<1>3. ASSUME NEW f \in Futures, Drop(f) \/ Get(f) \/ Return(f) PROVE IInv'
  BY <1>3, DropGetReturnInv
<1>4. ASSUME NEW g \in Futures, ThenThread(g) PROVE IInv'
  <2>1. CASE WaitReturns(g) BY <2>1, ThreadInv DEF WaitReturns
  <2>2. CASE CallbackThrows(g) BY <2>2, ThreadInv
  <2>3. CASE CallbackReturns(g) BY <2>3, CallbackReturnsInv
  <2> QED BY <1>4, <2>1, <2>2, <2>3 DEF ThenThread
<1>5. CASE UNCHANGED vars
  BY <1>5 DEF vars, treeVars, IInv, TypeOK, TreeInv, WaitInv, EndInv, CallbacksInOrder,
     FailureStopsChain, ChainedDropReturns, Called, Satisfied
<1> QED BY <1>1, <1>2, <1>3, <1>4, <1>5 DEF Next, Caller

-----------------------------------------------------------------------------
\* In every reachable state the threads of Then stand where the results of their
\* trees say, for any number of futures.
THEOREM InductiveInvariant == Safety => []IInv
BY InitInv, NextInv, PTL DEF Safety

\* Types of Future, Promise and Then; only the futures that Then returned have a
\* thread that completes them.
THEOREM TypeCorrect == Safety => []TypeOK
<1>1. IInv => TypeOK BY DEF IInv
<1> QED BY <1>1, InductiveInvariant, PTL

\* No callback of Then runs before the root of its tree is set and the callback it
\* was chained to has returned.
THEOREM CallbacksOrdered == Safety => []CallbacksInOrder
<1>1. IInv => CallbacksInOrder BY DEF IInv
<1> QED BY <1>1, InductiveInvariant, PTL

\* No callback of Then runs on a failure, except on that of a Future<void>.
THEOREM FailuresStop == Safety => []FailureStopsChain
<1>1. IInv => FailureStopsChain BY DEF IInv
<1> QED BY <1>1, InductiveInvariant, PTL

\* Dropping a future to which something was chained does not wait.
THEOREM ChainedDropsReturn == Safety => []ChainedDropReturns
<1>1. IInv => ChainedDropReturns BY DEF IInv
<1> QED BY <1>1, InductiveInvariant, PTL

\* What ends the process is a callback that throws, or the failure of a root with a
\* value that a Then of that root waits for.
THEOREM EndsExplained == Safety => []EndsOnlyByException
<1>1. IInv => EndsOnlyByException
  <2> SUFFICES ASSUME IInv PROVE EndsOnlyByException
    OBVIOUS
  <2> USE DEF IInv
  <2>1. \A g \in Futures : source[g] = "then" => result[g] # "exception"
    BY DEF TreeInv
  <2>2. ASSUME NEW g \in Futures, thread[g] = "failed"
        PROVE  /\ parent[g] = root[g]
               /\ result[root[g]] = "exception" /\ ~void[root[g]]
    <3>1. source[g] = "then" BY <2>2 DEF TypeOK
    <3>2. /\ parent[g] \in Futures
          /\ parent[g] = root[g] \/ source[parent[g]] = "then"
      BY <3>1, ParentOfThen
    <3>3. ~void[parent[g]] /\ result[parent[g]] = "exception"
      BY <2>2 DEF WaitInv
    <3> QED BY <3>2, <3>3, <2>1
  <2> QED BY <2>1, <2>2 DEF EndsOnlyByException, EndInv
<1> QED BY <1>1, InductiveInvariant, PTL

=============================================================================
