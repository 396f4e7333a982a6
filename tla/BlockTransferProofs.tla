------------------------ MODULE BlockTransferProofs ------------------------
(***************************************************************************)
(* Safety of one file transfer for every number of workers, every file and *)
(* block size and any number of handshakes: the inductive invariant IInv,  *)
(* the invariants it implies, and that the transfer implements the safety  *)
(* part of FileCopy.                                                       *)
(***************************************************************************)
EXTENDS BlockTransfer, BlockArithmeticProofs, FiniteSetTheorems

(* The inductive invariant behind the safety properties.                   *)

\* Nobody but the worker that holds mtx is inside the read section.
MutexInv == \A w \in Workers : mtx = w <=> pc[w] = "reading"

\* Nothing happens before the receiver's accept is answered.
AcceptInv ==
  /\ outFile = "unopened" <=> acceptCall = "none"
  /\ \A w \in Workers : pc[w] # "off" => acceptCall = "answered"

\* A worker's call belongs to the block it has in hand: it is on its way only while
\* the worker tests for the end or waits, and the worker moves on only from a block
\* that was stored.
CallInv ==
  \A w \in Workers :
    /\ Travels(w) => pc[w] \in {"check", "finish", "report", "await"}
    /\ pc[w] \in {"check", "finish", "report", "await"} => call[w] # "none"
    /\ pc[w] \in {"off", "pop"} => call[w] = "none"

\* It takes a handshake to switch clients or to cut a call off.
RekeyInv ==
  /\ switching => sendKey > 0
  /\ \A w \in Workers : Unanswered(w) => sendKey > 0 \/ recvKey > 0

\* The input file is closed only after the queue ran empty, and a read that
\* began while it was open yielded the block.
InputInv ==
  /\ ~inFileOpen => nextUnsent = NumBlocks
  /\ \A w \in Workers :
       /\ pc[w] \in {"finish", "report"} => nextUnsent = NumBlocks
       /\ /\ pc[w] \in {"reading", "encrypt", "send"} \/ Travels(w)
          /\ inFileOpen
          => buf[w] = "full"

\* The flag, the report and the close of the receiver go together.
OutputInv ==
  /\ recvOnce => recvReports = 0
  /\ outFile = "closed" => receivedBlocks = Blocks

IInv ==
  /\ TypeOK
  /\ MutexInv
  /\ AcceptInv
  /\ CallInv
  /\ RekeyInv
  /\ BlockOwnership
  /\ InputInv
  /\ NoLossWhileOpen
  /\ LossConfined
  /\ OutputInv
  /\ ReceiverReportsComplete

-----------------------------------------------------------------------------
\* A file that is not empty has at least one block.
LEMMA SomeBlocks == NumBlocks \in Nat \ {0}
<1>1. NumBlocks \in Nat /\ FileSize <= NumBlocks * BlockSize
  BY SizesAssumption, NumBlocksRoundsUp DEF NumBlocks
<1>2. NumBlocks # 0
  <2>1. SUFFICES ASSUME NumBlocks = 0 PROVE FALSE
    OBVIOUS
  <2>2. NumBlocks * BlockSize = 0
    BY <2>1, SizesAssumption
  <2> QED BY <1>1, <2>2, SizesAssumption
<1> QED BY <1>1, <1>2

\* The sender's test of isDone holds exactly when the queue is empty.
LEMMA SendDoneIffQueueEmpty ==
  ASSUME nextUnsent \in 0 .. NumBlocks
  PROVE  SendDone <=> nextUnsent = NumBlocks
BY DoneIffAllBlocks, SizesAssumption DEF SendDone, NumBlocks

\* The receiver's test of isDone holds exactly when every block is stored.
LEMMA RecvDoneIffAllStored ==
  ASSUME NEW S \in SUBSET Blocks
  PROVE  RecvDone(S) <=> S = Blocks
<1>1. IsFiniteSet(Blocks) /\ Cardinality(Blocks) = NumBlocks
  BY SomeBlocks, FS_Interval DEF Blocks
<1>2. /\ Cardinality(S) \in Nat
      /\ Cardinality(S) <= NumBlocks
      /\ Cardinality(S) = NumBlocks => S = Blocks
  BY <1>1, FS_Subset, FS_CardinalityType
<1>3. Cardinality(S) \in 0 .. NumBlocks
  BY <1>2, SomeBlocks
<1>4. RecvDone(S) <=> Cardinality(S) = NumBlocks
  BY <1>3, DoneIffAllBlocks, SizesAssumption DEF RecvDone, NumBlocks
<1> QED BY <1>1, <1>2, <1>4

-----------------------------------------------------------------------------
(* The inductive invariant.                                                *)

LEMMA InitIInv == Init => IInv
<1> SUFFICES ASSUME Init PROVE IInv
  OBVIOUS
<1> USE SomeBlocks, WorkersAssumption, RekeyAssumption DEF Init
<1>1. TypeOK
  <2>1. /\ inFileOpen \in BOOLEAN /\ sendOnce \in BOOLEAN /\ recvOnce \in BOOLEAN
        /\ switching \in BOOLEAN /\ sendUp \in BOOLEAN /\ recvUp \in BOOLEAN
    BY Zenon
  <2> QED BY <2>1 DEF TypeOK, Labels, Calls, NoBlock, Blocks
<1>2. MutexInv /\ AcceptInv /\ CallInv /\ RekeyInv /\ InputInv /\ OutputInv
  BY DEF MutexInv, AcceptInv, CallInv, RekeyInv, Travels, Unanswered, InputInv, OutputInv
<1>3. BlockOwnership
  BY DEF BlockOwnership, InHand, Blocks
<1>4. NoLossWhileOpen /\ LossConfined /\ ReceiverReportsComplete
  BY DEF NoLossWhileOpen, LossConfined, ReceiverReportsComplete
<1> QED BY <1>1, <1>2, <1>3, <1>4 DEF IInv

LEMMA StutterIInv == IInv /\ UNCHANGED vars => IInv'
BY DEF IInv, vars, sendVars, workerVars, recvVars, linkVars, upVars, TypeOK, MutexInv,
       AcceptInv, CallInv, RekeyInv, Travels, Unanswered, BlockOwnership, InHand, InputInv,
       NoLossWhileOpen, LossConfined,
       OutputInv, ReceiverReportsComplete

LEMMA AcceptIInv == IInv /\ AcceptTransfer => IInv'
<1> SUFFICES ASSUME IInv, AcceptTransfer PROVE IInv'
  OBVIOUS
<1> USE DEF IInv, AcceptTransfer, sendVars, workerVars, linkVars, upVars
<1>1. TypeOK'
  BY FlagAssumption DEF TypeOK
<1>2. MutexInv' /\ AcceptInv' /\ CallInv' /\ RekeyInv' /\ InputInv' /\ OutputInv'
  BY DEF MutexInv, AcceptInv, CallInv, RekeyInv, Travels, Unanswered, InputInv, OutputInv
<1>3. BlockOwnership'
  BY DEF BlockOwnership, InHand
<1>4. NoLossWhileOpen' /\ LossConfined' /\ ReceiverReportsComplete'
  BY DEF NoLossWhileOpen, LossConfined, ReceiverReportsComplete, AcceptInv
<1> QED BY <1>1, <1>2, <1>3, <1>4

LEMMA AckIInv == IInv /\ AckAccept => IInv'
<1> SUFFICES ASSUME IInv, AckAccept PROVE IInv'
  OBVIOUS
<1> USE DEF IInv, AckAccept, sendVars, linkVars, upVars
<1>1. TypeOK'
  BY DEF TypeOK, Labels, Calls
<1>2. MutexInv' /\ AcceptInv' /\ CallInv' /\ RekeyInv' /\ InputInv' /\ OutputInv'
  BY DEF MutexInv, AcceptInv, CallInv, RekeyInv, Travels, Unanswered, InputInv,
       OutputInv, TypeOK
<1>3. BlockOwnership'
  BY DEF BlockOwnership, InHand, AcceptInv, TypeOK
<1>4. NoLossWhileOpen' /\ LossConfined' /\ ReceiverReportsComplete'
  BY DEF NoLossWhileOpen, LossConfined, ReceiverReportsComplete
<1> QED BY <1>1, <1>2, <1>3, <1>4

LEMMA PopIInv == ASSUME NEW w \in Workers PROVE IInv /\ PopBlock(w) => IInv'
<1> SUFFICES ASSUME IInv, PopBlock(w) PROVE IInv'
  OBVIOUS
<1> USE SomeBlocks DEF IInv, PopBlock, Goto, HasUnsent, PopFront, recvVars, linkVars, upVars
<1>1. TypeOK'
  BY DEF TypeOK, Labels, Calls
<1>2. MutexInv' /\ AcceptInv' /\ CallInv' /\ RekeyInv' /\ InputInv' /\ OutputInv'
  BY DEF MutexInv, AcceptInv, CallInv, RekeyInv, Travels, Unanswered, InputInv,
       OutputInv, TypeOK
<1>3. BlockOwnership'
  BY DEF BlockOwnership, InHand, TypeOK, Blocks
<1>4. NoLossWhileOpen' /\ LossConfined' /\ ReceiverReportsComplete'
  BY DEF NoLossWhileOpen, LossConfined, ReceiverReportsComplete, TypeOK
<1> QED BY <1>1, <1>2, <1>3, <1>4

LEMMA ReceiveIInv == ASSUME NEW w \in Workers PROVE IInv /\ ReceiveBlock(w) => IInv'
<1> SUFFICES ASSUME IInv, ReceiveBlock(w) PROVE IInv'
  OBVIOUS
<1> USE SomeBlocks DEF IInv, ReceiveBlock, Travels, IntactAfter, sendVars, linkVars
<1>0. InHand(w) /\ blk[w] \in Blocks \ receivedBlocks
  BY DEF CallInv, InHand, TypeOK, BlockOwnership, Blocks
<1>a. /\ recvOnce' \in BOOLEAN /\ recvUp' \in BOOLEAN
      /\ UNCHANGED <<acceptCall, pc, sendVars, blk, buf, callKey, linkVars, sendUp>>
  <2>1. recvOnce' \in BOOLEAN
    BY Zenon DEF TypeOK
  <2>2. recvUp' \in BOOLEAN
    BY Zenon DEF TypeOK
  <2> QED BY <2>1, <2>2
<1>b. /\ call' \in [Workers -> Calls]
      /\ \A v \in Workers : v # w => call'[v] = call[v]
      /\ call'[w] \in {"ok", "cut"}
      /\ call'[w] = "cut" => sendKey > 0 \/ recvKey > 0
  <2>1. CASE call[w] = "orphaned"
    BY <2>1 DEF TypeOK, Calls, RekeyInv, Unanswered
  <2>2. CASE call[w] = "travelling" /\ ~recvUp'
    <3>1. recvKey > 0
      BY <2>2 DEF ReceiverHasNewChat
    <3> QED BY <2>2, <3>1 DEF TypeOK, Calls
  <2>3. CASE call[w] = "travelling" /\ recvUp'
    BY <2>3 DEF TypeOK, Calls
  <2> QED BY <2>1, <2>2, <2>3
<1>c. /\ outFile' \in {"unopened", "open", "failed", "closed"}
      /\ outFile' = "unopened" <=> outFile = "unopened"
      /\ recvReports' \in Nat
  <2>1. CASE UNCHANGED <<outFile, recvReports>>
    BY <2>1 DEF TypeOK
  <2>2. CASE /\ outFile' = IF outFile = "open" THEN "closed" ELSE outFile
             /\ recvReports' = recvReports + 1
    BY <2>2 DEF TypeOK
  <2>3. \/ UNCHANGED <<outFile, recvReports>>
        \/ /\ outFile' = IF outFile = "open" THEN "closed" ELSE outFile
           /\ recvReports' = recvReports + 1
    BY Zenon
  <2> QED BY <2>1, <2>2, <2>3
<1>1. TypeOK'
  <2> HIDE DEF ReceiveBlock
  <2>1. receivedBlocks' \subseteq Blocks /\ intact' \subseteq Blocks
    BY <1>0 DEF ReceiveBlock, TypeOK
  <2> QED BY <1>a, <1>b, <1>c, <2>1 DEF TypeOK
<1>2. MutexInv' /\ AcceptInv' /\ CallInv' /\ RekeyInv' /\ InputInv'
  <2> HIDE DEF ReceiveBlock
  <2> QED BY <1>0, <1>a, <1>b, <1>c DEF MutexInv, AcceptInv, CallInv, RekeyInv, Travels,
       Unanswered, InputInv, InHand
<1>3. BlockOwnership'
  <2>1. \A v \in Workers : InHand(v)' <=> InHand(v) /\ v # w
    BY DEF InHand, CallInv, TypeOK
  <2>2. /\ UNCHANGED <<blk, nextUnsent>>
        /\ receivedBlocks' = receivedBlocks \cup {blk[w]}
    OBVIOUS
  <2> HIDE DEF ReceiveBlock
  <2>3. \A b \in receivedBlocks' : b < nextUnsent'
    BY <1>0, <2>2 DEF BlockOwnership
  <2>4. ASSUME NEW v \in Workers, InHand(v)'
        PROVE  /\ blk'[v] < nextUnsent'
               /\ blk'[v] \notin receivedBlocks'
               /\ \A u \in Workers : InHand(u)' /\ blk'[u] = blk'[v] => u = v
    BY <1>0, <2>1, <2>2, <2>4 DEF BlockOwnership
  <2>5. ASSUME NEW b \in Blocks
        PROVE  \/ b >= nextUnsent'
               \/ b \in receivedBlocks'
               \/ \E v \in Workers : InHand(v)' /\ blk'[v] = b
    BY <2>1, <2>2 DEF BlockOwnership
  <2> QED BY <2>3, <2>4, <2>5 DEF BlockOwnership
<1>4. outFile # "closed" /\ recvReports \in Nat
  BY <1>0 DEF OutputInv, TypeOK
<1>5. recvOnce # recvOnce' => recvOnce /\ receivedBlocks' = Blocks
  <2>1. CASE UNCHANGED recvOnce
    BY <2>1
  <2>2. CASE recvOnce' = (recvOnce /\ ~RecvDone(receivedBlocks'))
    <3>1. receivedBlocks' \in SUBSET Blocks
      BY <1>0 DEF TypeOK
    <3>2. RecvDone(receivedBlocks') <=> receivedBlocks' = Blocks
      BY <3>1, RecvDoneIffAllStored
    <3>3. recvOnce \in BOOLEAN
      BY DEF TypeOK
    <3> HIDE DEF ReceiveBlock
    <3> QED BY <2>2, <3>2, <3>3, Zenon
  <2> QED BY <2>1, <2>2
<1>6. OutputInv' /\ ReceiverReportsComplete'
  <2>1. CASE recvOnce # recvOnce'
    <3>1. recvOnce /\ ~recvOnce' /\ receivedBlocks' = Blocks
      BY <1>5, <2>1 DEF TypeOK
    <3>2. recvReports' = recvReports + 1
      BY <2>1
    <3>3. recvReports = 0
      BY <3>1 DEF OutputInv
    <3> HIDE DEF ReceiveBlock
    <3> QED BY <3>1, <3>2, <3>3 DEF OutputInv, ReceiverReportsComplete
  <2>2. CASE recvOnce = recvOnce'
    <3>1. UNCHANGED <<outFile, recvReports>>
      BY <2>2
    <3>2. receivedBlocks = Blocks => receivedBlocks' = Blocks
      BY <1>0
    <3> QED BY <2>2, <3>1, <3>2 DEF OutputInv, ReceiverReportsComplete
  <2> QED BY <2>1, <2>2
<1>7. NoLossWhileOpen' /\ LossConfined'
  BY <1>4 DEF NoLossWhileOpen, LossConfined, TypeOK, InputInv, AcceptInv, CallInv
<1> QED BY <1>1, <1>2, <1>3, <1>6, <1>7

LEMMA BeginReadIInv == ASSUME NEW w \in Workers PROVE IInv /\ BeginRead(w) => IInv'
<1> SUFFICES ASSUME IInv, BeginRead(w) PROVE IInv'
  OBVIOUS
<1> USE DEF IInv, BeginRead, Goto, recvVars, linkVars, upVars
<1>1. TypeOK'
  BY RekeyAssumption DEF TypeOK, Labels, Calls
<1>2. MutexInv' /\ AcceptInv' /\ CallInv' /\ RekeyInv' /\ InputInv' /\ OutputInv'
  BY WorkersAssumption DEF MutexInv, AcceptInv, CallInv, RekeyInv, Travels,
       Unanswered, InputInv, OutputInv, TypeOK
<1>3. BlockOwnership'
  BY DEF BlockOwnership, InHand, TypeOK
<1>4. NoLossWhileOpen' /\ LossConfined' /\ ReceiverReportsComplete'
  BY DEF NoLossWhileOpen, LossConfined, ReceiverReportsComplete
<1> QED BY <1>1, <1>2, <1>3, <1>4

LEMMA EndReadIInv == ASSUME NEW w \in Workers PROVE IInv /\ EndRead(w) => IInv'
<1> SUFFICES ASSUME IInv, EndRead(w) PROVE IInv'
  OBVIOUS
<1> USE DEF IInv, EndRead, Goto, recvVars, linkVars, upVars
<1>1. TypeOK'
  BY DEF TypeOK, Labels, Calls
<1>2. MutexInv' /\ AcceptInv' /\ CallInv' /\ RekeyInv' /\ InputInv' /\ OutputInv'
  BY WorkersAssumption DEF MutexInv, AcceptInv, CallInv, RekeyInv, Travels,
       Unanswered, InputInv, OutputInv, TypeOK
<1>3. BlockOwnership'
  BY DEF BlockOwnership, InHand, TypeOK
<1>4. NoLossWhileOpen' /\ LossConfined' /\ ReceiverReportsComplete'
  BY DEF NoLossWhileOpen, LossConfined, ReceiverReportsComplete
<1> QED BY <1>1, <1>2, <1>3, <1>4

LEMMA EncryptIInv == ASSUME NEW w \in Workers PROVE IInv /\ Encrypt(w) => IInv'
<1> SUFFICES ASSUME IInv, Encrypt(w) PROVE IInv'
  OBVIOUS
<1> USE DEF IInv, Encrypt, Goto, sendVars, recvVars, linkVars, upVars
<1>1. TypeOK'
  BY DEF TypeOK, Labels, Calls
<1>2. MutexInv' /\ AcceptInv' /\ CallInv' /\ RekeyInv' /\ InputInv' /\ OutputInv'
  BY DEF MutexInv, AcceptInv, CallInv, RekeyInv, Travels, Unanswered, InputInv,
       OutputInv, TypeOK
<1>3. BlockOwnership'
  BY DEF BlockOwnership, InHand, TypeOK
<1>4. NoLossWhileOpen' /\ LossConfined' /\ ReceiverReportsComplete'
  BY DEF NoLossWhileOpen, LossConfined, ReceiverReportsComplete
<1> QED BY <1>1, <1>2, <1>3, <1>4

LEMMA SendIInv == ASSUME NEW w \in Workers PROVE IInv /\ SendBlock(w) => IInv'
<1> SUFFICES ASSUME IInv, SendBlock(w) PROVE IInv'
  OBVIOUS
<1> USE DEF IInv, SendBlock, Goto, sendVars, recvVars, linkVars, upVars
<1>1. TypeOK'
  BY DEF TypeOK, Labels, Calls
<1>2. MutexInv' /\ AcceptInv' /\ CallInv' /\ RekeyInv' /\ InputInv' /\ OutputInv'
  BY DEF MutexInv, AcceptInv, CallInv, RekeyInv, Travels, Unanswered, InputInv,
       OutputInv, TypeOK
<1>3. BlockOwnership'
  BY DEF BlockOwnership, InHand, TypeOK
<1>4. NoLossWhileOpen' /\ LossConfined' /\ ReceiverReportsComplete'
  BY DEF NoLossWhileOpen, LossConfined, ReceiverReportsComplete
<1> QED BY <1>1, <1>2, <1>3, <1>4

LEMMA TestIInv == ASSUME NEW w \in Workers PROVE IInv /\ IsDone1Test(w) => IInv'
<1> SUFFICES ASSUME IInv, IsDone1Test(w) PROVE IInv'
  OBVIOUS
<1> USE DEF IInv, IsDone1Test, Goto, sendVars, recvVars, linkVars, upVars
<1>1. TypeOK'
  BY DEF TypeOK, Labels, Calls
<1>2. MutexInv' /\ AcceptInv' /\ CallInv' /\ RekeyInv' /\ InputInv' /\ OutputInv'
  BY SendDoneIffQueueEmpty DEF MutexInv, AcceptInv, CallInv, RekeyInv, Travels,
       Unanswered, InputInv, OutputInv, TypeOK
<1>3. BlockOwnership'
  BY DEF BlockOwnership, InHand, TypeOK
<1>4. NoLossWhileOpen' /\ LossConfined' /\ ReceiverReportsComplete'
  BY DEF NoLossWhileOpen, LossConfined, ReceiverReportsComplete
<1> QED BY <1>1, <1>2, <1>3, <1>4

LEMMA CloseIInv == ASSUME NEW w \in Workers PROVE IInv /\ CloseInFile(w) => IInv'
<1> SUFFICES ASSUME IInv, CloseInFile(w) PROVE IInv'
  OBVIOUS
<1> USE DEF IInv, CloseInFile, Goto, recvVars, linkVars, upVars
<1>1. TypeOK'
  BY DEF TypeOK, Labels, Calls
<1>2. MutexInv' /\ AcceptInv' /\ CallInv' /\ RekeyInv' /\ InputInv' /\ OutputInv'
  BY DEF MutexInv, AcceptInv, CallInv, RekeyInv, Travels, Unanswered, InputInv,
       OutputInv, TypeOK
<1>3. BlockOwnership'
  BY DEF BlockOwnership, InHand, TypeOK
<1>4. NoLossWhileOpen' /\ LossConfined' /\ ReceiverReportsComplete'
  BY DEF NoLossWhileOpen, LossConfined, ReceiverReportsComplete
<1> QED BY <1>1, <1>2, <1>3, <1>4

\* The end of a process leaves the rest of the state alone, and IInv.
LEMMA EndIInv ==
  ASSUME IInv, sendUp' \in BOOLEAN, recvUp' \in BOOLEAN,
         UNCHANGED <<sendVars, workerVars, recvVars, linkVars>>
  PROVE  IInv'
<1> USE DEF IInv, sendVars, workerVars, recvVars, linkVars
<1>1. TypeOK'
  BY DEF TypeOK
<1>2. MutexInv' /\ AcceptInv' /\ CallInv' /\ RekeyInv' /\ InputInv' /\ OutputInv'
  BY DEF MutexInv, AcceptInv, CallInv, RekeyInv, Travels, Unanswered, InputInv, OutputInv
<1>3. BlockOwnership'
  BY DEF BlockOwnership, InHand
<1>4. NoLossWhileOpen' /\ LossConfined' /\ ReceiverReportsComplete'
  BY DEF NoLossWhileOpen, LossConfined, ReceiverReportsComplete
<1> QED BY <1>1, <1>2, <1>3, <1>4

LEMMA ReportIInv == ASSUME NEW w \in Workers PROVE IInv /\ ReportSent(w) => IInv'
<1> SUFFICES ASSUME IInv, ReportSent(w) PROVE IInv'
  OBVIOUS
<1>1. sendUp' \in BOOLEAN /\ recvUp' \in BOOLEAN
  BY Zenon DEF IInv, TypeOK, ReportSent
<1>0. /\ pc[w] = "report"
      /\ UNCHANGED <<nextUnsent, mtx, inFileOpen, sendOnce, blk, buf, call, callKey,
                     recvVars, linkVars>>
  BY DEF ReportSent
<1> USE DEF IInv, Goto, recvVars, linkVars
<1>2. CASE sentReports' = sentReports + 1 /\ Goto(w, "await")
  <2>1. TypeOK'
    BY <1>0, <1>1, <1>2 DEF TypeOK, Labels, Calls
  <2>2. MutexInv' /\ AcceptInv' /\ CallInv' /\ RekeyInv' /\ InputInv' /\ OutputInv'
    BY <1>0, <1>2 DEF MutexInv, AcceptInv, CallInv, RekeyInv, Travels, Unanswered, InputInv,
         OutputInv, TypeOK
  <2>3. BlockOwnership'
    BY <1>0, <1>2 DEF BlockOwnership, InHand, TypeOK
  <2>4. NoLossWhileOpen' /\ LossConfined' /\ ReceiverReportsComplete'
    BY <1>0, <1>2 DEF NoLossWhileOpen, LossConfined, ReceiverReportsComplete
  <2> QED BY <2>1, <2>2, <2>3, <2>4
<1>3. CASE UNCHANGED <<sentReports, pc>>
  BY <1>0, <1>1, <1>3, EndIInv DEF sendVars, workerVars
<1> QED BY <1>2, <1>3 DEF ReportSent

LEMMA AnswerIInv == ASSUME NEW w \in Workers PROVE IInv /\ TakeAnswer(w) => IInv'
<1> SUFFICES ASSUME IInv, TakeAnswer(w) PROVE IInv'
  OBVIOUS
<1>1. sendUp' \in BOOLEAN /\ recvUp' \in BOOLEAN
  BY Zenon DEF IInv, TypeOK, TakeAnswer
<1>0. /\ pc[w] = "await"
      /\ UNCHANGED <<sendVars, blk, recvVars, linkVars>>
  BY DEF TakeAnswer
<1> USE DEF IInv, Goto, AfterAnswer, sendVars, recvVars, linkVars
<1>2. CASE /\ call[w] = "ok"
            /\ Goto(w, AfterAnswer(w))
            /\ call' = [call EXCEPT ![w] = "none"]
            /\ callKey' = [callKey EXCEPT ![w] = 0]
            /\ buf' = [buf EXCEPT ![w] = "none"]
  <2>1. TypeOK'
    BY <1>0, <1>1, <1>2, RekeyAssumption DEF TypeOK, Labels, Calls
  <2>2. MutexInv' /\ AcceptInv' /\ CallInv' /\ RekeyInv' /\ InputInv' /\ OutputInv'
    BY <1>0, <1>2 DEF MutexInv, AcceptInv, CallInv, RekeyInv, Travels, Unanswered, InputInv,
         OutputInv, TypeOK
  <2>3. BlockOwnership'
    BY <1>0, <1>2 DEF BlockOwnership, InHand, TypeOK
  <2>4. NoLossWhileOpen' /\ LossConfined' /\ ReceiverReportsComplete'
    BY <1>0, <1>2 DEF NoLossWhileOpen, LossConfined, ReceiverReportsComplete
  <2> QED BY <2>1, <2>2, <2>3, <2>4
<1>3. CASE /\ call[w] = "refused"
            /\ Goto(w, AfterAnswer(w))
            /\ UNCHANGED <<buf, call, callKey>>
  <2>1. TypeOK'
    BY <1>0, <1>1, <1>3 DEF TypeOK, Labels, Calls
  <2>2. MutexInv' /\ AcceptInv' /\ CallInv' /\ RekeyInv' /\ InputInv' /\ OutputInv'
    BY <1>0, <1>3 DEF MutexInv, AcceptInv, CallInv, RekeyInv, Travels, Unanswered, InputInv,
         OutputInv, TypeOK
  <2>3. BlockOwnership'
    BY <1>0, <1>3 DEF BlockOwnership, InHand, TypeOK
  <2>4. NoLossWhileOpen' /\ LossConfined' /\ ReceiverReportsComplete'
    BY <1>0, <1>3 DEF NoLossWhileOpen, LossConfined, ReceiverReportsComplete
  <2> QED BY <2>1, <2>2, <2>3, <2>4
<1>4. CASE UNCHANGED <<pc, buf, call, callKey>>
  BY <1>0, <1>1, <1>4, EndIInv DEF workerVars
<1> QED BY <1>2, <1>3, <1>4 DEF TakeAnswer

LEMMA RefuseIInv == ASSUME NEW w \in Workers PROVE IInv /\ RefuseBlock(w) => IInv'
<1> SUFFICES ASSUME IInv, RefuseBlock(w) PROVE IInv'
  OBVIOUS
<1> USE DEF IInv, RefuseBlock, sendVars, recvVars, linkVars, upVars
<1>1. TypeOK'
  BY DEF TypeOK, Labels, Calls
<1>2. MutexInv' /\ AcceptInv' /\ CallInv' /\ RekeyInv' /\ InputInv' /\ OutputInv'
  BY DEF MutexInv, AcceptInv, CallInv, RekeyInv, Travels, Unanswered, InputInv,
       OutputInv, TypeOK
<1>3. BlockOwnership'
  BY DEF BlockOwnership, InHand, Travels, TypeOK
<1>4. NoLossWhileOpen' /\ LossConfined' /\ ReceiverReportsComplete'
  BY DEF NoLossWhileOpen, LossConfined, ReceiverReportsComplete
<1> QED BY <1>1, <1>2, <1>3, <1>4

LEMMA SenderTakesKexIInv == IInv /\ SenderTakesKex => IInv'
<1> SUFFICES ASSUME IInv, SenderTakesKex PROVE IInv'
  OBVIOUS
<1> USE DEF IInv, SenderTakesKex, sendVars, workerVars, recvVars, upVars
<1>1. TypeOK'
  BY RekeyAssumption DEF TypeOK
<1>2. MutexInv' /\ AcceptInv' /\ CallInv' /\ RekeyInv' /\ InputInv' /\ OutputInv'
  BY DEF MutexInv, AcceptInv, CallInv, RekeyInv, Travels, Unanswered, InputInv,
       OutputInv, TypeOK
<1>3. BlockOwnership'
  BY DEF BlockOwnership, InHand, TypeOK
<1>4. NoLossWhileOpen' /\ LossConfined' /\ ReceiverReportsComplete'
  BY DEF NoLossWhileOpen, LossConfined, ReceiverReportsComplete
<1> QED BY <1>1, <1>2, <1>3, <1>4

LEMMA ReceiverFinishesIInv == IInv /\ ReceiverFinishes => IInv'
<1> SUFFICES ASSUME IInv, ReceiverFinishes PROVE IInv'
  OBVIOUS
<1> USE DEF IInv, ReceiverFinishes, sendVars, workerVars, recvVars, upVars
<1>1. TypeOK'
  BY DEF TypeOK
<1>2. MutexInv' /\ AcceptInv' /\ CallInv' /\ RekeyInv' /\ InputInv' /\ OutputInv'
  BY DEF MutexInv, AcceptInv, CallInv, RekeyInv, Travels, Unanswered, InputInv,
       OutputInv, TypeOK
<1>3. BlockOwnership'
  BY DEF BlockOwnership, InHand, TypeOK
<1>4. NoLossWhileOpen' /\ LossConfined' /\ ReceiverReportsComplete'
  BY DEF NoLossWhileOpen, LossConfined, ReceiverReportsComplete
<1> QED BY <1>1, <1>2, <1>3, <1>4

LEMMA ReceiverTakesKexIInv == IInv /\ ReceiverTakesKex => IInv'
<1> SUFFICES ASSUME IInv, ReceiverTakesKex PROVE IInv'
  OBVIOUS
<1> USE DEF IInv, ReceiverTakesKex, sendVars, workerVars, upVars
<1>1. TypeOK'
  BY RekeyAssumption DEF TypeOK
<1>2. MutexInv' /\ AcceptInv' /\ CallInv' /\ RekeyInv' /\ InputInv' /\ OutputInv'
  BY DEF MutexInv, AcceptInv, CallInv, RekeyInv, Travels, Unanswered, InputInv,
       OutputInv, TypeOK
<1>3. BlockOwnership'
  BY DEF BlockOwnership, InHand, TypeOK
<1>4. NoLossWhileOpen' /\ LossConfined' /\ ReceiverReportsComplete'
  BY DEF NoLossWhileOpen, LossConfined, ReceiverReportsComplete
<1> QED BY <1>1, <1>2, <1>3, <1>4

LEMMA SenderTakesAnswerIInv == IInv /\ SenderTakesAnswer => IInv'
<1> SUFFICES ASSUME IInv, SenderTakesAnswer PROVE IInv'
  OBVIOUS
<1> USE DEF IInv, SenderTakesAnswer, sendVars, workerVars, recvVars, upVars
<1>1. TypeOK'
  BY DEF TypeOK
<1>2. MutexInv' /\ AcceptInv' /\ CallInv' /\ RekeyInv' /\ InputInv' /\ OutputInv'
  BY DEF MutexInv, AcceptInv, CallInv, RekeyInv, Travels, Unanswered, InputInv,
       OutputInv, TypeOK
<1>3. BlockOwnership'
  BY DEF BlockOwnership, InHand, TypeOK
<1>4. NoLossWhileOpen' /\ LossConfined' /\ ReceiverReportsComplete'
  BY DEF NoLossWhileOpen, LossConfined, ReceiverReportsComplete
<1> QED BY <1>1, <1>2, <1>3, <1>4

LEMMA SwitchIInv == IInv /\ SwitchClient => IInv'
<1> SUFFICES ASSUME IInv, SwitchClient PROVE IInv'
  OBVIOUS
<1> USE DEF IInv, SwitchClient, CutOff, sendVars, recvVars
<1>1. TypeOK'
  <2>1. sendUp' \in BOOLEAN /\ recvUp' \in BOOLEAN
    BY Zenon DEF TypeOK
  <2> QED BY <2>1 DEF TypeOK, Labels, Calls
<1>2. MutexInv' /\ AcceptInv' /\ CallInv' /\ RekeyInv' /\ InputInv' /\ OutputInv'
  BY DEF MutexInv, AcceptInv, CallInv, RekeyInv, Travels, Unanswered, InputInv,
       OutputInv, TypeOK
<1>3. BlockOwnership'
  <2>1. \A w \in Workers : InHand(w)' <=> InHand(w)
    BY DEF InHand, TypeOK
  <2>2. UNCHANGED <<blk, nextUnsent, receivedBlocks, Blocks>>
    BY DEF Blocks
  <2> HIDE DEF SwitchClient
  <2> QED BY <2>1, <2>2 DEF BlockOwnership
<1>4. NoLossWhileOpen' /\ LossConfined' /\ ReceiverReportsComplete'
  BY DEF NoLossWhileOpen, LossConfined, ReceiverReportsComplete
<1> QED BY <1>1, <1>2, <1>3, <1>4

LEMMA NextIInv == IInv /\ [Next]_vars => IInv'
<1> SUFFICES ASSUME IInv, [Next]_vars PROVE IInv'
  OBVIOUS
<1>1. CASE AcceptTransfer BY <1>1, AcceptIInv
<1>2. CASE AckAccept BY <1>2, AckIInv
<1>3. ASSUME NEW w \in Workers, Worker(w) PROVE IInv'
  BY <1>3, PopIInv, BeginReadIInv, EndReadIInv, EncryptIInv, SendIInv, TestIInv, CloseIInv,
     ReportIInv, AnswerIInv DEF Worker
<1>4. ASSUME NEW w \in Workers, Handle(w) PROVE IInv'
  BY <1>4, ReceiveIInv, RefuseIInv DEF Handle
<1>5. CASE SenderTakesKex BY <1>5, SenderTakesKexIInv
<1>6. CASE ReceiverTakesKex BY <1>6, ReceiverTakesKexIInv
<1>7. CASE FinishRekey
  BY <1>7, ReceiverFinishesIInv, SenderTakesAnswerIInv, SwitchIInv DEF FinishRekey
<1>8. CASE UNCHANGED vars BY <1>8, StutterIInv
<1> QED BY <1>1, <1>2, <1>3, <1>4, <1>5, <1>6, <1>7, <1>8 DEF Next

-----------------------------------------------------------------------------
(* What follows from it.                                                   *)

\* IInv holds in every state of a transfer.
THEOREM InductiveInvariant == Safety => []IInv
<1>1. Init => IInv BY InitIInv
<1>2. IInv /\ [Next]_vars => IInv' BY NextIInv
<1> QED BY <1>1, <1>2, PTL DEF Safety

\* The members of the two transfer objects keep to their values; popBlock never
\* takes a block from an empty queue.
THEOREM TypeCorrect == Safety => []TypeOK
<1>1. IInv => TypeOK BY DEF IInv
<1> QED BY <1>1, InductiveInvariant, PTL

\* However many workers share the queue, every block is in exactly one place:
\* queued, in the hands of one worker, or stored by the receiver.
THEOREM EveryBlockInOnePlace == Safety => []BlockOwnership
<1>1. IInv => BlockOwnership BY DEF IInv
<1> QED BY <1>1, InductiveInvariant, PTL

\* Nothing the receiver stores is damaged before the sender's early close.
THEOREM NoByteLostWhileOpen == Safety => []NoLossWhileOpen
<1>1. IInv => NoLossWhileOpen BY DEF IInv
<1> QED BY <1>1, InductiveInvariant, PTL

\* The early close of sendBlock damages at most the last block of each worker.
THEOREM OnlyLastBlocksDamaged == Safety => []LossConfined
<1>1. IInv => LossConfined BY DEF IInv
<1> QED BY <1>1, InductiveInvariant, PTL

\* The receiver's fileFinishCallback runs at most once, and only when receiveBlock
\* has stored every block.
THEOREM ReceiverReportsOnlyAll == Safety => []ReceiverReportsComplete
<1>1. IInv => ReceiverReportsComplete BY DEF IInv
<1> QED BY <1>1, InductiveInvariant, PTL

\* Blocks change only when one is stored, and that block was missing.
LEMMA StoredBlockWasMissing ==
  ASSUME NEW w \in Workers, IInv, ReceiveBlock(w)
  PROVE  blk[w] \in Blocks \ receivedBlocks /\ acceptCall # "none"
BY SomeBlocks DEF IInv, ReceiveBlock, Travels, CallInv, InHand, TypeOK, BlockOwnership, Blocks,
     AcceptInv

\* No interleaving writes to the output file once receiveBlock has closed it.
THEOREM NoBlockAfterClose == Safety => NoLateBlock
<1>1. IInv /\ [Next]_vars
      => [outFile = "closed" => UNCHANGED <<receivedBlocks, intact>>]_vars
  <2> SUFFICES ASSUME IInv, Next, outFile = "closed"
               PROVE  UNCHANGED <<receivedBlocks, intact>>
    BY DEF vars
  <2>1. ASSUME NEW w \in Workers, ReceiveBlock(w) PROVE FALSE
    BY <2>1, StoredBlockWasMissing DEF IInv, OutputInv
  <2> QED
    BY <2>1 DEF Next, Worker, Handle, AcceptTransfer, AckAccept, PopBlock, BeginRead,
         EndRead, Encrypt, SendBlock, IsDone1Test, CloseInFile, ReportSent, TakeAnswer,
         RefuseBlock, SenderTakesKex, ReceiverTakesKex, FinishRekey, ReceiverFinishes,
         SenderTakesAnswer, SwitchClient, recvVars
<1> QED BY <1>1, InductiveInvariant, PTL DEF Safety, NoLateBlock

-----------------------------------------------------------------------------
(* The transfer implements the safety part of FileCopy.                    *)

LEMMA InitImplementsCopy == Init => Copy!Init
BY DEF Init, Copy!Init

\* A worker of the sender leaves Copy alone, or ends the process after a handshake.
LEMMA WorkerImplementsCopy ==
  ASSUME NEW w \in Workers, IInv, Worker(w)
  PROVE  [Copy!Disturb]_(Copy!vars)
<1> USE DEF Copy!vars, Copy!Disturb
<1>1. sendKey \in Nat /\ recvKey \in Nat
  BY RekeyAssumption DEF IInv, TypeOK
<1>2. CASE UNCHANGED sendUp
  <2>1. UNCHANGED <<acceptCall, receivedBlocks, recvReports, sendKey, recvKey, recvUp>>
    BY DEF Worker, PopBlock, BeginRead, EndRead, Encrypt, SendBlock, IsDone1Test,
         CloseInFile, ReportSent, TakeAnswer, recvVars, linkVars, upVars
  <2> QED BY <1>2, <2>1
<1>3. CASE ~UNCHANGED sendUp
  <2>1. ReportSent(w) \/ TakeAnswer(w)
    BY <1>3 DEF Worker, PopBlock, BeginRead, EndRead, Encrypt, SendBlock, IsDone1Test,
         CloseInFile, upVars
  <2>2. ~sendUp' /\ (sendKey > 0 \/ recvKey > 0)
    <3>1. sendUp \in BOOLEAN
      BY DEF IInv, TypeOK
    <3>2. SenderHasNewChat => sendKey > 0
      BY <1>1 DEF SenderHasNewChat
    <3> QED BY <1>3, <2>1, <3>1, <3>2 DEF ReportSent, TakeAnswer, IInv, RekeyInv
  <2>3. UNCHANGED <<acceptCall, receivedBlocks, recvReports, sendKey, recvKey>>
    BY <2>1 DEF ReportSent, TakeAnswer, recvVars, linkVars
  <2> QED BY <2>2, <2>3
<1> QED BY <1>2, <1>3

\* A step of a handshake disturbs the transfer.
LEMMA RekeyImplementsCopy ==
  ASSUME IInv, SenderTakesKex \/ ReceiverTakesKex \/ FinishRekey
  PROVE  Copy!Disturb
<1> USE DEF Copy!Disturb
<1>1. /\ sendKey \in Nat /\ recvKey \in Nat /\ sendKey' \in Nat /\ recvKey' \in Nat
      /\ sendUp \in BOOLEAN /\ recvUp \in BOOLEAN
  BY RekeyAssumption, SenderTakesKexIInv, ReceiverTakesKexIInv, ReceiverFinishesIInv,
     SenderTakesAnswerIInv, SwitchIInv DEF IInv, TypeOK, FinishRekey
<1>2. sendKey' > 0 \/ recvKey' > 0
  <2>1. CASE SenderTakesKex \/ ReceiverTakesKex
    BY <1>1, <2>1 DEF SenderTakesKex, ReceiverTakesKex
  <2>2. CASE ReceiverFinishes \/ SenderTakesAnswer
    BY <1>1, <2>2 DEF ReceiverFinishes, SenderTakesAnswer
  <2>3. CASE SwitchClient
    <3>1. switching /\ UNCHANGED sendKey
      BY <2>3 DEF SwitchClient
    <3> QED BY <3>1 DEF IInv, RekeyInv
  <2> QED BY <2>1, <2>2, <2>3 DEF FinishRekey
<1>3. /\ UNCHANGED <<receivedBlocks, recvReports, recvUp>>
      /\ acceptCall' = acceptCall \/ (acceptCall # "none" /\ acceptCall' = "lost")
      /\ sendUp' = sendUp \/ sendUp' = FALSE
  <2>1. CASE SenderTakesKex \/ ReceiverTakesKex
    BY <2>1 DEF SenderTakesKex, ReceiverTakesKex, recvVars, upVars
  <2>2. CASE ReceiverFinishes \/ SenderTakesAnswer
    BY <2>2 DEF ReceiverFinishes, SenderTakesAnswer, recvVars, upVars
  <2>3. CASE SwitchClient
    <3>1. sendUp /\ sendUp' \in BOOLEAN
      BY <2>3, SwitchIInv DEF SwitchClient, IInv, TypeOK
    <3>2. UNCHANGED <<recvVars, recvUp>>
      BY <2>3 DEF SwitchClient
    <3> QED BY <3>1, <3>2 DEF recvVars
  <2> QED BY <2>1, <2>2, <2>3 DEF FinishRekey
<1>4. CASE UNCHANGED <<acceptCall, sendUp>>
  BY <1>2, <1>3, <1>4
<1>5. CASE acceptCall # "none" /\ acceptCall' = "lost"
  BY <1>2, <1>3, <1>5
<1>6. CASE UNCHANGED acceptCall /\ sendUp' = FALSE
  BY <1>2, <1>3, <1>6
<1> QED BY <1>3, <1>4, <1>5, <1>6

LEMMA StepImplementsCopy == IInv /\ [Next]_vars => [Copy!Next]_(Copy!vars)
<1> SUFFICES ASSUME IInv, [Next]_vars PROVE Copy!Next \/ UNCHANGED Copy!vars
  OBVIOUS
<1>1. CASE AcceptTransfer
  BY <1>1 DEF AcceptTransfer, linkVars, upVars, Copy!Next, Copy!Accept, Copy!vars
<1>2. CASE AckAccept
  <2>1. CASE UNCHANGED sendUp
    BY <1>2, <2>1 DEF AckAccept, linkVars, Copy!vars
  <2>2. CASE SenderHasNewChat /\ sendUp' = FALSE
    <3>1. sendKey \in Nat
      BY RekeyAssumption DEF IInv, TypeOK
    <3>2. sendKey > 0
      BY <2>2, <3>1 DEF SenderHasNewChat
    <3> QED BY <1>2, <2>2, <3>2 DEF AckAccept, linkVars, Copy!Next, Copy!Disturb
  <2> QED BY <1>2, <2>1, <2>2 DEF AckAccept
<1>3. ASSUME NEW w \in Workers, Worker(w) PROVE Copy!Next \/ UNCHANGED Copy!vars
  BY <1>3, WorkerImplementsCopy DEF Copy!Next
<1>4. ASSUME NEW w \in Workers, RefuseBlock(w) PROVE UNCHANGED Copy!vars
  BY <1>4 DEF RefuseBlock, recvVars, linkVars, upVars, Copy!vars
<1>5. ASSUME NEW w \in Workers, ReceiveBlock(w) PROVE Copy!Deliver(blk[w])
  <2>1. blk[w] \in Blocks \ receivedBlocks /\ acceptCall # "none"
    BY <1>5, StoredBlockWasMissing
  <2>2. /\ receivedBlocks' = receivedBlocks \cup {blk[w]}
        /\ UNCHANGED <<acceptCall, sendUp, sendKey, recvKey>>
        /\ UNCHANGED recvUp \/ (recvUp' = FALSE /\ recvKey > 0)
    BY <1>5 DEF ReceiveBlock, linkVars, ReceiverHasNewChat
  <2>3. \/ recvReports' = recvReports
        \/ recvReports' = recvReports + 1 /\ receivedBlocks' = Blocks
    <3>1. RecvDone(receivedBlocks') <=> receivedBlocks' = Blocks
      BY <2>1, <2>2, RecvDoneIffAllStored DEF IInv, TypeOK
    <3>2. CASE UNCHANGED recvReports
      BY <3>2
    <3>3. CASE /\ recvOnce' = (recvOnce /\ ~RecvDone(receivedBlocks'))
               /\ recvOnce # recvOnce'
               /\ recvReports' = recvReports + 1
      BY <3>1, <3>3 DEF IInv, TypeOK
    <3> QED BY <1>5, <3>2, <3>3 DEF ReceiveBlock
  <2>4. CASE UNCHANGED recvUp
    BY <2>1, <2>2, <2>3, <2>4 DEF Copy!Deliver
  <2>5. CASE recvUp' = FALSE /\ recvKey > 0
    BY <2>1, <2>2, <2>3, <2>5 DEF Copy!Deliver
  <2> QED BY <2>2, <2>4, <2>5
<1>6. CASE SenderTakesKex \/ ReceiverTakesKex \/ FinishRekey
  BY <1>6, RekeyImplementsCopy DEF Copy!Next
<1>7. CASE UNCHANGED vars
  BY <1>7 DEF vars, recvVars, linkVars, upVars, Copy!vars
<1>8. ASSUME NEW w \in Workers, ReceiveBlock(w) PROVE Copy!Next
  BY <1>5, <1>8, StoredBlockWasMissing DEF Copy!Next
<1> QED BY <1>1, <1>2, <1>3, <1>4, <1>6, <1>7, <1>8 DEF Next, Handle

\* Every step of the pool and of the receiver is a step of the promise or hides
\* behind it: a block arrives once, the end is reported with the last of them.
THEOREM TransferImplementsCopy == Safety => Copy!Safety
<1>1. Init => Copy!Init BY InitImplementsCopy
<1>2. IInv /\ [Next]_vars => [Copy!Next]_(Copy!vars) BY StepImplementsCopy
<1> QED BY <1>1, <1>2, InductiveInvariant, PTL DEF Safety, Copy!Safety
=============================================================================
