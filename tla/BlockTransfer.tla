--------------------------- MODULE BlockTransfer ---------------------------
(***************************************************************************)
(* One file transfer between two connected peers, from the accept of the   *)
(* receiving user until the sender's worker threads have ended.            *)
(*                                                                         *)
(* Sender: ackAccept starts a pool of workers that take block numbers off  *)
(* a shared queue, read the block from one shared input stream under the   *)
(* mutex mtx, send it as a FileBlock call, test whether the transfer is    *)
(* done and wait for the answer; a block that is refused is sent again.    *)
(* Receiver: its only RPC thread stores one block at a time.               *)
(*                                                                         *)
(* Either side may connect again meanwhile.  The handshake replaces the    *)
(* key and the client of each side and, later, its chat window: blocks are *)
(* refused, calls of the old client get no answer, and the callbacks of    *)
(* the transfer point to a transfer window that is gone.                   *)
(*                                                                         *)
(* A critical section that is left in the same step it is entered is one   *)
(* action whose guard is that nobody holds mtx; the read of a block is the *)
(* one that another thread can disturb, so it is two actions.              *)
(*                                                                         *)
(* The onAccept and onUpdate callbacks only mark or redraw the transfer    *)
(* window: what is left of them is the mutex they are invoked under, and   *)
(* that the window may be gone.  awaitingAccept is left out: neither end   *)
(* ever finds it set where it is tested.                                   *)
(***************************************************************************)
EXTENDS Naturals, FiniteSets, BlockArithmetic

CONSTANTS
  Workers,       \* the sender's worker threads (DEFAULT_NUM_WORKERS of them)
  FileSize,      \* bytes of the file
  BlockSize,     \* bytes per block (DEFAULT_BLOCK_SIZE)
  MaxRekeys,     \* bound: handshakes during the transfer
  OpenMayFail,   \* whether opening the output file may fail
  None           \* no thread, the owner of a free mutex

ASSUME WorkersAssumption == IsFiniteSet(Workers) /\ Workers # {} /\ None \notin Workers
ASSUME SizesAssumption == FileSize \in Nat \ {0} /\ BlockSize \in Nat \ {0}
ASSUME RekeyAssumption == MaxRekeys \in Nat
ASSUME FlagAssumption == OpenMayFail \in BOOLEAN

VARIABLES
  (* FileTransferSend and its workers *)
  nextUnsent,      \* unsentBlocks is the queue nextUnsent .. NumBlocks - 1
  pc,              \* where each worker stands in workerLoop / sendBlock
  blk,             \* the block each worker took off the queue last
  buf,             \* what each worker's last read yielded
  call,            \* each worker's FileBlock call: travelling, answered or cut off
  callKey,         \* the key each worker's block was encrypted with
  mtx,             \* the worker that is inside the read section
  inFileOpen,      \* the shared input stream is open
  sendOnce,        \* "static bool state" of isDone1 in the sender's process
  sentReports,     \* calls of fileFinishCallback in the sender's process
  sendKey,         \* the sender's shared key, as a number of handshakes
  switching,       \* the sender has that key and still its old client
  sendUp,          \* the sender's process is running
  (* FileTransferRecv *)
  acceptCall,      \* the FileTransferAccept call of the receiver
  outFile,         \* the output stream
  receivedBlocks,  \* the block numbers stored
  intact,          \* the blocks whose bytes the output file holds
  recvOnce,        \* "static bool state" of isDone1 in the receiver's process
  recvReports,     \* calls of fileFinishCallback in the receiver's process
  recvKey,         \* the receiver's shared key
  recvUp           \* the receiver's process is running

sendVars == <<nextUnsent, mtx, inFileOpen, sendOnce, sentReports>>
workerVars == <<pc, blk, buf, call, callKey>>
recvVars == <<acceptCall, outFile, receivedBlocks, intact, recvOnce, recvReports>>
linkVars == <<sendKey, switching, recvKey>>
upVars == <<sendUp, recvUp>>
vars == <<sendVars, workerVars, recvVars, linkVars, upVars>>

NumBlocks == GetNumBlocks(FileSize, BlockSize)
Blocks == 0 .. (NumBlocks - 1)
NoBlock == NumBlocks

\* The static flag of isDone1 is shared by all transfers of a process and is
\* never set again, so a transfer may find it spent by an earlier one.  The user
\* sends and accepts in a chat window, so both sides have one at first and
\* fileFinishCallback is set.
Init ==
  /\ nextUnsent = 0
  /\ pc = [w \in Workers |-> "off"]
  /\ blk = [w \in Workers |-> NoBlock]
  /\ buf = [w \in Workers |-> "none"]
  /\ call = [w \in Workers |-> "none"]
  /\ callKey = [w \in Workers |-> 0]
  /\ mtx = None
  /\ inFileOpen = TRUE
  /\ sendOnce \in BOOLEAN
  /\ sentReports = 0
  /\ acceptCall = "none"
  /\ outFile = "unopened"
  /\ receivedBlocks = {}
  /\ intact = {}
  /\ recvOnce \in BOOLEAN
  /\ recvReports = 0
  /\ sendKey = 0
  /\ switching = FALSE
  /\ sendUp = TRUE
  /\ recvKey = 0
  /\ recvUp = TRUE

Goto(w, label) == pc' = [pc EXCEPT ![w] = label]

\* After a handshake initiateChat replaces the chat window, in tryConnect or in a
\* later tick, and the transfer window with it; the callbacks of the transfer still
\* point there.  From then on each of them may find it gone (AppGui has when).
SenderHasNewChat == sendKey > 1 \/ (sendKey > 0 /\ ~switching)

ReceiverHasNewChat == recvKey > 0

-----------------------------------------------------------------------------
(* Accepting.                                                              *)

\* FileTransferRecv::acceptTransfer, on the receiver's GUI thread, which is not
\* waiting inside a handshake: open the output file, fill it with zeros, send the
\* accept and wait for the answer, in the destructor of the future that is not
\* kept.  The stream is not tested after it is opened.
AcceptTransfer ==
  /\ acceptCall = "none"
  /\ recvKey >= sendKey
  /\ outFile' \in {"open"} \cup {s \in {"failed"} : OpenMayFail}
  /\ acceptCall' = "travelling"
  /\ UNCHANGED <<sendVars, workerVars, linkVars, upVars, receivedBlocks, intact,
                 recvOnce, recvReports>>

\* FileTransferSend::ackAccept and start, on the sender's RPC thread.  A thread
\* that has been created but has not run yet is at "pop".  With the window gone
\* onAccept may end the process before start.
AckAccept ==
  /\ acceptCall = "travelling"
  /\ sendUp
  /\ \/ /\ acceptCall' = "answered"
        /\ pc' = [w \in Workers |-> "pop"]
        /\ UNCHANGED sendUp
     \/ /\ SenderHasNewChat
        /\ sendUp' = FALSE
        /\ UNCHANGED <<acceptCall, pc>>
  /\ UNCHANGED <<sendVars, blk, buf, call, callKey, linkVars, recvUp, outFile,
                 receivedBlocks, intact, recvOnce, recvReports>>

-----------------------------------------------------------------------------
(* A worker of the sender.                                                 *)

\* popBlock's test of the queue.
HasUnsent == nextUnsent < NumBlocks

\* popBlock's pop_front.
PopFront == nextUnsent + 1

\* FileTransferSend::popBlock, and the end of workerLoop when it has no block.
PopBlock(w) ==
  /\ sendUp
  /\ pc[w] = "pop"
  /\ mtx = None
  /\ \/ /\ HasUnsent
        /\ blk' = [blk EXCEPT ![w] = nextUnsent]
        /\ nextUnsent' = PopFront
        /\ Goto(w, "read")
     \/ /\ ~HasUnsent
        /\ Goto(w, "exit")
        /\ UNCHANGED <<blk, nextUnsent>>
  /\ UNCHANGED <<mtx, inFileOpen, sendOnce, sentReports, buf, call, callKey, recvVars,
                 linkVars, upVars>>

\* sendBlock starts with new locals and enters the read section: clear, seekg, read.
\* A read on a stream that is not open yields no bytes.
BeginRead(w) ==
  /\ sendUp
  /\ pc[w] = "read"
  /\ mtx = None
  /\ mtx' = w
  /\ buf' = [buf EXCEPT ![w] = IF inFileOpen THEN "full" ELSE "short"]
  /\ call' = [call EXCEPT ![w] = "none"]
  /\ callKey' = [callKey EXCEPT ![w] = 0]
  /\ Goto(w, "reading")
  /\ UNCHANGED <<nextUnsent, inFileOpen, sendOnce, sentReports, blk, recvVars, linkVars,
                 upVars>>

\* sendBlock leaves the read section.  The close of sendBlock does not take mtx:
\* when it hits the stream during the read, the read may come back short.
EndRead(w) ==
  /\ sendUp
  /\ pc[w] = "reading"
  /\ mtx' = None
  /\ \E got \in {buf[w]} \cup {s \in {"short"} : ~inFileOpen} :
       buf' = [buf EXCEPT ![w] = got]
  /\ Goto(w, "encrypt")
  /\ UNCHANGED <<nextUnsent, inFileOpen, sendOnce, sentReports, blk, call, callKey,
                 recvVars, linkVars, upVars>>

\* SendEncryptedPacket encrypts the block with the key of this moment ...
Encrypt(w) ==
  /\ sendUp
  /\ pc[w] = "encrypt"
  /\ callKey' = [callKey EXCEPT ![w] = sendKey]
  /\ Goto(w, "send")
  /\ UNCHANGED <<sendVars, blk, buf, call, recvVars, linkVars, upVars>>

\* ... and calls on the client of this moment.
SendBlock(w) ==
  /\ sendUp
  /\ pc[w] = "send"
  /\ call' = [call EXCEPT ![w] = "travelling"]
  /\ Goto(w, "check")
  /\ UNCHANGED <<sendVars, blk, buf, callKey, recvVars, linkVars, upVars>>

\* isDone of the sender: it counts the blocks taken off the queue, whether or not
\* they have been read or sent.  MutSendDoneEarly counts one block too many.
MutSendDoneEarly == MutDoneEarly(FileSize, BlockSize, nextUnsent)

SendDone == IsDone(FileSize, BlockSize, nextUnsent)

\* isDone1: state && isDone(), which takes mtx.  Reading state and calling isDone
\* is one step: while isDone holds, state only changes from TRUE to FALSE, and a
\* worker that read TRUE earlier behaves as one whose whole test came before that
\* change.
IsDone1Test(w) ==
  /\ sendUp
  /\ pc[w] = "check"
  /\ sendOnce => mtx = None
  /\ Goto(w, IF sendOnce /\ SendDone THEN "finish" ELSE "await")
  /\ UNCHANGED <<sendVars, blk, buf, call, callKey, recvVars, linkVars, upVars>>

\* isDone1 spends the flag, and sendBlock closes the shared input stream.
CloseInFile(w) ==
  /\ sendUp
  /\ pc[w] = "finish"
  /\ sendOnce' = FALSE
  /\ inFileOpen' = FALSE
  /\ Goto(w, "report")
  /\ UNCHANGED <<nextUnsent, mtx, sentReports, blk, buf, call, callKey, recvVars,
                 linkVars, upVars>>

\* fileFinishCallback: "... was sent successfully", shown through the transfer
\* window; a new chat window has none, and the process ends at the null pointer.
ReportSent(w) ==
  /\ sendUp
  /\ pc[w] = "report"
  /\ \/ /\ sentReports' = sentReports + 1
        /\ Goto(w, "await")
        /\ UNCHANGED sendUp
     \/ /\ SenderHasNewChat
        /\ sendUp' = FALSE
        /\ UNCHANGED <<sentReports, pc>>
  /\ UNCHANGED <<nextUnsent, mtx, inFileOpen, sendOnce, blk, buf, call, callKey,
                 recvVars, linkVars, recvUp>>

\* The loop of workerLoop around sendBlock: any answer but 0 sends the same block
\* again, read and encrypted anew.  MutAfterAnswer sends each block once, MutRetry
\* sends the same ciphertext again.
MutAfterAnswer(w) == "pop"

MutRetry(w) == IF call[w] = "ok" THEN "pop" ELSE "send"

AfterAnswer(w) == IF call[w] = "ok" THEN "pop" ELSE "read"

\* A call whose client has been destroyed before the answer came.
Unanswered(w) == call[w] \in {"orphaned", "lost", "cut"}

\* The answer ends sendBlock; after a 0 workerLoop invokes onUpdate, under mtx, which
\* may end the process if the window is gone.  A call without an answer makes f.Get()
\* throw; nobody catches it in the worker, so the process ends.
TakeAnswer(w) ==
  /\ sendUp
  /\ pc[w] = "await"
  /\ \/ /\ call[w] = "ok"
        /\ mtx = None
        /\ Goto(w, AfterAnswer(w))
        /\ call' = [call EXCEPT ![w] = "none"]
        /\ callKey' = [callKey EXCEPT ![w] = 0]
        /\ buf' = [buf EXCEPT ![w] = "none"]
        /\ sendUp' \in {TRUE, ~SenderHasNewChat}
     \/ /\ call[w] = "refused"
        /\ Goto(w, AfterAnswer(w))
        /\ UNCHANGED <<buf, call, callKey, sendUp>>
     \/ /\ Unanswered(w)
        /\ sendUp' = FALSE
        /\ UNCHANGED <<pc, buf, call, callKey>>
  /\ UNCHANGED <<sendVars, blk, recvVars, linkVars, recvUp>>

-----------------------------------------------------------------------------
(* The receiver's RPC thread.                                              *)

\* The call is on its way to the receiver.
Travels(w) == call[w] \in {"travelling", "orphaned"}

\* ReceiveFileBlock: a block that cannot be decrypted is answered -2.
RefuseBlock(w) ==
  /\ recvUp
  /\ Travels(w)
  /\ callKey[w] # recvKey
  /\ call' = [call EXCEPT ![w] = IF @ = "travelling" THEN "refused" ELSE "lost"]
  /\ UNCHANGED <<sendVars, pc, blk, buf, callKey, recvVars, linkVars, upVars>>

\* The blocks the output file holds after receiveBlock has written the block of
\* worker w at its offset; zeros stay where no bytes are written.  MutIntactAfter
\* writes without seeking: right only for blocks that come in their order.
MutIntactAfter(w) ==
  intact \cup {b \in {blk[w]} : /\ outFile = "open" /\ buf[w] = "full"
                                /\ b = Cardinality(receivedBlocks)}

IntactAfter(w) ==
  intact \cup {b \in {blk[w]} : outFile = "open" /\ buf[w] = "full"}

\* isDone of the receiver once it has stored the given blocks.  The mutants are
\* those of the sender's test.
MutRecvDoneEarly(blocks) == MutDoneEarly(FileSize, BlockSize, Cardinality(blocks))

MutRecvDoneStrict(blocks) == MutDoneStrict(FileSize, BlockSize, Cardinality(blocks))

RecvDone(blocks) == IsDone(FileSize, BlockSize, Cardinality(blocks))

\* ReceiveFileBlock and receiveBlock.  The checksum is that of the bytes that were
\* read, so it always matches and the answer is 0.  Calls are handled in any order.
\* With the window gone the process may end in onUpdate, once the block is stored,
\* or when the end is to be reported; what its streams and flags were no longer
\* matters then.
ReceiveBlock(w) ==
  /\ recvUp
  /\ Travels(w)
  /\ callKey[w] = recvKey
  /\ intact' = IntactAfter(w)
  /\ receivedBlocks' = receivedBlocks \cup {blk[w]}
  /\ \/ /\ recvOnce' = (recvOnce /\ ~RecvDone(receivedBlocks'))
        /\ IF recvOnce # recvOnce'
           THEN /\ outFile' = IF outFile = "open" THEN "closed" ELSE outFile
                /\ recvReports' = recvReports + 1
           ELSE UNCHANGED <<outFile, recvReports>>
        /\ UNCHANGED recvUp
     \/ /\ ReceiverHasNewChat
        /\ recvUp' = FALSE
        /\ UNCHANGED <<recvOnce, outFile, recvReports>>
  /\ call' = [call EXCEPT ![w] = IF @ = "travelling" /\ recvUp' THEN "ok" ELSE "cut"]
  /\ UNCHANGED <<sendVars, pc, blk, buf, callKey, acceptCall, linkVars, sendUp>>

-----------------------------------------------------------------------------
(* A handshake during the transfer.  Two of them do not overlap here.  The *)
(* receiver is one that calls nothing but the accept, and handles calls on *)
(* the same thread as a Kex, so its key and client change in one step.     *)

\* The receiver connects; ReceiveKex on the sender's RPC thread sets the key.  The
\* receiver's GUI thread is not waiting for the answer to its accept.
SenderTakesKex ==
  /\ sendUp /\ recvUp
  /\ acceptCall # "travelling"
  /\ ~switching /\ sendKey = recvKey
  /\ sendKey < MaxRekeys
  /\ sendKey' = sendKey + 1
  /\ switching' = TRUE
  /\ UNCHANGED <<sendVars, workerVars, recvVars, recvKey, upVars>>

\* ReceiveKex has been answered: the rest of the receiver's ConnectAndHandshake.
ReceiverFinishes ==
  /\ recvUp
  /\ ~switching /\ recvKey < sendKey
  /\ recvKey' = sendKey
  /\ UNCHANGED <<sendVars, workerVars, recvVars, sendKey, switching, upVars>>

\* The sender connects; ReceiveKex on the receiver's RPC thread sets key and client.
\* An accept the old client had not sent is lost: the receiver's GUI thread gets an
\* exception instead of the answer, which it drops.
ReceiverTakesKex ==
  /\ sendUp /\ recvUp
  /\ ~switching /\ sendKey = recvKey
  /\ recvKey < MaxRekeys
  /\ recvKey' = recvKey + 1
  /\ acceptCall' \in {acceptCall} \cup {l \in {"lost"} : acceptCall = "travelling"}
  /\ UNCHANGED <<sendVars, workerVars, outFile, receivedBlocks, intact, recvOnce,
                 recvReports, sendKey, switching, upVars>>

\* The answer arrives: the sender's ConnectAndHandshake sets the key.
SenderTakesAnswer ==
  /\ sendUp
  /\ sendKey < recvKey
  /\ sendKey' = recvKey
  /\ switching' = TRUE
  /\ UNCHANGED <<sendVars, workerVars, recvVars, recvKey, upVars>>

\* What is left of call c when its client is destroyed.  A call that has been
\* handled may have had its answer or not, and one that has not been handled may
\* still be.
CutOff(c, answered) ==
  CASE c = "travelling" -> "orphaned"
    [] c = "refused" /\ ~answered -> "lost"
    [] c = "ok" /\ ~answered -> "cut"
    [] OTHER -> c

\* Either way the sender's client is replaced and the old one destroyed; a worker
\* that is just calling with it may end the process.
SwitchClient ==
  /\ sendUp
  /\ switching
  /\ switching' = FALSE
  /\ \E answered \in SUBSET Workers :
       call' = [w \in Workers |->
         IF pc[w] \in {"check", "finish", "report", "await"}
         THEN CutOff(call[w], w \in answered)
         ELSE call[w]]
  /\ sendUp' \in {TRUE, ~ \E w \in Workers : pc[w] = "send"}
  /\ UNCHANGED <<sendVars, pc, blk, buf, callKey, recvVars, sendKey, recvKey,
                 recvUp>>

-----------------------------------------------------------------------------
Worker(w) ==
  \/ PopBlock(w)
  \/ BeginRead(w)
  \/ EndRead(w)
  \/ Encrypt(w)
  \/ SendBlock(w)
  \/ IsDone1Test(w)
  \/ CloseInFile(w)
  \/ ReportSent(w)
  \/ TakeAnswer(w)

Handle(w) == ReceiveBlock(w) \/ RefuseBlock(w)

\* A handshake that has begun goes on; at most one of these is enabled.
FinishRekey == ReceiverFinishes \/ SenderTakesAnswer \/ SwitchClient

Next ==
  \/ AcceptTransfer
  \/ AckAccept
  \/ \E w \in Workers : Worker(w) \/ Handle(w)
  \/ SenderTakesKex
  \/ ReceiverTakesKex
  \/ FinishRekey

Safety == Init /\ [][Next]_vars

\* Threads that can run do run and calls between live peers are answered; the
\* user need not press Accept and nobody need start another handshake, but one
\* that has begun is finished.  A call to or from a process that has ended may be
\* handled and need not.
Fairness ==
  /\ WF_vars(AckAccept)
  /\ WF_vars(FinishRekey)
  /\ \A w \in Workers : WF_vars(recvUp /\ Worker(w)) /\ WF_vars(sendUp /\ Handle(w))

Spec == Safety /\ Fairness

-----------------------------------------------------------------------------
(* Properties.                                                             *)

Labels == {"off", "pop", "read", "reading", "encrypt", "send", "check", "finish",
           "report", "await", "exit"}
Calls == {"none", "travelling", "ok", "refused", "orphaned", "lost", "cut"}

\* Every variable stays within the values the C++ members can have; in particular
\* popBlock never goes past the end of the queue.
TypeOK ==
  /\ nextUnsent \in 0 .. NumBlocks
  /\ pc \in [Workers -> Labels]
  /\ blk \in [Workers -> 0 .. NumBlocks]
  /\ buf \in [Workers -> {"none", "full", "short"}]
  /\ call \in [Workers -> Calls]
  /\ callKey \in [Workers -> 0 .. MaxRekeys]
  /\ mtx \in Workers \cup {None}
  /\ inFileOpen \in BOOLEAN
  /\ sendOnce \in BOOLEAN
  /\ switching \in BOOLEAN
  /\ sendUp \in BOOLEAN /\ recvUp \in BOOLEAN
  /\ sentReports \in Nat
  /\ acceptCall \in {"none", "travelling", "answered", "lost"}
  /\ outFile \in {"unopened", "open", "failed", "closed"}
  /\ receivedBlocks \subseteq Blocks
  /\ intact \subseteq Blocks
  /\ recvOnce \in BOOLEAN
  /\ recvReports \in Nat
  /\ sendKey \in 0 .. MaxRekeys
  /\ recvKey \in 0 .. MaxRekeys

\* A worker has a block in hand from the pop until the receiver has stored it.
\* The answer of an earlier attempt is still in call[w] until the next send.
InHand(w) ==
  \/ pc[w] \in {"read", "reading", "encrypt", "send"}
  \/ pc[w] \in {"check", "finish", "report", "await"} /\ call[w] \notin {"ok", "cut"}

\* Every block is in exactly one place: in the queue, in the hands of one worker,
\* or stored by the receiver.  No interleaving of the pool loses a block or has
\* two workers send the same one, also when blocks are refused and sent again.
BlockOwnership ==
  /\ \A b \in receivedBlocks : b < nextUnsent
  /\ \A w \in Workers : InHand(w) =>
       /\ blk[w] < nextUnsent
       /\ blk[w] \notin receivedBlocks
       /\ \A v \in Workers : InHand(v) /\ blk[v] = blk[w] => v = w
  /\ \A b \in Blocks : \/ b >= nextUnsent
                       \/ b \in receivedBlocks
                       \/ \E w \in Workers : InHand(w) /\ blk[w] = b

\* As long as the sender's input file is open and the output file could be
\* opened, every block the receiver counts has its bytes in the output file.  A
\* transfer that finds the flag of isDone1 spent keeps its input file open to
\* the end, so it never loses a byte.
NoLossWhileOpen ==
  inFileOpen /\ outFile # "failed" => receivedBlocks \subseteq intact

\* The early close of the input file can only damage blocks that were in some
\* worker's hands when the queue ran empty: the last block each worker took.
LossConfined ==
  outFile # "failed" =>
    \A b \in receivedBlocks \ intact :
      nextUnsent = NumBlocks /\ \E w \in Workers : blk[w] = b

\* The receiver reports the end of the transfer only when it counts every block,
\* and at most once.
ReceiverReportsComplete ==
  recvReports > 0 => recvReports = 1 /\ receivedBlocks = Blocks

\* Once the receiver has closed its output file no block arrives any more.
NoLateBlock == [][outFile = "closed" => UNCHANGED <<receivedBlocks, intact>>]_vars

\* Every worker thread ends, so the join in ~FileTransferSend returns: also when
\* the key changes between two attempts, between the encryption and the call, or
\* before the peer has it.  The exception is a handshake that ends a process (by
\* CopySpec nothing else does).
WorkersEnd ==
  (acceptCall = "answered") ~> ((\A w \in Workers : pc[w] = "exit") \/ ~sendUp \/ ~recvUp)

\* The first transfer a process completes is reported to its user, at the
\* receiver and at the sender, however the workers race through isDone1, unless a
\* handshake ends one of the processes.
FirstTransferReported ==
  /\ (acceptCall = "answered" /\ recvOnce) ~> (recvReports > 0 \/ ~sendUp \/ ~recvUp)
  /\ (acceptCall = "answered" /\ sendOnce) ~> (sentReports > 0 \/ ~sendUp \/ ~recvUp)

\* The transfer implements the promise of FileCopy: every block of an accepted file
\* is delivered once, whatever is refused on the way, and the end is reported with
\* the last one; without a handshake nothing breaks it off.
Copy == INSTANCE FileCopy WITH
  accepted <- acceptCall # "none",
  delivered <- receivedBlocks,
  reports <- recvReports,
  disturbed <- sendKey > 0 \/ recvKey > 0,
  broken <- ~sendUp \/ ~recvUp \/ acceptCall = "lost"

CopySpec == Copy!Spec

(* Claims of the program's messages that the code does not keep.           *)

\* "... was received successfully": the file reported to the user is the file
\* that was sent.
ReceivedIsIntact == recvReports > 0 => intact = Blocks

=============================================================================
