---------------------------- MODULE TransferSlot ----------------------------
(***************************************************************************)
(* Two linked processes that send each other files, one after the other    *)
(* and at the same time.  Each process has one AppState::fileTransfer,     *)
(* whichever way the file goes: a FileTransferSend or a FileTransferRecv.  *)
(* SendFile replaces it on the GUI thread, an incoming FileMeta on the RPC *)
(* thread; replacing a FileTransferSend joins its workers.                 *)
(*                                                                         *)
(* Neither an accept nor a block says which file it belongs to: both act   *)
(* on the object they find.  A block carries its file here (the model      *)
(* looks at where it ends up), but no handler tests it.                    *)
(*                                                                         *)
(* What happens inside one transfer (reads, closes, reports) is the        *)
(* subject of BlockTransfer.  The keys of the two processes agree, so      *)
(* every call can be decrypted, and their chat windows are open.           *)
(***************************************************************************)
EXTENDS Naturals

CONSTANTS
  Peers,       \* the two processes
  Senders,     \* those whose user sends files
  MaxFiles,    \* bound: files that each of them sends
  LastBlock,   \* number of the last block of every file
  None         \* no transfer object, or no file

Files == Senders \X (1 .. MaxFiles)
Blocks == 0 .. LastBlock

ASSUME PeersAssumption == \E p, q \in Peers : p # q /\ Peers = {p, q}
ASSUME SendersAssumption == Senders \subseteq Peers
ASSUME BoundsAssumption == MaxFiles \in Nat /\ LastBlock \in Nat
ASSUME NoneAssumption == None \notin Files

VARIABLES
  slot,         \* the file of the object fileTransfer points to
  alive,        \* the process has not called std::terminate
  gui,          \* where the GUI thread stands in SendFile or acceptTransfer
  guiJoins,     \* the file of the object that SendFile is destroying
  sent,         \* files this process has sent or begun to send
  accepting,    \* the file whose accept call the GUI thread waits for
  rpc,          \* the RPC thread is idle, or in the destructor a FileMeta calls
  rpcJoins,     \* the file of the object that ReceiveFileMeta is destroying
  accepted,     \* per file: its receiver's user has pressed Accept
  startedFor,   \* per file: the file whose accept started its workers
  blockAt,      \* per file and block: queued, travelling, refused or answered 0
  stored        \* per file: the blocks its FileTransferRecv has stored

guiVars == <<gui, guiJoins, sent, accepting>>
rpcVars == <<rpc, rpcJoins>>
workerVars == <<startedFor, blockAt>>
vars == <<slot, alive, guiVars, rpcVars, accepted, workerVars, stored>>

Init ==
  /\ slot = [p \in Peers |-> None]
  /\ alive = [p \in Peers |-> TRUE]
  /\ gui = [p \in Peers |-> "idle"]
  /\ guiJoins = [p \in Peers |-> None]
  /\ sent = [p \in Peers |-> 0]
  /\ accepting = [p \in Peers |-> None]
  /\ rpc = [p \in Peers |-> "idle"]
  /\ rpcJoins = [p \in Peers |-> None]
  /\ accepted = [f \in Files |-> FALSE]
  /\ startedFor = [f \in Files |-> None]
  /\ blockAt = [f \in Files |-> [b \in Blocks |-> "unsent"]]
  /\ stored = [f \in Files |-> {}]

\* The dynamic type of the object: a process sends its own files and receives
\* those of the other.
IsSend(p) == slot[p] # None /\ slot[p][1] = p

IsRecv(p) == slot[p] # None /\ slot[p][1] # p

Started(f) == startedFor[f] # None
Ended(f) == \A b \in Blocks : blockAt[f][b] = "answered"

\* ~FileTransferSend returns when the workers have ended; they end when the queue
\* is empty and every block has been answered 0.  An object without workers is
\* destroyed at once.  MutDestroyed does not join; MutDestroyedLate waits for the
\* blocks of a transfer that was never accepted, too.
MutDestroyed(f) == TRUE

MutDestroyedLate(f) == f # None => Ended(f)

Destroyed(f) == f # None => ~Started(f) \/ Ended(f)

-----------------------------------------------------------------------------
(* The GUI thread.                                                         *)

Offered(p) == <<p, sent[p]>>

\* SendFile: the new object takes the slot before the old one is destroyed.
SendFile(p) ==
  /\ alive[p]
  /\ gui[p] = "idle"
  /\ sent[p] < MaxFiles
  /\ sent' = [sent EXCEPT ![p] = @ + 1]
  /\ slot' = [slot EXCEPT ![p] = <<p, sent[p] + 1>>]
  /\ guiJoins' = [guiJoins EXCEPT ![p] = IF IsSend(p) THEN slot[p] ELSE None]
  /\ gui' = [gui EXCEPT ![p] = "joining"]
  /\ UNCHANGED <<alive, accepting, rpcVars, accepted, workerVars, stored>>

\* The old object is destroyed, sendMeta begins to hash the file.
EndGuiJoin(p) ==
  /\ alive[p]
  /\ gui[p] = "joining"
  /\ Destroyed(guiJoins[p])
  /\ guiJoins' = [guiJoins EXCEPT ![p] = None]
  /\ gui' = [gui EXCEPT ![p] = "hashing"]
  /\ UNCHANGED <<slot, alive, sent, accepting, rpcVars, accepted, workerVars, stored>>

\* sendMeta issues the FileMeta call and waits for it in the destructor of the
\* Future it does not keep.  When the RPC thread has replaced the slot meanwhile,
\* sendMeta runs on an object that is gone: it may still find its members there,
\* or the process ends.
SendMeta(p) ==
  /\ alive[p]
  /\ gui[p] = "hashing"
  /\ \/ /\ gui' = [gui EXCEPT ![p] = "offering"]
        /\ UNCHANGED alive
     \/ /\ slot[p] # Offered(p)
        /\ alive' = [alive EXCEPT ![p] = FALSE]
        /\ UNCHANGED gui
  /\ UNCHANGED <<slot, guiJoins, sent, accepting, rpcVars, accepted, workerVars, stored>>

\* The answer, whatever it is, lets SendFile go on to fileInitCallback, which
\* opens a transfer window for the object in the slot.
EndSendFile(p) ==
  /\ alive[p]
  /\ gui[p] = "answered"
  /\ gui' = [gui EXCEPT ![p] = "idle"]
  /\ UNCHANGED <<slot, alive, guiJoins, sent, accepting, rpcVars, accepted, workerVars,
                 stored>>

\* The Accept button of the window of a received file; onAccept hides it.
\* MutAcceptShown leaves it there.
MutAcceptShown(p) == IsRecv(p) /\ rpc[p] = "idle"

AcceptShown(p) == IsRecv(p) /\ rpc[p] = "idle" /\ ~accepted[slot[p]]

\* acceptTransfer opens the output file, calls FileTransferAccept and waits.
AcceptTransfer(p) ==
  /\ alive[p]
  /\ gui[p] = "idle"
  /\ AcceptShown(p)
  /\ accepted' = [accepted EXCEPT ![slot[p]] = TRUE]
  /\ accepting' = [accepting EXCEPT ![p] = slot[p]]
  /\ gui' = [gui EXCEPT ![p] = "accepting"]
  /\ UNCHANGED <<slot, alive, guiJoins, sent, rpcVars, workerVars, stored>>

-----------------------------------------------------------------------------
(* The RPC thread of q, which handles the calls of p one at a time.        *)

CanHandle(q, p) == p # q /\ alive[q] /\ alive[p] /\ rpc[q] = "idle"

\* ReceiveFileMeta: the slot is taken by a new FileTransferRecv, the old object
\* is destroyed ...
ReceiveFileMeta(q, p) ==
  /\ CanHandle(q, p)
  /\ gui[p] = "offering"
  /\ slot' = [slot EXCEPT ![q] = Offered(p)]
  /\ rpcJoins' = [rpcJoins EXCEPT ![q] = IF IsSend(q) THEN slot[q] ELSE None]
  /\ rpc' = [rpc EXCEPT ![q] = "joining"]
  /\ gui' = [gui EXCEPT ![p] = "handled"]
  /\ UNCHANGED <<alive, guiJoins, sent, accepting, accepted, workerVars, stored>>

\* ... and fileInitCallback opens its window.
EndRpcJoin(q, p) ==
  /\ p # q /\ alive[q]
  /\ rpc[q] = "joining"
  /\ gui[p] = "handled"
  /\ Destroyed(rpcJoins[q])
  /\ rpcJoins' = [rpcJoins EXCEPT ![q] = None]
  /\ rpc' = [rpc EXCEPT ![q] = "idle"]
  /\ gui' = [gui EXCEPT ![p] = "answered"]
  /\ UNCHANGED <<slot, alive, guiJoins, sent, accepting, accepted, workerVars, stored>>

\* ReceiveFileTransferAccept.  A FileTransferSend starts its workers, whichever
\* file was accepted; start() assigns over threads that are joinable when they
\* have been started before, which ends the process.  Any other object: -1.
ReceiveFileTransferAccept(q, p) ==
  /\ CanHandle(q, p)
  /\ gui[p] = "accepting"
  /\ gui' = [gui EXCEPT ![p] = "idle"]
  /\ accepting' = [accepting EXCEPT ![p] = None]
  /\ \/ /\ IsSend(q) /\ ~Started(slot[q])
        /\ startedFor' = [startedFor EXCEPT ![slot[q]] = accepting[p]]
        /\ UNCHANGED alive
     \/ /\ IsSend(q) /\ Started(slot[q])
        /\ alive' = [alive EXCEPT ![q] = FALSE]
        /\ UNCHANGED startedFor
     \/ /\ ~IsSend(q)
        /\ UNCHANGED <<startedFor, alive>>
  /\ UNCHANGED <<slot, guiJoins, sent, rpcVars, accepted, blockAt, stored>>

\* ReceiveFileBlock stores the block in whatever file is being received, accepted
\* or not: awaitingAccept is never set at the receiver.
ReceiveFileBlock(q, f, b) ==
  /\ CanHandle(q, f[1])
  /\ blockAt[f][b] = "travelling"
  /\ \/ /\ IsRecv(q)
        /\ stored' = [stored EXCEPT ![slot[q]] = @ \cup {<<f, b>>}]
        /\ blockAt' = [blockAt EXCEPT ![f][b] = "answered"]
     \/ /\ ~IsRecv(q)
        /\ blockAt' = [blockAt EXCEPT ![f][b] = "refused"]
        /\ UNCHANGED stored
  /\ UNCHANGED <<slot, alive, guiVars, rpcVars, accepted, startedFor>>

-----------------------------------------------------------------------------
(* The workers of the FileTransferSend of f.  There are more of them than  *)
(* blocks; they run whether or not the object is still in the slot.        *)

\* popBlock and the first sendBlock.
TakeBlock(f, b) ==
  /\ alive[f[1]]
  /\ Started(f)
  /\ blockAt[f][b] = "unsent"
  /\ \A c \in Blocks : c < b => blockAt[f][c] # "unsent"
  /\ blockAt' = [blockAt EXCEPT ![f][b] = "travelling"]
  /\ UNCHANGED <<slot, alive, guiVars, rpcVars, accepted, startedFor, stored>>

\* workerLoop sends a refused block again, for ever.
Resend(f, b) ==
  /\ alive[f[1]]
  /\ blockAt[f][b] = "refused"
  /\ blockAt' = [blockAt EXCEPT ![f][b] = "travelling"]
  /\ UNCHANGED <<slot, alive, guiVars, rpcVars, accepted, startedFor, stored>>

-----------------------------------------------------------------------------
Gui(p) == EndGuiJoin(p) \/ SendMeta(p) \/ EndSendFile(p)

Calls(q, p) ==
  \/ ReceiveFileMeta(q, p)
  \/ EndRpcJoin(q, p)
  \/ ReceiveFileTransferAccept(q, p)

Worker(f, b) == TakeBlock(f, b) \/ Resend(f, b)

Next ==
  \/ \E p \in Senders : SendFile(p)
  \/ \E p \in Peers : Gui(p) \/ AcceptTransfer(p)
  \/ \E p, q \in Peers : Calls(q, p)
  \/ \E f \in Files, b \in Blocks :
       Worker(f, b) \/ \E q \in Peers : ReceiveFileBlock(q, f, b)

Safety == Init /\ [][Next]_vars

\* Threads that can run do run, and an RPC thread that is idle handles each call.
\* Users need not press anything.
Fairness ==
  /\ \A p \in Peers : WF_vars(Gui(p))
  /\ \A p, q \in Peers : WF_vars(Calls(q, p))
  /\ \A f \in Files, b \in Blocks :
       WF_vars(Worker(f, b)) /\ \A q \in Peers : WF_vars(ReceiveFileBlock(q, f, b))

Spec == Safety /\ Fairness

-----------------------------------------------------------------------------
(* Properties.                                                             *)

GuiLabels ==
  {"idle", "joining", "hashing", "offering", "handled", "answered", "accepting"}

\* Types, and who stores what: a receiving object holds blocks of its peer's files
\* only, a slot holds a file that has been sent.
TypeOK ==
  /\ slot \in [Peers -> Files \cup {None}]
  /\ alive \in [Peers -> BOOLEAN]
  /\ gui \in [Peers -> GuiLabels]
  /\ guiJoins \in [Peers -> Files \cup {None}]
  /\ sent \in [Peers -> 0 .. MaxFiles]
  /\ accepting \in [Peers -> Files \cup {None}]
  /\ rpc \in [Peers -> {"idle", "joining"}]
  /\ rpcJoins \in [Peers -> Files \cup {None}]
  /\ accepted \in [Files -> BOOLEAN]
  /\ startedFor \in [Files -> Files \cup {None}]
  /\ blockAt \in [Files -> [Blocks -> {"unsent", "travelling", "refused", "answered"}]]
  /\ stored \in [Files -> SUBSET (Files \X Blocks)]
  /\ \A f \in Files : \A s \in stored[f] : s[1][1] = f[1]

\* So far at most one of the two processes has sent files.
OneWay == \E p \in Peers : sent[p] = 0

InFlight(f) == \E b \in Blocks : blockAt[f][b] \in {"travelling", "refused"}

\* The workers were started by the accept of their own file.
ProperlyStarted(f) == startedFor[f] = f

\* While only one side sends: when a properly started transfer has blocks on the
\* way, no other transfer has.  SendFile waits in the destructor of the old one
\* before the peer can hear of the new one, and nobody can start the new one
\* before that.
ProperTransferAlone ==
  OneWay => \A f, g \in Files :
    ProperlyStarted(f) /\ InFlight(f) /\ InFlight(g) => f = g

\* While only one side sends, the blocks of a properly started transfer are stored
\* in its own file, although no block says where it belongs.
ProperBlocksAtHome ==
  OneWay => \A f, g \in Files : \A b \in Blocks :
    ProperlyStarted(f) /\ <<f, b>> \in stored[g] => f = g

\* While only one side sends, a process ends itself in start() only when an accept
\* has started a transfer that it was not meant for.
OnlyStrayAcceptsKill ==
  OneWay => \A p \in Peers :
    ~alive[p] => \E f \in Files : f[1] = p /\ Started(f) /\ ~ProperlyStarted(f)

\* The RPC thread of p waits for workers whose blocks have not been answered.
RpcStuck(p) == rpc[p] = "joining" /\ ~Destroyed(rpcJoins[p])

\* However two senders cross, one of the two RPC threads still answers calls: when
\* both are in a destructor, both users are inside SendFile, and the transfer of
\* the one who pressed the button last cannot have been accepted since.
OneServerAnswers == \E p \in Peers : ~RpcStuck(p)

SomeoneDead == \E p \in Peers : ~alive[p]

\* SendFile returns: neither the join nor the FileMeta call blocks the GUI thread
\* for ever.
SendFileReturns ==
  \A p \in Peers : (gui[p] # "idle") ~> (gui[p] = "idle" \/ SomeoneDead)

\* It does when the other side never sends.
OneWaySendFileReturns == []OneWay => SendFileReturns

\* When only one side sends, a properly started transfer gets every block into its
\* file.
ProperTransferArrives ==
  []OneWay => \A f \in Files :
    ProperlyStarted(f) ~> ((\A b \in Blocks : <<f, b>> \in stored[f]) \/ SomeoneDead)

(* Claims of the documents that the code does not keep.                    *)

\* A block belongs to the file whose hash it carries.
BlocksInOwnFile ==
  \A f, g \in Files : \A b \in Blocks :
    accepted[g] /\ <<f, b>> \in stored[g] => f = g

=============================================================================
