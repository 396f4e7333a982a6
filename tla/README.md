# Verification of pg-bsk-project

The repository is a peer-to-peer chat program: two processes agree on a key, exchange encrypted
messages and send each other files. This directory holds TLA+ models of it, the TLC
configurations that check them and the TLAPS proofs about them. Paths below are relative to the
root of the repository; `app/`, `gui/` and `crypto/` are short for the directories under its `src/`.

## 1. The system

One process has one `AppState` and one `AppGUI`. These threads run in it:

- the **GUI thread** (`AppGUI::run`): buttons, dialogs and `tick`;
- one **RPC thread** (`rpcServer.async_run(1)`, `app/AppState.cpp:25`), which handles the calls of
  peers one at a time: `Kex`, `Message`, `FileMeta`, `FileTransferAccept`, `FileBlock`;
- one **chat thread** per chat window, which polls the received messages;
- 24 **worker threads** per file that is being sent;
- detached threads of `Future::Then`.

Few locks protect what they share: `FileTransfer::mtx`, `AppState::mutex` (the message queue),
`AppGUI::mtx` (the message boxes) and `ChatWindow::mtx` (the log).

| Component | State | Operations | Interacts with | What makes it correct |
|---|---|---|---|---|
| File transfer (`app/FileTransfer`) | block queue, shared input stream, workers, output stream, received blocks, a static "done" flag | `sendMeta`, `ackAccept`/`start`, `workerLoop`, `popBlock`, `sendBlock`, `acceptTransfer`, `receiveBlock`, `isDone1` | RPC calls `FileBlock`, `FileTransferAccept`; callbacks into the transfer window | every block arrives once and intact; the end is reported when it is reached; the workers end |
| Handshake (`AppState::ConnectAndHandshake`, `ReceiveKex`) | key pair, `sharedKey`, `client`, `theirIPAddress` | connect (GUI thread), receive (RPC thread) | `Kex` call; callback that asks for a chat window | linked peers have the same key; the window names the peer that messages go to; a handshake ends, and a Kex opens a window |
| Transfer slot (`AppState::fileTransfer`) | one pointer for both directions | `SendFile`, `ReceiveFileMeta`, `ReceiveFileBlock`, `ReceiveFileTransferAccept` | destroys a running transfer, which joins its workers | two transfers do not mix; replacing one does not block a thread for ever |
| Chat messages (`AppState`, `gui/Chat`) | `receivedMessages`, `exitFlag` | `SendMessage`, `ReceiveMessage`, `PushMessage`, `PopMessage`, the polling thread | `Message` call | received messages are shown once, in order |
| Application window (`gui/AppGUI`) | `msgBoxQueue`, `chatWindowNeeded`, the chat | `tryConnect`, `initiateChat`, `tick`, `msgBox` | set from the RPC thread | every notice is shown; a window belongs to the peer it names |
| Transfer window (`gui/windows/FileTransferWin`) | `needsUpdate` | `tick`, `onAccept`, `onUpdate`, `onFinish` | callbacks of workers and RPC thread | no update is lost; callbacks reach a window that exists |
| Key manager (`gui/windows/KeyManager`, `AppState`) | key pair, two files | generate, load, save | the handshake reads the key pair | the pair belongs together; what was saved can be loaded; the fingerprint is that of the key |
| Futures (`app/FuturePromise.hpp`) | a shared state per future | `SetValue`, `Get`, `Wait`, `Then` (a detached thread) | answers to `SendEncryptedPacket` | a callback runs once, after what it waits for; no exception is left to a detached thread |
| Packet encryption, random numbers, message serialisation, widgets | none that matters here | pure functions, layout | | |

What is hard: workers that share one stream and one counter; blocks in any order and sent again;
a handshake in both directions at once, with a key pair that changes meanwhile, or in the middle of a file; one transfer slot
for two directions; callbacks into windows that are replaced; destructors that join threads. The
program persists nothing but key files, so crashes matter only there. `PROJECT.json` lists every
hazard at its line, with the properties that cover it, or the reason why none does.

## 2. Modules

| Module | Contents |
|---|---|
| `BlockArithmetic` | `getNumBlocks`, `bytesCompleted`, `isDone` as operators |
| `BlockArithmeticProofs` | what they guarantee for every file and block size |
| `FileCopy` | abstract: an accepted file arrives, each block once, and its end is reported at most once, with the last block; only a handshake meanwhile may break it off |
| `BlockTransfer` | one transfer in detail; implements `FileCopy` |
| `BlockTransferProofs` | its safety, for every number of workers |
| `MCBlockTransfer` | symmetry of the workers, for `received_is_intact` |
| `Handshake` | any number of processes that connect to each other |
| `HandshakeProofs` | types, agreement and the names of windows in a star |
| `TransferSlot` | the one transfer object of each of two processes that may both send files |
| `TransferSlotProofs` | types for any senders, one RPC thread that answers; what holds when only one side sends |
| `MessageOrder` | abstract: messages are seen once and in the order of sending |
| `ChatSession` | messages, handshakes, chat threads and windows; implements `MessageOrder` |
| `ChatSessionProofs` | its safety: types, one chat thread, the refinement of `MessageOrder` |
| `KeyStore` | a key pair and its two files |
| `KeyStoreProofs` | all safety properties of `KeyStore` |
| `AppGui` | message boxes, chat windows, transfer windows and the callbacks of transfers into them |
| `AppGuiProofs` | all safety properties of `AppGui` |
| `FuturePromise` | `Future`, `Promise` and `Then`: trees of futures and the threads that complete them |
| `FuturePromiseProofs` | all safety properties of `FuturePromise` |

The modules are cut along the shared state they are about, and each one keeps of its neighbours
what it needs: `BlockTransfer` and `ChatSession` have handshakes as changes of key and client,
`TransferSlot` has a transfer as a set of blocks on their way, `AppGui` has it as two counters and a peer
that answers.

### BlockTransfer

The state is that of one `FileTransferSend`, of its workers, and of one `FileTransferRecv`.
`unsentBlocks` only loses its front, so it is the number `nextUnsent` of the block at the front.
A worker's program counter names a position in `workerLoop` or `sendBlock`; `call[w]` is its
`FileBlock` call on the way to the receiver or its answer. `buf[w]` tells whether the last read
yielded the block (`full`) or nothing (`short`), and `intact` holds the blocks whose bytes are in
the output file. `sendKey` and `recvKey` number the handshakes; `callKey[w]` is the one a block was
encrypted with, because `SendEncryptedPacket` reads the key and the client one after the other.
`sendOnce` and `recvOnce` are the static flag of `isDone1` in either process;
the flag is never set again after the first transfer, so both values are initial states.

| Action | Code |
|---|---|
| `AcceptTransfer`, `AckAccept` | `FileTransferRecv::acceptTransfer`, `FileTransferSend::ackAccept` and `start` |
| `PopBlock` | `popBlock`, and the end of `workerLoop` |
| `BeginRead`, `EndRead`, `Encrypt`, `SendBlock`, `IsDone1Test`, `CloseInFile`, `ReportSent` | the stretches of `sendBlock` and `SendEncryptedPacket` that others can come between |
| `TakeAnswer` | the answer, the retry and `onUpdate` in `workerLoop`; without an answer `f.Get()` throws and the process ends |
| `ReceiveBlock`, `RefuseBlock` | `ReceiveFileBlock` with `receiveBlock`, or its answer -2 |
| `SenderTakesKex`, `ReceiverFinishes` | a handshake the receiver starts: `ReceiveKex` of the sender up to the new key; the rest of `ConnectAndHandshake` |
| `ReceiverTakesKex`, `SenderTakesAnswer` | one the sender starts |
| `SwitchClient` | the assignment to `client` at the sender, in either; the old client is destroyed |

A handshake may come at any moment of the transfer. Blocks with the other key are refused and sent again. A
call whose client is destroyed before its answer has come stays without one (`Unanswered`), whether or not the
receiver has stored its block or stores it yet (`CutOff`): the worker's `f.Get()` throws, nobody catches it,
and the process ends (`sendUp`). Once a new chat window has replaced the one the transfer's callbacks point
into (`SenderHasNewChat`, `ReceiverHasNewChat`), each of the callbacks may end the process as well; `AppGui`
says when it does.

Simplifications. The close of the input stream in `sendBlock` takes no lock; a read it hits may
come back complete or short, and other outcomes of that data race (a crash) are not modelled. The checksum always matches, because it
is computed from the bytes that were read. A block encrypted with another key is noticed, as it is by the
default mode `CHACHA20_POLY1305`. Two handshakes do not overlap (`Handshake` has those), and none fails. The
receiver only receives. `awaitingAccept` is left out: the sender never tests it and at the
receiver it is never set. Files are not empty: an empty one has no block
(`EmptyFileHasNoBlocks`) and no worker ever sends, tests or reports anything.

### Handshake

A shared key is named by the handshake it comes from, `<<initiator, number>>`, because both ends of
one handshake derive the same key. A key pair is a number; a signature verifies when
the private key used has the number of the public key sent. The GUI thread of a process goes from
`idle` to `waiting` (`Connect`), `keyed` (`TakeResponse`), `addressed` (`SetAddress`), `connected`
(`SwitchClient`) and back (`OpenChat`), or to `ticking` (`BeginTick`, `EndTick`) when the Kex callback asked for a chat
window. Its RPC thread takes a Kex (`ReceiveKex`: new shared key, public key copied), signs and
connects back (`ConnectBack`: `answer`, new client), and answers (`AnswerKex`: address, callback). The two threads
write `client` and `theirIPAddress` in opposite orders, and a window is named after the address it finds
when it is built. `rejectedBy[p]` and `owed[p]` are history: the peers whose last answer did not verify at
`p`, so that its user was told, and the window that a Kex has yet to open, or that it never will because
its notice came before the callback was set or between the two halves of `tick`. `GenerateKey` is the key manager's button. A
process is `starting` until the constructor of `AppGUI` has set the callback. `Initiators` are the
processes whose user presses Connect, `Targets` those whose address is entered; a process may be both.
The elliptic-curve operations and the connection itself do not fail.

### TransferSlot

A file is `<<sender, number>>`; `slot[p]` is the file of the object that `fileTransfer` of process `p`
points to, and its first component tells the dynamic type of that object. The GUI thread goes through
`SendFile` (`SendFile`, `EndGuiJoin`, `SendMeta`, `EndSendFile`) or presses Accept (`AcceptTransfer`);
the RPC thread takes a `FileMeta` (`ReceiveFileMeta`, `EndRpcJoin`), an accept
(`ReceiveFileTransferAccept`) or a block (`ReceiveFileBlock`). `TakeBlock` and `Resend` are the workers.
`startedFor[f]` remembers which accept started the workers of `f`: an accept carries nothing, so it
need not be that of `f`. A transfer is *properly started* when it is. `Destroyed` is the condition
under which a destructor returns. `start` on an object that already has workers assigns over running
threads, which ends the process (`alive`). A FileMeta that cannot be decrypted is left out: the keys
of the two processes agree.

### ChatSession

Messages go in one direction. `sent` to `wire` are the sender's: `Encrypt` takes the key and the mode,
`AsyncCall` the client, and between the two the RPC thread may replace either. `received` is
`receivedMessages`; `hand[w]` is what the thread of chat `w` has popped and not yet shown. `seen` and
`odd` are what the user was shown: a message is in `seen` when it was decrypted with the right key and
sent on the connection of that key.

| Action | Code |
|---|---|
| `Encrypt`, `AsyncCall`, `AnswerArrives` | `onSend`, `SendMessage`, `SendEncryptedPacket`; the answer |
| `SenderEnds` | the exception of a broken promise, rethrown by `pr.get()` in the detached thread of `Then` |
| `ReceiveMessage` | `ReceiveMessage`, `PushMessage` |
| `SenderConnects`, `ReceiverTakesKex`, `SenderFinishes` | `ConnectAndHandshake` of the sender |
| `ReceiverConnects`, `SenderTakesKex`, `SenderAnswers`, `ReceiverFinishes`, `ReceiverFails` | `ConnectAndHandshake` of the receiver; the sender's RPC thread between the two assignments of `ReceiveKex` |
| `Tick`, `BuildWindow`, `StartChat`, `ClearNeeded` | `tick` and `initiateChat`: new window, exit flag, join, new thread |
| `TestExit`, `PopMessage`, `Show` | the loop of `Chat::start` |

External: that destroying an `rpc::client` delivers a prefix of what it was to send and breaks the
promises of unanswered calls is rpclib's and the standard library's; the sources here only show that
nobody catches the exception. A key is read and written whole. Two handshakes do not overlap here;
`Handshake` has those.

### KeyStore

A key pair is a number, the content of a `.key` file is that number and a passphrase. Each file
operation of a load or save is a step (`gui` names the next one), each opening and writing may fail,
and `Restart` ends the process before any step. `saved`, `damaged`, `failed` and `loose` are history:
what the user was told, and whether a step has failed since. Small contents reach a file when it is
closed, so a file is whole or empty. `LoadPrivateKey` derives the public key and `LoadPublicKey` then
replaces it by whatever the `.pub` file holds, without a comparison; a pair from two files that need
not belong together is `loose`.

### AppGui

One process, its windows and its transfers. `gui` and `rpc` say where the two threads stand; `chat` is
the window of the current `Chat`, `ftWin[c]` the transfer window of chat window `c`. A transfer window
points to a file (`transfer`) and to its chat window (`inChat`); a transfer calls back into the window
`cbWin[f]`, and `AppState` into the chat windows `initCb` and `finishCb`. Each of these four may be
left behind when what it points to is destroyed. `LiveChat`, `LiveWin` and `LiveFile` say what exists;
when code touches what does not, `stray` names that code and the model stops: what freed memory does
is not modelled. A transfer is its counters: `done` blocks received or taken off the queue, `answered`
blocks whose answer the workers have had.

| Action | Code |
|---|---|
| `MsgBox`, `Tick` | `msgBoxStr`; the loop over `msgBoxQueue` in `AppGUI::tick`, where `ShownFor` shows the back for every message |
| `TryConnect`, `ReceiveKex` | a handshake by the GUI thread, or by the RPC thread with the callback that sets `chatWindowNeeded` |
| `BuildWindow`, `InitiateChat`, `ClearNeeded` | `initiateChat`: the new window sets both callbacks, then the old one is destroyed and clears one of them |
| `ShowMessage` | `println` of a message of either user |
| `Paint`, `Refresh`, `EndRefresh` | `ChatWindow::tick` with `updateLog`; `FileTransferWin::tick`, whose flag is cleared after `onUpdate` |
| `SendFile`, `InitSent`, `EndSendFile` | `SendFile`: the slot, then `fileInitCallback`, which builds a window and puts it in place |
| `ReceiveFileMeta`, `InitReceived`, `EndFileMeta` | the same on the RPC thread |
| `EndJoin` | `~FileTransferSend` |
| `AcceptTransfer`, `EndAccept` | the Accept button: `acceptTransfer` with `onAccept`; the handler returns into the button |
| `ReceiveFileTransferAccept` | `ackAccept` with `onAccept` |
| `ReceiveFileBlock`, `UpdateReceived`, `ReportReceived` | `receiveBlock`: stores, calls `onUpdate`, reports the end |
| `PopBlock`, `ReportSent`, `UpdateSent` | the workers |

Simplifications. The peer is one that answers, and sends each block of a file once. A `FileMeta` may come
at any time, and once some received file has been accepted blocks come and are stored by whatever object is
in the slot, accepted or not. The test of
`isDone1` and the callback are one step (`BlockTransfer` has the race between them). `TryConnect` is a
handshake that succeeds, and `ReceiveKex` comes only when the last one has been served (`Handshake` has
the others). The log is the number of lines added to it, and `tall[c]` tells whether the last of them alone
is taller than the box: `updateLog` takes lines off the front until the rest fits, which leaves the last
one, or nothing if that is too tall (`Painted`). Messages (`ShowMessage`) are added while there are fewer than
`MaxLines`; both ends of a transfer add one in any case. A second accept of one object, which ends the process, is a
subject of `TransferSlot`.
Handlers of the mouse run between two ticks, on the GUI thread. Files are not empty.

What the model showed, and what `StraysExplained`, `WindowShowsSlot` and `NoSecondAccept` therefore except:
after a second handshake the new chat has no init callback, no transfer window opens and the end of a
transfer is reported through a window that is not there; when a `SendFile` crosses a `FileMeta`, both
init callbacks may find the same file in the slot and build two windows for it, each with an Accept
button; when the peer accepts before `SendFile` has opened its window, the transfer may end without one.

### FuturePromise

A future is a number, in the order of making; `parent[f]` is the one `Then` was called on, `root[f]` the
root of its tree. A root is the future of a `Promise` (`NewPromise`, `Set`, `DestroyPromise`) or that of the
`std::async` in `SendEncryptedPacket` (`SendEncryptedPacket`, `Answer`), which need not ever be answered. `result`
is the shared state. `thread[g]` is the detached thread that completes `g`: it waits for the parent
(`WaitReturns`), runs its callback and sets `g` (`CallbackReturns`), or is left by an exception
(`WaitReturns` on a failed parent with a value, `CallbackThrows`), which ends the process. The four forms of
`Then` differ in whether the parent and the new future are `void`. One caller makes futures, chains to them,
waits for them (`Get`) and drops them (`Drop`; `Waits` is the destructor of a last reference to a future of
`std::async`). External: what `std::promise`, `std::shared_future` and `std::async` do.

## 3. Runs

| Run | Shows |
|---|---|
| `transfer_live` | 2 workers, 3 blocks, a handshake from either side at any moment, an output file that may not open, fair: `BlockOwnership`, `NoLossWhileOpen`, `LossConfined`, `ReceiverReportsComplete`; nothing arrives after the output file is closed, and unless the handshake ends a process the workers end, the first transfer of a process is reported at both ends, and the transfer implements `FileCopy` (every block arrives) |
| `handshake_star` | 2 initiators, 2 targets, 2 attempts each, one new key pair at each target, so that answers are rejected: `PeersAgree`, `WindowNamesClient` |
| `handshake_live` | 2 processes that connect to each other, 2 attempts each, one new key pair each: handshakes end, and after every Kex a new chat window opens unless its notice was lost |
| `transfer_slot` | both processes send 2 files of 2 blocks: one RPC thread always answers; in the behaviours where one side sends, properly started transfers are alone, keep their blocks together and arrive, `SendFile` returns, only stray accepts end a process |
| `chat_session` | 2 messages, 2 handshakes from either side: messages are shown once and in order by one thread at a time, queued messages are shown, the join of a chat thread returns, a message that is not shown was refused or ends its process |
| `key_store` | 2 names, 2 passphrases, 3 pairs, every failure and end of the process: `PairMatches`, `SavedIsLoadable`, `FingerprintIsCurrent` |
| `app_gui` | 2 chats, 2 files of 2 blocks in either direction, messages that fit or do not, 2 message boxes: what it takes to touch a destroyed window or transfer, which transfer the window shows, when its progress may be behind; the last line of the log is painted unless it is too tall, the last notice is shown |
| `future_promise` | every tree of up to 3 futures: callbacks in the order of their chain, and all of them; a failure stops a chain unless the future is `void`; nobody waits for what does not come |
| `received_is_intact` | violated: the file reported as received has holes |
| `peers_agree_crossing` | violated: two handshakes at once leave different keys |
| `blocks_in_own_file` | violated: blocks of the next file are stored in the one just accepted |
| `send_file_returns` | violated: both send, one RPC thread waits for workers whose blocks are refused, `SendFile` of the peer never returns |

**Bounds.** The pool's races need one worker that has a block in hand and one that passes `isDone1`
or finds the queue empty; two workers and three blocks (the last one short) give every combination of
two positions, also with a worker that comes round again; the proofs cover any number of workers,
blocks and handshakes. One handshake refuses blocks of both workers, cuts calls off at every stage and takes the
windows away; in `chat_session` two let a second chat replace the first while the first one's
messages are still being shown. Two attempts let a process overwrite an existing link, and let a rejected attempt
come before or after one that succeeds; one new key pair is what it takes to reject. Two
targets let an initiator leave a target behind. Two files per sender let a stray accept start the
second one; two blocks let one be answered while the other is refused. Two messages show an order, two
key pairs a pair of files that do not belong together; the process starts with a new pair, so the third lets it end
while a pair is saved over an older one. In `AppGui` two chats leave callbacks behind, two
files, in the same or in opposite directions, replace an object and a window, two blocks separate an update
from the last one, two lines let one that is too tall come before or after one that fits, two notices show the order of
the queue. Three futures are a root, its chain and the
chain of that, or two chains of one root; the proofs cover any tree. TLC does not check for deadlock where
the system comes to an end: a transfer, a set of handshakes, a chat, a tree of futures, a process whose code has touched what is
destroyed. That they do not end early is what the liveness properties say. `key_store` is checked for deadlock.
No run with a liveness property uses symmetry.

**Fairness.** Weak fairness of each worker, of the RPC thread for each call, of both threads of a
process: the operating system runs a thread that can run, and a call between two live peers is
answered. The mutex is not assumed to be fair: a worker blocked on it may wait as long as others
take it, and they can only do so as often as there are blocks. Nobody is assumed to press a button.
A handshake during a transfer that has begun is finished (`FinishRekey`), but nobody need start one. In `TransferSlot` the
destructor of an object, a call and its answer, and every resend are fair; in `ChatSession` every thread
and every call that is on a connection, the detached thread with an exception included. A call to or from a
process that has ended need not be handled, and its caller need not return. In `AppGui` the GUI thread (which ticks for ever), the RPC thread
inside a handler and each file's workers are fair, the user and the peer are not. In `FuturePromise` the
detached threads and the caller's return are: callbacks end, but no promise need be set, no call answered.

## 4. Proofs

Assumed are the named assumptions of the modules only: finitely many workers, at least one,
a file and a block size that are not zero, natural bounds. The inductive invariant of a module, with its
parts, stands at the top of its proof module.

`BlockTransferProofs` proves `Safety => []IInv`. The properties alone are not inductive; `IInv` adds
what they rest on. `MutexInv`: the holder of the mutex is in the read section. `AcceptInv`: nothing
runs before the accept. `RekeyInv`: only a handshake switches clients or cuts a call off. `CallInv`: a call is travelling only while its worker waits for it, so that
"in hand" and "stored" exclude each other, also for a call whose client is gone and which may still arrive. `InputInv`: the input file is closed only when the queue is
empty, and a read that began before yielded the block. `OutputInv`: the flag, the report and the
close of the receiver go together. `BlockOwnership` is the centre: a block that is stored was in one
worker's hands and missing at the receiver, so it arrives once, after the close none can arrive, and
`Deliver` of `FileCopy` is enabled. The arithmetic (`DoneIffAllBlocks`) turns the tests of `isDone`
into "the queue is empty" and "all blocks are stored". One lemma per action shows that it preserves
`IInv`. The theorems: `TypeCorrect`, `EveryBlockInOnePlace`, `NoByteLostWhileOpen`,
`OnlyLastBlocksDamaged`, `ReceiverReportsOnlyAll`, `NoBlockAfterClose`, and
`TransferImplementsCopy` (safety part of the refinement, where a handshake is a `Disturb` step, and whatever ends a process
comes after one).

`HandshakeProofs` proves the types for every topology (with `RolesInv`: who is inside a handshake, and
with whom), and for `Star`, where initiators and targets are different processes, `PeersAgree`
(`StarAgrees`) and `WindowNamesClient` (`StarNamesClients`), for any number of attempts and key pairs. `StarInv`: an
initiator that goes on from an answer has the key of its last handshake, a target that of the initiator it serves. `LinkInv`: a
target that is linked to an initiator and serves nobody has the key of the initiator's attempt while that
is succeeding; otherwise it has the initiator's own key, unless the initiator is linked to somebody else, is about
to take its answer, or has rejected it. `WindowInv`: address and client belong together except between the two
assignments to them, in whichever order a thread makes these, and the window and the address except while a window is owed. `peers_agree_crossing` shows that
`Star` is needed.

`TransferSlotProofs` proves the types for any senders (with `GuiInv`), and for behaviours in which one
process sends, `ProperTransferAlone` and `ProperBlocksAtHome`. The invariant says how the receiver `r` follows
the sender `s`: it is at most one file behind, and only while `s` is still offering (`FollowInv`); it has
accepted no file that it has not heard of (`AcceptedInv`); workers that have not ended belong to the
object in the slot or to the one being destroyed (`RunningInv`); a properly started transfer finds its
own file at `r` until it has ended, and the accept of `r` is spent, so nothing can start another one
(`HomeInv`). The condition is part of the invariant, because a second sender may start at any step.
`OnlyStrayAcceptsKill` follows: while an accept of `r` waits, `HomeInv` rules out that the object in the slot
has been started by its own. `OneServerAnswers` holds with any senders. `OfferInv`: an object for sending in the
slot is the last one `SendFile` made, only offered files have been started, and the GUI thread sends
nothing while it waits for the answer to an accept. `CrossInv`: while `p` is inside `SendFile` it accepts nothing,
so what it offers and what `q` has in its slot or destroys have not both been started; of two objects being
destroyed one is the last of its process.

`KeyStoreProofs` proves all properties of `KeyStore` with `SaveInv` (while a save has not failed, the steps it
has done are in the files, and the name counts as damaged until the last one) and `LoadInv` (between
the two halves of a load the public key is the derived one, and the name's file has that key), so
that a `.pub` file of an intact pair replaces the public key by the same one.

`FuturePromiseProofs` proves all safety properties of `FuturePromise` for any number of futures in any trees.
`TreeInv` says that every future hangs in the tree of its root and that what `Then` made holds its callback's
value or nothing, never an exception; `WaitInv` that a thread past its wait has found a value, or a result it
does not ask for; `EndInv` that the process ends with such a thread. From a callback that has begun, the
chain of done callbacks leads to a root that is set; a thread that failed waited for a root, because only
roots fail; a future to which something is chained keeps a reference, so dropping it does not wait.

`ChatSessionProofs` proves the safety of `ChatSession` for any number of messages and handshakes. `WindowInv`:
only the thread of the current chat runs, and while `initiateChat` joins it the next window is there.
`KexInv`: a handshake opens at most one window, and keys are those of handshakes begun. `DraftInv`: a message
that is encrypted and not yet called with is the latest. `WireInv`: a connection keeps the order of the messages, and
a later key means a later message, on whatever connection. `QueueInv`: what has been seen comes before what a
thread is about to show, that before what is in the queue, and that before every message on its way that may yet
be read rightly (`Ahead`). A message that is read rightly was sent on the connection its key belongs to, and the
receiver has that key; so it is the first of its connection, what follows there is later, and what is on later
connections has a later key. Losing messages at either end of a connection disturbs none of this (`ShortenedInv`), nor does a
new key, since keys only grow. The theorems: `TypeCorrect`, `OneThread`, `MessagesInOrder`, which is the refinement
`OrderSpec` itself, because `MessageOrder` asks for no liveness.

`AppGuiProofs` proves the safety of `AppGui` for any number of chats, files, blocks and notices: `TypeCorrect`,
`StraysHaveCauses` (`StraysExplained`), `WindowIsAboutSlot` (`WindowShowsSlot`), `AcceptedOnce`
(`NoSecondAccept`) and `BarHonest` (`ProgressHonest`). `CountInv`: chats and transfer windows are no more than
handshakes and files that were to open them. `ChatInv`: the window built last is that of the current chat,
except while `initiateChat` has yet to destroy the old one, and only the first chat keeps an init callback.
`ThreadInv`: what each thread is at fits the object in the slot. `WinInv` and `InsideInv`: a window belongs to a
chat and a transfer that existed when it was built, and a transfer calls back into that window or a later
one, and the GUI thread leaves the window it has entered. `FileInv`: only an accepted transfer sends blocks, a received one
has been accepted in its window, and workers belong to a transfer that is still there. `BlockInv`: a block arrives, in whatever
object, only once a received file has been accepted, and then, in the first chat and while one side sends, the object in
the slot has a window: the end of a transfer that was never accepted is reported through that one.
`OneWayInv`, on condition that one side sends: only one thread works on the slot, a file has at most one
window, and the window of an accepted file has no button. `FirstChatInv`, in the first chat: the window of the
slot's file is being placed or is in the chat window. `ProgressInv`: what a window does not show while its
flag is clear was missed between `onUpdate` and the assignment that clears the flag. Because the properties
ask what still exists, every step needs that nothing destroyed comes back (`LiveFileStep`,
`LiveChatStep`, `OldWindow`, `StillWatching`).

The types (`TypeOK`) of `BlockTransfer`, `Handshake`, `TransferSlot`, `KeyStore` and `FuturePromise` are proved and
in no run.

`BlockArithmeticProofs`: the number of blocks, the length of each and `isDone` for every file and block size.

Only model-checked: all liveness properties, and the liveness part of `FileCopy`. Liveness is out of the prover's reach.

## 5. Plan

1. Done, with proofs: `BlockArithmetic`, `FileCopy`, `BlockTransfer`, `Handshake`, `TransferSlot`, `KeyStore`, `FuturePromise`,
   `MessageOrder`, `ChatSession`, `AppGui`: every safety property of every run that passes is a theorem.
2. A FileMeta that cannot be decrypted in `TransferSlot`, and failures of the connection in `Handshake`.
3. Findings that have no run yet: a notice of a Kex is lost during `tick`; a message that is unanswered at a
   handshake ends the process; of two message boxes the first is never shown.

## 6. Not modelled

- Packet encryption and the wrappers of the cryptographic libraries (`crypto/Crypto.*`, `crypto/CryptoObjects.*`):
  library calls without state of their own. The modules use what they promise.
- Random numbers: freshness is assumed.
- Serialisation of `FileMeta` and `FileBlock`: pure.
- Layout and input widgets (`AddressWindow`, `MessageBox`, `PasswordField`, the drawing of every window); of the lines
  that `updateLog` drops only the last one is followed.
- Empty files: they have no block, and their progress is 0/0.
- Memory after it has been freed: a stray access stops `AppGui`, and ends the process or not in `ChatSession` and
  `TransferSlot`.
- The test programs: manual, read as documentation.
