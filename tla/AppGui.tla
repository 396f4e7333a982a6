-------------------------------- MODULE AppGui --------------------------------
(***************************************************************************)
(* The user interface of one process: message boxes, chat windows, and the *)
(* transfer window that each chat window may have.  Transfers and chats    *)
(* come and go on two threads: the GUI thread connects, sends files,       *)
(* accepts and redraws (tick), the RPC thread takes handshakes, FileMeta,  *)
(* accepts and blocks; workers of a transfer come on top.  All of them     *)
(* reach the windows through callbacks: initCb and finishCb of AppState,   *)
(* and onAccept and onUpdate of a transfer.                                *)
(*                                                                         *)
(* Windows are destroyed with their chat or when a new transfer window     *)
(* takes their place, transfers when the slot is reused.  What is touched  *)
(* after that is a stray access; the model stops there.                    *)
(*                                                                         *)
(* ChatSession has the messages and the chat threads, TransferSlot the two *)
(* processes behind the transfers, BlockTransfer the race in isDone1: the  *)
(* test and the callback after it are one step here.                       *)
(***************************************************************************)
EXTENDS Naturals, Sequences

CONSTANTS
  MaxChats,     \* bound: handshakes
  MaxFiles,     \* bound: files sent and received
  NumBlocks,    \* blocks of every file
  MaxNotices,   \* bound: calls of msgBox, all before a tick that shows boxes
  MaxLines      \* bound: messages are shown in a window with fewer lines

Chats == 1 .. MaxChats
Files == 1 .. MaxFiles
Wins == 1 .. MaxFiles       \* transfer windows; at most one per file is opened
Threads == {"gui", "rpc"}

ASSUME BoundsAssumption ==
  /\ {MaxChats, MaxFiles, MaxNotices, MaxLines} \subseteq Nat
  /\ NumBlocks \in Nat \ {0}

VARIABLES
  (* AppGUI *)
  gui,          \* where the GUI thread stands
  ticking,      \* initiateChat was called by tick
  inside,       \* the transfer window whose code the GUI thread executes; 0: none
  needed,       \* chatWindowNeeded
  handshakes,   \* handshakes so far
  windows,      \* chat windows built so far
  chat,         \* the window of the current chat; 0: none
  notices,      \* msgBoxQueue; notices are numbered
  boxes,        \* the notices in the message boxes that have been opened
  (* ChatWindow *)
  log,          \* per chat window: lines added to its log
  tall,         \* per chat window: the last of them is taller than the box
  bufChanged,   \* per chat window
  painted,      \* per chat window: the last line that is in its box; 0: none
  ftWin,        \* per chat window: its transfer window; 0: none
  (* FileTransferWin *)
  opened,       \* transfer windows opened so far
  building,     \* per thread: the one it is putting in place; 0: none
  inChat,       \* per transfer window: cWin
  transfer,     \* per transfer window: the file it points to
  needsUpdate,  \* per transfer window
  shown,        \* per transfer window: the blocks in its progress bar
  button,       \* per transfer window: the Accept button is visible
  lagging,      \* transfer windows that have missed an update
  (* AppState *)
  initCb,       \* the chat window of fileInitCallback; 0: it does nothing
  finishCb,     \* the chat window of fileFinishCallback; 0: there is none
  slot,         \* the file of fileTransfer; 0: none
  joins,        \* per thread: the file whose object it is destroying; 0: none
  rpc,          \* where the RPC thread stands
  handling,     \* the file whose block it has stored
  (* FileTransfer *)
  made,         \* files so far
  kind,         \* per file: "send" or "recv"; "none": not made
  accepted,     \* per file
  early,        \* files accepted before SendFile has opened their window
  done,         \* per file: blocks received, or taken off the queue
  answered,     \* per file that is sent: blocks answered and reported to onUpdate
  cbWin,        \* per file: the window of onAccept and onUpdate; 0: not set
  flag,         \* the static flag of isDone1
  (* what went wrong *)
  stray         \* the code that has touched something destroyed; "none"

chatVars == <<needed, handshakes, windows, chat, initCb, finishCb>>
noticeVars == <<notices, boxes>>
logVars == <<log, tall, bufChanged, painted>>
placeVars == <<ftWin, opened, building, inChat, transfer>>
drawVars == <<needsUpdate, shown, button, lagging>>
slotVars == <<slot, joins, made, kind>>
rpcVars == <<rpc, handling>>
fileVars == <<accepted, early, done, answered, flag>>
guiVars == <<gui, ticking, inside>>
deskVars == <<chatVars, noticeVars>>
windowVars == <<logVars, placeVars, drawVars>>
transferVars == <<slotVars, fileVars, cbWin>>
vars == <<guiVars, chatVars, noticeVars, logVars, placeVars, drawVars, slotVars,
          rpcVars, fileVars, cbWin, stray>>

Init ==
  /\ gui = "idle" /\ ticking = FALSE /\ inside = 0
  /\ needed = FALSE /\ handshakes = 0 /\ windows = 0 /\ chat = 0
  /\ initCb = 0 /\ finishCb = 0
  /\ notices = <<>> /\ boxes = <<>>
  /\ log = [c \in Chats |-> 0]
  /\ tall = [c \in Chats |-> FALSE]
  /\ bufChanged = [c \in Chats |-> FALSE]
  /\ painted = [c \in Chats |-> 0]
  /\ ftWin = [c \in Chats |-> 0]
  /\ opened = 0 /\ building = [h \in Threads |-> 0]
  /\ inChat = [w \in Wins |-> 0]
  /\ transfer = [w \in Wins |-> 0]
  /\ needsUpdate = [w \in Wins |-> FALSE]
  /\ shown = [w \in Wins |-> 0]
  /\ button = [w \in Wins |-> FALSE]
  /\ lagging = {}
  /\ slot = 0 /\ joins = [h \in Threads |-> 0]
  /\ made = 0 /\ kind = [f \in Files |-> "none"]
  /\ rpc = "idle" /\ handling = 0
  /\ accepted = [f \in Files |-> FALSE] /\ early = {}
  /\ done = [f \in Files |-> 0]
  /\ answered = [f \in Files |-> 0]
  /\ cbWin = [f \in Files |-> 0]
  /\ flag = TRUE
  /\ stray = "none"

Running == stray = "none"

\* A chat window lives from its constructor to the destructor of its Chat, a
\* transfer window until its chat window is destroyed or gets another one, a
\* transfer until the slot is reused and its workers have been joined.
LiveChat(c) == c # 0 /\ c \in {chat, windows}
LiveWin(w) ==
  w # 0 /\ \/ \E h \in Threads : building[h] = w
           \/ LiveChat(inChat[w]) /\ ftWin[inChat[w]] = w
LiveFile(f) == f # 0 /\ f \in {slot, joins["gui"], joins["rpc"]}

IsSend(f) == f # 0 /\ kind[f] = "send"
IsRecv(f) == f # 0 /\ kind[f] = "recv"

\* The blocks of file f for which onUpdate has been called, or is about to be.
Reported(f) == IF IsSend(f) THEN answered[f] ELSE done[f]

\* ~FileTransferSend can return: there are no workers, or they have ended.
\* MutEnded does not wait for them.
MutEnded(f) == TRUE

Ended(f) == accepted[f] => answered[f] = NumBlocks

-----------------------------------------------------------------------------
(* What the callbacks do.                                                  *)

\* fileInitCallback: thread h builds a transfer window for whatever is in the slot,
\* with which that transfer calls back from now on; updates that came before are
\* missed.  MutInitTarget leaves it at the window that is there.
MutInitTarget == IF initCb # 0 /\ ftWin[initCb] # 0 THEN 0 ELSE initCb

InitTarget == initCb

BuildTransferWin(h) ==
  IF InitTarget = 0 THEN UNCHANGED <<placeVars, drawVars, cbWin>>
  ELSE
    LET w == opened + 1 IN
    /\ opened' = w
    /\ inChat' = [inChat EXCEPT ![w] = InitTarget]
    /\ transfer' = [transfer EXCEPT ![w] = slot]
    /\ building' = [building EXCEPT ![h] = w]
    /\ button' = [button EXCEPT ![w] = IsRecv(slot)]
    /\ cbWin' = [cbWin EXCEPT ![slot] = w]
    /\ lagging' = IF Reported(slot) > 0 THEN lagging \cup {w} ELSE lagging
    /\ UNCHANGED <<ftWin, needsUpdate, shown>>

\* The new window takes the place of the one that the chat window has.
PlaceTransferWin(h) ==
  LET w == building[h] IN
  /\ building' = [building EXCEPT ![h] = 0]
  /\ IF w = 0 THEN UNCHANGED <<ftWin, stray>>
     ELSE IF LiveChat(inChat[w])
     THEN ftWin' = [ftWin EXCEPT ![inChat[w]] = w] /\ UNCHANGED stray
     ELSE stray' = "initCallback" /\ UNCHANGED ftWin
  /\ UNCHANGED <<opened, inChat, transfer>>

\* onAccept of file f: hides the button and shows the progress.  MutHidden leaves
\* the button.
MutHidden(w) == button

Hidden(w) == [button EXCEPT ![w] = FALSE]

OnAccept(f) ==
  LET w == cbWin[f] IN
  IF w = 0 THEN UNCHANGED <<drawVars, stray>>
  ELSE IF ~LiveWin(w) THEN stray' = "onAccept" /\ UNCHANGED drawVars
  ELSE /\ button' = Hidden(w)
       /\ shown' = [shown EXCEPT ![w] = done[f]]
       /\ UNCHANGED <<needsUpdate, lagging, stray>>

\* MutMarked keeps all updates but the last from the window.
MutMarked(w) == [needsUpdate EXCEPT ![w] = done[transfer[w]] = NumBlocks]

Marked(w) == [needsUpdate EXCEPT ![w] = TRUE]

\* onUpdate of file f.  An update that comes while tick is serving the last one
\* will be cleared with it.
OnUpdate(f) ==
  LET w == cbWin[f] IN
  IF w = 0 THEN UNCHANGED <<drawVars, stray>>
  ELSE IF ~LiveWin(w) THEN stray' = "onUpdate" /\ UNCHANGED drawVars
  ELSE /\ needsUpdate' = Marked(w)
       /\ lagging' = IF gui = "drawing" /\ inside = w THEN lagging \cup {w} ELSE lagging
       /\ UNCHANGED <<shown, button, stray>>

\* println of a line that fits into the box or does not, which waits for the lock that
\* ChatWindow::tick holds until all is drawn.
Println(c, fits) ==
  /\ c = chat => gui \notin {"refreshing", "drawing"}
  /\ log' = [log EXCEPT ![c] = @ + 1]
  /\ tall' = [tall EXCEPT ![c] = ~fits]
  /\ bufChanged' = [bufChanged EXCEPT ![c] = TRUE]
  /\ UNCHANGED painted

\* isDone1, and fileFinishCallback, which takes the transfer window of its chat
\* window for granted, and the transfer of that.
OnFinish ==
  /\ flag' = FALSE
  /\ IF finishCb = 0 THEN UNCHANGED <<logVars, stray>>
     ELSE LET w == ftWin[finishCb] IN
       IF w # 0 /\ LiveFile(transfer[w]) THEN Println(finishCb, TRUE) /\ UNCHANGED stray
       ELSE stray' = "onFinish" /\ UNCHANGED logVars

-----------------------------------------------------------------------------
(* The GUI thread: message boxes and chats.                                *)

\* A message of either user is shown in the window of the current chat, by the chat
\* thread or by the send button.
ShowMessage ==
  /\ Running /\ chat # 0
  /\ log[chat] < MaxLines
  /\ \E fits \in BOOLEAN : Println(chat, fits)
  /\ UNCHANGED <<guiVars, deskVars, placeVars, drawVars, transferVars, rpcVars, stray>>

\* msgBox, called by the key manager; more than one event may come before a tick.
MsgBox ==
  /\ Running /\ gui = "idle"
  /\ boxes = <<>> /\ Len(notices) < MaxNotices
  /\ notices' = Append(notices, Len(notices) + 1)
  /\ UNCHANGED <<guiVars, chatVars, boxes, windowVars, transferVars, rpcVars, stray>>

\* The boxes are filled from the back of the queue, which is popped at its front.
\* MutShownFor treats it as a stack.
MutShownFor(q) == [i \in DOMAIN q |-> q[Len(q) + 1 - i]]

ShownFor(q) == [i \in DOMAIN q |-> q[Len(q)]]

Tick ==
  /\ Running /\ gui = "idle"
  /\ boxes' = boxes \o ShownFor(notices)
  /\ notices' = <<>>
  /\ ticking' = needed
  /\ gui' = IF needed THEN "building" ELSE "painting"
  /\ UNCHANGED <<inside, chatVars, windowVars, transferVars, rpcVars, stray>>

\* tryConnect, when the handshake succeeds.
TryConnect ==
  /\ Running /\ gui = "idle"
  /\ handshakes < MaxChats
  /\ handshakes' = handshakes + 1
  /\ gui' = "building"
  /\ UNCHANGED <<ticking, inside, needed, windows, chat, initCb, finishCb, noticeVars,
                 windowVars, transferVars, rpcVars, stray>>

\* initiateChat builds the new window, whose constructor sets both callbacks ...
BuildWindow ==
  /\ Running /\ gui = "building"
  /\ windows' = windows + 1
  /\ initCb' = windows'
  /\ finishCb' = windows'
  /\ Println(windows', TRUE)
  /\ gui' = "joining"
  /\ UNCHANGED <<ticking, inside, needed, handshakes, chat, noticeVars, placeVars,
                 drawVars, transferVars, rpcVars, stray>>

\* ... then the old Chat is destroyed with its window and log; the window's destructor
\* clears the init callback.
InitiateChat ==
  /\ Running /\ gui = "joining"
  /\ chat' = windows
  /\ initCb' = IF chat = 0 THEN initCb ELSE 0
  /\ log' = [c \in Chats |-> IF c = chat THEN 0 ELSE log[c]]
  /\ tall' = [c \in Chats |-> tall[c] /\ c # chat]
  /\ bufChanged' = [c \in Chats |-> bufChanged[c] /\ c # chat]
  /\ painted' = [c \in Chats |-> IF c = chat THEN 0 ELSE painted[c]]
  /\ gui' = IF ticking THEN "clearing" ELSE "idle"
  /\ UNCHANGED <<ticking, inside, needed, handshakes, windows, finishCb, noticeVars,
                 placeVars, drawVars, transferVars, rpcVars, stray>>

ClearNeeded ==
  /\ Running /\ gui = "clearing"
  /\ needed' = FALSE
  /\ ticking' = FALSE
  /\ gui' = "painting"
  /\ UNCHANGED <<inside, handshakes, windows, chat, initCb, finishCb, noticeVars,
                 windowVars, transferVars, rpcVars, stray>>

-----------------------------------------------------------------------------
(* The GUI thread: redrawing and transfers.                                *)

\* updateLog fills the box with the log, and then takes lines off the front until the
\* rest fits: that leaves the last line, or nothing if that alone is too tall.
\* MutPainted takes off one line too many.
MutPainted(c) == IF bufChanged[c] THEN log[c] - 1 ELSE painted[c]

Painted(c) ==
  IF ~bufChanged[c] THEN painted[c] ELSE IF tall[c] THEN 0 ELSE log[c]

\* ChatWindow::tick, which keeps the lock of the log.
Paint ==
  /\ Running /\ gui = "painting"
  /\ IF chat = 0 THEN gui' = "idle" /\ UNCHANGED logVars
     ELSE /\ painted' = [painted EXCEPT ![chat] = Painted(chat)]
          /\ bufChanged' = [bufChanged EXCEPT ![chat] = FALSE]
          /\ gui' = "refreshing"
          /\ UNCHANGED <<log, tall>>
  /\ UNCHANGED <<ticking, inside, deskVars, placeVars, drawVars, transferVars, rpcVars,
                 stray>>

\* FileTransferWin::tick: onUpdate reads the progress ...
Refresh ==
  /\ Running /\ gui = "refreshing"
  /\ LET w == ftWin[chat] IN
     IF w = 0 \/ ~needsUpdate[w]
     THEN gui' = "idle" /\ UNCHANGED <<inside, drawVars, stray>>
     ELSE IF ~LiveFile(transfer[w])
     THEN stray' = "tick" /\ UNCHANGED <<gui, inside, drawVars>>
     ELSE /\ shown' = [shown EXCEPT ![w] = done[transfer[w]]]
          /\ inside' = w
          /\ gui' = "drawing"
          /\ UNCHANGED <<needsUpdate, button, lagging, stray>>
  /\ UNCHANGED <<ticking, deskVars, logVars, placeVars, transferVars, rpcVars>>

\* ... and then the flag is cleared.
EndRefresh ==
  /\ Running /\ gui = "drawing"
  /\ IF LiveWin(inside)
     THEN /\ needsUpdate' = [needsUpdate EXCEPT ![inside] = FALSE]
          /\ UNCHANGED <<shown, button, lagging, stray>>
     ELSE stray' = "tick" /\ UNCHANGED drawVars
  /\ inside' = 0
  /\ gui' = "idle"
  /\ UNCHANGED <<ticking, deskVars, logVars, placeVars, transferVars, rpcVars>>

\* A new object takes the slot; an old one with workers is joined by thread h.
Replace(h, k) ==
  /\ made < MaxFiles
  /\ made' = made + 1
  /\ kind' = [kind EXCEPT ![made + 1] = k]
  /\ slot' = made + 1
  /\ joins' = [joins EXCEPT ![h] = IF IsSend(slot) THEN slot ELSE 0]

SendFile ==
  /\ Running /\ gui = "idle" /\ chat # 0
  /\ Replace("gui", "send")
  /\ gui' = "sending"
  /\ UNCHANGED <<ticking, inside, deskVars, windowVars, rpcVars, fileVars, cbWin,
                 stray>>

\* The destructor of thread h returns.
EndJoin(h) ==
  /\ Running /\ joins[h] # 0
  /\ Ended(joins[h])
  /\ joins' = [joins EXCEPT ![h] = 0]
  /\ UNCHANGED <<guiVars, deskVars, windowVars, slot, made, kind, rpcVars, fileVars,
                 cbWin, stray>>

\* sendMeta has its answer, SendFile calls fileInitCallback ...
InitSent ==
  /\ Running /\ gui = "sending" /\ joins["gui"] = 0
  /\ BuildTransferWin("gui")
  /\ gui' = "placing"
  /\ UNCHANGED <<ticking, inside, deskVars, logVars, slotVars, rpcVars, fileVars,
                 stray>>

\* ... and returns.
EndSendFile ==
  /\ Running /\ gui = "placing"
  /\ PlaceTransferWin("gui")
  /\ gui' = "idle"
  /\ UNCHANGED <<ticking, inside, deskVars, logVars, drawVars, transferVars, rpcVars>>

\* The user presses the Accept button of transfer window w.
AcceptTransfer(w) ==
  /\ Running /\ gui = "idle"
  /\ w = ftWin[chat] /\ button[w]
  /\ IF LiveFile(transfer[w])
     THEN /\ accepted' = [accepted EXCEPT ![transfer[w]] = TRUE]
          /\ OnAccept(transfer[w])
     ELSE stray' = "button" /\ UNCHANGED <<accepted, drawVars>>
  /\ inside' = w
  /\ gui' = "accepting"
  /\ UNCHANGED <<ticking, deskVars, logVars, placeVars, slotVars, rpcVars, early, done,
                 answered, flag, cbWin>>

\* The accept call has its answer, the button's handler returns.
EndAccept ==
  /\ Running /\ gui = "accepting"
  /\ stray' = IF LiveWin(inside) THEN "none" ELSE "button"
  /\ inside' = 0
  /\ gui' = "idle"
  /\ UNCHANGED <<ticking, deskVars, windowVars, transferVars, rpcVars>>

-----------------------------------------------------------------------------
(* The RPC thread.                                                         *)

\* ReceiveKex calls the callback of AppGUI.
ReceiveKex ==
  /\ Running /\ rpc = "idle"
  /\ handshakes < MaxChats /\ ~needed
  /\ handshakes' = handshakes + 1
  /\ needed' = TRUE
  /\ UNCHANGED <<guiVars, windows, chat, initCb, finishCb, noticeVars, windowVars,
                 transferVars, rpcVars, stray>>

\* A FileMeta may come at any time, also after an accept that started nothing at the
\* peer or the wrong file (TransferSlot has the two ends).
ReceiveFileMeta ==
  /\ Running /\ rpc = "idle" /\ handshakes > 0
  /\ Replace("rpc", "recv")
  /\ rpc' = "replacing"
  /\ UNCHANGED <<guiVars, deskVars, windowVars, handling, fileVars, cbWin, stray>>

InitReceived ==
  /\ Running /\ rpc = "replacing" /\ joins["rpc"] = 0
  /\ BuildTransferWin("rpc")
  /\ rpc' = "placing"
  /\ UNCHANGED <<guiVars, deskVars, logVars, slotVars, handling, fileVars, stray>>

EndFileMeta ==
  /\ Running /\ rpc = "placing"
  /\ PlaceTransferWin("rpc")
  /\ rpc' = "idle"
  /\ UNCHANGED <<guiVars, deskVars, logVars, drawVars, transferVars, handling>>

\* ackAccept.  The peer's user can accept before SendFile has gone on.
\* (A second accept of one object assigns to running threads, which ends the process:
\* OnlyStrayAcceptsKill of TransferSlot says when; a received object answers -1.)
ReceiveFileTransferAccept ==
  /\ Running /\ rpc = "idle"
  /\ IsSend(slot) /\ ~accepted[slot] /\ joins["gui"] = 0
  /\ accepted' = [accepted EXCEPT ![slot] = TRUE]
  /\ early' = IF gui \in {"sending", "placing"} THEN early \cup {slot} ELSE early
  /\ OnAccept(slot)
  /\ UNCHANGED <<guiVars, deskVars, logVars, placeVars, slotVars, rpcVars, done,
                 answered, flag, cbWin>>

\* receiveBlock stores a block, ...  The peer sends blocks once a file has been
\* accepted, each block of a file once.  They go to whatever is in the slot: an object
\* that has not been accepted stores them as well, for awaitingAccept is set in the
\* sender's objects only.  (Blocks of two files in one object may have the same numbers,
\* see TransferSlot; one that is there already is not counted again, and left out here.)
ReceiveFileBlock ==
  /\ Running /\ rpc = "idle"
  /\ \E f \in Files : IsRecv(f) /\ accepted[f]
  /\ IsRecv(slot) /\ done[slot] < NumBlocks
  /\ done' = [done EXCEPT ![slot] = @ + 1]
  /\ handling' = slot
  /\ rpc' = "updating"
  /\ UNCHANGED <<guiVars, deskVars, windowVars, slotVars, accepted, early, answered,
                 flag, cbWin, stray>>

\* ... calls onUpdate, unless SendFile has destroyed the object meanwhile, ...
UpdateReceived ==
  /\ Running /\ rpc = "updating"
  /\ IF LiveFile(handling) THEN OnUpdate(handling)
                           ELSE stray' = "receiveBlock" /\ UNCHANGED drawVars
  /\ rpc' = "reporting"
  /\ UNCHANGED <<guiVars, deskVars, logVars, placeVars, transferVars, handling>>

\* ... and reports the end.
ReportReceived ==
  /\ Running /\ rpc = "reporting"
  /\ IF ~LiveFile(handling) THEN stray' = "receiveBlock" /\ UNCHANGED <<flag, logVars>>
     ELSE IF flag /\ done[handling] = NumBlocks THEN OnFinish
     ELSE UNCHANGED <<flag, logVars, stray>>
  /\ rpc' = "idle"
  /\ handling' = 0
  /\ UNCHANGED <<guiVars, deskVars, placeVars, drawVars, slotVars, accepted, early,
                 done, answered, cbWin>>

-----------------------------------------------------------------------------
(* The workers of file f; there are more of them than blocks.              *)

\* MutHasUnsent takes a block off an empty queue.
MutHasUnsent(f) == done[f] <= NumBlocks

HasUnsent(f) == done[f] < NumBlocks

PopBlock(f) ==
  /\ Running /\ IsSend(f) /\ accepted[f]
  /\ HasUnsent(f)
  /\ done' = [done EXCEPT ![f] = @ + 1]
  /\ UNCHANGED <<guiVars, deskVars, windowVars, slotVars, rpcVars, accepted, early,
                 answered, flag, cbWin, stray>>

\* A worker with a block in hand finds the queue empty.
ReportSent(f) ==
  /\ Running /\ IsSend(f)
  /\ flag /\ done[f] = NumBlocks /\ answered[f] < NumBlocks
  /\ OnFinish
  /\ UNCHANGED <<guiVars, deskVars, placeVars, drawVars, slotVars, rpcVars, accepted,
                 early, done, answered, cbWin>>

\* The answer to a block; the worker that took the last one has tested isDone1.
UpdateSent(f) ==
  /\ Running /\ IsSend(f)
  /\ answered[f] < done[f]
  /\ answered[f] + 1 = NumBlocks => ~flag
  /\ answered' = [answered EXCEPT ![f] = @ + 1]
  /\ OnUpdate(f)
  /\ UNCHANGED <<guiVars, deskVars, logVars, placeVars, slotVars, rpcVars, accepted,
                 early, done, flag, cbWin>>

-----------------------------------------------------------------------------
GuiThread ==
  \/ Tick
  \/ BuildWindow
  \/ InitiateChat
  \/ ClearNeeded
  \/ Paint
  \/ Refresh
  \/ EndRefresh
  \/ EndJoin("gui")
  \/ InitSent
  \/ EndSendFile
  \/ EndAccept

RpcThread ==
  \/ EndJoin("rpc")
  \/ InitReceived
  \/ EndFileMeta
  \/ UpdateReceived
  \/ ReportReceived

Worker(f) == PopBlock(f) \/ ReportSent(f) \/ UpdateSent(f)

User ==
  \/ MsgBox
  \/ ShowMessage
  \/ TryConnect
  \/ SendFile
  \/ \E w \in Wins : chat # 0 /\ AcceptTransfer(w)

Peer ==
  \/ ReceiveKex
  \/ ReceiveFileMeta
  \/ ReceiveFileTransferAccept
  \/ ReceiveFileBlock

Next == GuiThread \/ RpcThread \/ User \/ Peer \/ \E f \in Files : Worker(f)

Safety == Init /\ [][Next]_vars

\* Threads that can run do run; neither user need do anything.
Fairness ==
  WF_vars(GuiThread) /\ WF_vars(RpcThread) /\ \A f \in Files : WF_vars(Worker(f))

Spec == Safety /\ Fairness

-----------------------------------------------------------------------------
(* Properties.                                                             *)

GuiTypes ==
  /\ gui \in {"idle", "building", "joining", "clearing", "painting", "refreshing",
              "drawing", "sending", "placing", "accepting"}
  /\ ticking \in BOOLEAN /\ inside \in 0 .. MaxFiles

ChatTypes ==
  /\ needed \in BOOLEAN
  /\ handshakes \in 0 .. MaxChats /\ windows \in 0 .. MaxChats /\ chat \in 0 .. MaxChats
  /\ initCb \in 0 .. MaxChats /\ finishCb \in 0 .. MaxChats

NoticeTypes == notices \in Seq(1 .. MaxNotices) /\ boxes \in Seq(1 .. MaxNotices)

LogTypes ==
  /\ log \in [Chats -> Nat] /\ tall \in [Chats -> BOOLEAN]
  /\ bufChanged \in [Chats -> BOOLEAN] /\ painted \in [Chats -> Nat]

PlaceTypes ==
  /\ ftWin \in [Chats -> 0 .. MaxFiles]
  /\ opened \in 0 .. MaxFiles /\ building \in [Threads -> 0 .. MaxFiles]
  /\ inChat \in [Wins -> 0 .. MaxChats] /\ transfer \in [Wins -> 0 .. MaxFiles]

DrawTypes ==
  /\ needsUpdate \in [Wins -> BOOLEAN] /\ shown \in [Wins -> 0 .. NumBlocks]
  /\ button \in [Wins -> BOOLEAN] /\ lagging \in SUBSET Wins

SlotTypes ==
  /\ slot \in 0 .. MaxFiles /\ made \in 0 .. MaxFiles
  /\ joins \in [Threads -> 0 .. MaxFiles] /\ kind \in [Files -> {"none", "send", "recv"}]

RpcTypes ==
  /\ rpc \in {"idle", "replacing", "placing", "updating", "reporting"}
  /\ handling \in 0 .. MaxFiles

FileTypes ==
  /\ accepted \in [Files -> BOOLEAN] /\ early \in SUBSET Files
  /\ done \in [Files -> 0 .. NumBlocks] /\ answered \in [Files -> 0 .. NumBlocks]
  /\ flag \in BOOLEAN /\ cbWin \in [Files -> 0 .. MaxFiles]

Strays == {"none", "onAccept", "onUpdate", "onFinish", "tick", "button", "receiveBlock",
           "initCallback"}

\* What the variables hold: the windows, chats and transfers named anywhere are among those there
\* is room for, and the two threads stand at places of the code that exist.
TypeOK ==
  /\ GuiTypes /\ ChatTypes /\ NoticeTypes /\ LogTypes /\ PlaceTypes /\ DrawTypes
  /\ SlotTypes /\ RpcTypes /\ FileTypes
  /\ stray \in Strays

\* The transfers so far went in one direction.
OneWay == \A f, g \in 1 .. made : kind[f] = kind[g]

\* What it takes for a callback, a button or a redraw to touch something that has
\* been destroyed: a second chat, transfers in both directions, an accept that
\* overtakes SendFile, or a second file.  In the first chat, while one side sends,
\* no transfer calls back into a destroyed window.
StraysExplained ==
  /\ stray \in {"onAccept", "onUpdate", "initCallback"} => windows > 1 \/ ~OneWay
  /\ stray = "onFinish" => windows > 1 \/ ~OneWay \/ early # {}
  /\ stray = "receiveBlock" => ~OneWay
  /\ stray \in {"tick", "button"} => made > 1

\* While one side sends, and until a second chat takes the init callback away, the
\* transfer window on the screen is about the transfer in the slot, and that calls
\* back into this window, whenever both threads are at rest.
WindowShowsSlot ==
  OneWay /\ gui = "idle" /\ rpc = "idle" /\ chat # 0 /\ initCb = chat /\ ftWin[chat] # 0
    => transfer[ftWin[chat]] = slot /\ cbWin[slot] = ftWin[chat]

\* While only the peer sends, the Accept button cannot be pressed twice for one file:
\* the second acceptTransfer would empty the file that is being received.  (When
\* SendFile crosses a FileMeta, both open a window for the received file.)
NoSecondAccept ==
  \A w \in Wins :
    OneWay /\ gui = "idle" /\ LiveWin(w) /\ button[w] /\ LiveFile(transfer[w])
      => ~accepted[transfer[w]]

\* The progress bar of the window a transfer calls back into does not run ahead, and
\* it is behind only when an update is under way or has been missed.
ProgressHonest ==
  \A w \in Wins :
    LET f == transfer[w] IN
    LiveWin(w) /\ LiveFile(f) /\ cbWin[f] = w =>
         /\ shown[w] <= done[f]
         /\ shown[w] < Reported(f) =>
              \/ needsUpdate[w]
              \/ w \in lagging
              \/ rpc = "updating" /\ handling = f

\* Whatever threads add lines to the log of a chat window while it is redrawn, the last
\* line gets into its box, unless it alone is taller than that or the window is
\* replaced.  (A tall line takes those before it off the screen, updateLog drops them.)
LinesPainted ==
  \A c \in Chats :
    (LiveChat(c) /\ painted[c] < log[c])
      ~> (painted[c] = log[c] \/ tall[c] \/ chat # c \/ ~Running)

\* Whatever the transfers and chats do, notices do not wait for ever, and when their
\* queue has been served the last box has the last of them in it.
LastNoticeShown ==
  (notices # <<>>) ~>
    \/ notices = <<>> /\ boxes # <<>> /\ boxes[Len(boxes)] = Len(boxes)
    \/ ~Running

=============================================================================
