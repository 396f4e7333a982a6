----------------------------- MODULE AppGuiProofs -----------------------------
(***************************************************************************)
(* The safety of AppGui for any number of chats, files, blocks and         *)
(* notices: the types of its state, what a stray access takes, which       *)
(* transfer the window on the screen is about, and what its progress bar   *)
(* may show.                                                               *)
(***************************************************************************)
EXTENDS AppGui, TLAPS

(* The inductive invariant.                                                *)

\* The handshake of tryConnect, or the one the RPC thread has taken, has no chat
\* window yet.
Connected == gui = "building" /\ ~ticking
Noticed == needed /\ ~(ticking /\ gui \in {"joining", "clearing"})

\* There are no more chat windows than handshakes, and no more transfer windows than
\* files; what is on its way to one has a place.
CountInv ==
  /\ windows <= handshakes
  /\ Connected \/ Noticed => windows < handshakes
  /\ Connected /\ Noticed => windows + 1 < handshakes
  /\ ticking => needed /\ gui \in {"building", "joining", "clearing"}
  /\ slot = made
  /\ opened <= made
  /\ gui = "sending" \/ rpc = "replacing" => opened < made
  /\ gui = "sending" /\ rpc = "replacing" => opened + 1 < made

\* The last window that was built is the current one, except while initiateChat
\* destroys the chat before; only that of the first chat keeps the init callback.
ChatInv ==
  /\ IF gui = "joining" THEN windows = chat + 1 ELSE windows = chat
  /\ initCb = IF gui = "joining" \/ windows = 1 THEN windows ELSE 0
  /\ finishCb = windows
  /\ gui \in {"sending", "placing", "refreshing", "drawing", "accepting"} => chat # 0
  /\ \A f \in Files : IsSend(f) => windows # 0

\* Which steps leave something in the hands of a thread.
ThreadInv ==
  /\ joins["gui"] # 0 => gui = "sending"
  /\ joins["rpc"] # 0 => rpc = "replacing"
  /\ \A h \in Threads : joins[h] # 0 => IsSend(joins[h]) /\ joins[h] < made
  /\ building["gui"] # 0 => gui = "placing"
  /\ building["rpc"] # 0 => rpc = "placing"
  /\ \A h \in Threads : building[h] <= opened
  /\ rpc \in {"updating", "reporting"} => IsRecv(handling)
  /\ \A f \in Files :
       IF f > made THEN kind[f] = "none" /\ ~accepted[f] ELSE kind[f] # "none"

\* A transfer window knows its chat window and its transfer, which calls back into it
\* or into a later one.
WinInv ==
  /\ \A w \in Wins : w <= opened =>
       inChat[w] \in 1 .. windows /\ transfer[w] \in 1 .. made /\ cbWin[transfer[w]] # 0
  /\ \A w \in Wins : w > opened => ~button[w] /\ shown[w] = 0
  /\ \A w \in Wins : button[w] => IsRecv(transfer[w])
  /\ \A c \in Chats : ftWin[c] <= opened /\ (ftWin[c] # 0 => inChat[ftWin[c]] = c)
  /\ \A f \in Files : cbWin[f] <= opened /\ (cbWin[f] # 0 => transfer[cbWin[f]] = f)

\* The GUI thread leaves a window of the current chat where it has entered it; its
\* chat window may have got another one.
InsideInv ==
  gui \in {"drawing", "accepting"} =>
    inside \in 1 .. opened /\ inChat[inside] = chat /\ ftWin[chat] # 0

\* Only an accepted transfer sends blocks, a received one is accepted in its window, and
\* the workers that are running are those of a live transfer.
FileInv ==
  /\ \A f \in Files : answered[f] <= done[f] /\ (done[f] > 0 => accepted[f] \/ IsRecv(f))
  /\ \A f \in Files : accepted[f] /\ IsRecv(f) => cbWin[f] # 0
  /\ \A f \in Files : IsSend(f) /\ accepted[f] /\ answered[f] < NumBlocks => LiveFile(f)
  /\ gui = "sending" /\ IsRecv(slot) => ~accepted[slot]
  /\ rpc = "replacing" /\ IsRecv(slot) => done[slot] = 0

\* Blocks arrive, in whatever file, once a received file has been accepted, and in the
\* first chat, while one side sends, each file after it has a window as well.
SomeAccepted == \E f \in Files : IsRecv(f) /\ accepted[f]

BlockInv ==
  /\ rpc \in {"updating", "reporting"} => SomeAccepted
  /\ OneWay /\ windows = 1 /\ SomeAccepted /\ rpc # "replacing" => cbWin[slot] # 0

\* While one side sends, one thread works on the file in the slot, every file has at
\* most one window, and an accepted one shows no button.
OneWayFacts ==
  /\ gui \in {"sending", "placing"} => IsSend(slot)
  /\ rpc # "idle" => IsRecv(slot)
  /\ rpc \in {"updating", "reporting"} => handling = slot
  /\ joins["rpc"] = 0
  /\ gui = "sending" \/ rpc = "replacing" => cbWin[slot] = 0
  /\ \A w \in Wins : w <= opened => cbWin[transfer[w]] = w
  /\ \A h \in Threads : building[h] # 0 => cbWin[slot] = building[h]
  /\ \A w \in Wins : button[w] => ~accepted[transfer[w]]

OneWayInv == OneWay => OneWayFacts

\* ... and in the first chat, the window of that file is being put in place or is the
\* one in the chat window; a file that is sent has one, and it stays while the next
\* SendFile waits for its workers.
FirstChatFacts ==
  /\ gui \notin {"sending", "placing"} /\ rpc \notin {"replacing", "placing"} /\ ftWin[1] # 0
       => ftWin[1] = cbWin[slot]
  /\ rpc = "placing" /\ ftWin[1] # 0 => building["rpc"] # 0
  /\ cbWin[slot] \in {0, building["gui"], building["rpc"], ftWin[1]}
  /\ IsSend(slot) /\ gui \notin {"sending", "placing"} => ftWin[1] # 0
  /\ gui = "placing" => building["gui"] # 0
  /\ joins["gui"] # 0 => ftWin[1] # 0 /\ ftWin[1] = cbWin[joins["gui"]]
  /\ gui \in {"sending", "placing"} /\ accepted[slot] => early # {}

FirstChatInv == OneWay /\ windows = 1 /\ slot # 0 => FirstChatFacts

\* The window of a live transfer, into which that calls back.
Watching(w) == LiveWin(w) /\ LiveFile(transfer[w]) /\ cbWin[transfer[w]] = w

Missed(w, f) == w \in lagging \/ (rpc = "updating" /\ handling = f)

\* ProgressHonest, and what is not shown when tick is about to clear the flag has been
\* missed.
ProgressOf(w, f) ==
  /\ shown[w] <= done[f]
  /\ shown[w] < Reported(f) => needsUpdate[w] \/ Missed(w, f)
  /\ shown[w] < Reported(f) /\ gui = "drawing" /\ inside = w => Missed(w, f)

ProgressInv == \A w \in Wins : Watching(w) => ProgressOf(w, transfer[w])

StateInv ==
  /\ TypeOK /\ CountInv /\ ChatInv /\ ThreadInv /\ WinInv /\ InsideInv /\ FileInv
  /\ BlockInv /\ OneWayInv /\ FirstChatInv

IInv == StateInv /\ ProgressInv /\ StraysExplained

-----------------------------------------------------------------------------
(* Types.                                                                  *)

\* The bounds are numbers, and a file has a block.
LEMMA Bounds ==
  /\ MaxChats \in Nat /\ MaxFiles \in Nat /\ MaxNotices \in Nat
  /\ NumBlocks \in Nat /\ NumBlocks > 0
BY BoundsAssumption

\* An operation that leaves a group of variables alone keeps their types.
LEMMA Frame ==
  /\ GuiTypes /\ UNCHANGED guiVars => GuiTypes'
  /\ ChatTypes /\ UNCHANGED chatVars => ChatTypes'
  /\ NoticeTypes /\ UNCHANGED noticeVars => NoticeTypes'
  /\ LogTypes /\ UNCHANGED logVars => LogTypes'
  /\ PlaceTypes /\ UNCHANGED placeVars => PlaceTypes'
  /\ DrawTypes /\ UNCHANGED drawVars => DrawTypes'
  /\ SlotTypes /\ UNCHANGED slotVars => SlotTypes'
  /\ RpcTypes /\ UNCHANGED rpcVars => RpcTypes'
  /\ FileTypes /\ UNCHANGED <<fileVars, cbWin>> => FileTypes'
<1>1. GuiTypes /\ UNCHANGED guiVars => GuiTypes' BY DEF GuiTypes, guiVars
<1>2. ChatTypes /\ UNCHANGED chatVars => ChatTypes' BY DEF ChatTypes, chatVars
<1>3. NoticeTypes /\ UNCHANGED noticeVars => NoticeTypes' BY DEF NoticeTypes, noticeVars
<1>4. LogTypes /\ UNCHANGED logVars => LogTypes' BY DEF LogTypes, logVars
<1>5. PlaceTypes /\ UNCHANGED placeVars => PlaceTypes' BY DEF PlaceTypes, placeVars
<1>6. DrawTypes /\ UNCHANGED drawVars => DrawTypes' BY DEF DrawTypes, drawVars
<1>7. SlotTypes /\ UNCHANGED slotVars => SlotTypes' BY DEF SlotTypes, slotVars
<1>8. RpcTypes /\ UNCHANGED rpcVars => RpcTypes' BY DEF RpcTypes, rpcVars
<1>9. FileTypes /\ UNCHANGED <<fileVars, cbWin>> => FileTypes'
  BY DEF FileTypes, fileVars
<1> QED BY <1>1, <1>2, <1>3, <1>4, <1>5, <1>6, <1>7, <1>8, <1>9

\* Types through the operations that several steps share: a line of the log, ...
LEMMA PrintlnTypes ==
  ASSUME LogTypes, NEW c \in Chats, NEW fits \in BOOLEAN, Println(c, fits)
  PROVE  LogTypes'
BY DEF LogTypes, Println

\* ... which transfers there are, ...
LEMMA LiveFiles == ASSUME SlotTypes, NEW f, LiveFile(f) PROVE f \in Files
BY DEF LiveFile, SlotTypes, Files, Threads

\* ... the callbacks of a transfer, ...
LEMMA OnAcceptTypes ==
  ASSUME DrawTypes, FileTypes, NEW f \in Files, OnAccept(f)
  PROVE  DrawTypes' /\ stray' \in {stray, "onAccept"}
BY DEF OnAccept, Hidden, DrawTypes, FileTypes, drawVars

\* ... onUpdate as well, ...
LEMMA OnUpdateTypes ==
  ASSUME DrawTypes, NEW f \in Files, FileTypes, OnUpdate(f)
  PROVE  DrawTypes' /\ stray' \in {stray, "onUpdate"}
<1>1. cbWin[f] # 0 => cbWin[f] \in Wins BY DEF FileTypes, Wins
<1>2. lagging \cup {cbWin[f]} \in SUBSET Wins \/ cbWin[f] = 0 BY <1>1 DEF DrawTypes
<1>3. Marked(cbWin[f]) \in [Wins -> BOOLEAN] BY DEF Marked, DrawTypes
<1> QED BY <1>2, <1>3 DEF OnUpdate, DrawTypes, drawVars

\* ... and the report of the end, ...
LEMMA OnFinishTypes ==
  ASSUME LogTypes, ChatTypes, OnFinish
  PROVE  LogTypes' /\ flag' \in BOOLEAN /\ stray' \in {stray, "onFinish"}
<1>1. finishCb # 0 => finishCb \in Chats BY DEF ChatTypes, Chats
<1> QED BY <1>1, PrintlnTypes, Frame DEF OnFinish

\* ... the two halves of fileInitCallback, ...
LEMMA BuildTypes ==
  ASSUME PlaceTypes, DrawTypes, FileTypes, SlotTypes, ChatTypes, NEW h \in Threads,
         opened < MaxFiles, BuildTransferWin(h)
  PROVE  PlaceTypes' /\ DrawTypes' /\ cbWin' \in [Files -> 0 .. MaxFiles]
<1>1. CASE InitTarget = 0
  BY <1>1, Frame DEF BuildTransferWin, FileTypes
<1>2. CASE InitTarget # 0
  <2> DEFINE w == opened + 1
  <2>1. w \in Wins /\ w \in 0 .. MaxFiles BY Bounds DEF PlaceTypes, Wins
  <2>2. PlaceTypes'
    BY <1>2, <2>1 DEF BuildTransferWin, PlaceTypes, SlotTypes, ChatTypes, InitTarget
  <2>3. DrawTypes'
    BY <1>2, <2>1 DEF BuildTransferWin, DrawTypes, IsRecv
  <2>4. cbWin' \in [Files -> 0 .. MaxFiles]
    BY <1>2, <2>1 DEF BuildTransferWin, FileTypes
  <2> QED BY <2>2, <2>3, <2>4
<1> QED BY <1>1, <1>2

\* ... of which this is the second, ...
LEMMA PlaceTransferTypes ==
  ASSUME PlaceTypes, NEW h \in Threads, PlaceTransferWin(h)
  PROVE  PlaceTypes' /\ stray' \in {stray, "initCallback"}
BY Bounds DEF PlaceTransferWin, PlaceTypes

\* ... and a new object in the slot.
LEMMA ReplaceTypes ==
  ASSUME SlotTypes, NEW h \in Threads, NEW k \in {"send", "recv"}, Replace(h, k)
  PROVE  SlotTypes'
<1>1. made + 1 \in 0 .. MaxFiles BY Bounds DEF Replace, SlotTypes
<1>2. joins' \in [Threads -> 0 .. MaxFiles] BY Bounds DEF Replace, SlotTypes
<1>3. kind' \in [Files -> {"none", "send", "recv"}] BY DEF Replace, SlotTypes
<1> QED BY <1>1, <1>2, <1>3 DEF Replace, SlotTypes

\* The types hold at first, ...
LEMMA InitTypes == Init => TypeOK
<1> SUFFICES ASSUME Init PROVE TypeOK
  OBVIOUS
<1> USE Bounds DEF Init
<1>0. 0 \in 0 .. MaxFiles /\ 0 \in 0 .. MaxChats BY Bounds
<1>1. GuiTypes /\ ChatTypes BY <1>0 DEF GuiTypes, ChatTypes
<1>2. NoticeTypes BY DEF NoticeTypes
<1>3. LogTypes BY DEF LogTypes
<1>4. PlaceTypes BY DEF PlaceTypes
<1>5. DrawTypes BY DEF DrawTypes
<1>6. SlotTypes /\ RpcTypes BY DEF SlotTypes, RpcTypes
<1>7. FileTypes BY DEF FileTypes
<1> QED BY <1>1, <1>2, <1>3, <1>4, <1>5, <1>6, <1>7 DEF TypeOK, Strays

\* ... through the steps of message boxes and chats, ...
LEMMA DeskTypes ==
  ASSUME TypeOK, CountInv,
         MsgBox \/ ShowMessage \/ Tick \/ TryConnect \/ BuildWindow \/ InitiateChat
           \/ ClearNeeded \/ ReceiveKex
  PROVE  TypeOK'
<1> USE Frame DEF TypeOK, deskVars, windowVars, transferVars, guiVars, rpcVars
<1>1. CASE MsgBox
  <2>1. Len(notices) \in Nat BY DEF NoticeTypes
  <2>2. Len(notices) + 1 \in 1 .. MaxNotices
    BY <1>1, <2>1, Bounds DEF MsgBox
  <2>3. NoticeTypes' BY <1>1, <2>2 DEF MsgBox, NoticeTypes
  <2> QED BY <1>1, <2>3 DEF MsgBox
<1>2. CASE Tick
  <2>1. ShownFor(notices) \in Seq(1 .. MaxNotices) BY DEF ShownFor, NoticeTypes
  <2>2. NoticeTypes' BY <1>2, <2>1 DEF Tick, NoticeTypes
  <2>3. GuiTypes' BY <1>2 DEF Tick, GuiTypes, ChatTypes
  <2> QED BY <1>2, <2>2, <2>3 DEF Tick
<1>3. CASE TryConnect
  <2>1. ChatTypes' BY <1>3, Bounds DEF TryConnect, ChatTypes
  <2>2. GuiTypes' BY <1>3 DEF TryConnect, GuiTypes
  <2> QED BY <1>3, <2>1, <2>2 DEF TryConnect
<1>4. CASE BuildWindow
  <2>1. windows' \in Chats /\ ChatTypes'
    BY <1>4, Bounds
    DEF BuildWindow, ChatTypes, GuiTypes, CountInv, Connected, Noticed, Chats
  <2>2. GuiTypes' BY <1>4 DEF BuildWindow, GuiTypes
  <2>3. LogTypes' BY <1>4, <2>1, PrintlnTypes DEF BuildWindow
  <2> QED BY <1>4, <2>1, <2>2, <2>3 DEF BuildWindow
<1>5. CASE InitiateChat
  <2>1. ChatTypes' BY <1>5, Bounds DEF InitiateChat, ChatTypes
  <2>2. GuiTypes' BY <1>5 DEF InitiateChat, GuiTypes
  <2>3. LogTypes' BY <1>5 DEF InitiateChat, LogTypes
  <2> QED BY <1>5, <2>1, <2>2, <2>3 DEF InitiateChat
<1>6. CASE ClearNeeded
  <2>1. ChatTypes' BY <1>6 DEF ClearNeeded, ChatTypes
  <2>2. GuiTypes' BY <1>6 DEF ClearNeeded, GuiTypes
  <2> QED BY <1>6, <2>1, <2>2 DEF ClearNeeded
<1>7. CASE ReceiveKex
  <2>1. ChatTypes' BY <1>7, Bounds DEF ReceiveKex, ChatTypes
  <2> QED BY <1>7, <2>1 DEF ReceiveKex
<1>8. CASE ShowMessage
  <2>1. chat \in Chats BY <1>8 DEF ShowMessage, ChatTypes, Chats
  <2>2. LogTypes' BY <1>8, <2>1, PrintlnTypes DEF ShowMessage
  <2> QED BY <1>8, <2>2 DEF ShowMessage
<1> QED BY <1>1, <1>2, <1>3, <1>4, <1>5, <1>6, <1>7, <1>8

\* ... of drawing, ...
LEMMA DrawingTypes ==
  ASSUME TypeOK, ChatInv, Paint \/ Refresh \/ EndRefresh
  PROVE  TypeOK'
<1> USE Frame DEF TypeOK, deskVars, windowVars, transferVars, rpcVars
<1>1. CASE Paint
  <2>1. LogTypes'
    <3>1. CASE chat = 0 BY <1>1, <3>1, Frame DEF Paint
    <3>2. CASE chat # 0
      <4>1. chat \in Chats BY <3>2 DEF ChatTypes, Chats
      <4>2. Painted(chat) \in Nat BY <4>1 DEF Painted, LogTypes
      <4> QED BY <1>1, <3>2, <4>1, <4>2 DEF Paint, LogTypes
    <3> QED BY <3>1, <3>2
  <2>2. GuiTypes' BY <1>1 DEF Paint, GuiTypes
  <2> QED BY <1>1, <2>1, <2>2 DEF Paint
<1>2. CASE Refresh
  <2>1. LiveFile(transfer[ftWin[chat]]) => done[transfer[ftWin[chat]]] \in 0 .. NumBlocks
    BY LiveFiles DEF FileTypes
  <2>2. ftWin[chat] \in 0 .. MaxFiles
    BY <1>2 DEF Refresh, ChatInv, ChatTypes, PlaceTypes, Chats
  <2>3. DrawTypes' /\ stray' \in Strays
    BY <1>2, <2>1 DEF Refresh, DrawTypes, drawVars, Strays
  <2>4. GuiTypes' BY <1>2, <2>2 DEF Refresh, GuiTypes
  <2> QED BY <1>2, <2>3, <2>4 DEF Refresh
<1>3. CASE EndRefresh
  <2>1. DrawTypes' /\ stray' \in Strays
    BY <1>3 DEF EndRefresh, DrawTypes, drawVars, Strays
  <2>2. GuiTypes' BY <1>3, Bounds DEF EndRefresh, GuiTypes
  <2> QED BY <1>3, <2>1, <2>2 DEF EndRefresh, Strays
<1> QED BY <1>1, <1>2, <1>3

\* ... of SendFile, ...
LEMMA SendingTypes ==
  ASSUME TypeOK, CountInv, SendFile \/ (\E h \in Threads : EndJoin(h)) \/ InitSent \/ EndSendFile
  PROVE  TypeOK'
<1> USE Frame DEF TypeOK, deskVars, windowVars, transferVars, rpcVars
<1>0. "gui" \in Threads BY DEF Threads
<1>1. CASE SendFile
  <2>1. SlotTypes' BY <1>0, <1>1, ReplaceTypes DEF SendFile
  <2>2. GuiTypes' BY <1>1 DEF SendFile, GuiTypes
  <2> QED BY <1>1, <2>1, <2>2 DEF SendFile
<1>2. ASSUME NEW h \in Threads, EndJoin(h) PROVE TypeOK'
  <2>1. SlotTypes' BY <1>2, Bounds DEF EndJoin, SlotTypes
  <2> QED BY <1>2, <2>1 DEF EndJoin
<1>3. CASE InitSent
  <2>1. opened < MaxFiles BY <1>3, Bounds DEF InitSent, CountInv, SlotTypes, PlaceTypes
  <2>2. PlaceTypes' /\ DrawTypes' /\ cbWin' \in [Files -> 0 .. MaxFiles]
    BY <1>0, <1>3, <2>1, BuildTypes DEF InitSent
  <2>3. FileTypes' BY <1>3, <2>2 DEF InitSent, FileTypes, fileVars
  <2>4. GuiTypes' BY <1>3 DEF InitSent, GuiTypes
  <2> QED BY <1>3, <2>2, <2>3, <2>4 DEF InitSent
<1>4. CASE EndSendFile
  <2>1. PlaceTypes' /\ stray' \in Strays
    BY <1>0, <1>4, PlaceTransferTypes DEF EndSendFile, Strays
  <2>2. GuiTypes' BY <1>4 DEF EndSendFile, GuiTypes
  <2> QED BY <1>4, <2>1, <2>2 DEF EndSendFile
<1> QED BY <1>1, <1>2, <1>3, <1>4

\* ... of accepting, on either side, ...
LEMMA AcceptingTypes ==
  ASSUME TypeOK, (\E w \in Wins : AcceptTransfer(w)) \/ EndAccept \/ ReceiveFileTransferAccept
  PROVE  TypeOK'
<1> USE Frame DEF TypeOK, deskVars, windowVars, transferVars, rpcVars
<1>1. ASSUME NEW w \in Wins, AcceptTransfer(w) PROVE TypeOK'
  <2>1. GuiTypes' BY <1>1 DEF AcceptTransfer, GuiTypes, Wins
  <2>2. CASE LiveFile(transfer[w])
    <3>1. DrawTypes' /\ stray' \in Strays
      BY <1>1, <2>2, LiveFiles, OnAcceptTypes DEF AcceptTransfer, Strays
    <3>2. FileTypes' BY <1>1, <2>2 DEF AcceptTransfer, FileTypes
    <3> QED BY <1>1, <2>1, <3>1, <3>2 DEF AcceptTransfer
  <2>3. CASE ~LiveFile(transfer[w])
    <3>1. FileTypes' /\ stray' \in Strays
      BY <1>1, <2>3 DEF AcceptTransfer, FileTypes, Strays
    <3> QED BY <1>1, <2>1, <2>3, <3>1 DEF AcceptTransfer
  <2> QED BY <2>2, <2>3
<1>2. CASE EndAccept
  <2>1. GuiTypes' BY <1>2, Bounds DEF EndAccept, GuiTypes
  <2> QED BY <1>2, <2>1 DEF EndAccept, Strays
<1>3. CASE ReceiveFileTransferAccept
  <2>1. slot \in Files BY <1>3 DEF ReceiveFileTransferAccept, IsSend, SlotTypes, Files
  <2>2. DrawTypes' /\ stray' \in Strays
    BY <1>3, <2>1, OnAcceptTypes DEF ReceiveFileTransferAccept, Strays
  <2>3. FileTypes' BY <1>3, <2>1 DEF ReceiveFileTransferAccept, FileTypes
  <2> QED BY <1>3, <2>2, <2>3 DEF ReceiveFileTransferAccept
<1> QED BY <1>1, <1>2, <1>3

\* ... of receiving a FileMeta or a block, ...
LEMMA ReceivingTypes ==
  ASSUME TypeOK, CountInv, ThreadInv,
         ReceiveFileMeta \/ InitReceived \/ EndFileMeta \/ ReceiveFileBlock
           \/ UpdateReceived \/ ReportReceived
  PROVE  TypeOK'
<1> USE Frame DEF TypeOK, deskVars, windowVars, transferVars, guiVars
<1>0. "rpc" \in Threads BY DEF Threads
<1>1. CASE ReceiveFileMeta
  <2>1. SlotTypes' BY <1>0, <1>1, ReplaceTypes DEF ReceiveFileMeta
  <2>2. RpcTypes' BY <1>1 DEF ReceiveFileMeta, RpcTypes
  <2> QED BY <1>1, <2>1, <2>2 DEF ReceiveFileMeta
<1>2. CASE InitReceived
  <2>1. opened < MaxFiles BY <1>2, Bounds DEF InitReceived, CountInv, SlotTypes, PlaceTypes
  <2>2. PlaceTypes' /\ DrawTypes' /\ cbWin' \in [Files -> 0 .. MaxFiles]
    BY <1>0, <1>2, <2>1, BuildTypes DEF InitReceived
  <2>3. FileTypes' BY <1>2, <2>2 DEF InitReceived, FileTypes, fileVars
  <2>4. RpcTypes' BY <1>2 DEF InitReceived, RpcTypes
  <2> QED BY <1>2, <2>2, <2>3, <2>4 DEF InitReceived
<1>3. CASE EndFileMeta
  <2>1. PlaceTypes' /\ stray' \in Strays
    BY <1>0, <1>3, PlaceTransferTypes DEF EndFileMeta, Strays
  <2>2. RpcTypes' BY <1>3 DEF EndFileMeta, RpcTypes
  <2> QED BY <1>3, <2>1, <2>2 DEF EndFileMeta
<1>4. CASE ReceiveFileBlock
  <2>1. slot \in Files BY <1>4 DEF ReceiveFileBlock, IsRecv, SlotTypes, Files
  <2>2. done[slot] + 1 \in 0 .. NumBlocks
    BY <1>4, <2>1, Bounds DEF ReceiveFileBlock, FileTypes
  <2>3. FileTypes' BY <1>4, <2>2 DEF ReceiveFileBlock, FileTypes
  <2>4. RpcTypes' BY <1>4 DEF ReceiveFileBlock, RpcTypes, SlotTypes
  <2> QED BY <1>4, <2>3, <2>4 DEF ReceiveFileBlock
<1>5. CASE UpdateReceived
  <2>1. DrawTypes' /\ stray' \in Strays
    BY <1>5, LiveFiles, OnUpdateTypes DEF UpdateReceived, Strays
  <2>2. RpcTypes' BY <1>5 DEF UpdateReceived, RpcTypes
  <2> QED BY <1>5, <2>1, <2>2 DEF UpdateReceived
<1>6. CASE ReportReceived
  <2>1. LogTypes' /\ flag' \in BOOLEAN /\ stray' \in Strays
    BY <1>6, OnFinishTypes DEF ReportReceived, Strays, FileTypes
  <2>2. FileTypes' BY <1>6, <2>1 DEF ReportReceived, FileTypes
  <2>3. RpcTypes' BY <1>6, Bounds DEF ReportReceived, RpcTypes
  <2> QED BY <1>6, <2>1, <2>2, <2>3 DEF ReportReceived
<1> QED BY <1>1, <1>2, <1>3, <1>4, <1>5, <1>6

\* ... and of the workers.
LEMMA WorkerTypes ==
  ASSUME TypeOK, NEW f \in Files, Worker(f)
  PROVE  TypeOK'
<1> USE Frame DEF TypeOK, deskVars, windowVars, guiVars
<1>1. CASE PopBlock(f)
  <2>1. done[f] + 1 \in 0 .. NumBlocks
    BY <1>1, Bounds DEF PopBlock, HasUnsent, FileTypes
  <2>2. FileTypes' BY <1>1, <2>1 DEF PopBlock, FileTypes
  <2> QED BY <1>1, <2>2 DEF PopBlock
<1>2. CASE ReportSent(f)
  <2>1. LogTypes' /\ flag' \in BOOLEAN /\ stray' \in Strays
    BY <1>2, OnFinishTypes DEF ReportSent, Strays
  <2>2. FileTypes' BY <1>2, <2>1 DEF ReportSent, FileTypes
  <2> QED BY <1>2, <2>1, <2>2 DEF ReportSent
<1>3. CASE UpdateSent(f)
  <2>1. answered[f] + 1 \in 0 .. NumBlocks
    BY <1>3, Bounds DEF UpdateSent, FileTypes
  <2>2. FileTypes' BY <1>3, <2>1 DEF UpdateSent, FileTypes
  <2>3. DrawTypes' /\ stray' \in Strays
    BY <1>3, OnUpdateTypes DEF UpdateSent, Strays
  <2> QED BY <1>3, <2>2, <2>3 DEF UpdateSent
<1> QED BY <1>1, <1>2, <1>3 DEF Worker

-----------------------------------------------------------------------------
(* The steps, by the part of the program that takes them.                  *)

Chatting == TryConnect \/ BuildWindow \/ InitiateChat \/ ClearNeeded \/ ReceiveKex
            \/ ShowMessage
Drawing == MsgBox \/ Tick \/ Paint \/ Refresh \/ EndRefresh
Sending == SendFile \/ InitSent \/ EndSendFile
Accepting ==
  \/ \E w \in Wins : chat # 0 /\ AcceptTransfer(w)
  \/ EndAccept \/ ReceiveFileTransferAccept
Offering == ReceiveFileMeta \/ InitReceived \/ EndFileMeta
Receiving == ReceiveFileBlock \/ UpdateReceived \/ ReportReceived
Ending == (\E h \in Threads : EndJoin(h)) \/ \E f \in Files : Worker(f)

\* Every step belongs to one of seven groups.
LEMMA NextCases ==
  Next <=> Chatting \/ Drawing \/ Sending \/ Accepting \/ Offering \/ Receiving \/ Ending
BY DEF Next, GuiThread, RpcThread, User, Peer, Worker, Chatting, Drawing, Sending, Accepting,
       Offering, Receiving, Ending, Threads

\* The types are kept; the counters need the order of the steps.
LEMMA TypeStep ==
  ASSUME TypeOK, CountInv, ChatInv, ThreadInv, Next
  PROVE  TypeOK'
<1>1. CASE Chatting BY <1>1, DeskTypes DEF Chatting
<1>2. CASE Drawing BY <1>2, DeskTypes, DrawingTypes DEF Drawing
<1>3. CASE Sending BY <1>3, SendingTypes DEF Sending
<1>4. CASE Accepting BY <1>4, AcceptingTypes DEF Accepting
<1>5. CASE Offering BY <1>5, ReceivingTypes DEF Offering
<1>6. CASE Receiving BY <1>6, ReceivingTypes DEF Receiving
<1>7. CASE Ending BY <1>7, SendingTypes, WorkerTypes DEF Ending
<1> QED BY <1>1, <1>2, <1>3, <1>4, <1>5, <1>6, <1>7, NextCases

-----------------------------------------------------------------------------
(* What the operations that several steps use do.                          *)

\* The types as facts of arithmetic.
LEMMA Numbers ==
  ASSUME TypeOK
  PROVE  /\ MaxFiles \in Nat /\ MaxChats \in Nat
         /\ made \in Nat /\ slot \in Nat /\ opened \in Nat /\ windows \in Nat /\ chat \in Nat
         /\ made <= MaxFiles /\ opened <= MaxFiles /\ windows <= MaxChats
         /\ chat <= MaxChats /\ slot <= MaxFiles
         /\ \A h \in Threads : joins[h] \in Nat /\ building[h] \in Nat
         /\ \A f \in Files :
              /\ done[f] \in Nat /\ answered[f] \in Nat /\ cbWin[f] \in Nat
              /\ done[f] <= NumBlocks /\ answered[f] <= NumBlocks /\ cbWin[f] <= MaxFiles
         /\ \A c \in Chats : ftWin[c] \in Nat /\ ftWin[c] <= MaxFiles
         /\ \A w \in Wins :
              /\ inChat[w] \in Nat /\ transfer[w] \in Nat /\ shown[w] \in Nat
              /\ inChat[w] <= MaxChats /\ transfer[w] <= MaxFiles
<1>1. /\ made \in Nat /\ slot \in Nat /\ opened \in Nat /\ windows \in Nat /\ chat \in Nat
      /\ made <= MaxFiles /\ opened <= MaxFiles /\ windows <= MaxChats
      /\ chat <= MaxChats /\ slot <= MaxFiles
  BY Bounds DEF TypeOK, SlotTypes, PlaceTypes, ChatTypes
<1>2. \A h \in Threads : joins[h] \in Nat /\ building[h] \in Nat
  BY Bounds DEF TypeOK, SlotTypes, PlaceTypes
<1>3. \A f \in Files :
        /\ done[f] \in Nat /\ answered[f] \in Nat /\ cbWin[f] \in Nat
        /\ done[f] <= NumBlocks /\ answered[f] <= NumBlocks /\ cbWin[f] <= MaxFiles
  BY Bounds DEF TypeOK, FileTypes
<1>4. \A c \in Chats : ftWin[c] \in Nat /\ ftWin[c] <= MaxFiles
  BY Bounds DEF TypeOK, PlaceTypes
<1>5. \A w \in Wins :
        /\ inChat[w] \in Nat /\ transfer[w] \in Nat /\ shown[w] \in Nat
        /\ inChat[w] <= MaxChats /\ transfer[w] <= MaxFiles
  BY Bounds DEF TypeOK, PlaceTypes, DrawTypes
<1> QED BY <1>1, <1>2, <1>3, <1>4, <1>5, Bounds

\* A number up to made is a file ...
LEMMA InFiles ==
  ASSUME TypeOK, NEW f \in Nat, f # 0, f <= made
  PROVE  f \in Files
BY Numbers DEF Files

\* ... and so is whatever has a kind.
LEMMA KindFiles ==
  ASSUME TypeOK, ThreadInv, NEW f \in 0 .. MaxFiles, IsSend(f) \/ IsRecv(f)
  PROVE  f \in Files /\ f \in Nat /\ f <= made
<1>1. f \in Files BY Bounds DEF IsSend, IsRecv, Files
<1>2. ~(f > made) BY <1>1 DEF ThreadInv, IsSend, IsRecv
<1> QED BY <1>1, <1>2, Numbers DEF Files

\* A new object is the next file; who replaces one for sending has to join its workers.
LEMMA ReplaceEffect ==
  ASSUME TypeOK, NEW h \in Threads, NEW k \in {"send", "recv"}, Replace(h, k)
  PROVE  /\ made' = made + 1 /\ slot' = made' /\ made' \in Files
         /\ kind'[made'] = k /\ \A f \in Files : f # made' => kind'[f] = kind[f]
         /\ joins'[h] = IF IsSend(slot) THEN slot ELSE 0
         /\ \A g \in Threads : g # h => joins'[g] = joins[g]
<1> USE DEF TypeOK, SlotTypes, Replace
<1>1. made + 1 \in Files BY Bounds DEF Files
<1> QED BY <1>1

\* A window is built and put in the hands of the thread, or nothing happens.
LEMMA BuildEffect ==
  ASSUME TypeOK, NEW h \in Threads, slot # 0, opened < MaxFiles, BuildTransferWin(h)
  PROVE  \/ initCb = 0 /\ UNCHANGED <<placeVars, drawVars, cbWin>>
         \/ /\ initCb # 0
            /\ opened' = opened + 1 /\ opened' \in Wins
            /\ inChat'[opened'] = initCb /\ transfer'[opened'] = slot
            /\ \A w \in Wins : w # opened' =>
                 inChat'[w] = inChat[w] /\ transfer'[w] = transfer[w]
            /\ building'[h] = opened'
            /\ \A g \in Threads : g # h => building'[g] = building[g]
            /\ button'[opened'] = IsRecv(slot)
            /\ \A w \in Wins : w # opened' => button'[w] = button[w]
            /\ cbWin'[slot] = opened'
            /\ \A f \in Files : f # slot => cbWin'[f] = cbWin[f]
            /\ lagging \subseteq lagging' /\ (Reported(slot) > 0 => opened' \in lagging')
            /\ UNCHANGED <<ftWin, needsUpdate, shown>>
<1> USE DEF BuildTransferWin, InitTarget
<1>1. opened + 1 \in Wins /\ slot \in Files
  BY Bounds DEF TypeOK, PlaceTypes, SlotTypes, Wins, Files
<1>2. CASE initCb = 0 BY <1>2
<1>3. CASE initCb # 0
  <2> USE <1>1, <1>3
  <2>1. opened' = opened + 1 /\ opened' \in Wins /\ UNCHANGED <<ftWin, needsUpdate, shown>>
    OBVIOUS
  <2>2. /\ inChat'[opened'] = initCb /\ transfer'[opened'] = slot
        /\ \A w \in Wins : w # opened' =>
             inChat'[w] = inChat[w] /\ transfer'[w] = transfer[w]
        /\ building'[h] = opened'
        /\ \A g \in Threads : g # h => building'[g] = building[g]
    BY DEF TypeOK, PlaceTypes
  <2>3. /\ button'[opened'] = IsRecv(slot)
        /\ \A w \in Wins : w # opened' => button'[w] = button[w]
    BY DEF TypeOK, DrawTypes
  <2>4. cbWin'[slot] = opened' /\ \A f \in Files : f # slot => cbWin'[f] = cbWin[f]
    BY DEF TypeOK, FileTypes
  <2>5. lagging \subseteq lagging' /\ (Reported(slot) > 0 => opened' \in lagging')
    OBVIOUS
  <2> QED BY <2>1, <2>2, <2>3, <2>4, <2>5
<1> QED BY <1>2, <1>3

\* The window in hand becomes that of its chat window, or that is not there any more.
LEMMA PlaceEffect ==
  ASSUME TypeOK, NEW h \in Threads, PlaceTransferWin(h)
  PROVE  /\ building'[h] = 0 /\ \A g \in Threads : g # h => building'[g] = building[g]
         /\ UNCHANGED <<opened, inChat, transfer>>
         /\ \/ building[h] = 0 /\ UNCHANGED <<ftWin, stray>>
            \/ /\ building[h] # 0 /\ LiveChat(inChat[building[h]])
               /\ ftWin' = [ftWin EXCEPT ![inChat[building[h]]] = building[h]]
               /\ UNCHANGED stray
            \/ /\ building[h] # 0 /\ ~LiveChat(inChat[building[h]])
               /\ stray' = "initCallback" /\ UNCHANGED ftWin
<1>1. building'[h] = 0 /\ \A g \in Threads : g # h => building'[g] = building[g]
  BY DEF PlaceTransferWin, TypeOK, PlaceTypes
<1> QED BY <1>1 DEF PlaceTransferWin

\* onAccept hides the button of the window it calls into, or there is no such window.
LEMMA OnAcceptEffect ==
  ASSUME TypeOK, NEW f \in Files, OnAccept(f)
  PROVE  \/ cbWin[f] = 0 /\ UNCHANGED <<drawVars, stray>>
         \/ cbWin[f] # 0 /\ ~LiveWin(cbWin[f]) /\ stray' = "onAccept" /\ UNCHANGED drawVars
         \/ /\ cbWin[f] \in Wins /\ LiveWin(cbWin[f])
            /\ ~button'[cbWin[f]] /\ shown'[cbWin[f]] = done[f]
            /\ \A w \in Wins : w # cbWin[f] =>
                 button'[w] = button[w] /\ shown'[w] = shown[w]
            /\ UNCHANGED <<needsUpdate, lagging, stray>>
<1>1. cbWin[f] # 0 => cbWin[f] \in Wins BY DEF TypeOK, FileTypes, Wins
<1>2. CASE cbWin[f] # 0 /\ LiveWin(cbWin[f])
  BY <1>1, <1>2 DEF OnAccept, Hidden, TypeOK, DrawTypes
<1>3. CASE ~(cbWin[f] # 0 /\ LiveWin(cbWin[f])) BY <1>3 DEF OnAccept
<1> QED BY <1>2, <1>3

\* onUpdate marks the window it calls into, for a refresh that has begun in vain.
LEMMA OnUpdateEffect ==
  ASSUME TypeOK, NEW f \in Files, OnUpdate(f)
  PROVE  \/ cbWin[f] = 0 /\ UNCHANGED <<drawVars, stray>>
         \/ cbWin[f] # 0 /\ ~LiveWin(cbWin[f]) /\ stray' = "onUpdate" /\ UNCHANGED drawVars
         \/ /\ cbWin[f] \in Wins /\ LiveWin(cbWin[f])
            /\ needsUpdate'[cbWin[f]]
            /\ \A w \in Wins : w # cbWin[f] => needsUpdate'[w] = needsUpdate[w]
            /\ lagging \subseteq lagging'
            /\ gui = "drawing" /\ inside = cbWin[f] => cbWin[f] \in lagging'
            /\ UNCHANGED <<shown, button, stray>>
<1>1. cbWin[f] # 0 => cbWin[f] \in Wins BY DEF TypeOK, FileTypes, Wins
<1>2. CASE cbWin[f] # 0 /\ LiveWin(cbWin[f])
  BY <1>1, <1>2 DEF OnUpdate, Marked, TypeOK, DrawTypes
<1>3. CASE ~(cbWin[f] # 0 /\ LiveWin(cbWin[f])) BY <1>3 DEF OnUpdate
<1> QED BY <1>2, <1>3

\* A transfer that is there has been made.
LEMMA LiveKinds ==
  ASSUME TypeOK, CountInv, ThreadInv, NEW f, LiveFile(f)
  PROVE  f \in Files /\ f <= made /\ f \in 1 .. made
<1>1. f \in Files BY LiveFiles DEF TypeOK
<1>2. f <= made
  BY <1>1 DEF LiveFile, TypeOK, SlotTypes, CountInv, ThreadInv, Threads
<1> QED BY <1>1, <1>2, Bounds DEF Files, TypeOK, SlotTypes

-----------------------------------------------------------------------------
(* Counters and chats.                                                     *)

\* Every step keeps the counters in their order.
LEMMA CountStep ==
  ASSUME TypeOK, CountInv, Next
  PROVE  CountInv'
<1> USE Bounds DEF TypeOK, CountInv, Connected, Noticed, GuiTypes, ChatTypes, SlotTypes,
        PlaceTypes, RpcTypes, deskVars, windowVars, transferVars, guiVars, chatVars,
        placeVars, slotVars, rpcVars
<1>1. CASE Chatting
  <2>1. CASE ShowMessage BY <2>1 DEF ShowMessage
  <2>2. CASE InitiateChat
    <3>1. /\ gui = "joining" /\ gui' = (IF ticking THEN "clearing" ELSE "idle")
          /\ UNCHANGED <<ticking, needed, handshakes, windows, placeVars, slotVars, rpcVars>>
      BY <2>2 DEF InitiateChat
    <3> QED BY <3>1
  <2>3. CASE BuildWindow
    <3>1. /\ gui = "building" /\ gui' = "joining" /\ windows' = windows + 1
          /\ UNCHANGED <<ticking, needed, handshakes, placeVars, slotVars, rpcVars>>
      BY <2>3 DEF BuildWindow
    <3> QED BY <3>1
  <2>4. CASE TryConnect \/ ClearNeeded \/ ReceiveKex
    BY <2>4 DEF TryConnect, ClearNeeded, ReceiveKex
  <2> QED BY <1>1, <2>1, <2>2, <2>3, <2>4 DEF Chatting
<1>2. CASE Drawing
  <2>1. CASE MsgBox BY <2>1 DEF MsgBox
  <2>2. CASE Tick BY <2>2 DEF Tick
  <2>3. CASE Paint BY <2>3 DEF Paint
  <2>4. CASE Refresh
    <3>1. /\ UNCHANGED <<deskVars, placeVars, slotVars, rpcVars, ticking>>
          /\ gui = "refreshing" /\ gui' \in {"refreshing", "idle", "drawing"}
      BY <2>4 DEF Refresh
    <3> QED BY <3>1
  <2>5. CASE EndRefresh BY <2>5 DEF EndRefresh
  <2> QED BY <1>2, <2>1, <2>2, <2>3, <2>4, <2>5 DEF Drawing
<1>3. CASE Sending
  BY <1>3 DEF Sending, SendFile, Replace, InitSent, BuildTransferWin, EndSendFile,
              PlaceTransferWin
<1>4. CASE Accepting
  BY <1>4 DEF Accepting, AcceptTransfer, EndAccept, ReceiveFileTransferAccept
<1>5. CASE Offering
  BY <1>5 DEF Offering, ReceiveFileMeta, Replace, InitReceived, BuildTransferWin,
              EndFileMeta, PlaceTransferWin
<1>6. CASE Receiving
  BY <1>6 DEF Receiving, ReceiveFileBlock, UpdateReceived, ReportReceived
<1>7. CASE Ending
  BY <1>7 DEF Ending, EndJoin, Worker, PopBlock, ReportSent, UpdateSent
<1> QED BY <1>1, <1>2, <1>3, <1>4, <1>5, <1>6, <1>7, NextCases

\* Every step keeps the current chat, and who has its callbacks, in agreement.
LEMMA ChatStep ==
  ASSUME TypeOK, CountInv, ChatInv, Next
  PROVE  ChatInv'
<1> USE Bounds DEF TypeOK, ChatInv, GuiTypes, ChatTypes, SlotTypes, IsSend, Files,
        deskVars, windowVars, transferVars, guiVars, chatVars, slotVars
<1>1. CASE Chatting
  <2>1. CASE ShowMessage BY <2>1 DEF ShowMessage
  <2>2. CASE InitiateChat
    <3>1. /\ gui = "joining" /\ chat' = windows /\ initCb' = IF chat = 0 THEN initCb ELSE 0
          /\ gui' = (IF ticking THEN "clearing" ELSE "idle")
          /\ UNCHANGED <<windows, finishCb, slotVars>>
      BY <2>2 DEF InitiateChat
    <3> QED BY <3>1
  <2>3. CASE BuildWindow
    <3>1. /\ gui = "building" /\ gui' = "joining" /\ windows' = windows + 1
          /\ initCb' = windows' /\ finishCb' = windows' /\ UNCHANGED <<chat, slotVars>>
      BY <2>3 DEF BuildWindow
    <3> QED BY <3>1
  <2>4. CASE TryConnect \/ ClearNeeded \/ ReceiveKex
    BY <2>4 DEF TryConnect, ClearNeeded, ReceiveKex, CountInv
  <2> QED BY <1>1, <2>1, <2>2, <2>3, <2>4 DEF Chatting
<1>2. CASE Drawing BY <1>2 DEF Drawing, MsgBox, Tick, Paint, Refresh, EndRefresh
<1>3. CASE Sending
  BY <1>3 DEF Sending, SendFile, Replace, InitSent, BuildTransferWin, EndSendFile,
              PlaceTransferWin
<1>4. CASE Accepting
  BY <1>4 DEF Accepting, AcceptTransfer, EndAccept, ReceiveFileTransferAccept
<1>5. CASE Offering
  BY <1>5 DEF Offering, ReceiveFileMeta, Replace, InitReceived, BuildTransferWin,
              EndFileMeta, PlaceTransferWin
<1>6. CASE Receiving
  BY <1>6 DEF Receiving, ReceiveFileBlock, UpdateReceived, ReportReceived
<1>7. CASE Ending
  BY <1>7 DEF Ending, EndJoin, Worker, PopBlock, ReportSent, UpdateSent
<1> QED BY <1>1, <1>2, <1>3, <1>4, <1>5, <1>6, <1>7, NextCases

\* Every step leaves in the hands of a thread only what it is at.
LEMMA ThreadStep ==
  ASSUME TypeOK, CountInv, ThreadInv, Next
  PROVE  ThreadInv'
<1> USE DEF deskVars, windowVars, transferVars, guiVars, placeVars, slotVars, rpcVars, fileVars
<1>t. "gui" \in Threads /\ "rpc" \in Threads /\ \A h \in Threads : h \in {"gui", "rpc"}
  BY DEF Threads
<1>1. CASE Chatting
  BY <1>1 DEF Chatting, TryConnect, BuildWindow, InitiateChat, ClearNeeded, ShowMessage, ReceiveKex,
              ThreadInv, IsSend, IsRecv
<1>2. CASE Drawing
  BY <1>2 DEF Drawing, MsgBox, Tick, Paint, Refresh, EndRefresh, ThreadInv, IsSend, IsRecv
<1>3. CASE Sending
  <2>1. CASE SendFile
    <3>1. /\ Replace("gui", "send") /\ gui = "idle" /\ gui' = "sending"
          /\ UNCHANGED <<rpc, handling, building, opened, accepted>>
      BY <2>1 DEF SendFile
    <3>2. /\ made' = made + 1 /\ slot' = made' /\ made' \in Files /\ kind'[made'] = "send"
          /\ \A f \in Files : f # made' => kind'[f] = kind[f]
          /\ joins'["gui"] = (IF IsSend(slot) THEN slot ELSE 0)
          /\ joins'["rpc"] = joins["rpc"]
      BY <1>t, <3>1, ReplaceEffect
    <3>3. /\ slot = made /\ made \in Nat /\ \A h \in Threads : joins[h] \in Nat
          /\ \A f \in Files : f \in Nat
          /\ IsSend(slot) => slot \in Files
          /\ \A h \in Threads : joins[h] # 0 => joins[h] \in Files /\ joins[h] < made
          /\ rpc \in {"updating", "reporting"} => handling \in Files /\ handling <= made
      <4>1. slot = made /\ made \in Nat /\ \A h \in Threads : joins[h] \in Nat
        BY Numbers DEF CountInv
      <4>2. \A f \in Files : f \in Nat BY DEF Files
      <4>3. IsSend(slot) => slot \in Files BY <4>1, InFiles DEF IsSend
      <4>4. \A h \in Threads : joins[h] # 0 => joins[h] \in Files /\ joins[h] < made
        BY <4>1, InFiles DEF ThreadInv
      <4>5. rpc \in {"updating", "reporting"} => handling \in Files /\ handling <= made
        BY KindFiles DEF ThreadInv, TypeOK, RpcTypes
      <4> QED BY <4>1, <4>2, <4>3, <4>4, <4>5
    <3>4. \A h \in Threads : joins'[h] # 0 => IsSend(joins[h])' /\ joins'[h] < made'
      BY <1>t, <3>2, <3>3 DEF ThreadInv, IsSend
    <3>5. \A f \in Files :
            IF f > made' THEN kind'[f] = "none" /\ ~accepted[f] ELSE kind'[f] # "none"
      BY <3>2, <3>3 DEF ThreadInv
    <3>6. rpc' \in {"updating", "reporting"} => IsRecv(handling)'
      <4>1. rpc \in {"updating", "reporting"} => handling \in Files /\ handling # made'
        BY <3>2, <3>3
      <4>2. rpc \in {"updating", "reporting"} => kind'[handling] = kind[handling]
        BY <3>2, <4>1
      <4> QED BY <3>1, <4>2 DEF ThreadInv, IsRecv
    <3> QED BY <1>t, <3>1, <3>2, <3>3, <3>4, <3>5, <3>6 DEF ThreadInv
  <2>2. CASE InitSent
    <3>1. /\ BuildTransferWin("gui") /\ gui = "sending" /\ joins["gui"] = 0 /\ gui' = "placing"
          /\ slot # 0 /\ opened < MaxFiles
          /\ UNCHANGED <<rpc, handling, joins, made, kind, accepted>>
      BY <2>2, Numbers DEF InitSent, CountInv
    <3>2. /\ building'["gui"] = opened' \/ building'["gui"] = building["gui"]
          /\ building'["rpc"] = building["rpc"] /\ opened' \in {opened, opened + 1}
      BY <1>t, <3>1, BuildEffect DEF placeVars
    <3> QED BY <1>t, <3>1, <3>2, Numbers DEF ThreadInv, IsSend, IsRecv
  <2>3. CASE EndSendFile
    <3>1. /\ PlaceTransferWin("gui") /\ gui = "placing" /\ gui' = "idle"
          /\ UNCHANGED <<rpc, handling, joins, made, kind, accepted>>
      BY <2>3 DEF EndSendFile
    <3>2. /\ building'["gui"] = 0 /\ building'["rpc"] = building["rpc"] /\ opened' = opened
      BY <1>t, <3>1, PlaceEffect
    <3> QED BY <1>t, <3>1, <3>2, Numbers DEF ThreadInv, IsSend, IsRecv
  <2> QED BY <1>3, <2>1, <2>2, <2>3 DEF Sending
<1>4. CASE Accepting
  <2>1. ASSUME NEW w \in Wins, AcceptTransfer(w) PROVE ThreadInv'
    <3>1. \A f \in Files : f > made => accepted'[f] = accepted[f]
      <4>1. CASE LiveFile(transfer[w])
        BY <2>1, <4>1, LiveKinds, Numbers DEF AcceptTransfer, TypeOK, FileTypes
      <4>2. CASE ~LiveFile(transfer[w])
        BY <2>1, <4>2 DEF AcceptTransfer
      <4> QED BY <4>1, <4>2
    <3>2. /\ UNCHANGED <<joins, building, rpc, handling, made, kind, opened>>
          /\ gui = "idle" /\ gui' = "accepting"
      BY <2>1 DEF AcceptTransfer
    <3> QED BY <3>1, <3>2 DEF ThreadInv, IsSend, IsRecv
  <2>2. CASE EndAccept BY <2>2 DEF EndAccept, ThreadInv, IsSend, IsRecv
  <2>3. CASE ReceiveFileTransferAccept
    <3>1. \A f \in Files : f > made => accepted'[f] = accepted[f]
      <4>1. \A f \in Files : f > made => f # slot BY Numbers DEF CountInv
      <4>2. accepted' = [accepted EXCEPT ![slot] = TRUE]
        BY <2>3 DEF ReceiveFileTransferAccept
      <4>3. accepted \in [Files -> BOOLEAN] BY DEF TypeOK, FileTypes
      <4> QED BY <4>1, <4>2, <4>3
    <3> QED BY <2>3, <3>1 DEF ReceiveFileTransferAccept, ThreadInv, IsSend, IsRecv
  <2> QED BY <1>4, <2>1, <2>2, <2>3 DEF Accepting
<1>5. CASE Offering
  <2>1. CASE ReceiveFileMeta
    <3>1. /\ Replace("rpc", "recv") /\ rpc = "idle" /\ rpc' = "replacing"
          /\ UNCHANGED <<gui, handling, building, opened, accepted>>
      BY <2>1 DEF ReceiveFileMeta
    <3>2. /\ made' = made + 1 /\ slot' = made' /\ made' \in Files /\ kind'[made'] = "recv"
          /\ \A f \in Files : f # made' => kind'[f] = kind[f]
          /\ joins'["rpc"] = (IF IsSend(slot) THEN slot ELSE 0)
          /\ joins'["gui"] = joins["gui"]
      BY <1>t, <3>1, ReplaceEffect
    <3>3. /\ slot = made /\ made \in Nat /\ \A h \in Threads : joins[h] \in Nat
          /\ \A f \in Files : f \in Nat
          /\ IsSend(slot) => slot \in Files
          /\ \A h \in Threads : joins[h] # 0 => joins[h] \in Files /\ joins[h] < made
          /\ rpc \in {"updating", "reporting"} => handling \in Files /\ handling <= made
      <4>1. slot = made /\ made \in Nat /\ \A h \in Threads : joins[h] \in Nat
        BY Numbers DEF CountInv
      <4>2. \A f \in Files : f \in Nat BY DEF Files
      <4>3. IsSend(slot) => slot \in Files BY <4>1, InFiles DEF IsSend
      <4>4. \A h \in Threads : joins[h] # 0 => joins[h] \in Files /\ joins[h] < made
        BY <4>1, InFiles DEF ThreadInv
      <4>5. rpc \in {"updating", "reporting"} => handling \in Files /\ handling <= made
        BY KindFiles DEF ThreadInv, TypeOK, RpcTypes
      <4> QED BY <4>1, <4>2, <4>3, <4>4, <4>5
    <3>4. \A h \in Threads : joins'[h] # 0 => IsSend(joins[h])' /\ joins'[h] < made'
      BY <1>t, <3>2, <3>3 DEF ThreadInv, IsSend
    <3>5. \A f \in Files :
            IF f > made' THEN kind'[f] = "none" /\ ~accepted[f] ELSE kind'[f] # "none"
      BY <3>2, <3>3 DEF ThreadInv
    <3>6. rpc' \in {"updating", "reporting"} => IsRecv(handling)'
      <4>1. rpc \in {"updating", "reporting"} => handling \in Files /\ handling # made'
        BY <3>2, <3>3
      <4>2. rpc \in {"updating", "reporting"} => kind'[handling] = kind[handling]
        BY <3>2, <4>1
      <4> QED BY <3>1, <4>2 DEF ThreadInv, IsRecv
    <3> QED BY <1>t, <3>1, <3>2, <3>3, <3>4, <3>5, <3>6 DEF ThreadInv
  <2>2. CASE InitReceived
    <3>1. /\ BuildTransferWin("rpc") /\ rpc = "replacing" /\ joins["rpc"] = 0
          /\ rpc' = "placing" /\ slot # 0 /\ opened < MaxFiles
          /\ UNCHANGED <<gui, handling, joins, made, kind, accepted>>
      BY <2>2, Numbers DEF InitReceived, CountInv
    <3>2. /\ building'["rpc"] = opened' \/ building'["rpc"] = building["rpc"]
          /\ building'["gui"] = building["gui"] /\ opened' \in {opened, opened + 1}
      BY <1>t, <3>1, BuildEffect DEF placeVars
    <3> QED BY <1>t, <3>1, <3>2, Numbers DEF ThreadInv, IsSend, IsRecv
  <2>3. CASE EndFileMeta
    <3>1. /\ PlaceTransferWin("rpc") /\ rpc = "placing" /\ rpc' = "idle"
          /\ UNCHANGED <<gui, handling, joins, made, kind, accepted>>
      BY <2>3 DEF EndFileMeta
    <3>2. /\ building'["rpc"] = 0 /\ building'["gui"] = building["gui"] /\ opened' = opened
      BY <1>t, <3>1, PlaceEffect
    <3> QED BY <1>t, <3>1, <3>2, Numbers DEF ThreadInv, IsSend, IsRecv
  <2> QED BY <1>5, <2>1, <2>2, <2>3 DEF Offering
<1>6. CASE Receiving
  BY <1>6 DEF Receiving, ReceiveFileBlock, UpdateReceived, ReportReceived,
              ThreadInv, IsSend, IsRecv
<1>7. CASE Ending
  <2>1. ASSUME NEW h \in Threads, EndJoin(h) PROVE ThreadInv'
    <3>1. \A g \in Threads : joins'[g] \in {0, joins[g]}
      BY <2>1 DEF EndJoin, TypeOK, SlotTypes
    <3> QED BY <1>t, <2>1, <3>1 DEF EndJoin, ThreadInv, IsSend, IsRecv
  <2>2. ASSUME NEW f \in Files, Worker(f) PROVE ThreadInv'
    BY <2>2 DEF Worker, PopBlock, ReportSent, UpdateSent, ThreadInv, IsSend, IsRecv
  <2> QED BY <1>7, <2>1, <2>2 DEF Ending
<1> QED BY <1>1, <1>2, <1>3, <1>4, <1>5, <1>6, <1>7, NextCases

-----------------------------------------------------------------------------
(* Transfer windows.                                                       *)

\* A step that builds and places no window.
Kept ==
  /\ UNCHANGED <<placeVars, cbWin>>
  /\ windows' \in Nat /\ windows <= windows' /\ made' \in Nat /\ made <= made'
  /\ \A f \in Files : f <= made => kind'[f] = kind[f]
  /\ \A w \in Wins : (button'[w] => button[w]) /\ (w > opened => shown'[w] = shown[w])

\* The steps that neither build nor place a window.
LEMMA KeptSteps ==
  ASSUME TypeOK, CountInv, ChatInv, ThreadInv, WinInv,
         Chatting \/ Drawing \/ SendFile \/ Accepting \/ ReceiveFileMeta \/ Receiving \/ Ending
  PROVE  Kept
<1> USE DEF deskVars, windowVars, transferVars, guiVars, chatVars, placeVars, drawVars, slotVars,
        rpcVars, fileVars
<1>t. /\ "gui" \in Threads /\ "rpc" \in Threads
      /\ windows \in Nat /\ made \in Nat /\ opened \in Nat
      /\ \A f \in Files : f \in Nat /\ cbWin[f] <= opened
  BY Numbers DEF Threads, Files, WinInv
<1>1. CASE Chatting
  <2>1. CASE ShowMessage BY <2>1, <1>t DEF Kept, ShowMessage
  <2>2. CASE InitiateChat
    <3>1. UNCHANGED <<windows, placeVars, drawVars, cbWin, made, kind>>
      BY <2>2 DEF InitiateChat
    <3> QED BY <1>t, <3>1 DEF Kept
  <2>3. CASE BuildWindow
    <3>1. UNCHANGED <<placeVars, drawVars, cbWin, made, kind>> /\ windows' = windows + 1
      BY <2>3 DEF BuildWindow
    <3> QED BY <1>t, <3>1 DEF Kept
  <2>4. CASE TryConnect \/ ClearNeeded \/ ReceiveKex
    BY <1>t, <2>4 DEF Kept, TryConnect, ClearNeeded, ReceiveKex
  <2> QED BY <1>1, <2>1, <2>2, <2>3, <2>4 DEF Chatting
<1>2. CASE Drawing
  <2>1. CASE MsgBox \/ Tick \/ Paint BY <2>1, <1>t DEF Kept, MsgBox, Tick, Paint
  <2>2. CASE Refresh
    <3>1. ftWin[chat] \in Nat /\ ftWin[chat] <= opened
      BY <2>2, Numbers DEF Refresh, ChatInv, WinInv, Chats
    <3>2. \A w \in Wins : w > opened => shown'[w] = shown[w]
      <4>1. \A w \in Wins : w > opened => w # ftWin[chat] BY <3>1, <1>t DEF Wins
      <4> QED BY <2>2, <4>1 DEF Refresh, TypeOK, DrawTypes
    <3>3. UNCHANGED <<button, placeVars, cbWin, windows, made, kind>>
      BY <2>2 DEF Refresh
    <3> QED BY <3>2, <3>3, <1>t DEF Kept
  <2>3. CASE EndRefresh BY <2>3, <1>t DEF Kept, EndRefresh
  <2> QED BY <1>2, <2>1, <2>2, <2>3 DEF Drawing
<1>3. ASSUME NEW h \in Threads, NEW k \in {"send", "recv"}, Replace(h, k),
             UNCHANGED <<windows, placeVars, drawVars, cbWin>>
      PROVE  Kept
  <2>1. made' = made + 1 /\ \A f \in Files : f # made' => kind'[f] = kind[f]
    BY <1>3, ReplaceEffect
  <2> QED BY <1>3, <2>1, <1>t DEF Kept
<1>4. CASE SendFile
  BY <1>t, <1>3, <1>4 DEF SendFile
<1>5. CASE ReceiveFileMeta
  BY <1>t, <1>3, <1>5 DEF ReceiveFileMeta
<1>6. ASSUME NEW f \in Files, OnAccept(f),
             UNCHANGED <<windows, placeVars, cbWin, made, kind>>
      PROVE  Kept
  <2>1. \A w \in Wins : (button'[w] => button[w]) /\ (w > opened => shown'[w] = shown[w])
    BY <1>6, <1>t, OnAcceptEffect, Numbers DEF Wins
  <2> QED BY <1>6, <2>1, <1>t DEF Kept
<1>7. CASE Accepting
  <2>1. ASSUME NEW w \in Wins, AcceptTransfer(w) PROVE Kept
    <3>1. CASE LiveFile(transfer[w])
      <4>1. transfer[w] \in Files BY <3>1, LiveKinds
      <4> QED BY <2>1, <3>1, <4>1, <1>6 DEF AcceptTransfer
    <3>2. CASE ~LiveFile(transfer[w]) BY <2>1, <3>2, <1>t DEF AcceptTransfer, Kept
    <3> QED BY <3>1, <3>2
  <2>2. CASE EndAccept BY <2>2, <1>t DEF EndAccept, Kept
  <2>3. CASE ReceiveFileTransferAccept
    <3>1. slot \in Files
      BY <2>3, KindFiles DEF ReceiveFileTransferAccept, TypeOK, SlotTypes
    <3> QED BY <2>3, <3>1, <1>6 DEF ReceiveFileTransferAccept
  <2> QED BY <1>7, <2>1, <2>2, <2>3 DEF Accepting
<1>8. ASSUME NEW f \in Files, OnUpdate(f), UNCHANGED <<windows, placeVars, cbWin, made, kind>>
      PROVE  Kept
  BY <1>8, <1>t, OnUpdateEffect DEF Kept
<1>9. CASE Receiving
  <2>1. CASE ReceiveFileBlock BY <2>1, <1>t DEF ReceiveFileBlock, Kept
  <2>2. CASE UpdateReceived
    <3>1. CASE LiveFile(handling)
      <4>1. handling \in Files BY <3>1, LiveKinds
      <4> QED BY <2>2, <3>1, <4>1, <1>8 DEF UpdateReceived
    <3>2. CASE ~LiveFile(handling) BY <2>2, <3>2, <1>t DEF UpdateReceived, Kept
    <3> QED BY <3>1, <3>2
  <2>3. CASE ReportReceived BY <2>3, <1>t DEF ReportReceived, Kept
  <2> QED BY <1>9, <2>1, <2>2, <2>3 DEF Receiving
<1>10. CASE Ending
  <2>1. ASSUME NEW h \in Threads, EndJoin(h) PROVE Kept BY <2>1, <1>t DEF EndJoin, Kept
  <2>2. ASSUME NEW f \in Files, Worker(f) PROVE Kept
    <3>1. CASE PopBlock(f) \/ ReportSent(f) BY <3>1, <1>t DEF PopBlock, ReportSent, Kept
    <3>2. CASE UpdateSent(f) BY <3>2, <1>8 DEF UpdateSent
    <3> QED BY <2>2, <3>1, <3>2 DEF Worker
  <2> QED BY <1>10, <2>1, <2>2 DEF Ending
<1> QED BY <1>1, <1>2, <1>4, <1>5, <1>7, <1>9, <1>10

\* What the windows have in common before a step keeps after it.
LEMMA KeptWindows ==
  ASSUME TypeOK, CountInv, ThreadInv, WinInv, Kept
  PROVE  WinInv'
<1>1. UNCHANGED <<ftWin, opened, building, inChat, transfer, cbWin>>
  BY DEF Kept, placeVars
<1>2. /\ opened \in Nat /\ windows \in Nat /\ made \in Nat
      /\ windows' \in Nat /\ windows <= windows' /\ made' \in Nat /\ made <= made'
  BY Numbers DEF Kept
<1>3. \A w \in Wins : w <= opened =>
        inChat[w] \in 1 .. windows' /\ transfer[w] \in 1 .. made' /\ cbWin[transfer[w]] # 0
  BY <1>2 DEF WinInv
<1>4. \A w \in Wins : button'[w] => IsRecv(transfer[w])'
  <2> SUFFICES ASSUME NEW w \in Wins, button'[w] PROVE IsRecv(transfer[w])'
    OBVIOUS
  <2>1. IsRecv(transfer[w]) BY DEF Kept, WinInv
  <2>2. transfer[w] \in Files /\ transfer[w] <= made
    BY <2>1, KindFiles DEF TypeOK, PlaceTypes
  <2> QED BY <1>1, <2>1, <2>2 DEF Kept, IsRecv
<1>5. \A w \in Wins : w > opened => ~button'[w] /\ shown'[w] = 0
  BY DEF Kept, WinInv
<1> QED BY <1>1, <1>3, <1>4, <1>5 DEF WinInv

\* A window that is built is one of the slot's file in a chat window there is.
LEMMA BuiltWindows ==
  ASSUME TypeOK, CountInv, ChatInv, ThreadInv, WinInv, NEW h \in Threads,
         slot # 0, opened < made, BuildTransferWin(h), UNCHANGED <<windows, made, kind>>
  PROVE  WinInv'
<1>1. CASE initCb = 0 /\ UNCHANGED <<placeVars, drawVars, cbWin>>
  <2>1. Kept BY <1>1, Numbers DEF Kept, drawVars
  <2> QED BY <2>1, KeptWindows
<1>2. CASE ~(initCb = 0 /\ UNCHANGED <<placeVars, drawVars, cbWin>>)
  <2>t. /\ opened \in Nat /\ windows \in Nat /\ made \in Nat /\ slot = made
        /\ initCb \in 1 .. windows
    <3>1. windows \in Nat /\ initCb \in Nat /\ initCb \in {0, windows}
      BY Numbers DEF ChatInv, TypeOK, ChatTypes
    <3>2. initCb # 0
      BY <1>2, Numbers, BuildEffect
    <3> QED BY <3>1, <3>2, Numbers DEF CountInv
  <2>1. /\ opened' = opened + 1 /\ opened' \in Wins
        /\ inChat'[opened'] = initCb /\ transfer'[opened'] = slot
        /\ \A w \in Wins : w # opened' => inChat'[w] = inChat[w] /\ transfer'[w] = transfer[w]
        /\ button'[opened'] = IsRecv(slot)
        /\ \A w \in Wins : w # opened' => button'[w] = button[w]
        /\ cbWin'[slot] = opened'
        /\ \A f \in Files : f # slot => cbWin'[f] = cbWin[f]
        /\ UNCHANGED <<ftWin, shown>>
    BY <1>2, <2>t, Numbers, BuildEffect
  <2>2. slot \in Files /\ slot \in 1 .. made
    BY <2>t, InFiles
  <2>3. ASSUME NEW w \in Wins, w <= opened'
        PROVE  /\ inChat'[w] \in 1 .. windows' /\ transfer'[w] \in 1 .. made'
               /\ cbWin'[transfer'[w]] # 0
    <3>1. CASE w = opened' BY <2>1, <2>2, <2>t, <3>1
    <3>2. CASE w # opened'
      <4>1. w <= opened BY <2>1, <2>3, <2>t, <3>2 DEF Wins
      <4>2. /\ inChat[w] \in 1 .. windows /\ transfer[w] \in 1 .. made
            /\ cbWin[transfer[w]] # 0
        BY <4>1 DEF WinInv
      <4>3. transfer[w] \in Files BY <4>2, Numbers DEF Files
      <4>4. cbWin'[transfer[w]] # 0 BY <2>1, <2>t, <4>2, <4>3
      <4> QED BY <2>1, <3>2, <4>2, <4>4
    <3> QED BY <3>1, <3>2
  <2>4. ASSUME NEW w \in Wins, w > opened' PROVE ~button'[w] /\ shown'[w] = 0
    <3>1. w > opened /\ w # opened' BY <2>1, <2>4, <2>t DEF Wins
    <3> QED BY <2>1, <3>1 DEF WinInv
  <2>5. ASSUME NEW w \in Wins, button'[w] PROVE IsRecv(transfer[w])'
    <3>1. CASE w = opened' BY <2>1, <2>5, <3>1 DEF IsRecv
    <3>2. CASE w # opened' BY <2>1, <2>5, <3>2 DEF IsRecv, WinInv
    <3> QED BY <3>1, <3>2
  <2>6. ASSUME NEW c \in Chats
        PROVE  ftWin'[c] <= opened' /\ (ftWin'[c] # 0 => inChat'[ftWin'[c]] = c)
    <3>1. ftWin[c] \in Nat /\ ftWin[c] <= opened /\ (ftWin[c] # 0 => inChat[ftWin[c]] = c)
      BY Numbers DEF WinInv
    <3>2. ftWin[c] # opened' /\ ftWin[c] <= opened' /\ (ftWin[c] # 0 => ftWin[c] \in Wins)
      BY <2>1, <2>t, <3>1, Numbers DEF Wins
    <3> QED BY <2>1, <3>1, <3>2
  <2>7. ASSUME NEW f \in Files
        PROVE  cbWin'[f] <= opened' /\ (cbWin'[f] # 0 => transfer'[cbWin'[f]] = f)
    <3>1. CASE f = slot BY <2>1, <2>t, <3>1
    <3>2. CASE f # slot
      <4>1. cbWin[f] \in Nat /\ cbWin[f] <= opened /\ (cbWin[f] # 0 => transfer[cbWin[f]] = f)
        BY Numbers DEF WinInv
      <4>2. cbWin[f] # opened' /\ cbWin[f] <= opened' /\ (cbWin[f] # 0 => cbWin[f] \in Wins)
        BY <2>1, <2>t, <4>1, Numbers DEF Wins
      <4> QED BY <2>1, <3>2, <4>1, <4>2
    <3> QED BY <3>1, <3>2
  <2> QED BY <2>3, <2>4, <2>5, <2>6, <2>7 DEF WinInv
<1> QED BY <1>1, <1>2

\* A window that is placed goes into its own chat window, which never loses one.
LEMMA PlacedWindows ==
  ASSUME TypeOK, CountInv, ThreadInv, WinInv, NEW h \in Threads,
         PlaceTransferWin(h), UNCHANGED <<windows, made, kind, button, shown, cbWin>>
  PROVE  WinInv' /\ \A c \in Chats : ftWin[c] # 0 => ftWin'[c] # 0
<1>1. UNCHANGED <<opened, inChat, transfer>> BY PlaceEffect
<1>2. \A c \in Chats : \/ ftWin'[c] = ftWin[c]
                       \/ /\ ftWin'[c] = building[h] /\ building[h] # 0
                          /\ inChat[building[h]] = c
  BY PlaceEffect DEF TypeOK, PlaceTypes
<1>3. building[h] <= opened BY DEF ThreadInv
<1>4. \A c \in Chats :
        ftWin'[c] <= opened' /\ (ftWin'[c] # 0 => inChat'[ftWin'[c]] = c)
  BY <1>1, <1>2, <1>3 DEF WinInv
<1>5. \A w \in Wins : button'[w] => IsRecv(transfer[w])'
  BY <1>1 DEF WinInv, IsRecv
<1> QED BY <1>1, <1>2, <1>4, <1>5 DEF WinInv

\* The GUI thread leaves a window as it has entered it.
LEMMA InsideStep ==
  ASSUME TypeOK, CountInv, ChatInv, ThreadInv, WinInv, InsideInv, Next
  PROVE  InsideInv'
<1> USE DEF InsideInv, deskVars, windowVars, transferVars, guiVars, chatVars, placeVars
<1>1. CASE Chatting
  BY <1>1 DEF Chatting, TryConnect, BuildWindow, InitiateChat, ClearNeeded, ShowMessage, ReceiveKex
<1>2. CASE Drawing
  <2>1. CASE Refresh
    <3>1. chat \in Chats /\ ftWin[chat] \in Nat /\ ftWin[chat] <= opened
      BY <2>1, Numbers DEF Refresh, ChatInv, WinInv, Chats
    <3>2. ftWin[chat] # 0 => ftWin[chat] \in 1 .. opened /\ inChat[ftWin[chat]] = chat
      BY <3>1, Numbers DEF WinInv
    <3> QED BY <2>1, <3>2 DEF Refresh
  <2>2. CASE ~Refresh
    BY <1>2, <2>2 DEF Drawing, MsgBox, Tick, Paint, EndRefresh
  <2> QED BY <2>1, <2>2
<1>3. CASE Sending BY <1>3 DEF Sending, SendFile, InitSent, EndSendFile
<1>4. CASE Accepting
  <2>1. ASSUME NEW w \in Wins, chat # 0, AcceptTransfer(w)
        PROVE  inside' \in 1 .. opened' /\ inChat'[inside'] = chat' /\ ftWin'[chat'] # 0
    <3>1. /\ inside' = w /\ w = ftWin[chat]
          /\ UNCHANGED <<opened, inChat, chat, ftWin>>
      BY <2>1 DEF AcceptTransfer
    <3>2. chat \in Chats BY <2>1, Numbers DEF Chats
    <3>3. w \in 1 .. opened /\ w # 0 /\ inChat[w] = chat
      BY <3>1, <3>2, Numbers DEF WinInv, Wins
    <3> QED BY <3>1, <3>3
  <2>2. CASE EndAccept \/ ReceiveFileTransferAccept
    BY <2>2 DEF EndAccept, ReceiveFileTransferAccept
  <2> QED BY <1>4, <2>1, <2>2 DEF Accepting
<1>5. CASE Offering
  <2>1. UNCHANGED <<gui, inside, chat>> /\ chat \in Nat /\ chat <= MaxChats
    BY <1>5, Numbers DEF Offering, ReceiveFileMeta, InitReceived, EndFileMeta
  <2>2. CASE gui \in {"drawing", "accepting"}
    <3>1. chat \in Chats BY <2>1, <2>2, Bounds DEF ChatInv, Chats
    <3>2. "rpc" \in Threads BY DEF Threads
    <3>3. CASE ReceiveFileMeta BY <2>1, <3>3 DEF ReceiveFileMeta
    <3>4. CASE InitReceived
      <4>1. /\ BuildTransferWin("rpc") /\ slot # 0 /\ opened < MaxFiles /\ opened \in Nat
        BY <3>4, Numbers DEF InitReceived, CountInv
      <4>2. /\ opened' \in {opened, opened + 1} /\ ftWin' = ftWin
            /\ \A w \in Wins : w <= opened => inChat'[w] = inChat[w]
        BY <3>2, <4>1, BuildEffect, Numbers DEF placeVars, Wins
      <4>3. inside \in 1 .. opened /\ inside \in Wins /\ inChat[inside] = chat
        BY <2>2, Numbers DEF Wins
      <4> QED BY <2>1, <2>2, <4>1, <4>2, <4>3
    <3>5. CASE EndFileMeta
      <4>1. PlaceTransferWin("rpc") /\ UNCHANGED <<windows, made, kind, button, shown, cbWin>>
        BY <3>5 DEF EndFileMeta, drawVars, slotVars
      <4>2. (ftWin[chat] # 0 => ftWin'[chat] # 0) /\ UNCHANGED <<opened, inChat>>
        BY <3>1, <3>2, <4>1, PlacedWindows, PlaceEffect
      <4> QED BY <2>1, <2>2, <4>2
    <3> QED BY <1>5, <3>3, <3>4, <3>5 DEF Offering
  <2> QED BY <2>1, <2>2
<1>6. CASE Receiving
  BY <1>6 DEF Receiving, ReceiveFileBlock, UpdateReceived, ReportReceived
<1>7. CASE Ending
  BY <1>7 DEF Ending, EndJoin, Worker, PopBlock, ReportSent, UpdateSent
<1> QED BY <1>1, <1>2, <1>3, <1>4, <1>5, <1>6, <1>7, NextCases

\* Every step keeps the windows together with their chats and transfers.
LEMMA WinStep ==
  ASSUME TypeOK, CountInv, ChatInv, ThreadInv, WinInv, Next
  PROVE  WinInv'
<1> USE DEF deskVars, windowVars, transferVars, chatVars, drawVars, slotVars
<1>t. "gui" \in Threads /\ "rpc" \in Threads BY DEF Threads
<1>1. CASE Chatting \/ Drawing \/ SendFile \/ Accepting \/ ReceiveFileMeta \/ Receiving \/ Ending
  <2>1. Kept BY <1>1, KeptSteps
  <2> QED BY <2>1, KeptWindows
<1>2. CASE InitSent
  <2>1. /\ BuildTransferWin("gui") /\ slot # 0 /\ opened < made
        /\ UNCHANGED <<windows, made, kind>>
    BY <1>2, Numbers DEF InitSent, CountInv
  <2> QED BY <1>t, <2>1, BuiltWindows
<1>3. CASE InitReceived
  <2>1. /\ BuildTransferWin("rpc") /\ slot # 0 /\ opened < made
        /\ UNCHANGED <<windows, made, kind>>
    BY <1>3, Numbers DEF InitReceived, CountInv
  <2> QED BY <1>t, <2>1, BuiltWindows
<1>4. CASE EndSendFile
  <2>1. PlaceTransferWin("gui") /\ UNCHANGED <<windows, made, kind, button, shown, cbWin>>
    BY <1>4 DEF EndSendFile
  <2> QED BY <1>t, <2>1, PlacedWindows
<1>5. CASE EndFileMeta
  <2>1. PlaceTransferWin("rpc") /\ UNCHANGED <<windows, made, kind, button, shown, cbWin>>
    BY <1>5 DEF EndFileMeta
  <2> QED BY <1>t, <2>1, PlacedWindows
<1> QED BY <1>1, <1>2, <1>3, <1>4, <1>5, NextCases DEF Sending, Offering

-----------------------------------------------------------------------------
(* Transfers.                                                              *)

\* The object that takes the slot has done nothing yet.
LEMMA NewFile ==
  ASSUME TypeOK, CountInv, ThreadInv, WinInv, FileInv,
         NEW h \in Threads, NEW k \in {"send", "recv"}, Replace(h, k)
  PROVE  /\ made' = made + 1 /\ slot' = made' /\ made' \in Files /\ made' \in Nat /\ made' # 0
         /\ kind'[made'] = k /\ \A f \in Files : f # made' => kind'[f] = kind[f]
         /\ \A f \in Files : f \in Nat /\ (f <= made <=> kind[f] # "none")
         /\ \A f \in Files : f <= made => f # made'
         /\ ~accepted[made'] /\ done[made'] = 0 /\ answered[made'] = 0 /\ cbWin[made'] = 0
         /\ slot = made /\ (slot # 0 => slot \in Files) /\ slot # made'
         /\ joins'[h] = (IF IsSend(slot) THEN slot ELSE 0)
         /\ \A g \in Threads : g # h => joins'[g] = joins[g]
<1>1. /\ made' = made + 1 /\ slot' = made' /\ made' \in Files
      /\ kind'[made'] = k /\ \A f \in Files : f # made' => kind'[f] = kind[f]
      /\ joins'[h] = (IF IsSend(slot) THEN slot ELSE 0)
      /\ \A g \in Threads : g # h => joins'[g] = joins[g]
  BY ReplaceEffect
<1>2. /\ made \in Nat /\ made' \in Nat /\ made' > made /\ slot = made
      /\ (slot # 0 => slot \in Files) /\ \A f \in Files : f \in Nat
  BY <1>1, Numbers, InFiles DEF CountInv, Files
<1>3. \A f \in Files : f <= made <=> kind[f] # "none"
  BY <1>2 DEF ThreadInv
<1>4. ~accepted[made'] BY <1>1, <1>2 DEF ThreadInv
<1>5. done[made'] = 0 /\ answered[made'] = 0
  <2>1. ~IsRecv(made') BY <1>1, <1>2 DEF ThreadInv, IsRecv
  <2> QED BY <1>1, <1>4, <2>1, Numbers DEF FileInv
<1>6. cbWin[made'] = 0
  <2> SUFFICES ASSUME cbWin[made'] # 0 PROVE FALSE
    OBVIOUS
  <2>1. cbWin[made'] \in Wins /\ cbWin[made'] <= opened /\ transfer[cbWin[made']] = made'
    BY <1>1, Numbers DEF WinInv, Wins
  <2>2. transfer[cbWin[made']] \in 1 .. made BY <2>1 DEF WinInv
  <2> QED BY <1>2, <2>1, <2>2
<1> QED BY <1>1, <1>2, <1>3, <1>4, <1>5, <1>6

\* Windows stay: a transfer that has one will have one.
LEMMA WindowsStay ==
  ASSUME TypeOK, CountInv, ThreadInv, WinInv, Next, NEW f \in Files, cbWin[f] # 0
  PROVE  cbWin'[f] # 0
<1> USE DEF deskVars, windowVars, transferVars
<1>1. ASSUME NEW h \in Threads, slot # 0, opened < MaxFiles, BuildTransferWin(h)
      PROVE  cbWin'[f] # 0
  BY <1>1, BuildEffect, Numbers
<1>2. CASE InitSent \/ InitReceived
  <2>1. slot # 0 /\ opened < MaxFiles BY <1>2, Numbers DEF InitSent, InitReceived, CountInv
  <2>2. \E h \in Threads : BuildTransferWin(h) BY <1>2 DEF InitSent, InitReceived, Threads
  <2> QED BY <1>1, <2>1, <2>2
<1>3. CASE ~(InitSent \/ InitReceived)
  <2>1. UNCHANGED cbWin
    BY <1>3, NextCases
    DEF Chatting, TryConnect, BuildWindow, InitiateChat, ClearNeeded, ShowMessage, ReceiveKex,
        Drawing, MsgBox, Tick, Paint, Refresh, EndRefresh, Sending, SendFile, EndSendFile,
        Accepting, AcceptTransfer, EndAccept, ReceiveFileTransferAccept,
        Offering, ReceiveFileMeta, EndFileMeta,
        Receiving, ReceiveFileBlock, UpdateReceived, ReportReceived,
        Ending, EndJoin, Worker, PopBlock, ReportSent, UpdateSent
  <2> QED BY <2>1
<1> QED BY <1>2, <1>3

\* A step that leaves the transfers alone keeps what holds of them.
LEMMA FileKept ==
  ASSUME FileInv, UNCHANGED <<accepted, done, answered, slotVars>>,
         \A f \in Files : cbWin[f] # 0 => cbWin'[f] # 0,
         gui' = "sending" => gui = "sending", rpc' = "replacing" => rpc = "replacing"
  PROVE  FileInv'
BY DEF FileInv, slotVars, IsSend, IsRecv, LiveFile

\* So does one that puts a new object in the slot and has nobody to join.
LEMMA ReplacedFiles ==
  ASSUME TypeOK, CountInv, ThreadInv, WinInv, FileInv,
         NEW h \in Threads, NEW k \in {"send", "recv"}, Replace(h, k), joins[h] = 0,
         UNCHANGED <<accepted, done, answered, cbWin>>
  PROVE  FileInv'
<1>1. /\ slot' = made' /\ made' \in Files /\ made' # 0
      /\ kind'[made'] = k /\ \A f \in Files : f # made' => kind'[f] = kind[f]
      /\ ~accepted[made'] /\ done[made'] = 0
      /\ joins'[h] = (IF IsSend(slot) THEN slot ELSE 0)
      /\ \A g \in Threads : g # h => joins'[g] = joins[g]
  BY NewFile
<1>2. \A f \in Files : accepted[f] => f # made' /\ kind'[f] = kind[f]
  BY <1>1
<1>3. ASSUME NEW f \in Files, IsSend(f)', accepted[f], answered[f] < NumBlocks
      PROVE  LiveFile(f)'
  <2>1. IsSend(f) BY <1>2, <1>3 DEF IsSend
  <2>2. LiveFile(f) BY <1>3, <2>1 DEF FileInv
  <2>3. CASE f = slot
    <3>1. f # 0 /\ f = joins'[h] BY <1>1, <2>1, <2>3 DEF IsSend
    <3> QED BY <3>1 DEF LiveFile, Threads
  <2>4. CASE f # slot
    <3>1. f # 0 /\ \E g \in Threads : f = joins[g] BY <2>2, <2>4 DEF LiveFile, Threads
    <3>2. \E g \in Threads : f = joins'[g] BY <1>1, <3>1
    <3> QED BY <3>1, <3>2 DEF LiveFile, Threads
  <2> QED BY <2>3, <2>4
<1>4. \A f \in Files : accepted[f] /\ IsRecv(f)' => cbWin[f] # 0
  BY <1>2 DEF FileInv, IsRecv
<1>5. \A f \in Files : answered[f] <= done[f] /\ (done[f] > 0 => accepted[f] \/ IsRecv(f)')
  BY <1>1, NewFile DEF FileInv, IsRecv
<1> QED BY <1>1, <1>3, <1>4, <1>5 DEF FileInv

\* Every step keeps what holds of the transfers.
LEMMA FileStep ==
  ASSUME TypeOK, CountInv, ChatInv, ThreadInv, WinInv, FileInv, Next
  PROVE  FileInv'
<1> USE DEF deskVars, windowVars, transferVars, guiVars, slotVars, rpcVars, fileVars
<1>t. /\ "gui" \in Threads /\ "rpc" \in Threads
      /\ \A f \in Files : cbWin[f] # 0 => cbWin'[f] # 0
  BY WindowsStay DEF Threads
<1>1. CASE Chatting
  BY <1>1, <1>t, FileKept
  DEF Chatting, TryConnect, BuildWindow, InitiateChat, ClearNeeded, ShowMessage, ReceiveKex
<1>2. CASE Drawing
  BY <1>2, <1>t, FileKept DEF Drawing, MsgBox, Tick, Paint, Refresh, EndRefresh
<1>3. CASE Sending
  <2>1. CASE SendFile
    <3>1. Replace("gui", "send") /\ joins["gui"] = 0 BY <2>1 DEF SendFile, ThreadInv
    <3> QED BY <1>t, <2>1, <3>1, ReplacedFiles DEF SendFile
  <2>2. CASE InitSent \/ EndSendFile BY <2>2, <1>t, FileKept DEF InitSent, EndSendFile
  <2> QED BY <1>3, <2>1, <2>2 DEF Sending
<1>4. CASE Accepting
  <2>1. ASSUME NEW w \in Wins, AcceptTransfer(w) PROVE FileInv'
    <3> DEFINE f == transfer[w]
    <3>1. CASE LiveFile(f)
      <4>1. f \in Files /\ IsRecv(f) /\ cbWin[f] # 0
        <5>1. button[w] BY <2>1 DEF AcceptTransfer
        <5>2. w <= opened BY <5>1, Numbers DEF WinInv, Wins
        <5> QED BY <3>1, <5>1, <5>2, LiveKinds DEF WinInv
      <4>2. /\ accepted' = [accepted EXCEPT ![f] = TRUE]
            /\ UNCHANGED <<done, answered, cbWin, slot, joins, made, kind, rpc>>
            /\ gui' = "accepting"
        BY <2>1, <3>1 DEF AcceptTransfer
      <4>3. accepted'[f] /\ \A g \in Files : g # f => accepted'[g] = accepted[g]
        BY <4>1, <4>2 DEF TypeOK, FileTypes
      <4> HIDE DEF f
      <4> QED BY <4>1, <4>2, <4>3 DEF FileInv, IsSend, IsRecv, LiveFile
    <3>2. CASE ~LiveFile(f)
      BY <2>1, <3>2, <1>t, FileKept DEF AcceptTransfer
    <3> QED BY <3>1, <3>2
  <2>2. CASE EndAccept BY <2>2, <1>t, FileKept DEF EndAccept
  <2>3. CASE ReceiveFileTransferAccept
    <3>1. slot \in Files /\ IsSend(slot)
      BY <2>3, KindFiles DEF ReceiveFileTransferAccept, TypeOK, SlotTypes
    <3>2. accepted'[slot] /\ \A g \in Files : g # slot => accepted'[g] = accepted[g]
      BY <2>3, <3>1 DEF ReceiveFileTransferAccept, TypeOK, FileTypes
    <3>3. UNCHANGED <<done, answered, cbWin, slot, joins, made, kind, gui, rpc>>
      BY <2>3 DEF ReceiveFileTransferAccept
    <3> QED BY <3>1, <3>2, <3>3 DEF FileInv, IsSend, IsRecv, LiveFile
  <2> QED BY <1>4, <2>1, <2>2, <2>3 DEF Accepting
<1>5. CASE Offering
  <2>1. CASE ReceiveFileMeta
    <3>1. Replace("rpc", "recv") /\ joins["rpc"] = 0 BY <2>1 DEF ReceiveFileMeta, ThreadInv
    <3> QED BY <1>t, <2>1, <3>1, ReplacedFiles DEF ReceiveFileMeta
  <2>2. CASE InitReceived \/ EndFileMeta
    BY <2>2, <1>t, FileKept DEF InitReceived, EndFileMeta
  <2> QED BY <1>5, <2>1, <2>2 DEF Offering
<1>6. CASE Receiving
  <2>1. CASE ReceiveFileBlock
    <3>1. slot \in Files /\ IsRecv(slot)
      BY <2>1, KindFiles DEF ReceiveFileBlock, TypeOK, SlotTypes
    <3>2. done'[slot] = done[slot] + 1 /\ \A g \in Files : g # slot => done'[g] = done[g]
      BY <2>1, <3>1 DEF ReceiveFileBlock, TypeOK, FileTypes
    <3>3. /\ UNCHANGED <<accepted, answered, cbWin, slot, joins, made, kind, gui>>
          /\ rpc' = "updating" /\ \A g \in Files : done[g] \in Nat /\ answered[g] \in Nat
      BY <2>1, Numbers DEF ReceiveFileBlock
    <3> QED BY <3>1, <3>2, <3>3 DEF FileInv, IsSend, IsRecv, LiveFile
  <2>2. CASE UpdateReceived \/ ReportReceived
    BY <2>2, <1>t, FileKept DEF UpdateReceived, ReportReceived
  <2> QED BY <1>6, <2>1, <2>2 DEF Receiving
<1>7. CASE Ending
  <2>1. ASSUME NEW h \in Threads, EndJoin(h) PROVE FileInv'
    <3>1. joins'[h] = 0 /\ \A g \in Threads : g # h => joins'[g] = joins[g]
      BY <2>1 DEF EndJoin, TypeOK, SlotTypes
    <3>2. /\ UNCHANGED <<accepted, done, answered, cbWin, slot, made, kind, gui, rpc>>
          /\ Ended(joins[h])
      BY <2>1 DEF EndJoin
    <3>3. ASSUME NEW f \in Files, IsSend(f), accepted[f], answered[f] < NumBlocks
          PROVE  LiveFile(f)'
      <4>1. LiveFile(f) BY <3>3 DEF FileInv
      <4>2. f # joins[h]
        <5>1. answered[f] # NumBlocks BY <3>3, Numbers, Bounds
        <5> QED BY <3>2, <3>3, <5>1 DEF Ended
      <4>3. CASE f = slot BY <3>2, <4>1, <4>3 DEF LiveFile
      <4>4. CASE f # slot
        <5>1. f # 0 /\ \E g \in Threads : f = joins[g] BY <4>1, <4>4 DEF LiveFile, Threads
        <5>2. \E g \in Threads : f = joins'[g] BY <3>1, <4>2, <5>1
        <5> QED BY <5>1, <5>2 DEF LiveFile, Threads
      <4> QED BY <4>3, <4>4
    <3> QED BY <3>2, <3>3 DEF FileInv, IsSend, IsRecv
  <2>2. ASSUME NEW f \in Files, PopBlock(f) PROVE FileInv'
    <3>1. done'[f] = done[f] + 1 /\ \A g \in Files : g # f => done'[g] = done[g]
      BY <2>2 DEF PopBlock, TypeOK, FileTypes
    <3>2. /\ UNCHANGED <<accepted, answered, cbWin, slot, joins, made, kind, gui, rpc>>
          /\ IsSend(f) /\ accepted[f]
          /\ \A g \in Files : done[g] \in Nat /\ answered[g] \in Nat
      BY <2>2, Numbers DEF PopBlock
    <3>3. IsRecv(slot) => slot \in Files /\ slot # f
      BY <3>2, KindFiles DEF IsRecv, IsSend, TypeOK, SlotTypes
    <3> QED BY <3>1, <3>2, <3>3 DEF FileInv, IsSend, IsRecv, LiveFile
  <2>3. ASSUME NEW f \in Files, ReportSent(f) PROVE FileInv'
    BY <2>3, <1>t, FileKept DEF ReportSent
  <2>4. ASSUME NEW f \in Files, UpdateSent(f) PROVE FileInv'
    <3>1. answered'[f] = answered[f] + 1 /\ \A g \in Files : g # f => answered'[g] = answered[g]
      BY <2>4 DEF UpdateSent, TypeOK, FileTypes
    <3>2. /\ UNCHANGED <<accepted, done, cbWin, slot, joins, made, kind, gui, rpc>>
          /\ IsSend(f) /\ answered[f] < done[f]
          /\ \A g \in Files : done[g] \in Nat /\ answered[g] \in Nat
      BY <2>4, Numbers DEF UpdateSent
    <3>3. \A g \in Files : answered'[g] <= done[g] /\ answered'[g] >= answered[g]
      BY <3>1, <3>2 DEF FileInv
    <3>4. \A g \in Files : answered'[g] < NumBlocks => answered[g] < NumBlocks
      BY <3>1, <3>2, <3>3, Bounds
    <3> QED BY <3>2, <3>3, <3>4 DEF FileInv, IsSend, IsRecv, LiveFile
  <2> QED BY <1>7, <2>1, <2>2, <2>3, <2>4 DEF Ending, Worker
<1> QED BY <1>1, <1>2, <1>3, <1>4, <1>5, <1>6, <1>7, NextCases

-----------------------------------------------------------------------------
(* Transfers in one direction.                                             *)

\* Transfers that have gone in one direction had done so before the step, and a new
\* one goes the same way.
LEMMA OneWayBefore ==
  ASSUME TypeOK, CountInv, ThreadInv, WinInv, FileInv, Next, OneWay'
  PROVE  OneWay
<1> USE DEF deskVars, windowVars, transferVars, slotVars
<1>1. ASSUME NEW h \in Threads, NEW k \in {"send", "recv"}, Replace(h, k) PROVE OneWay
  <2>1. /\ made' = made + 1 /\ made \in Nat /\ made <= MaxFiles /\ MaxFiles \in Nat
        /\ \A f \in Files : f # made' => kind'[f] = kind[f]
    BY <1>1, NewFile, Numbers
  <2>2. \A f \in 1 .. made : f \in 1 .. made' /\ kind'[f] = kind[f]
    BY <2>1 DEF Files
  <2> QED BY <2>2 DEF OneWay
<1>2. CASE SendFile BY <1>1, <1>2 DEF SendFile, Threads
<1>3. CASE ReceiveFileMeta BY <1>1, <1>3 DEF ReceiveFileMeta, Threads
<1>4. CASE ~(SendFile \/ ReceiveFileMeta)
  <2>1. UNCHANGED <<made, kind>>
    BY <1>4, NextCases
    DEF Chatting, TryConnect, BuildWindow, InitiateChat, ClearNeeded, ShowMessage, ReceiveKex,
        Drawing, MsgBox, Tick, Paint, Refresh, EndRefresh, Sending, InitSent, EndSendFile,
        Accepting, AcceptTransfer, EndAccept, ReceiveFileTransferAccept,
        Offering, InitReceived, EndFileMeta,
        Receiving, ReceiveFileBlock, UpdateReceived, ReportReceived,
        Ending, EndJoin, Worker, PopBlock, ReportSent, UpdateSent
  <2> QED BY <2>1 DEF OneWay
<1> QED BY <1>2, <1>3, <1>4

\* While one side sends, the new object is of the kind of the old.
LEMMA SameWay ==
  ASSUME TypeOK, CountInv, ThreadInv, WinInv, FileInv, OneWay',
         NEW h \in Threads, NEW k \in {"send", "recv"}, Replace(h, k), slot # 0
  PROVE  kind[slot] = k
<1>1. /\ made' = made + 1 /\ made \in Nat /\ slot = made /\ kind'[made'] = k
      /\ slot \in Files /\ slot # made' /\ kind'[slot] = kind[slot]
  BY NewFile, Numbers
<1>2. slot \in 1 .. made' /\ made' \in 1 .. made'
  BY <1>1
<1> QED BY <1>1, <1>2 DEF OneWay

\* A step that neither changes the slot nor makes a window nor accepts.
OneWayKept ==
  /\ UNCHANGED <<slot, made, kind, cbWin, transfer, opened>>
  /\ gui' = gui \/ gui' \notin {"sending", "placing"}
  /\ \/ rpc' = "idle"
     \/ rpc' \in {rpc, "reporting"} /\ rpc # "idle" /\ handling' = handling
     \/ rpc = "idle" /\ rpc' = "updating" /\ handling' = slot /\ IsRecv(slot)
  /\ rpc = "replacing" => rpc' = "replacing"
  /\ rpc' = "reporting" => rpc \in {"updating", "reporting"}
  /\ \A h \in Threads : building'[h] \in {0, building[h]}
  /\ joins'["rpc"] \in {0, joins["rpc"]}
  /\ \A w \in Wins : button'[w] => button[w] /\ ~(accepted'[transfer[w]] /\ ~accepted[transfer[w]])

\* A step that changes nothing of this keeps it.
LEMMA KeptOneWay == ASSUME OneWayFacts, OneWayKept PROVE OneWayFacts'
BY DEF OneWayFacts, OneWayKept, IsSend, IsRecv

\* A new object has no window and is not accepted.
LEMMA OneWayReplace ==
  ASSUME TypeOK, CountInv, ThreadInv, WinInv, FileInv, OneWayFacts, OneWay',
         SendFile \/ ReceiveFileMeta
  PROVE  OneWayFacts'
<1> USE DEF deskVars, windowVars, placeVars, drawVars, rpcVars, fileVars
<1>t. "gui" \in Threads /\ "rpc" \in Threads /\ \A h \in Threads : h \in {"gui", "rpc"}
  BY DEF Threads
<1>0. ASSUME NEW h \in Threads, NEW k \in {"send", "recv"}, Replace(h, k)
      PROVE  /\ slot' = made' /\ made' # 0 /\ kind'[made'] = k /\ cbWin[made'] = 0
             /\ slot # 0 => kind[slot] = k
             /\ joins'[h] = (IF IsSend(slot) THEN slot ELSE 0)
             /\ \A g \in Threads : g # h => joins'[g] = joins[g]
  BY <1>0, NewFile, SameWay
<1>1. CASE SendFile
  <2>1. /\ gui = "idle" /\ gui' = "sending" /\ Replace("gui", "send")
        /\ UNCHANGED <<rpc, handling, cbWin, transfer, opened, building, button, accepted>>
    BY <1>1 DEF SendFile
  <2>2. /\ slot' = made' /\ made' # 0 /\ kind'[made'] = "send" /\ cbWin[made'] = 0
        /\ ~IsRecv(slot) /\ joins'["rpc"] = joins["rpc"]
    BY <1>0, <1>t, <2>1 DEF IsRecv
  <2>3. rpc = "idle" /\ building["gui"] = 0 /\ building["rpc"] = 0
    BY <2>1, <2>2 DEF OneWayFacts, ThreadInv
  <2>4. \A h \in Threads : building[h] = 0 BY <1>t, <2>3
  <2> QED BY <2>1, <2>2, <2>3, <2>4 DEF OneWayFacts, IsSend, IsRecv
<1>2. CASE ReceiveFileMeta
  <2>1. /\ rpc = "idle" /\ rpc' = "replacing" /\ Replace("rpc", "recv")
        /\ UNCHANGED <<gui, handling, cbWin, transfer, opened, building, button, accepted>>
    BY <1>2 DEF ReceiveFileMeta, guiVars
  <2>2. /\ slot' = made' /\ made' # 0 /\ kind'[made'] = "recv" /\ cbWin[made'] = 0
        /\ ~IsSend(slot) /\ joins'["rpc"] = 0
    BY <1>0, <1>t, <2>1 DEF IsSend
  <2>3. gui \notin {"sending", "placing"} /\ building["gui"] = 0 /\ building["rpc"] = 0
    BY <2>1, <2>2 DEF OneWayFacts, ThreadInv
  <2>4. \A h \in Threads : building[h] = 0 BY <1>t, <2>3
  <2> QED BY <2>1, <2>2, <2>3, <2>4 DEF OneWayFacts, IsSend, IsRecv
<1> QED BY <1>1, <1>2

\* One thread builds, and the file had no window.
LEMMA OneWayBuild ==
  ASSUME TypeOK, CountInv, ThreadInv, WinInv, FileInv, OneWayFacts, InitSent \/ InitReceived
  PROVE  OneWayFacts'
<1> USE DEF deskVars, windowVars, transferVars, slotVars, rpcVars, fileVars
<1>t. "gui" \in Threads /\ "rpc" \in Threads /\ \A h \in Threads : h \in {"gui", "rpc"}
  BY DEF Threads
<1>1. /\ slot \in Files /\ slot # 0 /\ opened < MaxFiles /\ opened \in Nat
      /\ cbWin[slot] = 0
      /\ UNCHANGED <<slot, made, kind, joins, accepted, handling>>
  BY Numbers, InFiles DEF InitSent, InitReceived, CountInv, OneWayFacts, guiVars
<1>2. building["gui"] = 0 /\ building["rpc"] = 0
  BY DEF InitSent, InitReceived, ThreadInv, OneWayFacts, IsSend, IsRecv
<1>3. \/ InitSent /\ gui' = "placing" /\ rpc' = rpc /\ IsSend(slot) /\ rpc = "idle"
      \/ InitReceived /\ rpc' = "placing" /\ gui' = gui /\ IsRecv(slot)
           /\ gui \notin {"sending", "placing"}
  BY DEF InitSent, InitReceived, OneWayFacts, IsSend, IsRecv, guiVars
<1>4. PICK h \in Threads : BuildTransferWin(h)
  BY <1>t DEF InitSent, InitReceived
<1>5. CASE initCb = 0 /\ UNCHANGED <<placeVars, drawVars, cbWin>>
  BY <1>1, <1>2, <1>3, <1>5 DEF OneWayFacts, placeVars, drawVars, IsSend, IsRecv
<1>6. CASE ~(initCb = 0 /\ UNCHANGED <<placeVars, drawVars, cbWin>>)
  <2>1. /\ opened' = opened + 1 /\ opened' \in Wins /\ transfer'[opened'] = slot
        /\ \A w \in Wins : w # opened' => transfer'[w] = transfer[w]
        /\ building'[h] = opened'
        /\ \A g \in Threads : g # h => building'[g] = building[g]
        /\ button'[opened'] = IsRecv(slot)
        /\ \A w \in Wins : w # opened' => button'[w] = button[w]
        /\ cbWin'[slot] = opened'
        /\ \A f \in Files : f # slot => cbWin'[f] = cbWin[f]
    BY <1>1, <1>4, <1>6, BuildEffect
  <2>2. ASSUME NEW w \in Wins, w <= opened' PROVE cbWin'[transfer'[w]] = w
    <3>1. CASE w = opened' BY <2>1, <3>1
    <3>2. CASE w # opened'
      <4>1. w <= opened BY <1>1, <2>1, <2>2, <3>2 DEF Wins
      <4>2. transfer[w] \in Files /\ cbWin[transfer[w]] # 0 /\ cbWin[transfer[w]] = w
        BY <4>1, Numbers DEF WinInv, OneWayFacts, Files
      <4> QED BY <1>1, <2>1, <3>2, <4>2
    <3> QED BY <3>1, <3>2
  <2>3. \A g \in Threads : building'[g] # 0 => cbWin'[slot] = building'[g]
    BY <1>t, <1>2, <2>1
  <2>4. ASSUME NEW w \in Wins, button'[w] PROVE ~accepted[transfer'[w]]
    <3>1. CASE w = opened'
      BY <1>1, <2>1, <2>4, <3>1 DEF FileInv
    <3>2. CASE w # opened' BY <2>1, <2>4, <3>2 DEF OneWayFacts
    <3> QED BY <3>1, <3>2
  <2> QED BY <1>1, <1>3, <2>2, <2>3, <2>4 DEF OneWayFacts, IsSend, IsRecv
<1> QED BY <1>5, <1>6

\* Accepting hides the only button the file has.
LEMMA OneWayAccept ==
  ASSUME TypeOK, CountInv, ChatInv, ThreadInv, WinInv, OneWayFacts, Accepting
  PROVE  OneWayFacts'
<1> USE DEF deskVars, windowVars, transferVars, placeVars, slotVars, rpcVars, fileVars
<1>0. Kept BY KeptSteps
<1>t. /\ UNCHANGED <<ftWin, opened, building, inChat, transfer, cbWin>>
      /\ \A w \in Wins : button'[w] => button[w]
  BY <1>0 DEF Kept
<1>1. ASSUME NEW w \in Wins, chat # 0, AcceptTransfer(w) PROVE OneWayFacts'
  <2> DEFINE f == transfer[w]
  <2>1. /\ w = ftWin[chat] /\ button[w] /\ chat \in Chats /\ w # 0 /\ w \in Nat
        /\ gui' = "accepting"
        /\ UNCHANGED <<rpc, handling, slot, made, kind, joins>>
    BY <1>1, Numbers DEF AcceptTransfer, Chats, Wins
  <2>2. w <= opened /\ inChat[w] = chat /\ cbWin[f] = w
    BY <2>1 DEF WinInv, OneWayFacts
  <2>3. LiveWin(w)
    <3>1. LiveChat(inChat[w]) BY <1>1, <2>2 DEF LiveChat
    <3>2. ftWin[inChat[w]] = w BY <2>1, <2>2
    <3> QED BY <2>1, <3>1, <3>2 DEF LiveWin
  <2>4. \A v \in Wins : button'[v] => ~(accepted'[transfer[v]] /\ ~accepted[transfer[v]])
    <3>1. CASE LiveFile(f)
      <4>1. f \in Files /\ OnAccept(f) /\ accepted' = [accepted EXCEPT ![f] = TRUE]
        BY <1>1, <3>1, LiveKinds DEF AcceptTransfer
      <4>e. cbWin[f] = w /\ w # 0 BY <2>1, <2>2
      <4>2. ~button'[w]
        <5> HIDE DEF f
        <5> QED BY <2>3, <4>1, <4>e, OnAcceptEffect
      <4>3. ASSUME NEW v \in Wins, button'[v] PROVE transfer[v] # f /\ transfer[v] \in Files
        <5>1. v # w /\ button[v] BY <1>t, <4>2, <4>3
        <5>2. v <= opened BY <5>1, Numbers DEF WinInv, Wins
        <5>3. cbWin[transfer[v]] = v /\ transfer[v] \in Files
          BY <5>2, Numbers DEF WinInv, OneWayFacts, Files
        <5> QED BY <2>2, <5>1, <5>3
      <4> HIDE DEF f
      <4> QED BY <4>1, <4>3 DEF TypeOK, FileTypes
    <3>2. CASE ~LiveFile(f) BY <1>1, <3>2 DEF AcceptTransfer
    <3> QED BY <3>1, <3>2
  <2>5. OneWayKept BY <1>t, <2>1, <2>4 DEF OneWayKept
  <2> QED BY <2>5, KeptOneWay
<1>2. CASE EndAccept
  <2>1. OneWayKept BY <1>2, <1>t DEF OneWayKept, EndAccept
  <2> QED BY <2>1, KeptOneWay
<1>3. CASE ReceiveFileTransferAccept
  <2>1. /\ IsSend(slot) /\ accepted' = [accepted EXCEPT ![slot] = TRUE]
        /\ UNCHANGED <<gui, rpc, handling, slot, made, kind, joins>>
    BY <1>3 DEF ReceiveFileTransferAccept, guiVars
  <2>2. slot \in Files BY <2>1, KindFiles DEF TypeOK, SlotTypes
  <2>3. \A v \in Wins : button[v] => transfer[v] # slot /\ IsRecv(transfer[v])
    BY <2>1 DEF WinInv, IsSend, IsRecv
  <2>4. \A v \in Wins : button[v] => transfer[v] \in Files
    BY <2>3, KindFiles DEF TypeOK, PlaceTypes
  <2>5. \A v \in Wins : button[v] => accepted'[transfer[v]] = accepted[transfer[v]]
    BY <2>1, <2>2, <2>3, <2>4 DEF TypeOK, FileTypes
  <2>6. OneWayKept BY <1>t, <2>1, <2>5 DEF OneWayKept
  <2> QED BY <2>6, KeptOneWay
<1> QED BY <1>1, <1>2, <1>3 DEF Accepting

\* Every step keeps what holds while one side sends.
LEMMA OneWayStep ==
  ASSUME TypeOK, CountInv, ChatInv, ThreadInv, WinInv, FileInv, OneWayInv, Next
  PROVE  OneWayInv'
<1> SUFFICES ASSUME OneWay' PROVE OneWayFacts'
  BY DEF OneWayInv
<1>0. OneWayFacts BY OneWayBefore DEF OneWayInv
<1> USE DEF deskVars, windowVars, transferVars, guiVars, placeVars, slotVars, rpcVars, fileVars
<1>t. "gui" \in Threads /\ "rpc" \in Threads /\ \A h \in Threads : h \in {"gui", "rpc"}
  BY DEF Threads
<1>1. CASE Chatting \/ Drawing \/ Receiving \/ Ending
  <2>1. Kept BY <1>1, KeptSteps
  <2>2. /\ UNCHANGED <<ftWin, opened, building, inChat, transfer, cbWin>>
        /\ \A w \in Wins : button'[w] => button[w]
    BY <2>1 DEF Kept
  <2>3. CASE Chatting
    <3>1. /\ UNCHANGED <<slot, made, kind, joins, rpc, handling, accepted>>
          /\ gui' = gui \/ gui' \notin {"sending", "placing"}
      BY <2>3 DEF Chatting, TryConnect, BuildWindow, InitiateChat, ClearNeeded, ShowMessage,
                  ReceiveKex
    <3> QED BY <1>0, <2>2, <3>1, KeptOneWay DEF OneWayKept
  <2>4. CASE Drawing
    <3>1. /\ UNCHANGED <<slot, made, kind, joins, rpc, handling, accepted>>
          /\ gui' = gui \/ gui' \notin {"sending", "placing"}
      BY <2>4 DEF Drawing, MsgBox, Tick, Paint, Refresh, EndRefresh
    <3> QED BY <1>0, <2>2, <3>1, KeptOneWay DEF OneWayKept
  <2>5. CASE Receiving
    <3>1. /\ UNCHANGED <<slot, made, kind, joins, gui, accepted>>
          /\ \/ rpc' = "idle" /\ rpc # "replacing"
             \/ rpc = "updating" /\ rpc' = "reporting" /\ handling' = handling
             \/ rpc = "idle" /\ rpc' = "updating" /\ handling' = slot /\ IsRecv(slot)
      BY <2>5 DEF Receiving, ReceiveFileBlock, UpdateReceived, ReportReceived
    <3> QED BY <1>0, <2>2, <3>1, KeptOneWay DEF OneWayKept
  <2>6. CASE Ending
    <3>1. /\ UNCHANGED <<slot, made, kind, gui, rpc, handling, accepted>>
          /\ joins' = joins \/ \E h \in Threads : EndJoin(h)
      BY <2>6 DEF Ending, EndJoin, Worker, PopBlock, ReportSent, UpdateSent
    <3>2. joins'["rpc"] \in {0, joins["rpc"]}
      BY <1>t, <3>1 DEF EndJoin, TypeOK, SlotTypes
    <3> QED BY <1>0, <2>2, <3>1, <3>2, KeptOneWay DEF OneWayKept
  <2> QED BY <1>1, <2>3, <2>4, <2>5, <2>6
<1>2. CASE SendFile \/ ReceiveFileMeta BY <1>0, <1>2, OneWayReplace
<1>3. CASE InitSent \/ InitReceived BY <1>0, <1>3, OneWayBuild
<1>4. CASE EndSendFile \/ EndFileMeta
  <2>1. PICK h \in Threads : PlaceTransferWin(h) BY <1>t, <1>4 DEF EndSendFile, EndFileMeta
  <2>2. UNCHANGED <<opened, inChat, transfer>> /\ \A g \in Threads : building'[g] \in {0, building[g]}
    BY <2>1, PlaceEffect
  <2>3. /\ UNCHANGED <<slot, made, kind, joins, cbWin, handling, accepted, button>>
        /\ gui' \in {gui, "idle"} /\ rpc' \in {rpc, "idle"}
        /\ rpc = "replacing" => rpc' = "replacing"
    BY <1>4 DEF EndSendFile, EndFileMeta, drawVars
  <2> QED BY <1>0, <2>2, <2>3, KeptOneWay DEF OneWayKept
<1>5. CASE Accepting BY <1>0, <1>5, OneWayAccept
<1> QED BY <1>1, <1>2, <1>3, <1>4, <1>5, NextCases DEF Sending, Offering

-----------------------------------------------------------------------------
(* The first chat.                                                         *)

\* A step that neither makes nor places a window, and takes no new file.
Quiet ==
  /\ UNCHANGED <<slot, kind, cbWin, ftWin, building>>
  /\ gui' = gui \/ {gui, gui'} \cap {"sending", "placing"} = {}
  /\ rpc' = rpc \/ {rpc, rpc'} \cap {"replacing", "placing"} = {}
  /\ joins'["gui"] \in {0, joins["gui"]}
  /\ gui' \in {"sending", "placing"} /\ accepted'[slot] => accepted[slot] \/ early' # {}
  /\ early \subseteq early'

\* A step that leaves windows and slot alone keeps what holds in the first chat.
LEMMA QuietFirstChat == ASSUME FirstChatFacts, Quiet PROVE FirstChatFacts'
<1>1. gui' \in {"sending", "placing"} => gui' = gui BY DEF Quiet
<1>2. gui' \notin {"sending", "placing"} => gui \notin {"sending", "placing"} BY DEF Quiet
<1>3. rpc' \in {"replacing", "placing"} => rpc' = rpc BY DEF Quiet
<1>4. rpc' \notin {"replacing", "placing"} => rpc \notin {"replacing", "placing"} BY DEF Quiet
<1>5. UNCHANGED <<slot, kind, cbWin, ftWin, building>> /\ joins'["gui"] \in {0, joins["gui"]}
  BY DEF Quiet
<1>6. gui' \in {"sending", "placing"} /\ accepted'[slot'] => early' # {}
  BY <1>1, <1>5 DEF Quiet, FirstChatFacts
<1> QED BY <1>1, <1>2, <1>3, <1>4, <1>5, <1>6 DEF FirstChatFacts, IsSend

\* Without a chat window there are no transfer windows.
LEMMA NoWindows ==
  ASSUME TypeOK, ChatInv, ThreadInv, WinInv, windows = 0
  PROVE  /\ opened = 0
         /\ \A c \in Chats : ftWin[c] = 0
         /\ \A f \in Files : cbWin[f] = 0 /\ ~IsSend(f)
         /\ \A h \in Threads : building[h] = 0
<1>1. opened = 0
  <2> SUFFICES ASSUME opened # 0 PROVE FALSE
    OBVIOUS
  <2>1. 1 \in Wins /\ 1 <= opened BY Numbers DEF Wins
  <2>2. inChat[1] \in 1 .. windows BY <2>1 DEF WinInv
  <2> QED BY <2>2
<1>2. \A c \in Chats : ftWin[c] = 0 BY <1>1, Numbers DEF WinInv
<1>3. \A f \in Files : cbWin[f] = 0 /\ ~IsSend(f) BY <1>1, Numbers DEF WinInv, ChatInv
<1>4. \A h \in Threads : building[h] = 0 BY <1>1, Numbers DEF ThreadInv
<1> QED BY <1>1, <1>2, <1>3, <1>4

\* When the first chat window is built nothing is sent and no window is there.
LEMMA FirstChatOpens ==
  ASSUME TypeOK, CountInv, ChatInv, ThreadInv, WinInv, BuildWindow, windows = 0
  PROVE  slot' # 0 => FirstChatFacts'
<1> SUFFICES ASSUME slot' # 0 PROVE FirstChatFacts'
  OBVIOUS
<1>1. /\ UNCHANGED <<slot, kind, cbWin, ftWin, building, joins>>
      /\ gui = "building" /\ gui' = "joining"
  BY DEF BuildWindow, placeVars, transferVars, slotVars
<1>2. 1 \in Chats
  BY Numbers, Bounds DEF BuildWindow, CountInv, Connected, TypeOK, ChatTypes, Noticed, Chats
<1>3. slot \in Files BY <1>1, Numbers, InFiles DEF CountInv
<1>4. ftWin[1] = 0 /\ cbWin[slot] = 0 /\ ~IsSend(slot) BY <1>2, <1>3, NoWindows
<1>5. joins["gui"] = 0 BY <1>1 DEF ThreadInv
<1> QED BY <1>1, <1>4, <1>5 DEF FirstChatFacts, IsSend

\* A new object has the window of its predecessor shown until its own is placed.
LEMMA FirstChatReplace ==
  ASSUME TypeOK, CountInv, ThreadInv, WinInv, FileInv, OneWayFacts, OneWay',
         slot # 0 => FirstChatFacts, SendFile \/ ReceiveFileMeta
  PROVE  FirstChatFacts'
<1> USE DEF deskVars, windowVars, placeVars, rpcVars, fileVars, guiVars
<1>t. "gui" \in Threads /\ "rpc" \in Threads BY DEF Threads
<1>0. ASSUME NEW h \in Threads, NEW k \in {"send", "recv"}, Replace(h, k)
      PROVE  /\ slot' = made' /\ kind'[made'] = k /\ cbWin[made'] = 0 /\ ~accepted[made']
             /\ slot # 0 => kind[slot] = k
             /\ joins'[h] = (IF IsSend(slot) THEN slot ELSE 0)
             /\ \A g \in Threads : g # h => joins'[g] = joins[g]
  BY <1>0, NewFile, SameWay
<1>1. CASE SendFile
  <2>1. /\ gui = "idle" /\ gui' = "sending" /\ Replace("gui", "send")
        /\ UNCHANGED <<rpc, cbWin, ftWin, building, accepted>>
    BY <1>1 DEF SendFile
  <2>2. /\ slot' = made' /\ cbWin[made'] = 0 /\ ~accepted[made'] /\ ~IsRecv(slot)
        /\ joins'["gui"] = (IF IsSend(slot) THEN slot ELSE 0)
    BY <1>0, <1>t, <2>1 DEF IsRecv
  <2>3. rpc = "idle" BY <2>2 DEF OneWayFacts
  <2>4. IsSend(slot) => ftWin[1] # 0 /\ ftWin[1] = cbWin[slot]
    BY <2>1, <2>3 DEF FirstChatFacts, IsSend
  <2> QED BY <2>1, <2>2, <2>3, <2>4 DEF FirstChatFacts
<1>2. CASE ReceiveFileMeta
  <2>1. /\ rpc' = "replacing" /\ Replace("rpc", "recv")
        /\ UNCHANGED <<gui, cbWin, ftWin, building, accepted>>
    BY <1>2 DEF ReceiveFileMeta
  <2>2. /\ slot' = made' /\ kind'[made'] = "recv" /\ cbWin[made'] = 0 /\ ~IsSend(slot)
        /\ joins'["gui"] = joins["gui"]
    BY <1>0, <1>t, <2>1 DEF IsSend
  <2>3. gui \notin {"sending", "placing"} /\ joins["gui"] = 0
    BY <1>t, <2>2 DEF OneWayFacts, ThreadInv
  <2> QED BY <2>1, <2>2, <2>3 DEF FirstChatFacts, IsSend
<1> QED BY <1>1, <1>2

\* The window of the slot's file is built, ...
LEMMA FirstChatBuild ==
  ASSUME TypeOK, CountInv, ChatInv, ThreadInv, OneWayFacts, FirstChatFacts, windows = 1,
         InitSent \/ InitReceived
  PROVE  FirstChatFacts'
<1> USE DEF deskVars, windowVars, transferVars, slotVars, rpcVars, fileVars, guiVars
<1>t. "gui" \in Threads /\ "rpc" \in Threads BY DEF Threads
<1>1. ASSUME NEW h \in Threads, BuildTransferWin(h), slot # 0, opened < made
      PROVE  cbWin'[slot] = building'[h] /\ building'[h] # 0 /\ ftWin' = ftWin
  <2>1. initCb # 0 /\ opened < MaxFiles BY <1>1, Numbers DEF ChatInv
  <2>2. building'[h] = opened' /\ cbWin'[slot] = opened' /\ opened' \in Wins /\ ftWin' = ftWin
    BY <1>1, <2>1, BuildEffect
  <2> QED BY <2>2 DEF Wins
<1>2. CASE InitSent
  <2>1. /\ gui = "sending" /\ gui' = "placing" /\ joins["gui"] = 0 /\ slot # 0 /\ opened < made
        /\ UNCHANGED <<slot, rpc, joins, accepted, early>> /\ BuildTransferWin("gui")
    BY <1>2, Numbers DEF InitSent, CountInv
  <2>2. cbWin'[slot] = building'["gui"] /\ building'["gui"] # 0
    BY <1>t, <1>1, <2>1
  <2>3. rpc = "idle" BY <2>1 DEF OneWayFacts, IsSend, IsRecv
  <2> QED BY <2>1, <2>2, <2>3 DEF FirstChatFacts
<1>3. CASE InitReceived
  <2>0. rpc = "replacing" /\ BuildTransferWin("rpc") /\ IsRecv(slot)
    BY <1>3 DEF InitReceived, OneWayFacts
  <2>1. /\ rpc' = "placing" /\ slot # 0 /\ opened < made
        /\ UNCHANGED <<slot, kind, gui, joins>>
    BY <1>3, <2>0, Numbers DEF InitReceived, CountInv
  <2>2. gui \notin {"sending", "placing"} /\ joins["gui"] = 0
    BY <1>t, <2>0 DEF OneWayFacts, ThreadInv, IsSend, IsRecv
  <2>3. cbWin'[slot] = building'["rpc"] /\ building'["rpc"] # 0
    BY <1>t, <1>1, <2>0, <2>1
  <2> QED BY <2>0, <2>1, <2>2, <2>3 DEF FirstChatFacts, IsSend, IsRecv
<1> QED BY <1>2, <1>3

\* ... and put in place.
LEMMA FirstChatPlace ==
  ASSUME TypeOK, CountInv, ThreadInv, WinInv, OneWayFacts, FirstChatFacts, windows = 1,
         EndSendFile \/ EndFileMeta
  PROVE  FirstChatFacts'
<1> USE DEF deskVars, windowVars, transferVars, slotVars, fileVars, guiVars, drawVars,
        rpcVars
<1>t. "gui" \in Threads /\ "rpc" \in Threads /\ 1 \in Chats
  BY Numbers DEF Threads, Chats
<1>1. ASSUME NEW h \in Threads, PlaceTransferWin(h), building[h] # 0
      PROVE  ftWin'[1] = building[h] /\ building[h] = cbWin[slot]
  <2>1. building[h] \in Wins /\ building[h] <= opened
    BY <1>1, Numbers DEF Wins, ThreadInv
  <2>2. inChat[building[h]] = 1 BY <2>1 DEF WinInv
  <2>3. LiveChat(1) BY DEF LiveChat
  <2>4. ftWin' = [ftWin EXCEPT ![1] = building[h]] BY <1>1, <2>2, <2>3, PlaceEffect
  <2> QED BY <1>1, <1>t, <2>4 DEF OneWayFacts, TypeOK, PlaceTypes
<1>2. CASE EndSendFile
  <2>1. /\ gui = "placing" /\ gui' = "idle" /\ PlaceTransferWin("gui")
        /\ UNCHANGED <<slot, kind, cbWin, rpc, joins, accepted, early>>
    BY <1>2 DEF EndSendFile
  <2>2. rpc = "idle" BY <2>1 DEF OneWayFacts, IsSend, IsRecv
  <2>3. building["gui"] # 0 /\ joins["gui"] = 0 BY <1>t, <2>1 DEF FirstChatFacts, ThreadInv
  <2>4. ftWin'[1] = cbWin[slot] /\ ftWin'[1] # 0 BY <1>t, <1>1, <2>1, <2>3
  <2> QED BY <2>1, <2>2, <2>3, <2>4 DEF FirstChatFacts
<1>3. CASE EndFileMeta
  <2>1. /\ rpc = "placing" /\ rpc' = "idle" /\ PlaceTransferWin("rpc")
        /\ UNCHANGED <<slot, kind, cbWin, gui, joins, accepted, early>>
    BY <1>3 DEF EndFileMeta
  <2>2. IsRecv(slot) /\ ~IsSend(slot) /\ gui \notin {"sending", "placing"}
    BY <2>1 DEF OneWayFacts, IsSend, IsRecv
  <2>3. joins["gui"] = 0 BY <1>t, <2>2 DEF ThreadInv
  <2>4. CASE building["rpc"] # 0
    <3>1. ftWin'[1] = cbWin[slot] BY <1>t, <1>1, <2>1, <2>4
    <3> QED BY <2>1, <2>2, <2>3, <3>1 DEF FirstChatFacts, IsSend
  <2>5. CASE building["rpc"] = 0
    <3>1. ftWin[1] = 0 BY <2>1, <2>5 DEF FirstChatFacts
    <3>2. ftWin' = ftWin /\ building'["gui"] = building["gui"] /\ building'["rpc"] = 0
      BY <1>t, <2>1, <2>5, PlaceEffect
    <3> QED BY <2>1, <2>2, <2>3, <2>5, <3>1, <3>2 DEF FirstChatFacts, IsSend
  <2> QED BY <2>4, <2>5
<1> QED BY <1>2, <1>3

\* An accept leaves the window of the slot's file in place, for the button that is
\* pressed is in that window.
LEMMA ShownAccept ==
  ASSUME TypeOK, CountInv, ChatInv, ThreadInv, WinInv, OneWayInv, FirstChatInv,
         NEW w \in Wins, AcceptTransfer(w), chat # 0, OneWay, windows = 1, rpc # "replacing"
  PROVE  cbWin[slot] # 0
<1>t. "gui" \in Threads /\ "rpc" \in Threads BY DEF Threads
<1>1. gui = "idle" /\ w = ftWin[1] /\ w # 0
  BY Numbers DEF AcceptTransfer, ChatInv, Wins
<1>2. slot # 0
  <2>1. w <= opened BY <1>1, Numbers DEF WinInv, Chats
  <2>2. transfer[w] \in 1 .. made BY <2>1 DEF WinInv
  <2> QED BY <2>2, Numbers DEF CountInv
<1>3. FirstChatFacts /\ OneWayFacts BY <1>2 DEF FirstChatInv, OneWayInv
<1>4. CASE rpc = "placing" BY <1>t, <1>1, <1>3, <1>4 DEF FirstChatFacts, OneWayFacts
<1>5. CASE rpc # "placing" BY <1>1, <1>3, <1>5 DEF FirstChatFacts
<1> QED BY <1>4, <1>5

\* Every step keeps what the blocks that arrive take for granted.
LEMMA BlockStep ==
  ASSUME TypeOK, CountInv, ChatInv, ThreadInv, WinInv, FileInv, OneWayInv, FirstChatInv,
         BlockInv, Next
  PROVE  BlockInv'
<1> USE DEF deskVars, windowVars, transferVars, guiVars, chatVars, placeVars, slotVars, rpcVars,
            fileVars
<1>1. CASE ReceiveFileBlock
  <2>1. SomeAccepted' /\ OneWay' = OneWay
    BY <1>1 DEF ReceiveFileBlock, SomeAccepted, IsRecv, OneWay
  <2>2. SomeAccepted /\ rpc # "replacing" /\ UNCHANGED <<windows, slot, cbWin>>
    BY <1>1 DEF ReceiveFileBlock, SomeAccepted
  <2> QED BY <2>1, <2>2 DEF BlockInv
<1>2. CASE SendFile \/ ReceiveFileMeta
  <2>1. rpc' = "replacing" \/ (rpc' = rpc /\ IsSend(slot)')
    <3>1. CASE SendFile
      <4>1. Replace("gui", "send") /\ "gui" \in Threads BY <3>1 DEF SendFile, Threads
      <4>2. slot' = made' /\ kind'[made'] = "send" /\ made' # 0 BY <4>1, NewFile
      <4> QED BY <3>1, <4>2 DEF SendFile, IsSend
    <3>2. CASE ReceiveFileMeta BY <3>2 DEF ReceiveFileMeta
    <3> QED BY <1>2, <3>1, <3>2
  <2>2. PICK h \in Threads, k \in {"send", "recv"} : Replace(h, k)
    BY <1>2 DEF SendFile, ReceiveFileMeta, Threads
  <2>3. UNCHANGED accepted BY <1>2 DEF SendFile, ReceiveFileMeta
  <2>4. SomeAccepted' = SomeAccepted
    <3>1. \A f \in Files : accepted[f] => kind'[f] = kind[f] BY <2>2, NewFile
    <3> QED BY <2>3, <3>1 DEF SomeAccepted, IsRecv
  <2>5. OneWay' /\ IsSend(slot)' => ~SomeAccepted'
    <3>1. \A f \in Files : accepted[f] => f \in 1 .. made'
      <4>1. \A f \in Files : accepted[f] => f <= made BY DEF ThreadInv, Files, TypeOK, SlotTypes
      <4>2. made \in Nat /\ made' = made + 1 BY <2>2, NewFile, Numbers
      <4> QED BY <4>1, <4>2 DEF Files
    <3>2. slot' \in 1 .. made' BY <2>2, NewFile
    <3> QED BY <2>3, <3>1, <3>2 DEF OneWay, SomeAccepted, IsSend, IsRecv
  <2>6. rpc' \in {"updating", "reporting"} => rpc' = rpc BY <2>1
  <2> QED BY <2>1, <2>4, <2>5, <2>6 DEF BlockInv
<1>3. CASE BuildWindow
  <2>1. UNCHANGED <<slot, made, kind, accepted, rpc, cbWin>> /\ windows' = windows + 1
    BY <1>3 DEF BuildWindow
  <2>2. SomeAccepted' = SomeAccepted BY <2>1 DEF SomeAccepted, IsRecv
  <2>3. SomeAccepted => windows # 0
    <3>1. SomeAccepted => \E f \in Files : cbWin[f] # 0 BY DEF SomeAccepted, FileInv
    <3> QED BY <3>1, NoWindows
  <2>4. SomeAccepted => windows' # 1 BY <2>1, <2>3, Numbers
  <2> QED BY <2>1, <2>2, <2>4 DEF BlockInv
<1>4. CASE InitReceived
  <2>1. /\ BuildTransferWin("rpc") /\ "rpc" \in Threads /\ slot # 0 /\ opened < MaxFiles
        /\ rpc' = "placing" /\ UNCHANGED <<windows, slot>>
    BY <1>4, Numbers DEF InitReceived, CountInv, Threads
  <2>2. windows = 1 => initCb # 0 BY DEF ChatInv
  <2>3. windows = 1 => cbWin'[slot] # 0
    BY <2>1, <2>2, BuildEffect DEF Wins
  <2> QED BY <2>1, <2>3 DEF BlockInv
<1>5. CASE \E w \in Wins : chat # 0 /\ AcceptTransfer(w)
  <2>1. PICK w \in Wins : chat # 0 /\ AcceptTransfer(w) BY <1>5
  <2>2. UNCHANGED <<windows, slot, made, kind, rpc, cbWin>> BY <2>1 DEF AcceptTransfer
  <2>3. OneWay /\ windows = 1 /\ rpc # "replacing" => cbWin[slot] # 0
    BY <2>1, ShownAccept
  <2>4. \A f \in Files : accepted[f] => accepted'[f]
    BY <2>1 DEF AcceptTransfer, TypeOK, FileTypes
  <2>5. SomeAccepted => SomeAccepted' BY <2>2, <2>4 DEF SomeAccepted, IsRecv
  <2> QED BY <2>2, <2>3, <2>5 DEF BlockInv, OneWay
<1>6. CASE ReceiveFileTransferAccept
  <2>1. UNCHANGED <<windows, slot, made, kind, rpc, cbWin>> /\ IsSend(slot)
    BY <1>6 DEF ReceiveFileTransferAccept
  <2>2. \A f \in Files : f # slot => accepted'[f] = accepted[f]
    BY <1>6 DEF ReceiveFileTransferAccept, TypeOK, FileTypes
  <2>3. SomeAccepted' = SomeAccepted BY <2>1, <2>2 DEF SomeAccepted, IsSend, IsRecv
  <2> QED BY <2>1, <2>3 DEF BlockInv, OneWay
<1>7. CASE ~(\/ ReceiveFileBlock \/ SendFile \/ ReceiveFileMeta \/ BuildWindow \/ InitReceived
             \/ (\E w \in Wins : chat # 0 /\ AcceptTransfer(w)) \/ ReceiveFileTransferAccept)
  <2>1. /\ UNCHANGED <<windows, slot, made, kind, accepted>>
        /\ rpc' \in {"updating", "reporting"} => rpc \in {"updating", "reporting"}
        /\ rpc = "replacing" => rpc' = "replacing"
    BY <1>7, NextCases
    DEF Chatting, TryConnect, InitiateChat, ClearNeeded, ShowMessage, ReceiveKex,
        Drawing, MsgBox, Tick, Paint, Refresh, EndRefresh, Sending, InitSent, EndSendFile,
        Accepting, EndAccept, Offering, EndFileMeta, Receiving, UpdateReceived, ReportReceived,
        Ending, EndJoin, Worker, PopBlock, ReportSent, UpdateSent
  <2>2. SomeAccepted' = SomeAccepted /\ OneWay' = OneWay
    BY <2>1 DEF SomeAccepted, IsRecv, OneWay
  <2>3. SomeAccepted => slot \in Files
    <3>1. \A f \in Files : accepted[f] => f <= made /\ f # 0
      BY DEF ThreadInv, Files, TypeOK, SlotTypes
    <3>2. SomeAccepted => made # 0 BY <3>1, Numbers DEF SomeAccepted, Files
    <3> QED BY <3>2, Numbers, InFiles DEF CountInv
  <2>4. SomeAccepted /\ cbWin[slot] # 0 => cbWin'[slot] # 0 BY <2>3, WindowsStay
  <2> QED BY <2>1, <2>2, <2>4 DEF BlockInv
<1> QED BY <1>1, <1>2, <1>3, <1>4, <1>5, <1>6, <1>7

\* Every step keeps what holds in the first chat.
LEMMA FirstChatStep ==
  ASSUME TypeOK, CountInv, ChatInv, ThreadInv, WinInv, FileInv, OneWayInv, FirstChatInv, Next
  PROVE  FirstChatInv'
<1> SUFFICES ASSUME OneWay', windows' = 1, slot' # 0 PROVE FirstChatFacts'
  BY DEF FirstChatInv
<1>0. OneWayFacts BY OneWayBefore DEF OneWayInv
<1>f. windows = 1 /\ slot # 0 => FirstChatFacts BY OneWayBefore DEF FirstChatInv
<1> USE DEF deskVars, windowVars, transferVars, guiVars, chatVars, placeVars, slotVars, rpcVars,
            fileVars
<1>t. "gui" \in Threads /\ windows \in Nat BY Numbers DEF Threads
<1>1. CASE SendFile \/ ReceiveFileMeta
  <2>1. windows = 1 BY <1>1 DEF SendFile, ReceiveFileMeta
  <2> QED BY <1>0, <1>1, <1>f, <2>1, FirstChatReplace
<1>2. CASE InitSent \/ InitReceived
  <2>1. windows = 1 /\ slot # 0 BY <1>2 DEF InitSent, InitReceived
  <2> QED BY <1>0, <1>2, <1>f, <2>1, FirstChatBuild
<1>3. CASE EndSendFile \/ EndFileMeta
  <2>1. windows = 1 /\ slot # 0 BY <1>3 DEF EndSendFile, EndFileMeta
  <2> QED BY <1>0, <1>3, <1>f, <2>1, FirstChatPlace
<1>4. CASE BuildWindow
  <2>1. windows = 0 BY <1>t, <1>4 DEF BuildWindow
  <2> QED BY <1>4, <2>1, FirstChatOpens
<1>5. CASE TryConnect \/ InitiateChat \/ ClearNeeded \/ ReceiveKex
            \/ ShowMessage
  <2>1. Quiet /\ windows = 1 /\ slot # 0
    BY <1>5 DEF Quiet, TryConnect, InitiateChat, ClearNeeded, ShowMessage, ReceiveKex
  <2> QED BY <1>f, <2>1, QuietFirstChat
<1>6. CASE Drawing
  <2>1. Quiet /\ windows = 1 /\ slot # 0
    BY <1>6 DEF Quiet, Drawing, MsgBox, Tick, Paint, Refresh, EndRefresh
  <2> QED BY <1>f, <2>1, QuietFirstChat
<1>7. CASE Accepting
  <2>1. Quiet /\ windows = 1 /\ slot # 0
    <3>1. CASE (\E w \in Wins : AcceptTransfer(w)) \/ EndAccept
      BY <3>1 DEF Quiet, AcceptTransfer, EndAccept
    <3>2. CASE ReceiveFileTransferAccept
      BY <3>2 DEF Quiet, ReceiveFileTransferAccept
    <3> QED BY <1>7, <3>1, <3>2 DEF Accepting
  <2> QED BY <1>f, <2>1, QuietFirstChat
<1>8. CASE Receiving
  <2>1. Quiet /\ windows = 1 /\ slot # 0
    BY <1>8 DEF Quiet, Receiving, ReceiveFileBlock, UpdateReceived, ReportReceived
  <2> QED BY <1>f, <2>1, QuietFirstChat
<1>9. CASE Ending
  <2>1. Quiet /\ windows = 1 /\ slot # 0
    <3>1. ASSUME NEW h \in Threads, EndJoin(h) PROVE Quiet /\ windows = 1 /\ slot # 0
      <4>1. joins'["gui"] \in {0, joins["gui"]}
        BY <1>t, <3>1 DEF EndJoin, TypeOK, SlotTypes
      <4> QED BY <3>1, <4>1 DEF Quiet, EndJoin
    <3>2. ASSUME NEW f \in Files, Worker(f) PROVE Quiet /\ windows = 1 /\ slot # 0
      BY <3>2 DEF Quiet, Worker, PopBlock, ReportSent, UpdateSent
    <3> QED BY <1>9, <3>1, <3>2 DEF Ending
  <2> QED BY <1>f, <2>1, QuietFirstChat
<1> QED BY <1>1, <1>2, <1>3, <1>4, <1>5, <1>6, <1>7, <1>8, <1>9, NextCases
    DEF Chatting, Sending, Offering

-----------------------------------------------------------------------------
(* Progress.                                                               *)

\* A transfer that outlives a new object was in the slot or being joined.
LEMMA SlotOrJoined ==
  ASSUME TypeOK, CountInv, ThreadInv, WinInv, FileInv, NEW f \in Files, f <= made,
         NEW h \in Threads, NEW k \in {"send", "recv"}, Replace(h, k), LiveFile(f)'
  PROVE  LiveFile(f)
<1>1. /\ slot' = made' /\ f # made' /\ joins'[h] = (IF IsSend(slot) THEN slot ELSE 0)
      /\ \A g \in Threads : g # h => joins'[g] = joins[g]
  BY NewFile
<1>2. f # 0 /\ \E g \in Threads : f = joins'[g] BY <1>1 DEF LiveFile, Threads
<1>3. f # 0 /\ (f = slot \/ \E g \in Threads : f = joins[g]) BY <1>1, <1>2
<1> QED BY <1>3 DEF LiveFile, Threads

\* Nothing that has been destroyed comes back.
LEMMA LiveFileStep ==
  ASSUME TypeOK, CountInv, ThreadInv, WinInv, FileInv, Next,
         NEW f \in Files, f <= made, LiveFile(f)'
  PROVE  LiveFile(f)
<1> USE DEF deskVars, windowVars, transferVars, slotVars
<1>1. CASE SendFile BY <1>1, SlotOrJoined DEF SendFile, Threads
<1>2. CASE ReceiveFileMeta BY <1>2, SlotOrJoined DEF ReceiveFileMeta, Threads
<1>3. ASSUME NEW h \in Threads, EndJoin(h) PROVE LiveFile(f)
  <2>1. slot' = slot /\ joins'[h] = 0 /\ \A g \in Threads : g # h => joins'[g] = joins[g]
    BY <1>3 DEF EndJoin, TypeOK, SlotTypes
  <2>2. f # 0 /\ (f = slot \/ \E g \in Threads : f = joins'[g])
    BY <2>1 DEF LiveFile, Threads
  <2>3. f # 0 /\ (f = slot \/ \E g \in Threads : f = joins[g]) BY <2>1, <2>2
  <2> QED BY <2>3 DEF LiveFile, Threads
<1>4. CASE ~(SendFile \/ ReceiveFileMeta \/ \E h \in Threads : EndJoin(h))
  <2>1. UNCHANGED <<slot, joins>>
    BY <1>4, NextCases
    DEF Chatting, TryConnect, BuildWindow, InitiateChat, ClearNeeded, ShowMessage, ReceiveKex,
        Drawing, MsgBox, Tick, Paint, Refresh, EndRefresh, Sending, InitSent, EndSendFile,
        Accepting, AcceptTransfer, EndAccept, ReceiveFileTransferAccept,
        Offering, InitReceived, EndFileMeta,
        Receiving, ReceiveFileBlock, UpdateReceived, ReportReceived,
        Ending, Worker, PopBlock, ReportSent, UpdateSent
  <2> QED BY <2>1 DEF LiveFile
<1> QED BY <1>1, <1>2, <1>3, <1>4

\* Neither does a chat window.
LEMMA LiveChatStep ==
  ASSUME TypeOK, CountInv, ChatInv, Next, NEW c \in Nat, c <= windows, LiveChat(c)'
  PROVE  LiveChat(c)
<1> USE DEF deskVars, chatVars, LiveChat
<1>1. CASE BuildWindow
  <2>1. windows' = windows + 1 /\ chat' = chat BY <1>1 DEF BuildWindow
  <2> QED BY <2>1, Numbers
<1>2. CASE InitiateChat BY <1>2 DEF InitiateChat
<1>3. CASE ~(BuildWindow \/ InitiateChat)
  <2>1. UNCHANGED <<windows, chat>>
    BY <1>3, NextCases
    DEF Chatting, TryConnect, ClearNeeded, ShowMessage, ReceiveKex,
        Drawing, MsgBox, Tick, Paint, Refresh, EndRefresh, Sending, SendFile, InitSent,
        EndSendFile, Accepting, AcceptTransfer, EndAccept, ReceiveFileTransferAccept,
        Offering, ReceiveFileMeta, InitReceived, EndFileMeta,
        Receiving, ReceiveFileBlock, UpdateReceived, ReportReceived,
        Ending, EndJoin, Worker, PopBlock, ReportSent, UpdateSent
  <2> QED BY <2>1
<1> QED BY <1>1, <1>2, <1>3

\* A window that is there is where it was, or is being put in place.
LEMMA OldWindow ==
  ASSUME TypeOK, CountInv, ChatInv, ThreadInv, WinInv, Next, NEW w \in Wins, w <= opened
  PROVE  /\ inChat'[w] = inChat[w] /\ transfer'[w] = transfer[w]
         /\ \A h \in Threads : building'[h] = w => building[h] = w
         /\ \A c \in Chats : ftWin'[c] = w =>
              ftWin[c] = w \/ \E h \in Threads : building[h] = w
         /\ \A f \in Files : cbWin'[f] = w => cbWin[f] = w
<1> DEFINE Goal ==
      /\ inChat'[w] = inChat[w] /\ transfer'[w] = transfer[w]
      /\ \A h \in Threads : building'[h] = w => building[h] = w
      /\ \A c \in Chats : ftWin'[c] = w =>
           ftWin[c] = w \/ \E h \in Threads : building[h] = w
      /\ \A f \in Files : cbWin'[f] = w => cbWin[f] = w
<1>t. "gui" \in Threads /\ "rpc" \in Threads BY DEF Threads
<1>k. ASSUME UNCHANGED <<placeVars, cbWin>> PROVE Goal BY <1>k DEF placeVars
<1>1. CASE Chatting \/ Drawing \/ SendFile \/ Accepting \/ ReceiveFileMeta \/ Receiving \/ Ending
  BY <1>1, <1>k, KeptSteps DEF Kept
<1>2. ASSUME NEW h \in Threads, slot # 0, opened < MaxFiles, BuildTransferWin(h) PROVE Goal
  <2>1. CASE UNCHANGED <<placeVars, cbWin>> BY <1>k, <2>1
  <2>2. CASE ~UNCHANGED <<placeVars, cbWin>>
    <3>1. /\ opened' = opened + 1 /\ building'[h] = opened'
          /\ \A v \in Wins : v # opened' =>
               inChat'[v] = inChat[v] /\ transfer'[v] = transfer[v]
          /\ \A g \in Threads : g # h => building'[g] = building[g]
          /\ cbWin'[slot] = opened'
          /\ \A f \in Files : f # slot => cbWin'[f] = cbWin[f]
          /\ ftWin' = ftWin
      BY <1>2, <2>2, BuildEffect
    <3>2. w # opened' BY <3>1, Numbers DEF Wins
    <3>3. inChat'[w] = inChat[w] /\ transfer'[w] = transfer[w] BY <3>1, <3>2
    <3>4. \A g \in Threads : building'[g] = w => building[g] = w BY <3>1, <3>2
    <3>5. \A f \in Files : cbWin'[f] = w => cbWin[f] = w BY <3>1, <3>2
    <3> QED BY <3>1, <3>3, <3>4, <3>5
  <2> QED BY <2>1, <2>2
<1>3. CASE InitSent \/ InitReceived
  <2>1. slot # 0 /\ opened < MaxFiles BY <1>3, Numbers DEF InitSent, InitReceived, CountInv
  <2> QED BY <1>t, <1>2, <1>3, <2>1 DEF InitSent, InitReceived
<1>4. ASSUME NEW h \in Threads, PlaceTransferWin(h), UNCHANGED cbWin PROVE Goal
  <2>1. /\ UNCHANGED <<inChat, transfer>> /\ building'[h] = 0
        /\ \A g \in Threads : g # h => building'[g] = building[g]
    BY <1>4, PlaceEffect
  <2>2. \A c \in Chats : ftWin'[c] = ftWin[c] \/ ftWin'[c] = building[h]
    BY <1>4, PlaceEffect DEF TypeOK, PlaceTypes
  <2>3. w # 0 BY DEF Wins
  <2> QED BY <1>4, <2>1, <2>2, <2>3
<1>5. CASE EndSendFile \/ EndFileMeta
  BY <1>t, <1>4, <1>5 DEF EndSendFile, EndFileMeta, transferVars
<1> QED BY <1>1, <1>3, <1>5, NextCases DEF Sending, Offering

\* A window that watches its transfer after a step did so before it.
LEMMA StillWatching ==
  ASSUME TypeOK, CountInv, ChatInv, ThreadInv, WinInv, FileInv, Next,
         NEW w \in Wins, w <= opened, Watching(w)'
  PROVE  /\ Watching(w) /\ transfer'[w] = transfer[w]
         /\ transfer[w] \in Files /\ transfer[w] <= made
<1> DEFINE f == transfer[w]
<1>1. f \in Files /\ f <= made /\ inChat[w] \in Nat /\ inChat[w] <= windows /\ inChat[w] \in Chats
  BY Numbers DEF WinInv, Files, Chats
<1>2. inChat'[w] = inChat[w] /\ transfer'[w] = f BY OldWindow
<1>3. w # 0 BY DEF Wins
<1>4. CASE \E h \in Threads : building'[h] = w
  <2>1. \E h \in Threads : building[h] = w BY <1>4, OldWindow
  <2>2. LiveWin(w) BY <1>3, <2>1 DEF LiveWin
  <2>3. LiveFile(f)' /\ cbWin'[f] = w BY <1>2 DEF Watching
  <2>4. LiveFile(f) BY <1>1, <1>2, <2>3, LiveFileStep DEF LiveFile
  <2>5. cbWin[f] = w BY <1>1, <2>3, OldWindow
  <2> QED BY <1>1, <1>2, <2>2, <2>4, <2>5 DEF Watching
<1>5. CASE LiveChat(inChat[w])' /\ ftWin'[inChat[w]] = w
  <2>1. LiveChat(inChat[w])
    <3>1. inChat[w] # 0 /\ inChat[w] \in {chat', windows'} BY <1>2, <1>5 DEF LiveChat
    <3> QED BY <1>1, <3>1, LiveChatStep DEF LiveChat
  <2>2. LiveWin(w) BY <1>1, <1>3, <1>5, <2>1, OldWindow DEF LiveWin
  <2>3. LiveFile(f)' /\ cbWin'[f] = w BY <1>2 DEF Watching
  <2>4. LiveFile(f) BY <1>1, <1>2, <2>3, LiveFileStep DEF LiveFile
  <2>5. cbWin[f] = w BY <1>1, <2>3, OldWindow
  <2> QED BY <1>1, <1>2, <2>2, <2>4, <2>5 DEF Watching
<1> QED BY <1>2, <1>4, <1>5 DEF Watching, LiveWin

\* A step that takes nothing away from what the window shows or is to show.
Steady(w, f) ==
  /\ shown'[w] = shown[w] /\ Reported(f)' = Reported(f) /\ done[f] <= done'[f]
  /\ needsUpdate[w] => needsUpdate'[w]
  /\ Missed(w, f) => Missed(w, f)'
  /\ gui' = "drawing" /\ inside' = w => gui = "drawing" /\ inside = w

\* The transfer has reached its window.
Told(w, f) ==
  /\ shown'[w] = shown[w] /\ done[f] <= done'[f]
  /\ needsUpdate'[w]
  /\ gui' = "drawing" /\ inside' = w => w \in lagging'

\* Where a step leads from: the window was there and showed what it should.
Before(w, f) ==
  /\ f \in Files /\ f <= made /\ Watching(w) /\ transfer[w] = f /\ transfer'[w] = f
  /\ cbWin[f] = w /\ ProgressOf(w, f)

\* A step that changes nothing of a window and its transfer keeps the bar honest.
LEMMA SteadyProgress ==
  ASSUME TypeOK, TypeOK', NEW w \in Wins, NEW f \in Files, ProgressOf(w, f), Steady(w, f)
  PROVE  ProgressOf(w, f)'
<1>1. /\ done[f] \in Nat /\ done'[f] \in Nat /\ shown[w] \in Nat /\ done[f] <= done'[f]
      /\ shown'[w] = shown[w] /\ shown'[w] <= done'[f]
  BY Bounds DEF TypeOK, FileTypes, DrawTypes, Steady, ProgressOf
<1> QED BY <1>1 DEF ProgressOf, Steady

\* So does one after which the window has been told, or has missed it.
LEMMA ToldProgress ==
  ASSUME TypeOK, TypeOK', NEW w \in Wins, NEW f \in Files, ProgressOf(w, f), Told(w, f)
  PROVE  ProgressOf(w, f)'
<1>1. /\ done[f] \in Nat /\ done'[f] \in Nat /\ shown[w] \in Nat /\ done[f] <= done'[f]
      /\ shown'[w] = shown[w] /\ shown'[w] <= done'[f]
  BY Bounds DEF TypeOK, FileTypes, DrawTypes, Told, ProgressOf
<1> QED BY <1>1 DEF ProgressOf, Told, Missed

\* A window that shows what has been received, or taken off the queue, is not behind.
LEMMA ShownProgress ==
  ASSUME TypeOK', FileInv', NEW w \in Wins, NEW f \in Files, shown'[w] = done'[f]
  PROVE  ProgressOf(w, f)'
<1>1. done'[f] \in Nat /\ answered'[f] \in Nat /\ answered'[f] <= done'[f]
  BY Bounds DEF TypeOK, FileTypes, FileInv
<1>2. Reported(f)' <= done'[f] /\ Reported(f)' \in Nat BY <1>1 DEF Reported
<1> QED BY <1>1, <1>2 DEF ProgressOf

\* onUpdate of transfer f, and what a window of any transfer is told by it.
LEMMA UpdatedProgress ==
  ASSUME TypeOK, TypeOK', WinInv, NEW f \in Files, OnUpdate(f), NEW w \in Wins,
         NEW g \in Files, Before(w, g), done'[g] = done[g],
         g # f => Reported(g)' = Reported(g), UNCHANGED <<gui, inside>>,
         rpc = "updating" /\ handling = g /\ f # g => rpc' = rpc /\ handling' = handling
  PROVE  ProgressOf(w, g)'
<1>1. done[g] \in Nat /\ cbWin[f] # 0 => transfer[cbWin[f]] = f
  BY DEF WinInv
<1>2. done[g] <= done'[g] BY Numbers
<1>3. shown'[w] = shown[w] /\ lagging \subseteq lagging'
  BY OnUpdateEffect DEF drawVars
<1>4. CASE f = g
  <2>1. cbWin[f] = w /\ w # 0 /\ LiveWin(w) BY <1>4 DEF Before, Watching, Wins
  <2>2. needsUpdate'[w] /\ (gui = "drawing" /\ inside = w => w \in lagging')
    BY <2>1, OnUpdateEffect
  <2>3. Told(w, g) BY <1>2, <1>3, <2>2 DEF Told
  <2> QED BY <2>3, ToldProgress DEF Before
<1>5. CASE f # g
  <2>1. needsUpdate[w] => needsUpdate'[w]
    BY OnUpdateEffect DEF drawVars
  <2>2. Steady(w, g) BY <1>2, <1>3, <1>5, <2>1 DEF Steady, Missed
  <2> QED BY <2>2, SteadyProgress DEF Before
<1> QED BY <1>4, <1>5

\* onAccept of transfer f.
LEMMA AcceptedProgress ==
  ASSUME TypeOK, TypeOK', WinInv, FileInv', NEW f \in Files, OnAccept(f), NEW w \in Wins,
         NEW g \in Files, Before(w, g),
         UNCHANGED <<done, answered, kind, rpc, handling>>, gui' = "drawing" => UNCHANGED <<gui, inside>>
  PROVE  ProgressOf(w, g)'
<1>1. done[g] <= done'[g] /\ Reported(g)' = Reported(g)
  BY Numbers DEF Reported, IsSend
<1>2. UNCHANGED <<needsUpdate, lagging>> BY OnAcceptEffect DEF drawVars
<1>3. CASE f = g
  <2>1. cbWin[f] = w /\ w # 0 /\ LiveWin(w) BY <1>3 DEF Before, Watching, Wins
  <2>2. shown'[w] = done'[g] BY <1>3, <2>1, OnAcceptEffect
  <2> QED BY <2>2, ShownProgress
<1>4. CASE f # g
  <2>1. cbWin[f] # w BY <1>4 DEF Before, WinInv, Wins
  <2>2. shown'[w] = shown[w] BY <2>1, OnAcceptEffect DEF drawVars
  <2>3. Steady(w, g) BY <1>1, <1>2, <2>2 DEF Steady, Missed
  <2> QED BY <2>3, SteadyProgress DEF Before
<1> QED BY <1>3, <1>4

\* The window that a step builds.
LEMMA NewWindow ==
  ASSUME StateInv, StateInv', Next, NEW w \in Wins, w > opened, Watching(w)'
  PROVE  ProgressOf(w, transfer[w])'
<1> USE DEF StateInv
<1>1. w # 0 /\ w \in Nat /\ w <= opened'
  <2>1. w # 0 /\ w \in Nat /\ opened' \in Nat BY Numbers DEF Wins, TypeOK, PlaceTypes
  <2>2. \A h \in Threads : building'[h] <= opened' BY DEF ThreadInv
  <2>3. \A c \in Chats : ftWin'[c] <= opened' BY DEF WinInv
  <2>4. \A c : LiveChat(c)' => c \in Chats
    BY Bounds DEF LiveChat, TypeOK, ChatTypes, Chats
  <2>5. \/ \E h \in Threads : building'[h] = w
        \/ LiveChat(inChat[w])' /\ ftWin'[inChat'[w]] = w
    BY DEF Watching, LiveWin
  <2>6. LiveChat(inChat[w])' => inChat'[w] \in Chats
    BY Bounds DEF LiveChat, TypeOK, ChatTypes, Chats
  <2> QED BY <2>1, <2>2, <2>3, <2>5, <2>6
<1>2. CASE InitSent \/ InitReceived
  <2>1. PICK h \in Threads : BuildTransferWin(h)
    BY <1>2 DEF InitSent, InitReceived, Threads
  <2>2. slot # 0 /\ opened < MaxFiles /\ opened \in Nat /\ slot \in Files
    BY <1>2, Numbers, InFiles DEF InitSent, InitReceived, CountInv
  <2>3. opened' # opened BY <1>1, <2>2
  <2>4. /\ opened' = opened + 1 /\ transfer'[opened'] = slot
        /\ Reported(slot) > 0 => opened' \in lagging'
        /\ UNCHANGED shown
    BY <2>1, <2>2, <2>3, BuildEffect DEF placeVars
  <2>5. w = opened' /\ transfer'[w] = slot BY <1>1, <2>2, <2>4
  <2>6. shown'[w] = 0 BY <2>4 DEF WinInv
  <2>7. UNCHANGED <<slot, kind, done, answered>>
    BY <1>2 DEF InitSent, InitReceived, slotVars, fileVars
  <2>8. done[slot] \in Nat /\ Reported(slot)' = Reported(slot)
    BY <2>2, <2>7, Numbers DEF Reported, IsSend
  <2>9. ProgressOf(w, slot)'
    <3>1. 0 < Reported(slot)' => w \in lagging' BY <2>4, <2>5, <2>8
    <3>2. shown'[w] <= done'[slot'] BY <2>6, <2>7, <2>8
    <3> QED BY <2>6, <2>7, <3>1, <3>2 DEF ProgressOf, Missed
  <2> QED BY <2>5, <2>7, <2>9 DEF ProgressOf, Missed, Reported, IsSend
<1>3. CASE ~(InitSent \/ InitReceived)
  <2>1. UNCHANGED opened
    <3>1. CASE EndSendFile \/ EndFileMeta
      BY <3>1, PlaceEffect DEF EndSendFile, EndFileMeta, Threads
    <3>2. CASE ~(EndSendFile \/ EndFileMeta)
      BY <1>3, <3>2, KeptSteps, NextCases DEF Kept, placeVars, Sending, Offering
    <3> QED BY <3>1, <3>2
  <2> QED BY <1>1, <2>1, Numbers DEF Wins
<1> QED BY <1>2, <1>3

\* Steps that move no block and touch no window.
LEMMA QuietProgress ==
  ASSUME StateInv, TypeOK', Next, NEW w \in Wins, NEW f \in Files, Before(w, f),
         UNCHANGED <<shown, needsUpdate, done, answered>>,
         UNCHANGED kind \/ SendFile \/ ReceiveFileMeta,
         lagging \subseteq lagging',
         rpc = "updating" => UNCHANGED <<rpc, handling>>,
         gui' = "drawing" => UNCHANGED <<gui, inside>>
  PROVE  ProgressOf(w, f)'
<1> USE DEF StateInv
<1>1. kind'[f] = kind[f]
  <2>1. CASE SendFile BY <2>1, NewFile DEF SendFile, Before, Threads
  <2>2. CASE ReceiveFileMeta BY <2>2, NewFile DEF ReceiveFileMeta, Before, Threads
  <2> QED BY <2>1, <2>2
<1>2. Reported(f)' = Reported(f) BY <1>1 DEF Reported, IsSend
<1>3. done[f] <= done'[f] BY Numbers
<1>4. Steady(w, f) BY <1>2, <1>3 DEF Steady, Missed
<1> QED BY <1>4, SteadyProgress DEF Before

\* The refresh shows what there is now ...
LEMMA RefreshProgress ==
  ASSUME StateInv, StateInv', Refresh, NEW w \in Wins, NEW f \in Files, Before(w, f)
  PROVE  ProgressOf(w, f)'
<1> USE DEF StateInv, deskVars, placeVars, transferVars, slotVars, rpcVars, fileVars, drawVars
<1>1. /\ UNCHANGED <<rpc, handling, done, answered, kind, needsUpdate, lagging>>
      /\ done[f] <= done'[f]
  BY Numbers DEF Refresh
<1>2. Reported(f)' = Reported(f) BY <1>1 DEF Reported, IsSend
<1>3. \/ gui' = "idle" /\ UNCHANGED shown
      \/ gui = "refreshing" /\ gui' = gui /\ UNCHANGED shown
      \/ /\ shown' = [shown EXCEPT ![ftWin[chat]] = done[transfer[ftWin[chat]]]]
         /\ inside' = ftWin[chat]
  BY DEF Refresh
<1>4. CASE UNCHANGED shown /\ gui' # "drawing"
  <2>1. Steady(w, f) BY <1>1, <1>2, <1>4 DEF Steady, Missed
  <2> QED BY <2>1, SteadyProgress DEF Before
<1>5. CASE /\ shown' = [shown EXCEPT ![ftWin[chat]] = done[transfer[ftWin[chat]]]]
           /\ inside' = ftWin[chat]
  <2>1. CASE w = ftWin[chat]
    <3>1. shown'[w] = done'[f] BY <1>1, <1>5, <2>1 DEF Before, TypeOK, DrawTypes
    <3> QED BY <3>1, ShownProgress
  <2>2. CASE w # ftWin[chat]
    <3>1. shown'[w] = shown[w] /\ inside' # w BY <1>5, <2>2 DEF TypeOK, DrawTypes
    <3>2. Steady(w, f) BY <1>1, <1>2, <3>1 DEF Steady, Missed
    <3> QED BY <3>2, SteadyProgress DEF Before
  <2> QED BY <2>1, <2>2
<1> QED BY <1>3, <1>4, <1>5

\* ... and clears the flag: what has come in between is missed.
LEMMA EndRefreshProgress ==
  ASSUME StateInv, TypeOK', EndRefresh, NEW w \in Wins, NEW f \in Files, Before(w, f)
  PROVE  ProgressOf(w, f)'
<1> USE DEF StateInv, deskVars, placeVars, transferVars, slotVars, rpcVars, fileVars, drawVars
<1>1. /\ UNCHANGED <<rpc, handling, done, answered, kind, shown, lagging>>
      /\ done[f] <= done'[f] /\ gui = "drawing" /\ gui' = "idle"
  BY Numbers DEF EndRefresh
<1>2. Reported(f)' = Reported(f) BY <1>1 DEF Reported, IsSend
<1>3. CASE w = inside
  BY <1>1, <1>2, <1>3 DEF Before, ProgressOf, Missed
<1>4. CASE w # inside
  <2>1. needsUpdate'[w] = needsUpdate[w] BY <1>4 DEF EndRefresh, TypeOK, DrawTypes
  <2>2. Steady(w, f) BY <1>1, <1>2, <2>1 DEF Steady, Missed
  <2> QED BY <2>2, SteadyProgress DEF Before
<1> QED BY <1>3, <1>4

\* A block that is received is followed by onUpdate on the same thread.
LEMMA ReceivingProgress ==
  ASSUME StateInv, TypeOK', Receiving, NEW w \in Wins, NEW f \in Files, Before(w, f), Next
  PROVE  ProgressOf(w, f)'
<1> USE DEF StateInv, deskVars, windowVars, transferVars, guiVars, slotVars, rpcVars, fileVars
<1>1. CASE ReceiveFileBlock
  <2>1. slot \in Files /\ IsRecv(slot)
    BY <1>1, KindFiles DEF ReceiveFileBlock, TypeOK, SlotTypes
  <2>2. /\ UNCHANGED <<gui, inside, shown, needsUpdate, lagging, kind, answered, slot>>
        /\ done'[slot] = done[slot] + 1 /\ \A g \in Files : g # slot => done'[g] = done[g]
        /\ rpc = "idle" /\ rpc' = "updating" /\ handling' = slot
    BY <1>1, <2>1 DEF ReceiveFileBlock, drawVars, TypeOK, FileTypes
  <2>3. shown[w] \in Nat /\ done[f] \in Nat /\ shown[w] <= done[f] /\ done[f] <= done'[f]
    BY <2>1, <2>2, Numbers DEF Before, ProgressOf
  <2>4. CASE f = slot
    BY <2>2, <2>3, <2>4 DEF ProgressOf, Missed
  <2>5. CASE f # slot
    <3>1. Reported(f)' = Reported(f) BY <2>2, <2>5 DEF Reported, IsSend
    <3>2. Steady(w, f) BY <2>2, <2>3, <3>1 DEF Steady, Missed
    <3> QED BY <3>2, SteadyProgress DEF Before
  <2> QED BY <2>4, <2>5
<1>2. CASE UpdateReceived
  <2>1. /\ UNCHANGED <<gui, inside, handling, done, answered, kind>>
        /\ rpc = "updating" /\ rpc' = "reporting"
        /\ done[f] <= done'[f]
    BY <1>2, Numbers DEF UpdateReceived
  <2>2. Reported(f)' = Reported(f) BY <2>1 DEF Reported, IsSend
  <2>3. CASE LiveFile(handling)
    <3>1. handling \in Files /\ OnUpdate(handling) BY <1>2, <2>3, LiveKinds DEF UpdateReceived
    <3>2. CASE handling = f
      <4>1. cbWin[handling] = w /\ w # 0 /\ LiveWin(w)
        BY <3>2 DEF Before, Watching, Wins
      <4>2. /\ needsUpdate'[w] /\ shown' = shown
            /\ gui = "drawing" /\ inside = w => w \in lagging'
        BY <3>1, <4>1, OnUpdateEffect
      <4>3. Told(w, f) BY <2>1, <4>2 DEF Told
      <4> QED BY <4>3, ToldProgress DEF Before
    <3>3. CASE handling # f
      BY <2>1, <2>2, <3>1, <3>3, UpdatedProgress
    <3> QED BY <3>2, <3>3
  <2>4. CASE ~LiveFile(handling)
    <3>1. UNCHANGED <<shown, needsUpdate, lagging>> BY <1>2, <2>4 DEF UpdateReceived, drawVars
    <3>2. handling # f BY <2>4 DEF Before, Watching
    <3>3. Steady(w, f) BY <2>1, <2>2, <3>1, <3>2 DEF Steady, Missed
    <3> QED BY <3>3, SteadyProgress DEF Before
  <2> QED BY <2>3, <2>4
<1>3. CASE ReportReceived
  <2>1. /\ UNCHANGED <<shown, needsUpdate, done, answered, kind, lagging, gui, inside>>
        /\ rpc = "reporting"
    BY <1>3 DEF ReportReceived, drawVars
  <2> QED BY <2>1, QuietProgress
<1> QED BY <1>1, <1>2, <1>3 DEF Receiving

\* A worker that has its answer calls onUpdate in the same step.
LEMMA EndingProgress ==
  ASSUME StateInv, TypeOK', Ending, NEW w \in Wins, NEW f \in Files, Before(w, f), Next
  PROVE  ProgressOf(w, f)'
<1> USE DEF StateInv, deskVars, windowVars, transferVars, guiVars, slotVars, rpcVars, fileVars,
            drawVars
<1>1. CASE \E h \in Threads : EndJoin(h)
  <2>1. UNCHANGED <<shown, needsUpdate, done, answered, kind, lagging, gui, inside, rpc, handling>>
    BY <1>1 DEF EndJoin
  <2> QED BY <2>1, QuietProgress
<1>2. ASSUME NEW g \in Files, PopBlock(g) PROVE ProgressOf(w, f)'
  <2>1. /\ UNCHANGED <<shown, needsUpdate, answered, kind, lagging, gui, inside, rpc, handling>>
        /\ IsSend(g)
        /\ done'[g] = done[g] + 1 /\ \A e \in Files : e # g => done'[e] = done[e]
    BY <1>2 DEF PopBlock, TypeOK, FileTypes
  <2>2. done[f] <= done'[f] BY <2>1, Numbers
  <2>3. Reported(f)' = Reported(f) BY <2>1 DEF Reported, IsSend
  <2>4. Steady(w, f) BY <2>1, <2>2, <2>3 DEF Steady, Missed
  <2> QED BY <2>4, SteadyProgress DEF Before
<1>3. ASSUME NEW g \in Files, ReportSent(g) PROVE ProgressOf(w, f)'
  <2>1. UNCHANGED <<shown, needsUpdate, done, answered, kind, lagging, gui, inside, rpc, handling>>
    BY <1>3 DEF ReportSent
  <2> QED BY <2>1, QuietProgress
<1>4. ASSUME NEW g \in Files, UpdateSent(g) PROVE ProgressOf(w, f)'
  <2>1. /\ UNCHANGED <<done, kind, gui, inside, rpc, handling>> /\ OnUpdate(g)
        /\ \A e \in Files : e # g => answered'[e] = answered[e]
    BY <1>4 DEF UpdateSent, TypeOK, FileTypes
  <2>2. f # g => Reported(f)' = Reported(f) BY <2>1 DEF Reported, IsSend
  <2> QED BY <2>1, <2>2, UpdatedProgress
<1> QED BY <1>1, <1>2, <1>3, <1>4 DEF Ending, Worker

\* Every step keeps all bars honest.
LEMMA ProgressStep ==
  ASSUME StateInv, StateInv', ProgressInv, Next
  PROVE  ProgressInv'
<1> SUFFICES ASSUME NEW w \in Wins, Watching(w)' PROVE ProgressOf(w, transfer[w])'
  BY DEF ProgressInv
<1> USE DEF StateInv, deskVars, windowVars, transferVars, guiVars, slotVars, rpcVars, fileVars,
            drawVars
<1>1. CASE w > opened BY <1>1, NewWindow
<1>2. CASE w <= opened
  <2>1. PICK f \in Files : f = transfer[w]
    BY <1>2, StillWatching
  <2>2. Before(w, f) BY <1>2, <2>1, StillWatching DEF Before, Watching, ProgressInv
  <2>3. SUFFICES ProgressOf(w, f)'
    BY <2>2 DEF Before, ProgressOf, Missed, Reported, IsSend
  <2>4. CASE Chatting
    <3>1. /\ UNCHANGED <<shown, needsUpdate, done, answered, kind, lagging, inside, rpc, handling>>
          /\ gui' = "drawing" => gui' = gui
      BY <2>4 DEF Chatting, TryConnect, BuildWindow, InitiateChat, ClearNeeded, ShowMessage,
                  ReceiveKex
    <3> QED BY <2>2, <3>1, QuietProgress
  <2>5. CASE MsgBox \/ Tick \/ Paint
    <3>1. /\ UNCHANGED <<shown, needsUpdate, done, answered, kind, lagging, inside, rpc, handling>>
          /\ gui' # "drawing"
      BY <2>5 DEF MsgBox, Tick, Paint
    <3> QED BY <2>2, <3>1, QuietProgress
  <2>6. CASE Refresh BY <2>2, <2>6, RefreshProgress
  <2>7. CASE EndRefresh BY <2>2, <2>7, EndRefreshProgress
  <2>8. CASE SendFile \/ InitSent \/ EndSendFile
    <3>1. /\ UNCHANGED <<shown, needsUpdate, done, answered, inside, rpc, handling>>
          /\ UNCHANGED kind \/ SendFile
          /\ lagging \subseteq lagging' /\ gui' # "drawing"
      BY <2>8 DEF SendFile, InitSent, EndSendFile, BuildTransferWin
    <3> QED BY <2>2, <3>1, QuietProgress
  <2>9. CASE Accepting
    <3>1. ASSUME NEW v \in Wins, AcceptTransfer(v) PROVE ProgressOf(w, f)'
      <4>1. /\ UNCHANGED <<done, answered, kind, rpc, handling>> /\ gui' # "drawing"
        BY <3>1 DEF AcceptTransfer
      <4>2. CASE LiveFile(transfer[v])
        <5>1. transfer[v] \in Files /\ OnAccept(transfer[v])
          BY <3>1, <4>2, LiveKinds DEF AcceptTransfer
        <5>2. PICK g \in Files : OnAccept(g) BY <5>1
        <5> QED BY <2>2, <4>1, <5>2, AcceptedProgress
      <4>3. CASE ~LiveFile(transfer[v])
        <5>1. UNCHANGED drawVars BY <3>1, <4>3 DEF AcceptTransfer
        <5> QED BY <2>2, <4>1, <5>1, QuietProgress
      <4> QED BY <4>2, <4>3
    <3>2. CASE EndAccept
      <4>1. UNCHANGED <<drawVars, done, answered, kind, rpc, handling>> /\ gui' # "drawing"
        BY <3>2 DEF EndAccept
      <4> QED BY <2>2, <4>1, QuietProgress
    <3>3. CASE ReceiveFileTransferAccept
      <4>1. slot \in Files
        BY <3>3, KindFiles DEF ReceiveFileTransferAccept, TypeOK, SlotTypes
      <4>2. UNCHANGED <<done, answered, kind, rpc, handling, gui, inside>> /\ OnAccept(slot)
        BY <3>3 DEF ReceiveFileTransferAccept
      <4> QED BY <2>2, <4>1, <4>2, AcceptedProgress
    <3> QED BY <2>9, <3>1, <3>2, <3>3 DEF Accepting
  <2>10. CASE Offering
    <3>1. /\ UNCHANGED <<shown, needsUpdate, done, answered, gui, inside>>
          /\ UNCHANGED kind \/ ReceiveFileMeta
          /\ lagging \subseteq lagging' /\ rpc # "updating"
      BY <2>10 DEF Offering, ReceiveFileMeta, InitReceived, EndFileMeta, BuildTransferWin
    <3> QED BY <2>2, <3>1, QuietProgress
  <2>11. CASE Receiving BY <2>2, <2>11, ReceivingProgress
  <2>12. CASE Ending BY <2>2, <2>12, EndingProgress
  <2> QED BY <2>4, <2>5, <2>6, <2>7, <2>8, <2>9, <2>10, <2>11, <2>12, NextCases
      DEF Drawing, Sending
<1> QED BY <1>1, <1>2, Numbers DEF Wins

-----------------------------------------------------------------------------
(* Stray accesses.                                                         *)

\* In the first chat, while one side sends, the window that the transfer in the slot, or
\* the one SendFile is waiting for, calls back into has not been destroyed.
LEMMA LiveCallback ==
  ASSUME StateInv, OneWay, ~(windows > 1), NEW f \in Files, f \in {slot, joins["gui"]},
         cbWin[f] # 0
  PROVE  LiveWin(cbWin[f])
<1> USE DEF StateInv
<1>t. "gui" \in Threads /\ "rpc" \in Threads BY DEF Threads
<1>1. windows = 1
  <2>1. windows # 0 BY NoWindows
  <2> QED BY <2>1, Numbers
<1>2. slot # 0
  <2>1. f # 0 BY DEF Files
  <2>2. slot = made /\ made \in Nat /\ \A h \in Threads : joins[h] \in Nat
    BY Numbers DEF CountInv
  <2>3. joins["gui"] # 0 => joins["gui"] < made BY <1>t DEF ThreadInv
  <2> QED BY <1>t, <2>1, <2>2, <2>3
<1>3. FirstChatFacts BY <1>1, <1>2 DEF FirstChatInv
<1>4. cbWin[f] \in {building["gui"], building["rpc"], ftWin[1]}
  BY <1>3 DEF FirstChatFacts, Files
<1>5. 1 \in Chats /\ LiveChat(1) BY <1>1, Numbers DEF Chats, LiveChat
<1>6. ftWin[1] # 0 => inChat[ftWin[1]] = 1 BY <1>5 DEF WinInv
<1> QED BY <1>t, <1>4, <1>5, <1>6 DEF LiveWin

\* While one side sends, the transfer in the slot is the one whose block is handled.
LEMMA LiveHandling ==
  ASSUME StateInv, OneWay, rpc \in {"updating", "reporting"}
  PROVE  handling = slot /\ slot \in Files /\ IsRecv(slot) /\ LiveFile(handling)
<1> USE DEF StateInv
<1>1. handling = slot /\ IsRecv(slot) BY DEF OneWayInv, OneWayFacts
<1>2. slot \in Files BY <1>1, KindFiles DEF TypeOK, SlotTypes
<1> QED BY <1>1, <1>2 DEF LiveFile, IsRecv

\* The workers that are running are those of the transfer in the slot, or of the one
\* that SendFile is waiting for.
LEMMA LiveWorker ==
  ASSUME StateInv, OneWay, NEW f \in Files, IsSend(f), answered[f] < done[f]
  PROVE  LiveFile(f) /\ f \in {slot, joins["gui"]} /\ accepted[f]
<1> USE DEF StateInv
<1>1. /\ done[f] \in Nat /\ answered[f] \in Nat /\ done[f] <= NumBlocks
      /\ done[f] > 0 /\ answered[f] < NumBlocks
  BY Numbers, Bounds
<1>2. accepted[f] BY <1>1 DEF FileInv, IsSend, IsRecv
<1>3. LiveFile(f) BY <1>1, <1>2 DEF FileInv
<1> QED BY <1>2, <1>3 DEF LiveFile, OneWayInv, OneWayFacts

\* fileFinishCallback finds the transfer window of the first chat, and its transfer.
LEMMA LiveFinish ==
  ASSUME StateInv, OneWay, ~(windows > 1), finishCb # 0, NEW f \in Files, LiveFile(f),
         ftWin[1] # 0, ftWin[1] = cbWin[f]
  PROVE  ftWin[finishCb] # 0 /\ LiveFile(transfer[ftWin[finishCb]])
<1> USE DEF StateInv
<1>1. finishCb = 1 BY Numbers DEF ChatInv
<1>2. transfer[ftWin[1]] = f BY DEF WinInv
<1> QED BY <1>1, <1>2

\* A step that strays nowhere.
LEMMA NoStray == ASSUME Running, UNCHANGED stray PROVE StraysExplained'
BY DEF Running, StraysExplained

\* Why the onAccept of a transfer, or the button it returns to, may not be there, ...
LEMMA StrayAccepting ==
  ASSUME StateInv, Accepting
  PROVE  StraysExplained'
<1> USE DEF StateInv, deskVars, windowVars, transferVars, slotVars, chatVars, placeVars
<1>t. \A f \in Files : f # 0 BY DEF Files
<1>1. ASSUME NEW w \in Wins, chat # 0, AcceptTransfer(w) PROVE StraysExplained'
  <2>1. /\ w = ftWin[chat] /\ chat \in Chats /\ w # 0 /\ w <= opened /\ inChat[w] = chat
        /\ UNCHANGED <<windows, made, kind>> /\ Running
    BY <1>1, Numbers DEF AcceptTransfer, Chats, Wins, WinInv
  <2>2. transfer[w] \in 1 .. made BY <2>1 DEF WinInv
  <2>3. CASE LiveFile(transfer[w])
    <3>1. transfer[w] \in Files /\ OnAccept(transfer[w])
      BY <1>1, <2>3, LiveKinds DEF AcceptTransfer
    <3>2. LiveChat(inChat[w]) BY <1>1, <2>1 DEF LiveChat
    <3>3. LiveWin(w) BY <2>1, <3>2 DEF LiveWin
    <3>4. OneWay => cbWin[transfer[w]] = w BY <2>1 DEF OneWayInv, OneWayFacts
    <3>5. PICK f \in Files : f = transfer[w] BY <3>1
    <3>6. OneWay => stray' = stray
      BY <3>1, <3>3, <3>4, <3>5, <2>1, OnAcceptEffect
    <3>7. stray' \in {stray, "onAccept"} BY <3>1, <3>5, OnAcceptEffect
    <3> QED BY <2>1, <3>6, <3>7 DEF StraysExplained, OneWay, Running
  <2>4. CASE ~LiveFile(transfer[w])
    <3>1. stray' = "button" BY <1>1, <2>4 DEF AcceptTransfer
    <3>2. transfer[w] # slot BY <2>2, <2>4 DEF LiveFile
    <3>3. made > 1 BY <2>2, <3>2, Numbers DEF CountInv
    <3> QED BY <2>1, <3>1, <3>3 DEF StraysExplained
  <2> QED BY <2>3, <2>4
<1>2. CASE EndAccept
  <2>1. /\ UNCHANGED made
        /\ stray' = "none" \/ (stray' = "button" /\ ~LiveWin(inside))
    BY <1>2 DEF EndAccept
  <2>2. /\ inside \in 1 .. opened /\ inChat[inside] = chat /\ ftWin[chat] # 0
        /\ chat # 0 /\ chat \in Chats
    BY <1>2, Numbers DEF EndAccept, InsideInv, ChatInv, Chats
  <2>3. ~LiveWin(inside) => ftWin[chat] # inside BY <2>2 DEF LiveWin, LiveChat
  <2>4. ftWin[chat] # inside => made > 1
    BY <2>2, Numbers DEF WinInv, CountInv
  <2> QED BY <2>1, <2>3, <2>4 DEF StraysExplained
<1>3. CASE ReceiveFileTransferAccept
  <2>1. slot \in Files BY <1>3, KindFiles DEF ReceiveFileTransferAccept, TypeOK, SlotTypes
  <2>2. /\ OnAccept(slot) /\ UNCHANGED <<windows, made, kind>> /\ Running
    BY <1>3 DEF ReceiveFileTransferAccept
  <2>3. OneWay /\ ~(windows > 1) /\ cbWin[slot] # 0 => LiveWin(cbWin[slot])
    BY <2>1, LiveCallback
  <2>4. OneWay /\ ~(windows > 1) => stray' = stray
    BY <2>1, <2>2, <2>3, OnAcceptEffect
  <2>5. stray' \in {stray, "onAccept"} BY <2>1, <2>2, OnAcceptEffect
  <2> QED BY <2>2, <2>4, <2>5 DEF StraysExplained, OneWay, Running
<1> QED BY <1>1, <1>2, <1>3 DEF Accepting

\* ... why a transfer that is drawn may not be there, ...
LEMMA StrayDrawing ==
  ASSUME StateInv, Drawing
  PROVE  StraysExplained'
<1> USE DEF StateInv, deskVars, windowVars, transferVars, slotVars, chatVars, placeVars
<1>1. CASE MsgBox \/ Tick \/ Paint BY <1>1, NoStray DEF MsgBox, Tick, Paint
<1>2. CASE Refresh
  <2>1. /\ UNCHANGED made /\ Running
        /\ stray' = stray \/ /\ stray' = "tick" /\ ftWin[chat] # 0
                             /\ ~LiveFile(transfer[ftWin[chat]])
    BY <1>2 DEF Refresh
  <2>2. chat \in Chats BY <1>2, Numbers DEF Refresh, ChatInv, Chats
  <2>3. ftWin[chat] # 0 => transfer[ftWin[chat]] \in 1 .. made
    BY <2>2, Numbers DEF WinInv, Wins
  <2>4. ftWin[chat] # 0 /\ ~LiveFile(transfer[ftWin[chat]]) => made > 1
    BY <2>3, Numbers DEF LiveFile, CountInv
  <2> QED BY <2>1, <2>4 DEF StraysExplained, Running
<1>3. CASE EndRefresh
  <2>1. /\ UNCHANGED made /\ Running
        /\ stray' = stray \/ (stray' = "tick" /\ ~LiveWin(inside))
    BY <1>3 DEF EndRefresh
  <2>2. /\ inside \in 1 .. opened /\ inChat[inside] = chat /\ ftWin[chat] # 0
        /\ chat # 0 /\ chat \in Chats
    BY <1>3, Numbers DEF EndRefresh, InsideInv, ChatInv, Chats
  <2>3. ~LiveWin(inside) => ftWin[chat] # inside BY <2>2 DEF LiveWin, LiveChat
  <2>4. ftWin[chat] # inside => made > 1
    BY <2>2, Numbers DEF WinInv, CountInv
  <2> QED BY <2>1, <2>3, <2>4 DEF StraysExplained, Running
<1> QED BY <1>1, <1>2, <1>3 DEF Drawing

\* ... why a chat window may not be there for its transfer window, ...
LEMMA StrayPlacing ==
  ASSUME StateInv, Sending \/ Offering
  PROVE  StraysExplained'
<1> USE DEF StateInv, deskVars, windowVars, transferVars, slotVars, chatVars
<1>1. CASE SendFile \/ InitSent \/ ReceiveFileMeta \/ InitReceived
  BY <1>1, NoStray DEF SendFile, InitSent, ReceiveFileMeta, InitReceived
<1>2. CASE EndSendFile \/ EndFileMeta
  <2>1. PICK h \in Threads : PlaceTransferWin(h)
    BY <1>2 DEF EndSendFile, EndFileMeta, Threads
  <2>2. UNCHANGED <<windows, made, kind>> /\ Running BY <1>2 DEF EndSendFile, EndFileMeta
  <2>3. \/ stray' = stray
        \/ stray' = "initCallback" /\ building[h] # 0 /\ ~LiveChat(inChat[building[h]])
    BY <2>1, PlaceEffect
  <2>4. building[h] # 0 => inChat[building[h]] \in 1 .. windows
    BY Numbers DEF ThreadInv, WinInv, Wins
  <2>5. building[h] # 0 /\ ~LiveChat(inChat[building[h]]) => windows > 1
    BY <2>4, Numbers DEF LiveChat
  <2> QED BY <2>2, <2>3, <2>5 DEF StraysExplained, Running
<1> QED BY <1>1, <1>2 DEF Sending, Offering

\* ... why the transfer whose block is handled, or its window, may not be there, ...
LEMMA StrayReceiving ==
  ASSUME StateInv, Receiving
  PROVE  StraysExplained'
<1> USE DEF StateInv, deskVars, windowVars, transferVars, slotVars, chatVars
<1>1. CASE ReceiveFileBlock BY <1>1, NoStray DEF ReceiveFileBlock
<1>2. CASE UpdateReceived
  <2>1. UNCHANGED <<windows, made, kind>> /\ Running /\ rpc = "updating"
    BY <1>2 DEF UpdateReceived
  <2>2. CASE LiveFile(handling)
    <3>1. handling \in Files /\ OnUpdate(handling)
      BY <1>2, <2>2, LiveKinds DEF UpdateReceived
    <3>2. OneWay => handling = slot BY <2>1, LiveHandling
    <3>3. OneWay /\ ~(windows > 1) /\ cbWin[handling] # 0 => LiveWin(cbWin[handling])
      BY <3>1, <3>2, LiveCallback
    <3>4. OneWay /\ ~(windows > 1) => stray' = stray BY <3>1, <3>3, OnUpdateEffect
    <3>5. stray' \in {stray, "onUpdate"} BY <3>1, OnUpdateEffect
    <3> QED BY <2>1, <3>4, <3>5 DEF StraysExplained, OneWay, Running
  <2>3. CASE ~LiveFile(handling)
    <3>1. ~OneWay BY <2>1, <2>3, LiveHandling
    <3>2. stray' = "receiveBlock" BY <1>2, <2>3 DEF UpdateReceived
    <3> QED BY <2>1, <3>1, <3>2 DEF StraysExplained, OneWay
  <2> QED BY <2>2, <2>3
<1>3. CASE ReportReceived
  <2>1. UNCHANGED <<windows, made, kind, early>> /\ Running /\ rpc = "reporting"
    BY <1>3 DEF ReportReceived
  <2>2. CASE ~LiveFile(handling)
    <3>1. ~OneWay BY <2>1, <2>2, LiveHandling
    <3>2. stray' = "receiveBlock" BY <1>3, <2>2 DEF ReportReceived
    <3> QED BY <2>1, <3>1, <3>2 DEF StraysExplained, OneWay
  <2>3. CASE LiveFile(handling) /\ stray' # stray
    <3>1. /\ done[handling] = NumBlocks /\ finishCb # 0 /\ stray' = "onFinish"
          /\ ~(ftWin[finishCb] # 0 /\ LiveFile(transfer[ftWin[finishCb]]))
      BY <1>3, <2>3 DEF ReportReceived, OnFinish
    <3>2. ASSUME OneWay, ~(windows > 1) PROVE FALSE
      <4>1. handling = slot /\ slot \in Files /\ IsRecv(slot)
        BY <2>1, <3>2, LiveHandling
      <4>2. SomeAccepted BY <2>1 DEF BlockInv
      <4>3. windows = 1 /\ slot # 0
        <5>1. \E g \in Files : cbWin[g] # 0 BY <4>2 DEF SomeAccepted, FileInv
        <5>2. windows # 0 BY <5>1, NoWindows
        <5> QED BY <3>2, <4>1, <5>2, Numbers DEF IsRecv
      <4>4. cbWin[slot] # 0 BY <2>1, <3>2, <4>2, <4>3 DEF BlockInv
      <4>5. FirstChatFacts BY <3>2, <4>3 DEF FirstChatInv
      <4>6. gui \notin {"sending", "placing"}
        BY <3>2, <4>1 DEF OneWayInv, OneWayFacts, IsSend, IsRecv
      <4>7. building["gui"] = 0 /\ building["rpc"] = 0 BY <2>1, <4>6 DEF ThreadInv
      <4>8. ftWin[1] # 0 /\ ftWin[1] = cbWin[slot]
        BY <4>4, <4>5, <4>7 DEF FirstChatFacts
      <4> QED BY <2>3, <3>1, <3>2, <4>1, <4>8, LiveFinish
    <3> QED BY <2>1, <3>1, <3>2 DEF StraysExplained, OneWay
  <2> QED BY <2>1, <2>2, <2>3, NoStray
<1> QED BY <1>1, <1>2, <1>3 DEF Receiving

\* ... and why the window a worker reports to may not be there.
LEMMA StrayEnding ==
  ASSUME StateInv, Ending
  PROVE  StraysExplained'
<1> USE DEF StateInv, deskVars, windowVars, transferVars, slotVars, chatVars
<1>1. CASE \E h \in Threads : EndJoin(h) BY <1>1, NoStray DEF EndJoin
<1>2. ASSUME NEW f \in Files, PopBlock(f) PROVE StraysExplained'
  BY <1>2, NoStray DEF PopBlock
<1>3. ASSUME NEW f \in Files, UpdateSent(f) PROVE StraysExplained'
  <2>1. /\ UNCHANGED <<windows, made, kind>> /\ Running /\ OnUpdate(f)
        /\ IsSend(f) /\ answered[f] < done[f]
    BY <1>3 DEF UpdateSent
  <2>2. OneWay /\ ~(windows > 1) /\ cbWin[f] # 0 => LiveWin(cbWin[f])
    BY <2>1, LiveWorker, LiveCallback
  <2>3. OneWay /\ ~(windows > 1) => stray' = stray BY <2>1, <2>2, OnUpdateEffect
  <2>4. stray' \in {stray, "onUpdate"} BY <2>1, OnUpdateEffect
  <2> QED BY <2>1, <2>3, <2>4 DEF StraysExplained, OneWay, Running
<1>4. ASSUME NEW f \in Files, ReportSent(f) PROVE StraysExplained'
  <2>1. /\ UNCHANGED <<windows, made, kind, early>> /\ Running /\ IsSend(f)
        /\ done[f] = NumBlocks /\ answered[f] < NumBlocks /\ OnFinish
    BY <1>4 DEF ReportSent
  <2>2. CASE stray' # stray
    <3>1. /\ finishCb # 0 /\ stray' = "onFinish"
          /\ ~(ftWin[finishCb] # 0 /\ LiveFile(transfer[ftWin[finishCb]]))
      BY <2>1, <2>2 DEF OnFinish
    <3>2. ASSUME OneWay, ~(windows > 1), early = {} PROVE FALSE
      <4>1. LiveFile(f) /\ f \in {slot, joins["gui"]} /\ accepted[f]
        BY <2>1, <3>2, LiveWorker
      <4>2. windows = 1 BY <3>1, <3>2, Numbers DEF ChatInv
      <4>3. slot # 0
        BY <4>1, LiveKinds, Numbers DEF CountInv
      <4>4. FirstChatFacts BY <3>2, <4>2, <4>3 DEF FirstChatInv
      <4>5. CASE f = joins["gui"]
        <5>1. ftWin[1] # 0 /\ ftWin[1] = cbWin[f]
          BY <4>4, <4>5 DEF FirstChatFacts, Files
        <5> QED BY <3>1, <3>2, <4>1, <5>1, LiveFinish
      <4>6. CASE f = slot
        <5>1. gui \notin {"sending", "placing"}
          BY <3>2, <4>1, <4>4, <4>6 DEF FirstChatFacts
        <5>2. rpc = "idle" BY <2>1, <3>2, <4>6 DEF OneWayInv, OneWayFacts, IsSend, IsRecv
        <5>3. ftWin[1] # 0 /\ ftWin[1] = cbWin[f]
          BY <2>1, <4>4, <4>6, <5>1, <5>2 DEF FirstChatFacts
        <5> QED BY <3>1, <3>2, <4>1, <5>3, LiveFinish
      <4> QED BY <4>1, <4>5, <4>6
    <3> QED BY <2>1, <3>1, <3>2 DEF StraysExplained, OneWay
  <2> QED BY <2>1, <2>2, NoStray
<1> QED BY <1>1, <1>2, <1>3, <1>4 DEF Ending, Worker

\* Every step that strays has a cause.
LEMMA StrayStep ==
  ASSUME StateInv, Next
  PROVE  StraysExplained'
<1>1. CASE Chatting
  BY <1>1, NoStray DEF Chatting, TryConnect, BuildWindow, InitiateChat, ClearNeeded,
                       ShowMessage, ReceiveKex
<1> QED BY <1>1, StrayDrawing, StrayPlacing, StrayAccepting, StrayReceiving, StrayEnding,
           NextCases

-----------------------------------------------------------------------------
(* The theorems.                                                           *)

\* The invariant holds at first ...
LEMMA InvInit == Init => IInv
<1> SUFFICES ASSUME Init PROVE IInv
  OBVIOUS
<1>1. TypeOK BY InitTypes
<1>2. CountInv /\ ChatInv /\ InsideInv
  BY DEF Init, CountInv, Connected, Noticed, ChatInv, InsideInv, IsSend
<1>3. ThreadInv BY DEF Init, ThreadInv, IsSend, Files, Threads
<1>4. WinInv BY DEF Init, WinInv, Wins, Files
<1>5. FileInv BY Bounds DEF Init, FileInv, IsSend, IsRecv
<1>6. BlockInv /\ OneWayInv /\ FirstChatInv
  <2>1. BlockInv /\ FirstChatInv BY DEF Init, BlockInv, FirstChatInv
  <2>2. \A w \in Wins : ~(w <= opened) /\ ~button[w] BY DEF Init, Wins
  <2>3. joins["rpc"] = 0 /\ \A h \in Threads : building[h] = 0 BY DEF Init, Threads
  <2>4. gui = "idle" /\ rpc = "idle" BY DEF Init
  <2> QED BY <2>1, <2>2, <2>3, <2>4 DEF OneWayInv, OneWayFacts
<1>7. ProgressInv
  <2>1. ASSUME NEW w \in Wins PROVE ~LiveFile(transfer[w])
    BY <2>1 DEF Init, LiveFile
  <2> QED BY <2>1 DEF ProgressInv, Watching
<1>8. StraysExplained BY DEF Init, StraysExplained
<1> QED BY <1>1, <1>2, <1>3, <1>4, <1>5, <1>6, <1>7, <1>8 DEF IInv, StateInv

\* ... and every step keeps it.
LEMMA InvStep == IInv /\ [Next]_vars => IInv'
<1> SUFFICES ASSUME IInv, [Next]_vars PROVE IInv'
  OBVIOUS
<1>1. CASE Next
  <2> USE <1>1 DEF IInv, StateInv
  <2>1. TypeOK' BY TypeStep
  <2>2. CountInv' /\ ChatInv' /\ ThreadInv' BY CountStep, ChatStep, ThreadStep
  <2>3. WinInv' /\ InsideInv' BY WinStep, InsideStep
  <2>4. FileInv' BY FileStep
  <2>5. OneWayInv' BY OneWayStep
  <2>6. FirstChatInv' /\ BlockInv' BY FirstChatStep, BlockStep
  <2>7. StateInv' BY <2>1, <2>2, <2>3, <2>4, <2>5, <2>6
  <2>8. ProgressInv' BY <2>7, ProgressStep
  <2>9. StraysExplained' BY StrayStep
  <2> QED BY <2>7, <2>8, <2>9
<1>2. CASE UNCHANGED vars
  <2> USE <1>2 DEF IInv, StateInv, vars, guiVars, chatVars, noticeVars, logVars, placeVars,
                   drawVars, slotVars, rpcVars, fileVars
  <2>1. TypeOK' BY Frame DEF TypeOK
  <2>2. CountInv' /\ ChatInv' /\ ThreadInv' /\ InsideInv'
    BY DEF CountInv, Connected, Noticed, ChatInv, ThreadInv, InsideInv, IsSend, IsRecv
  <2>3. WinInv' /\ FileInv' BY DEF WinInv, FileInv, IsSend, IsRecv, LiveFile
  <2>4. OneWayInv' BY DEF OneWayInv, OneWay, OneWayFacts, IsSend, IsRecv
  <2>5. FirstChatInv' /\ BlockInv'
    BY DEF FirstChatInv, BlockInv, SomeAccepted, OneWay, FirstChatFacts, IsSend, IsRecv
  <2>6. ProgressInv'
    BY DEF ProgressInv, Watching, LiveWin, LiveChat, LiveFile, ProgressOf, Missed, Reported,
           IsSend
  <2>7. StraysExplained' BY DEF StraysExplained, OneWay
  <2> QED BY <2>1, <2>2, <2>3, <2>4, <2>5, <2>6, <2>7
<1> QED BY <1>1, <1>2

\* In every reachable state all parts of the inductive invariant hold, whatever chats and
\* files come and go and however the GUI thread, the RPC thread and the workers take
\* turns.
THEOREM GuiInvariant == Safety => []IInv
BY InvInit, InvStep, PTL DEF Safety

\* The user interface's state is well formed: no counter of windows, files or notices
\* passes its bound, and every pointer kept by AppGUI, ChatWindow, FileTransferWin and
\* AppState names something that has been made, or nothing.
THEOREM TypeCorrect == Safety => []TypeOK
<1>1. IInv => TypeOK BY DEF IInv, StateInv
<1> QED BY <1>1, GuiInvariant, PTL

\* A callback, a button or a redraw touches something that has been destroyed only
\* after a second chat, transfers in both directions, an accept that overtakes SendFile,
\* or a second file (FileTransferWin and the callbacks of AppState and FileTransfer).
THEOREM StraysHaveCauses == Safety => []StraysExplained
<1>1. IInv => StraysExplained BY DEF IInv
<1> QED BY <1>1, GuiInvariant, PTL

\* While one side sends and the first chat lasts, the transfer window on the screen is
\* about the transfer in the slot of AppState, and that transfer calls back into it.
THEOREM WindowIsAboutSlot == Safety => []WindowShowsSlot
<1>1. IInv => WindowShowsSlot
  <2> SUFFICES ASSUME IInv, OneWay, gui = "idle", rpc = "idle", chat # 0, initCb = chat,
                      ftWin[chat] # 0
               PROVE  transfer[ftWin[chat]] = slot /\ cbWin[slot] = ftWin[chat]
    BY DEF WindowShowsSlot
  <2> USE DEF IInv, StateInv
  <2>1. windows = 1 /\ chat = 1 /\ 1 \in Chats BY Numbers DEF ChatInv, Chats
  <2>2. ftWin[1] \in Wins /\ ftWin[1] <= opened BY <2>1, Numbers DEF WinInv, Wins
  <2>3. slot # 0 /\ slot \in Files
    <3>1. transfer[ftWin[1]] \in 1 .. made BY <2>2 DEF WinInv
    <3>2. slot # 0 BY <3>1, Numbers DEF CountInv
    <3> QED BY <3>2, Numbers, InFiles DEF CountInv
  <2>4. cbWin[slot] = ftWin[1] BY <2>1, <2>3 DEF FirstChatInv, FirstChatFacts
  <2>5. transfer[cbWin[slot]] = slot BY <2>1, <2>3, <2>4 DEF WinInv
  <2> QED BY <2>1, <2>4, <2>5
<1> QED BY <1>1, GuiInvariant, PTL

\* While only the peer sends, no live transfer window offers the Accept button of a live
\* transfer that has been accepted: acceptTransfer is not called twice for one file.
THEOREM AcceptedOnce == Safety => []NoSecondAccept
<1>1. IInv => NoSecondAccept
  BY DEF IInv, StateInv, OneWayInv, OneWayFacts, NoSecondAccept
<1> QED BY <1>1, GuiInvariant, PTL

\* The progress bar of a transfer window never runs ahead of its transfer, and it is
\* behind only while an update is pending, under way, or has been missed.
THEOREM BarHonest == Safety => []ProgressHonest
<1>1. IInv => ProgressHonest
  BY DEF IInv, ProgressInv, ProgressOf, Watching, Missed, Reported, ProgressHonest
<1> QED BY <1>1, GuiInvariant, PTL

=============================================================================
