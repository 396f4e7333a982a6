----------------------------- MODULE ChatSession -----------------------------
(***************************************************************************)
(* Chat messages in one direction between two linked processes: the sender *)
(* encrypts and calls, the receiver's RPC thread decrypts and queues, a    *)
(* chat thread takes messages off the queue and shows them in its window.  *)
(* A handshake by either side replaces the key, the sender's client and    *)
(* the receiver's window; the old chat thread is told to exit and joined.  *)
(*                                                                         *)
(* A call whose answer has not come when its client is destroyed leaves an *)
(* exception in its future; SendMessage(msg).Then(...) waits in a detached *)
(* thread, where it ends the process.                                      *)
(*                                                                         *)
(* A key and a connection are named by the handshake they come from.  Two  *)
(* handshakes do not overlap here (Handshake has those), and of the        *)
(* sender's user interface only its thread matters.                        *)
(***************************************************************************)
EXTENDS Naturals, Sequences, FiniteSets

CONSTANTS
  MaxMessages,     \* bound: messages sent
  MaxHandshakes,   \* bound: handshakes after the first
  None             \* no message

ASSUME BoundsAssumption == MaxMessages \in Nat /\ MaxHandshakes \in Nat

Links == 0 .. MaxHandshakes
Windows == 1 .. (MaxHandshakes + 1)
Modes == {"CHACHA20", "CHACHA20_POLY1305"}

\* A Message on its way: its number, the key it is encrypted with, the connection
\* it was sent on and its cipher_variant.
Messages == [num : 1 .. MaxMessages, key : Links, link : Links, mode : Modes]

\* A message before its call, a message after its decryption.
Drafts == [num : 1 .. MaxMessages, key : Links, mode : Modes]
Entries == Messages \X BOOLEAN

ASSUME NoneAssumption == None \notin Drafts \cup Entries

VARIABLES
  (* the sender *)
  sent,         \* messages encrypted
  draft,        \* the one that is encrypted and not yet called with
  sendKey,      \* sharedKey
  client,       \* the connection behind client
  unanswered,   \* calls of this client whose answers have not come
  broken,       \* a detached thread has an exception to rethrow
  ended,        \* the process has ended
  wire,         \* the calls on each connection that the receiver has not handled
  (* handshakes *)
  handshakes,   \* handshakes begun
  kex,          \* how far the latest one is
  (* the receiver's AppState *)
  recvKey,      \* sharedKey
  received,     \* receivedMessages: <<message, whether it was decrypted rightly>>
  (* the receiver's user interface *)
  needed,       \* chatWindowNeeded
  gui,          \* where its GUI thread stands
  ticking,      \* initiateChat was called by tick
  windows,      \* chat windows built so far, numbered from 1
  chat,         \* the window of the current chat
  exitFlag,     \* per chat
  thread,       \* per chat: where its thread stands
  hand,         \* per chat: the entry its thread has popped
  (* what the user has seen *)
  seen,         \* numbers of messages that are right and were sent on the link
                \* their key belongs to, in the order they were shown
  odd,          \* the other entries that were shown
  refused       \* numbers of messages that were not decrypted

senderVars == <<sent, draft, sendKey, client, unanswered, broken, ended>>
sendVars == <<senderVars, wire>>
kexVars == <<handshakes, kex>>
recvVars == <<recvKey, received, refused>>
guiVars == <<needed, gui, ticking, windows, chat, exitFlag>>
threadVars == <<thread, hand, seen, odd>>
vars == <<sendVars, kexVars, recvVars, guiVars, threadVars>>

\* The first handshake is over, its chat has just started.
Init ==
  /\ sent = 0
  /\ draft = None
  /\ sendKey = 0
  /\ client = 0
  /\ unanswered = 0
  /\ broken = FALSE
  /\ ended = FALSE
  /\ wire = [l \in Links |-> <<>>]
  /\ handshakes = 0
  /\ kex = "none"
  /\ recvKey = 0
  /\ received = <<>>
  /\ needed = FALSE
  /\ gui = "idle"
  /\ ticking = FALSE
  /\ windows = 1
  /\ chat = 1
  /\ exitFlag = [w \in Windows |-> FALSE]
  /\ thread = [w \in Windows |-> IF w = 1 THEN "testing" ELSE "none"]
  /\ hand = [w \in Windows |-> None]
  /\ seen = <<>>
  /\ odd = {}
  /\ refused = {}

-----------------------------------------------------------------------------
(* Messages.                                                               *)

\* EncryptMessage, on the GUI thread, with the key and the mode of this moment.
\* The thread does not get here while it waits inside ConnectAndHandshake.
Encrypt(mode) ==
  /\ ~ended /\ draft = None
  /\ kex \notin {"toReceiver", "receiverAnswered"}
  /\ sent < MaxMessages
  /\ sent' = sent + 1
  /\ draft' = [num |-> sent', key |-> sendKey, mode |-> mode]
  /\ UNCHANGED <<sendKey, client, unanswered, broken, ended, wire, kexVars, recvVars,
                 guiVars, threadVars>>

\* async_call on the client of this moment, which the RPC thread may have replaced.
AsyncCall ==
  /\ ~ended /\ draft # None
  /\ wire' = [wire EXCEPT ![client] =
       Append(@, [num |-> draft.num, key |-> draft.key, link |-> client, mode |-> draft.mode])]
  /\ unanswered' = unanswered + 1
  /\ draft' = None
  /\ UNCHANGED <<sent, sendKey, client, broken, ended, kexVars, recvVars, guiVars, threadVars>>

\* The answer to a message that has been handled: the future is set, the callback
\* of Then does nothing.
AnswerArrives ==
  /\ ~ended
  /\ unanswered > Len(wire[client])
  /\ unanswered' = unanswered - 1
  /\ UNCHANGED <<sent, draft, sendKey, client, broken, ended, wire, kexVars, recvVars, guiVars,
                 threadVars>>

\* The exception leaves the detached thread.  What the process had written may
\* still arrive.
SenderEnds ==
  /\ broken /\ ~ended
  /\ ended' = TRUE
  /\ draft' = None
  /\ \E k \in 0 .. Len(wire[client]) : wire' = [wire EXCEPT ![client] = SubSeq(@, 1, k)]
  /\ kex' \in {kex} \cup {k \in {"senderKeyed"} : kex = "senderAnswered"}
  /\ UNCHANGED <<sent, sendKey, client, unanswered, broken, handshakes, recvVars, guiVars,
                 threadVars>>

\* Decrypt: only CHACHA20_POLY1305 can tell a wrong key.  MutDecrypts goes on with
\* the first key.
MutDecrypts(m) == m.mode = "CHACHA20" \/ m.key = 0

Decrypts(m) == m.mode = "CHACHA20" \/ m.key = recvKey

\* ReceiveMessage and PushMessage; a message that is not decrypted is dropped, and
\* nobody looks at the answer.
ReceiveMessage(l) ==
  /\ wire[l] # <<>>
  /\ wire' = [wire EXCEPT ![l] = Tail(@)]
  /\ received' = IF Decrypts(Head(wire[l]))
                 THEN Append(received, <<Head(wire[l]), Head(wire[l]).key = recvKey>>)
                 ELSE received
  /\ refused' = IF Decrypts(Head(wire[l])) THEN refused ELSE refused \cup {Head(wire[l]).num}
  /\ UNCHANGED <<senderVars, kexVars, recvKey, guiVars, threadVars>>

-----------------------------------------------------------------------------
(* Handshakes.                                                             *)

\* What becomes of calls that are not answered when their client is destroyed.
\* MutBroken forgets them.
MutBroken == FALSE

Broken == unanswered > 0

\* The client is replaced.  What the old one had written is still handled, the rest
\* of its calls is gone; if the GUI thread is just calling with it, anything may
\* happen.
Reconnected ==
  /\ client' = handshakes
  /\ unanswered' = 0
  /\ broken' \in {broken \/ Broken, broken \/ Broken \/ draft # None}
  /\ \E k \in 0 .. Len(wire[client]) : wire' = [wire EXCEPT ![client] = SubSeq(@, 1, k)]

\* The sender connects.
SenderConnects ==
  /\ kex = "none" /\ handshakes < MaxHandshakes
  /\ ~ended /\ draft = None
  /\ handshakes' = handshakes + 1
  /\ kex' = "toReceiver"
  /\ UNCHANGED <<sendVars, recvVars, guiVars, threadVars>>

\* ReceiveKex on the receiver's RPC thread, with the callback of AppGUI.
ReceiverTakesKex ==
  /\ kex = "toReceiver"
  /\ recvKey' = handshakes
  /\ needed' = TRUE
  /\ kex' = "receiverAnswered"
  /\ UNCHANGED <<sendVars, handshakes, received, refused, gui, ticking, windows, chat,
                 exitFlag, threadVars>>

\* The rest of ConnectAndHandshake.
SenderFinishes ==
  /\ kex = "receiverAnswered"
  /\ ~ended
  /\ sendKey' = handshakes
  /\ Reconnected
  /\ kex' = "none"
  /\ UNCHANGED <<sent, draft, ended, handshakes, recvVars, guiVars, threadVars>>

\* The receiver connects.
ReceiverConnects ==
  /\ kex = "none" /\ handshakes < MaxHandshakes
  /\ ~ended
  /\ gui = "idle"
  /\ handshakes' = handshakes + 1
  /\ kex' = "toSender"
  /\ gui' = "connecting"
  /\ UNCHANGED <<sendVars, recvVars, needed, ticking, windows, chat, exitFlag,
                 threadVars>>

\* ReceiveKex on the sender's RPC thread; its GUI thread goes on sending.
SenderTakesKex ==
  /\ kex = "toSender"
  /\ ~ended
  /\ sendKey' = handshakes
  /\ kex' = "senderKeyed"
  /\ UNCHANGED <<sent, draft, client, unanswered, broken, ended, wire, handshakes, recvVars,
                 guiVars, threadVars>>

SenderAnswers ==
  /\ kex = "senderKeyed"
  /\ ~ended
  /\ Reconnected
  /\ kex' = "senderAnswered"
  /\ UNCHANGED <<sent, draft, sendKey, ended, handshakes, recvVars, guiVars, threadVars>>

\* The rest of ConnectAndHandshake; tryConnect calls initiateChat.
ReceiverFinishes ==
  /\ kex = "senderAnswered"
  /\ recvKey' = handshakes
  /\ gui' = "building"
  /\ kex' = "none"
  /\ UNCHANGED <<sendVars, handshakes, received, refused, needed, ticking, windows, chat,
                 exitFlag, threadVars>>

\* The sender has ended before its answer: an error, shown in a box, or a call that
\* never returns.
ReceiverFails ==
  /\ ended
  /\ kex \in {"toSender", "senderKeyed"}
  /\ gui' = "idle"
  /\ kex' = "none"
  /\ UNCHANGED <<sendVars, handshakes, recvVars, needed, ticking, windows, chat,
                 exitFlag, threadVars>>

-----------------------------------------------------------------------------
(* The receiver's GUI thread.                                              *)

Tick ==
  /\ gui = "idle"
  /\ needed
  /\ ticking' = TRUE
  /\ gui' = "building"
  /\ UNCHANGED <<sendVars, kexVars, recvVars, needed, windows, chat, exitFlag,
                 threadVars>>

\* The chat whose destructor runs when the pointer is replaced.  MutLeaving takes
\* the new one for it.
MutLeaving == windows'

Leaving == chat

\* initiateChat: a new window, then the old Chat's destructor sets its exitFlag.
BuildWindow ==
  /\ gui = "building"
  /\ windows' = windows + 1
  /\ exitFlag' = [exitFlag EXCEPT ![Leaving] = TRUE]
  /\ gui' = "joining"
  /\ UNCHANGED <<sendVars, kexVars, recvVars, needed, ticking, chat, threadVars>>

\* MutJoined does not wait for the old thread.
MutJoined == TRUE

Joined == thread[chat] = "ended"

\* The join returns, the new chat starts its thread.
StartChat ==
  /\ gui = "joining"
  /\ Joined
  /\ chat' = windows
  /\ thread' = [thread EXCEPT ![windows] = "testing"]
  /\ gui' = IF ticking THEN "clearing" ELSE "idle"
  /\ UNCHANGED <<sendVars, kexVars, recvVars, needed, ticking, windows, exitFlag,
                 hand, seen, odd>>

\* The last step of tick.
ClearNeeded ==
  /\ gui = "clearing"
  /\ needed' = FALSE
  /\ ticking' = FALSE
  /\ gui' = "idle"
  /\ UNCHANGED <<sendVars, kexVars, recvVars, windows, chat, exitFlag,
                 threadVars>>

-----------------------------------------------------------------------------
(* The thread of chat w.                                                   *)

TestExit(w) ==
  /\ thread[w] = "testing"
  /\ thread' = [thread EXCEPT ![w] = IF exitFlag[w] THEN "ended" ELSE "popping"]
  /\ UNCHANGED <<sendVars, kexVars, recvVars, guiVars, hand, seen, odd>>

\* The inner loop does not look at the flag.  MutAfterPop does.
MutAfterPop(w) == IF exitFlag[w] THEN "ended" ELSE "showing"

AfterPop(w) == "showing"

\* PopMessage; after the last message the thread sleeps.
PopMessage(w) ==
  /\ thread[w] = "popping"
  /\ IF received = <<>>
     THEN /\ thread' = [thread EXCEPT ![w] = "testing"]
          /\ UNCHANGED <<received, hand>>
     ELSE /\ hand' = [hand EXCEPT ![w] = Head(received)]
          /\ received' = Tail(received)
          /\ thread' = [thread EXCEPT ![w] = AfterPop(w)]
  /\ UNCHANGED <<sendVars, kexVars, recvKey, refused, guiVars, seen, odd>>

\* Rightly decrypted, and sent on the connection its key belongs to: not between
\* the two assignments of ReceiveKex.
Regular(e) == e[2] /\ e[1].key = e[1].link

\* acknowledgeReceivedMessage: into the window of this chat.
Show(w) ==
  /\ thread[w] = "showing"
  /\ IF Regular(hand[w])
     THEN seen' = Append(seen, hand[w][1].num) /\ UNCHANGED odd
     ELSE odd' = odd \cup {hand[w]} /\ UNCHANGED seen
  /\ hand' = [hand EXCEPT ![w] = None]
  /\ thread' = [thread EXCEPT ![w] = "popping"]
  /\ UNCHANGED <<sendVars, kexVars, recvVars, guiVars>>

-----------------------------------------------------------------------------
Gui == Tick \/ BuildWindow \/ StartChat \/ ClearNeeded

ChatThread(w) == TestExit(w) \/ PopMessage(w) \/ Show(w)

Answers ==
  \/ ReceiverTakesKex
  \/ SenderFinishes
  \/ SenderTakesKex
  \/ SenderAnswers
  \/ ReceiverFinishes

Next ==
  \/ \E mode \in Modes : Encrypt(mode)
  \/ AsyncCall
  \/ AnswerArrives
  \/ SenderEnds
  \/ \E l \in Links : ReceiveMessage(l)
  \/ SenderConnects
  \/ ReceiverConnects
  \/ Answers
  \/ ReceiverFails
  \/ Gui
  \/ \E w \in Windows : ChatThread(w)

Safety == Init /\ [][Next]_vars

\* Every thread that can run does, and calls that are on a connection are handled.
\* Nobody need press a button.
Fairness ==
  /\ WF_vars(Gui)
  /\ WF_vars(AsyncCall)
  /\ WF_vars(SenderEnds)
  /\ WF_vars(Answers)
  /\ \A l \in Links : WF_vars(ReceiveMessage(l))
  /\ \A w \in Windows : WF_vars(ChatThread(w))

Spec == Safety /\ Fairness

-----------------------------------------------------------------------------
(* Properties.                                                             *)

Kexes ==
  {"none", "toReceiver", "receiverAnswered", "toSender", "senderKeyed", "senderAnswered"}

\* Types; a thread has an entry in its hand exactly while it shows one.
TypeOK ==
  /\ sent \in 0 .. MaxMessages
  /\ draft \in Drafts \cup {None}
  /\ sendKey \in Links
  /\ client \in Links
  /\ unanswered \in 0 .. MaxMessages
  /\ broken \in BOOLEAN
  /\ ended \in BOOLEAN
  /\ wire \in [Links -> Seq(Messages)]
  /\ handshakes \in Links
  /\ kex \in Kexes
  /\ recvKey \in Links
  /\ received \in Seq(Entries)
  /\ needed \in BOOLEAN
  /\ gui \in {"idle", "connecting", "building", "joining", "clearing"}
  /\ ticking \in BOOLEAN
  /\ {windows, chat} \subseteq Windows
  /\ exitFlag \in [Windows -> BOOLEAN]
  /\ thread \in [Windows -> {"none", "testing", "popping", "showing", "ended"}]
  /\ hand \in [Windows -> Entries \cup {None}]
  /\ \A w \in Windows : hand[w] # None <=> thread[w] = "showing"
  /\ seen \in Seq(1 .. MaxMessages)
  /\ odd \in SUBSET Entries
  /\ refused \in SUBSET (1 .. MaxMessages)

\* At most one thread takes messages off the queue: the next one is started after
\* the join of the last.
OneChatThread ==
  \A v, w \in Windows :
    thread[v] \notin {"none", "ended"} /\ thread[w] \notin {"none", "ended"} => v = w

\* However windows and links are replaced, messages are seen once and in the order
\* in which they were sent.  Those sent between the two assignments of ReceiveKex,
\* with the new key on the old connection, can be overtaken.
Order == INSTANCE MessageOrder
OrderSpec == Order!Spec

\* Shown at last, whether read rightly or not.
ShownNum(n) ==
  (\E i \in DOMAIN seen : seen[i] = n) \/ (\E e \in odd : e[1].num = n)

\* A message in the queue is shown, also when its chat is being replaced.
ReceivedIsShown ==
  \A n \in 1 .. MaxMessages :
    (\E i \in DOMAIN received : received[i][1].num = n) ~> ShownNum(n)

\* No message disappears without a trace: one that was called with is shown, or is
\* refused for its key, or was cut off by a handshake and ends its process.
NoSilentLoss ==
  \A n \in 1 .. MaxMessages :
    (\E l \in Links : \E i \in DOMAIN wire[l] : wire[l][i].num = n)
      ~> (ShownNum(n) \/ n \in refused \/ ended)

\* A message on the current connection that no handshake overtakes is shown, unless
\* an earlier handshake is about to end its process.
QuietMessageShown ==
  \A n \in 1 .. MaxMessages :
    (/\ kex = "none" /\ ~broken
     /\ \E i \in DOMAIN wire[handshakes] :
          wire[handshakes][i].num = n /\ wire[handshakes][i].key = handshakes)
      ~> (ShownNum(n) \/ kex # "none")

\* The join in ~Chat returns, and with it initiateChat.
JoinReturns == (gui = "joining") ~> (gui = "idle")

=============================================================================
