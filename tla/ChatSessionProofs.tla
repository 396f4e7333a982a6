-------------------------- MODULE ChatSessionProofs --------------------------
(***************************************************************************)
(* The safety of ChatSession for any number of messages and handshakes:    *)
(* the types of its state, one chat thread at a time, and that messages    *)
(* are seen once and in the order in which they were sent.                 *)
(***************************************************************************)
EXTENDS ChatSession, SequenceTheorems, TLAPS

(* The inductive invariant behind OneChatThread and the order of messages. *)

\* Only the thread of the current chat runs; between the two halves of initiateChat
\* the next window is there.
WindowInv ==
  /\ windows = IF gui = "joining" THEN chat + 1 ELSE chat
  /\ \A w \in Windows :
       /\ w < chat => thread[w] \in {"none", "ended"}
       /\ w > chat => thread[w] = "none"

One(b) == IF b THEN 1 ELSE 0

\* Every handshake opens at most one window; keys are those of handshakes begun.
KexInv ==
  /\ gui = "connecting" <=> kex \in {"toSender", "senderKeyed", "senderAnswered"}
  /\ gui \in {"idle", "connecting"} => ~ticking
  /\ windows + One(kex = "toReceiver") + One(gui \in {"connecting", "building"})
       + One(needed /\ ~ticking) <= handshakes + 1
  /\ sendKey <= handshakes /\ recvKey <= handshakes

\* Messages called with.
Called == IF draft = None THEN sent ELSE sent - 1

DraftInv ==
  /\ draft # None => draft.num = sent /\ draft.key <= sendKey
  /\ unanswered <= Called

LatestKey == IF draft = None THEN sendKey ELSE draft.key

\* A connection keeps the order of the messages, and a later key means a later
\* message, whatever the connection.
WireInv ==
  \A k \in Links : \A i \in 1 .. Len(wire[k]) :
    /\ wire[k][i].num <= Called /\ wire[k][i].key <= LatestKey /\ wire[k][i].link = k
    /\ \A j \in 1 .. Len(wire[k]) : i < j => wire[k][i].num < wire[k][j].num
    /\ \A l \in Links : \A j \in 1 .. Len(wire[l]) :
         wire[k][i].key < wire[l][j].key => wire[k][i].num < wire[l][j].num

\* n comes before every message on its way that may yet be read rightly and be seen.
Ahead(n) ==
  /\ n <= Called
  /\ \A l \in Links : \A i \in 1 .. Len(wire[l]) :
       wire[l][i].key = l /\ recvKey <= l => n < wire[l][i].num

\* What has been seen comes before what a thread is about to show, that before what
\* is in the queue, and that before what is on its way.
QueueInv ==
  /\ \A i \in 1 .. Len(received) : Regular(received[i]) =>
       /\ Ahead(received[i][1].num)
       /\ \A j \in 1 .. Len(received) :
            i < j /\ Regular(received[j]) => received[i][1].num < received[j][1].num
  /\ \A w \in Windows : hand[w] # None /\ Regular(hand[w]) =>
       /\ Ahead(hand[w][1].num)
       /\ \A j \in 1 .. Len(received) :
            Regular(received[j]) => hand[w][1].num < received[j][1].num
  /\ \A i \in 1 .. Len(seen) :
       /\ Ahead(seen[i])
       /\ \A j \in 1 .. Len(received) :
            Regular(received[j]) => seen[i] < received[j][1].num
       /\ \A w \in Windows :
            hand[w] # None /\ Regular(hand[w]) => seen[i] < hand[w][1].num

IInv == TypeOK /\ WindowInv /\ KexInv /\ DraftInv /\ WireInv /\ QueueInv

-----------------------------------------------------------------------------
\* Every connection has lost the first off[l] of its messages, and maybe some at
\* its end.
Shortened(off) ==
  \A l \in Links :
    /\ off[l] \in Nat /\ Len(wire'[l]) \in Nat
    /\ Len(wire'[l]) + off[l] <= Len(wire[l])
    /\ \A i \in 1 .. Len(wire'[l]) : wire'[l][i] = wire[l][i + off[l]]

LEMMA WireTypes ==
  ASSUME TypeOK, NEW l \in Links
  PROVE  /\ wire[l] \in Seq(Messages) /\ Len(wire[l]) \in Nat
         /\ \A i \in 1 .. Len(wire[l]) :
              /\ wire[l][i] \in Messages
              /\ wire[l][i].num \in 1 .. MaxMessages
              /\ wire[l][i].key \in Links /\ wire[l][i].link \in Links
<1>1. wire[l] \in Seq(Messages)
  BY DEF TypeOK
<1>2. Len(wire[l]) \in Nat /\ \A i \in 1 .. Len(wire[l]) : wire[l][i] \in Messages
  BY <1>1
<1> QED BY <1>1, <1>2 DEF Messages

LEMMA EntryTypes ==
  ASSUME NEW e \in Entries
  PROVE  /\ e[1] \in Messages /\ e[2] \in BOOLEAN
         /\ e[1].num \in 1 .. MaxMessages
         /\ e[1].key \in Links /\ e[1].link \in Links
BY DEF Entries, Messages

LEMMA QueueTypes ==
  ASSUME TypeOK
  PROVE  /\ received \in Seq(Entries) /\ Len(received) \in Nat
         /\ \A i \in 1 .. Len(received) :
              received[i] \in Entries /\ received[i][1].num \in 1 .. MaxMessages
         /\ \A w \in Windows : hand[w] # None =>
              hand[w] \in Entries /\ hand[w][1].num \in 1 .. MaxMessages
         /\ seen \in Seq(1 .. MaxMessages) /\ Len(seen) \in Nat
         /\ \A i \in 1 .. Len(seen) : seen[i] \in 1 .. MaxMessages
<1>1. received \in Seq(Entries) /\ seen \in Seq(1 .. MaxMessages)
  BY DEF TypeOK
<1>2. Len(received) \in Nat /\ \A i \in 1 .. Len(received) : received[i] \in Entries
  BY <1>1
<1>4. Len(seen) \in Nat /\ \A i \in 1 .. Len(seen) : seen[i] \in 1 .. MaxMessages
  BY <1>1, ElementOfSeq, LenProperties
<1>3. \A w \in Windows : hand[w] # None => hand[w] \in Entries
  BY DEF TypeOK
<1> QED BY <1>1, <1>2, <1>3, <1>4, EntryTypes

LEMMA DraftTypes ==
  ASSUME TypeOK, DraftInv
  PROVE  /\ sent \in Nat /\ Called \in 0 .. MaxMessages /\ Called <= sent
         /\ LatestKey \in Links /\ LatestKey <= sendKey
         /\ draft # None => /\ draft.num \in 1 .. MaxMessages /\ draft.key \in Links
                            /\ draft.mode \in Modes
<1>1. sent \in 0 .. MaxMessages /\ sendKey \in Links /\ draft \in Drafts \cup {None}
  BY DEF TypeOK
<1>2. draft # None => /\ draft.num \in 1 .. MaxMessages /\ draft.key \in Links
                      /\ draft.mode \in Modes
  BY <1>1 DEF Drafts
<1> QED BY <1>1, <1>2, BoundsAssumption DEF DraftInv, Called, LatestKey, Links

LEMMA InitInv == Init => IInv
<1> SUFFICES ASSUME Init PROVE IInv
  OBVIOUS
<1> USE BoundsAssumption DEF Init
<1>1. 1 \in Windows /\ 0 \in Links
  BY DEF Windows, Links
<1>2. TypeOK
  <2>1. wire \in [Links -> Seq(Messages)]
    OBVIOUS
  <2>2. thread \in [Windows -> {"none", "testing", "popping", "showing", "ended"}]
    OBVIOUS
  <2>3. \A w \in Windows : hand[w] # None <=> thread[w] = "showing"
    OBVIOUS
  <2>4. /\ seen \in Seq(1 .. MaxMessages) /\ received \in Seq(Entries)
        /\ hand \in [Windows -> Entries \cup {None}]
        /\ exitFlag \in [Windows -> BOOLEAN]
    OBVIOUS
  <2> QED BY <1>1, <2>1, <2>2, <2>3, <2>4 DEF TypeOK, Kexes
<1>3. WindowInv BY DEF WindowInv, Windows
<1>4. KexInv BY DEF KexInv, One
<1>5. DraftInv BY DEF DraftInv, Called
<1>6. WireInv BY DEF WireInv
<1>7. QueueInv BY DEF QueueInv
<1> QED BY <1>2, <1>3, <1>4, <1>5, <1>6, <1>7 DEF IInv

\* Losing messages keeps the order of the rest.
LEMMA ShortenedInv ==
  ASSUME IInv, NEW off, Shortened(off),
         Called \in Nat, Called' \in Nat, Called <= Called',
         LatestKey \in Nat, LatestKey' \in Nat, LatestKey <= LatestKey',
         recvKey \in Nat, recvKey' \in Nat, recvKey <= recvKey'
  PROVE  WireInv' /\ \A n \in Nat : Ahead(n) => Ahead(n)'
<1>0. TypeOK /\ WireInv
  BY DEF IInv
<1>1. ASSUME NEW l \in Links, NEW i \in 1 .. Len(wire'[l])
      PROVE  /\ i + off[l] \in 1 .. Len(wire[l])
             /\ wire'[l][i] = wire[l][i + off[l]]
             /\ wire'[l][i].num \in Nat /\ wire'[l][i].key \in Nat
  <2>1. /\ off[l] \in Nat /\ Len(wire'[l]) \in Nat /\ Len(wire[l]) \in Nat
        /\ Len(wire'[l]) + off[l] <= Len(wire[l])
        /\ wire'[l][i] = wire[l][i + off[l]]
    <3>1. Len(wire[l]) \in Nat BY <1>0, WireTypes
    <3> QED BY <3>1 DEF Shortened
  <2>2. i + off[l] \in 1 .. Len(wire[l])
    <3> DEFINE o == off[l]
               n == Len(wire'[l])
               n0 == Len(wire[l])
    <3>1. o \in Nat /\ n \in Nat /\ n0 \in Nat /\ n + o <= n0 /\ i \in 1 .. n
      BY <2>1
    <3> HIDE DEF o, n, n0
    <3>2. i + o \in 1 .. n0 BY <3>1
    <3> QED BY <3>2 DEF o, n0
  <2>3. wire[l][i + off[l]].num \in Nat /\ wire[l][i + off[l]].key \in Nat
    <3> DEFINE m == i + off[l]
    <3> HIDE DEF m
    <3>1. m \in 1 .. Len(wire[l]) BY <2>2 DEF m
    <3>2. wire[l][m].num \in 1 .. MaxMessages /\ wire[l][m].key \in Links
      BY <1>0, <3>1, WireTypes
    <3>3. wire[l][m].num \in Nat /\ wire[l][m].key \in Nat
      BY <3>2, BoundsAssumption DEF Links
    <3> QED BY <3>3 DEF m
  <2> QED BY <2>1, <2>2, <2>3
<1>2. WireInv'
  <2> SUFFICES ASSUME NEW k \in Links, NEW i \in 1 .. Len(wire'[k])
      PROVE  /\ wire'[k][i].num <= Called' /\ wire'[k][i].key <= LatestKey'
             /\ wire'[k][i].link = k
             /\ \A j \in 1 .. Len(wire'[k]) : i < j => wire'[k][i].num < wire'[k][j].num
             /\ \A l \in Links : \A j \in 1 .. Len(wire'[l]) :
                  wire'[k][i].key < wire'[l][j].key => wire'[k][i].num < wire'[l][j].num
    BY DEF WireInv
  <2> DEFINE m == i + off[k]
  <2> HIDE DEF m
  <2>0. m \in 1 .. Len(wire[k]) /\ wire'[k][i] = wire[k][m]
    BY <1>1 DEF m
  <2>1. /\ wire'[k][i].num <= Called' /\ wire'[k][i].key <= LatestKey'
        /\ wire'[k][i].link = k
    <3>1. /\ wire[k][m].num <= Called /\ wire[k][m].key <= LatestKey
          /\ wire[k][m].link = k
      BY <1>0, <2>0 DEF WireInv
    <3>2. wire[k][m].num \in Nat /\ wire[k][m].key \in Nat
      BY <2>0, <1>1
    <3>3. wire[k][m].num <= Called' /\ wire[k][m].key <= LatestKey'
      BY <3>1, <3>2
    <3> QED BY <2>0, <3>1, <3>3
  <2>2. ASSUME NEW j \in 1 .. Len(wire'[k]), i < j
        PROVE  wire'[k][i].num < wire'[k][j].num
    <3>1. j + off[k] \in 1 .. Len(wire[k]) /\ wire'[k][j] = wire[k][j + off[k]]
      BY <1>1
    <3>2. m < j + off[k]
      BY <2>2 DEF Shortened, m
    <3> QED BY <1>0, <2>0, <3>1, <3>2 DEF WireInv
  <2>3. ASSUME NEW l \in Links, NEW j \in 1 .. Len(wire'[l]),
               wire'[k][i].key < wire'[l][j].key
        PROVE  wire'[k][i].num < wire'[l][j].num
    <3> DEFINE q == j + off[l]
    <3> HIDE DEF q
    <3>1. q \in 1 .. Len(wire[l]) /\ wire'[l][j] = wire[l][q]
      BY <1>1 DEF q
    <3>2. wire[k][m].key < wire[l][q].key
      BY <2>0, <2>3, <3>1
    <3>3. wire[k][m].num < wire[l][q].num
      BY <1>0, <2>0, <3>1, <3>2 DEF WireInv
    <3> QED BY <2>0, <3>1, <3>3
  <2> QED BY <2>1, <2>2, <2>3
<1>3. ASSUME NEW n \in Nat, Ahead(n) PROVE Ahead(n)'
  <2>1. n <= Called'
    BY <1>3 DEF Ahead
  <2>2. ASSUME NEW l \in Links, NEW i \in 1 .. Len(wire'[l]),
               wire'[l][i].key = l, recvKey' <= l
        PROVE  n < wire'[l][i].num
    <3>1. i + off[l] \in 1 .. Len(wire[l]) /\ wire'[l][i] = wire[l][i + off[l]]
      BY <1>1
    <3>2. recvKey <= l
      BY <2>2, BoundsAssumption DEF Links
    <3> QED BY <1>3, <2>2, <3>1, <3>2 DEF Ahead
  <2> QED BY <2>1, <2>2 DEF Ahead
<1> QED BY <1>2, <1>3

\* The receiver's queue, hands and screen stay as they are.
LEMMA QueueKept ==
  ASSUME IInv, \A n \in Nat : Ahead(n) => Ahead(n)', UNCHANGED <<received, hand, seen>>
  PROVE  QueueInv'
<1>1. /\ \A i \in 1 .. Len(received) : received[i][1].num \in Nat
      /\ \A w \in Windows : hand[w] # None => hand[w][1].num \in Nat
      /\ \A i \in 1 .. Len(seen) : seen[i] \in Nat
  BY QueueTypes, BoundsAssumption DEF IInv
<1> QED BY <1>1 DEF IInv, QueueInv

\* Nothing happens to messages.
LEMMA MessagesKept ==
  ASSUME IInv,
         UNCHANGED <<sent, draft, sendKey, unanswered, wire, recvKey, received, hand, seen>>
  PROVE  DraftInv' /\ WireInv' /\ QueueInv'
<1>1. DraftInv' BY DEF IInv, DraftInv, Called
<1>2. WireInv' BY DEF IInv, WireInv, Called, LatestKey
<1>3. QueueInv' BY DEF IInv, QueueInv, Ahead, Called
<1> QED BY <1>1, <1>2, <1>3

-----------------------------------------------------------------------------
(* Steps of the receiver's threads.                                        *)

LEMMA ActiveIsCurrent ==
  ASSUME TypeOK, WindowInv, NEW w \in Windows, thread[w] \notin {"none", "ended"}
  PROVE  w = chat /\ (gui = "joining" => w # windows)
<1>1. w \in Nat /\ chat \in Nat
  BY BoundsAssumption DEF TypeOK, Windows
<1> QED BY <1>1 DEF WindowInv

LEMMA GuiInv ==
  ASSUME IInv, Gui
  PROVE  IInv'
<1> USE DEF IInv, sendVars, senderVars, kexVars, recvVars, threadVars
<1>1. DraftInv' /\ WireInv' /\ QueueInv'
  <2>1. UNCHANGED <<sent, draft, sendKey, unanswered, wire, recvKey, received, hand, seen>>
    BY DEF Gui, Tick, BuildWindow, StartChat, ClearNeeded
  <2> QED BY <2>1, MessagesKept
<1>2. /\ windows \in Nat /\ chat \in Windows /\ chat \in Nat /\ windows \in Windows
      /\ handshakes \in Nat /\ handshakes <= MaxHandshakes
  BY BoundsAssumption DEF TypeOK, Windows, Links
<1>3. CASE Tick
  <2>1. TypeOK' BY <1>3 DEF Tick, TypeOK
  <2>2. WindowInv' BY <1>3 DEF Tick, WindowInv
  <2>3. KexInv' BY <1>2, <1>3 DEF Tick, KexInv, One
  <2> QED BY <1>1, <2>1, <2>2, <2>3
<1>4. CASE BuildWindow
  <2>1. windows' = windows + 1 /\ windows' \in Windows
    BY <1>2, <1>4, BoundsAssumption DEF BuildWindow, KexInv, One, Windows
  <2>2. exitFlag' \in [Windows -> BOOLEAN]
    BY <1>4 DEF BuildWindow, Leaving, TypeOK
  <2>3. TypeOK' BY <1>4, <2>1, <2>2 DEF BuildWindow, TypeOK
  <2>4. WindowInv' BY <1>4 DEF BuildWindow, WindowInv
  <2>5. KexInv' BY <1>2, <1>4 DEF BuildWindow, KexInv, One
  <2> QED BY <1>1, <2>3, <2>4, <2>5
<1>5. CASE StartChat
  <2>1. thread' \in [Windows -> {"none", "testing", "popping", "showing", "ended"}]
    BY <1>5 DEF StartChat, TypeOK
  <2>2. thread[windows] = "none" /\ chat < windows
    BY <1>2, <1>5 DEF StartChat, WindowInv
  <2>3. \A w \in Windows : hand[w] # None <=> thread'[w] = "showing"
    BY <1>2, <1>5, <2>2 DEF StartChat, TypeOK
  <2>4. TypeOK'
    BY <1>2, <1>5, <2>1, <2>3 DEF StartChat, TypeOK
  <2>5. WindowInv'
    <3>1. chat' = windows /\ windows' = windows /\ gui' # "joining"
      BY <1>5 DEF StartChat
    <3>2. ASSUME NEW w \in Windows
          PROVE  /\ w < windows => thread'[w] \in {"none", "ended"}
                 /\ w > windows => thread'[w] = "none"
      <4>1. w \in Nat BY BoundsAssumption DEF Windows
      <4>2. w # windows => thread'[w] = thread[w]
        BY <1>5 DEF StartChat, TypeOK
      <4>3. windows = chat + 1 /\ thread[chat] = "ended"
        BY <1>5 DEF StartChat, Joined, WindowInv
      <4> QED BY <1>2, <4>1, <4>2, <4>3 DEF WindowInv
    <3> QED BY <3>1, <3>2 DEF WindowInv
  <2>6. KexInv' BY <1>2, <1>5 DEF StartChat, KexInv, One
  <2> QED BY <1>1, <2>4, <2>5, <2>6
<1>6. CASE ClearNeeded
  <2>1. TypeOK' BY <1>6 DEF ClearNeeded, TypeOK
  <2>2. WindowInv' BY <1>6 DEF ClearNeeded, WindowInv
  <2>3. KexInv' BY <1>2, <1>6 DEF ClearNeeded, KexInv, One
  <2> QED BY <1>1, <2>1, <2>2, <2>3
<1> QED BY <1>3, <1>4, <1>5, <1>6 DEF Gui

\* The thread of the current chat goes on.
LEMMA ThreadStep ==
  ASSUME IInv, NEW w \in Windows, thread[w] \notin {"none", "ended"},
         NEW t \in {"testing", "popping", "showing", "ended"},
         thread' = [thread EXCEPT ![w] = t],
         UNCHANGED <<kexVars, windows, chat, gui, needed, ticking, sendKey, recvKey>>
  PROVE  /\ WindowInv' /\ KexInv'
         /\ thread' \in [Windows -> {"none", "testing", "popping", "showing", "ended"}]
         /\ thread'[w] = t /\ \A v \in Windows : v # w => thread'[v] = thread[v]
<1>1. /\ thread' \in [Windows -> {"none", "testing", "popping", "showing", "ended"}]
      /\ thread'[w] = t /\ \A v \in Windows : v # w => thread'[v] = thread[v]
  BY DEF IInv, TypeOK
<1>2. w = chat
  BY ActiveIsCurrent DEF IInv
<1>3. w \in Nat
  BY BoundsAssumption DEF Windows
<1>4. WindowInv'
  BY <1>1, <1>2, <1>3 DEF IInv, WindowInv
<1>5. KexInv'
  BY DEF IInv, KexInv, kexVars
<1> QED BY <1>1, <1>4, <1>5

LEMMA TestExitInv ==
  ASSUME IInv, NEW w \in Windows, TestExit(w)
  PROVE  IInv'
<1> USE DEF TestExit, sendVars, senderVars, kexVars, recvVars, guiVars
<1>1. PICK t \in {"popping", "ended"} : thread' = [thread EXCEPT ![w] = t]
  OBVIOUS
<1>2. /\ WindowInv' /\ KexInv'
      /\ thread' \in [Windows -> {"none", "testing", "popping", "showing", "ended"}]
      /\ thread'[w] = t /\ \A v \in Windows : v # w => thread'[v] = thread[v]
  BY <1>1, ThreadStep
<1>3. TypeOK'
  BY <1>2 DEF IInv, TypeOK
<1>4. DraftInv' /\ WireInv' /\ QueueInv'
  BY MessagesKept
<1> QED BY <1>2, <1>3, <1>4 DEF IInv

\* Popping and showing leaves the sender and the connections alone.
LEMMA SenderKept ==
  ASSUME IInv, UNCHANGED <<sendVars, recvKey>>
  PROVE  DraftInv' /\ WireInv' /\ \A n \in Nat : Ahead(n) => Ahead(n)'
<1> USE DEF IInv, sendVars, senderVars
<1>1. DraftInv' BY DEF DraftInv, Called
<1>2. WireInv' BY DEF WireInv, Called, LatestKey
<1>3. \A n \in Nat : Ahead(n) => Ahead(n)' BY DEF Ahead, Called
<1> QED BY <1>1, <1>2, <1>3

LEMMA PopMessageInv ==
  ASSUME IInv, NEW w \in Windows, PopMessage(w)
  PROVE  IInv'
<1> USE DEF PopMessage, AfterPop, kexVars, guiVars
<1>1. DraftInv' /\ WireInv' /\ \A n \in Nat : Ahead(n) => Ahead(n)'
  BY SenderKept
<1>2. \A v \in Windows : hand[v] = None
  <2>1. \A v \in Windows : thread[v] # "showing"
    BY ActiveIsCurrent DEF IInv
  <2> QED BY <2>1 DEF IInv, TypeOK
<1>3. UNCHANGED <<sendKey, client>>
  BY DEF sendVars, senderVars
<1>4. CASE received = <<>>
  <2>1. /\ WindowInv' /\ KexInv'
        /\ thread' \in [Windows -> {"none", "testing", "popping", "showing", "ended"}]
        /\ thread'[w] = "testing" /\ \A v \in Windows : v # w => thread'[v] = thread[v]
    BY <1>3, <1>4, ThreadStep
  <2>2. TypeOK'
    BY <1>4, <2>1 DEF IInv, TypeOK, sendVars, senderVars
  <2>3. QueueInv'
    BY <1>1, <1>4, QueueKept
  <2> QED BY <1>1, <2>1, <2>2, <2>3 DEF IInv
<1>5. CASE received # <<>>
  <2>1. /\ WindowInv' /\ KexInv'
        /\ thread' \in [Windows -> {"none", "testing", "popping", "showing", "ended"}]
        /\ thread'[w] = "showing" /\ \A v \in Windows : v # w => thread'[v] = thread[v]
    BY <1>3, <1>5, ThreadStep
  <2>2. /\ received \in Seq(Entries) /\ Len(received) \in Nat /\ Len(received) # 0
        /\ hand \in [Windows -> Entries \cup {None}]
    BY <1>5, QueueTypes DEF IInv, TypeOK
  <2>3. /\ received' \in Seq(Entries) /\ Len(received') = Len(received) - 1
        /\ \A i \in 1 .. Len(received') : received'[i] = received[i + 1]
        /\ received[1] \in Entries /\ Head(received) = received[1]
    <3>1. received' = Tail(received) BY <1>5
    <3>2. received[1] \in Entries /\ Head(received) = received[1] BY <2>2
    <3> HIDE DEF PopMessage
    <3> QED BY <1>5, <2>2, <3>1, <3>2, HeadTailProperties
  <2>4. /\ hand' \in [Windows -> Entries \cup {None}] /\ hand'[w] = received[1]
        /\ hand'[w] # None /\ \A v \in Windows : v # w => hand'[v] = None
    BY <1>2, <1>5, <2>2, <2>3, NoneAssumption
  <2>5. TypeOK'
    <3>1. \A v \in Windows : hand'[v] # None <=> thread'[v] = "showing"
      BY <1>2, <2>1, <2>4 DEF IInv, TypeOK
    <3> QED BY <2>1, <2>3, <2>4, <3>1 DEF IInv, TypeOK, sendVars, senderVars
  <2>6. QueueInv'
    <3> DEFINE num(i) == received[i][1].num
    <3>1. \A i \in 1 .. Len(received) : num(i) \in Nat
      BY QueueTypes, BoundsAssumption DEF IInv
    <3>2. 1 \in 1 .. Len(received)
      BY <2>2
    <3>3. \A i \in 1 .. Len(received') :
            i + 1 \in 1 .. Len(received) /\ received'[i] = received[i + 1] /\ i \in Nat
      BY <2>2, <2>3
    <3>4. ASSUME NEW i \in 1 .. Len(received'), Regular(received[i])'
          PROVE  /\ Ahead(received[i][1].num)'
                 /\ \A j \in 1 .. Len(received') :
                      i < j /\ Regular(received[j])'
                        => received'[i][1].num < received'[j][1].num
      <4>0. Regular(received[i + 1]) BY <3>3, <3>4 DEF Regular
      <4>1. PICK n \in Nat : n = num(i + 1) BY <3>1, <3>3
      <4>2. Ahead(n) BY <3>3, <4>0, <4>1 DEF IInv, QueueInv
      <4>3. Ahead(n)' BY <1>1, <4>2
      <4>4. Ahead(received[i][1].num)' BY <3>3, <4>1, <4>3 DEF Ahead
      <4>5. ASSUME NEW j \in 1 .. Len(received'), i < j, Regular(received[j])'
            PROVE  received'[i][1].num < received'[j][1].num
        <5>1. i + 1 < j + 1 BY <3>3, <4>5
        <5>2. Regular(received[j + 1]) BY <3>3, <4>5 DEF Regular
        <5> QED BY <3>3, <4>0, <5>1, <5>2 DEF IInv, QueueInv
      <4> QED BY <4>4, <4>5
    <3>5. ASSUME NEW v \in Windows, hand'[v] # None, Regular(hand[v])'
          PROVE  /\ Ahead(hand[v][1].num)'
                 /\ \A j \in 1 .. Len(received') :
                      Regular(received[j])' => hand'[v][1].num < received'[j][1].num
      <4>0. v = w /\ hand'[v] = received[1] BY <2>4, <3>5
      <4>1. Regular(received[1]) BY <3>5, <4>0 DEF Regular
      <4>2. PICK n \in Nat : n = num(1) BY <3>1, <3>2
      <4>3. Ahead(n) BY <3>2, <4>1, <4>2 DEF IInv, QueueInv
      <4>4. Ahead(n)' BY <1>1, <4>3
      <4>5. Ahead(hand[v][1].num)' BY <4>0, <4>2, <4>4 DEF Ahead
      <4>6. ASSUME NEW j \in 1 .. Len(received'), Regular(received[j])'
            PROVE  hand'[v][1].num < received'[j][1].num
        <5>1. 1 < j + 1 BY <3>3
        <5>2. Regular(received[j + 1]) BY <3>3, <4>6 DEF Regular
        <5> QED BY <3>2, <3>3, <4>0, <4>1, <5>1, <5>2 DEF IInv, QueueInv
      <4> QED BY <4>5, <4>6
    <3>6. ASSUME NEW i \in 1 .. Len(seen)
          PROVE  /\ Ahead(seen[i])'
                 /\ \A j \in 1 .. Len(received') :
                      Regular(received[j])' => seen[i] < received'[j][1].num
                 /\ \A v \in Windows :
                      hand'[v] # None /\ Regular(hand[v])' => seen[i] < hand'[v][1].num
      <4>1. PICK n \in Nat : n = seen[i] BY QueueTypes, BoundsAssumption DEF IInv
      <4>2. Ahead(n) BY <4>1 DEF IInv, QueueInv
      <4>3. Ahead(n)' BY <1>1, <4>2
      <4>4. Ahead(seen[i])' BY <4>1, <4>3 DEF Ahead
      <4>5. \A j \in 1 .. Len(received) :
              Regular(received[j]) => seen[i] < received[j][1].num
        BY DEF IInv, QueueInv
      <4>6. ASSUME NEW j \in 1 .. Len(received'), Regular(received[j])'
            PROVE  seen[i] < received'[j][1].num
        <5>1. Regular(received[j + 1]) BY <3>3, <4>6 DEF Regular
        <5> QED BY <3>3, <4>5, <5>1
      <4>7. ASSUME NEW v \in Windows, hand'[v] # None, Regular(hand[v])'
            PROVE  seen[i] < hand'[v][1].num
        <5>1. hand'[v] = received[1] BY <2>4, <4>7
        <5>2. Regular(received[1]) BY <4>7, <5>1 DEF Regular
        <5> QED BY <3>2, <4>5, <5>1, <5>2
      <4> QED BY <4>4, <4>6, <4>7
    <3>7. seen' = seen OBVIOUS
    <3> QED BY <3>4, <3>5, <3>6, <3>7 DEF QueueInv
  <2> QED BY <1>1, <2>1, <2>5, <2>6 DEF IInv
<1> QED BY <1>4, <1>5

LEMMA ShowInv ==
  ASSUME IInv, NEW w \in Windows, Show(w)
  PROVE  /\ IInv'
         /\ \/ UNCHANGED seen
            \/ \E n \in 1 .. sent : /\ \A i \in 1 .. Len(seen) : seen[i] < n
                                    /\ seen' = Append(seen, n)
<1> DEFINE e == hand[w]
           num == e[1].num
<1> USE DEF kexVars, guiVars
<1>1. DraftInv' /\ WireInv' /\ \A n \in Nat : Ahead(n) => Ahead(n)'
  BY SenderKept DEF Show, recvVars
<1>2. /\ e # None /\ e \in Entries /\ num \in 1 .. MaxMessages
      /\ hand \in [Windows -> Entries \cup {None}]
  BY QueueTypes DEF Show, IInv, TypeOK
<1>3. /\ hand' \in [Windows -> Entries \cup {None}] /\ hand'[w] = None
      /\ \A v \in Windows : v # w => hand'[v] = None
  <2>1. \A v \in Windows : v # w => thread[v] # "showing"
    BY ActiveIsCurrent DEF Show, IInv
  <2> QED BY <1>2, <2>1 DEF Show, IInv, TypeOK
<1>4. /\ WindowInv' /\ KexInv'
      /\ thread' \in [Windows -> {"none", "testing", "popping", "showing", "ended"}]
      /\ thread'[w] = "popping" /\ \A v \in Windows : v # w => thread'[v] = thread[v]
  BY ThreadStep DEF Show, sendVars, senderVars, recvVars
<1>5. \A v \in Windows : hand'[v] # None <=> thread'[v] = "showing"
  BY <1>3, <1>4, ActiveIsCurrent DEF Show, IInv
<1>6. /\ seen \in Seq(1 .. MaxMessages) /\ Len(seen) \in Nat
      /\ \A i \in 1 .. Len(received) : received[i][1].num \in Nat
  BY QueueTypes, BoundsAssumption DEF IInv
<1>7. num \in Nat
  BY <1>2, BoundsAssumption
<1>8. UNCHANGED <<received, recvKey>>
  BY DEF Show, recvVars
<1>9. \A i \in 1 .. Len(received) : Regular(received[i])' <=> Regular(received[i])
  BY <1>8 DEF Regular
<1>10. \A i \in 1 .. Len(received) : Regular(received[i]) => Ahead(received[i][1].num)'
  <2> SUFFICES ASSUME NEW i \in 1 .. Len(received), Regular(received[i])
      PROVE  Ahead(received[i][1].num)'
    OBVIOUS
  <2>1. PICK n \in Nat : n = received[i][1].num BY <1>6
  <2>2. Ahead(n)' BY <1>1, <2>1 DEF IInv, QueueInv
  <2> QED BY <1>8, <2>1, <2>2 DEF Ahead
<1>11. ASSUME NEW n \in Nat, Ahead(n)',
              \A j \in 1 .. Len(received) : Regular(received[j]) => n < received[j][1].num,
              NEW i \in 1 .. Len(seen'), seen'[i] = n
       PROVE  /\ Ahead(seen[i])'
              /\ \A j \in 1 .. Len(received') :
                   Regular(received[j])' => seen'[i] < received'[j][1].num
              /\ \A v \in Windows :
                   hand'[v] # None /\ Regular(hand[v])' => seen'[i] < hand'[v][1].num
  <2>1. Ahead(seen[i])' BY <1>11 DEF Ahead
  <2> QED BY <2>1, <1>3, <1>8, <1>9, <1>11
<1>12. ASSUME NEW i \in 1 .. Len(seen)
       PROVE  /\ seen[i] \in Nat /\ Ahead(seen[i])
              /\ \A j \in 1 .. Len(received) :
                   Regular(received[j]) => seen[i] < received[j][1].num
  <2>1. TypeOK /\ QueueInv BY DEF IInv
  <2>2. seen[i] \in 1 .. MaxMessages BY <2>1, QueueTypes
  <2>3. seen[i] \in Nat BY <2>2, BoundsAssumption
  <2> QED BY <2>1, <2>3 DEF QueueInv
<1>13. ASSUME NEW i \in 1 .. Len(seen)
       PROVE  \E n \in Nat : /\ n = seen[i] /\ Ahead(n)'
                             /\ \A j \in 1 .. Len(received) :
                                  Regular(received[j]) => n < received[j][1].num
  <2>1. PICK n \in Nat : n = seen[i] BY <1>12
  <2>2. Ahead(n)' BY <1>1, <1>12, <2>1
  <2> QED BY <1>12, <2>1, <2>2
<1>14. ASSUME seen' \in Seq(1 .. MaxMessages), odd' \in SUBSET Entries,
              \A i \in 1 .. Len(seen') :
                \E n \in Nat : /\ n = seen'[i] /\ Ahead(n)'
                               /\ \A j \in 1 .. Len(received) :
                                    Regular(received[j]) => n < received[j][1].num
       PROVE  IInv'
  <2>1. TypeOK'
    BY <1>3, <1>4, <1>5, <1>14 DEF IInv, TypeOK, Show, sendVars, senderVars, recvVars
  <2>2. QueueInv'
    <3>1. \A i \in 1 .. Len(seen') :
            /\ Ahead(seen[i])'
            /\ \A j \in 1 .. Len(received') :
                 Regular(received[j])' => seen'[i] < received'[j][1].num
            /\ \A v \in Windows :
                 hand'[v] # None /\ Regular(hand[v])' => seen'[i] < hand'[v][1].num
      BY <1>11, <1>14
    <3>2. \A i \in 1 .. Len(received') : Regular(received[i])' =>
            /\ Ahead(received[i][1].num)'
            /\ \A j \in 1 .. Len(received') :
                 i < j /\ Regular(received[j])' => received'[i][1].num < received'[j][1].num
      BY <1>8, <1>9, <1>10 DEF IInv, QueueInv
    <3> QED BY <1>3, <3>1, <3>2 DEF QueueInv
  <2> QED BY <1>1, <1>4, <2>1, <2>2 DEF IInv
<1>15. CASE Regular(e)
  <2>1. seen' = Append(seen, num) /\ odd' = odd
    BY <1>15 DEF Show
  <2>2. /\ seen' \in Seq(1 .. MaxMessages) /\ Len(seen') = Len(seen) + 1
        /\ \A i \in 1 .. Len(seen) : seen'[i] = seen[i]
        /\ seen'[Len(seen) + 1] = num
    BY <1>2, <1>6, <2>1, AppendProperties
  <2>3. /\ Ahead(num)
        /\ \A j \in 1 .. Len(received) : Regular(received[j]) => num < received[j][1].num
        /\ \A i \in 1 .. Len(seen) : seen[i] < num
    BY <1>2, <1>15 DEF IInv, QueueInv
  <2>4. PICK n \in Nat : n = num BY <1>7
  <2>5. Ahead(n)' BY <1>1, <2>3, <2>4
  <2>6. ASSUME NEW i \in 1 .. Len(seen')
        PROVE  \E m \in Nat : /\ m = seen'[i] /\ Ahead(m)'
                              /\ \A j \in 1 .. Len(received) :
                                   Regular(received[j]) => m < received[j][1].num
    <3>1. i \in 1 .. Len(seen) \/ i = Len(seen) + 1 BY <1>6, <2>2
    <3>2. CASE i \in 1 .. Len(seen) BY <1>13, <2>2, <3>2
    <3>3. CASE i = Len(seen) + 1 BY <2>2, <2>3, <2>4, <2>5, <3>3
    <3> QED BY <3>1, <3>2, <3>3
  <2>7. IInv' BY <1>14, <2>1, <2>2, <2>6 DEF IInv, TypeOK
  <2>8. num <= sent
    BY <1>7, <2>3, DraftTypes DEF IInv, Ahead
  <2>9. num \in 1 .. sent
    BY <1>2, <2>8, BoundsAssumption DEF IInv, TypeOK
  <2> QED BY <2>1, <2>3, <2>7, <2>9
<1>16. CASE ~Regular(e)
  <2>1. seen' = seen /\ odd' = odd \cup {e}
    BY <1>16 DEF Show
  <2>2. odd' \in SUBSET Entries
    BY <1>2, <2>1 DEF IInv, TypeOK
  <2>3. IInv' BY <1>6, <1>13, <1>14, <2>1, <2>2
  <2> QED BY <2>1, <2>3
<1> QED BY <1>15, <1>16

-----------------------------------------------------------------------------
(* Steps of the sender and of handshakes.                                  *)

Whole == [l \in Links |-> 0]

LEMMA KeptShortens ==
  ASSUME TypeOK, wire' = wire
  PROVE  Shortened(Whole)
<1> SUFFICES ASSUME NEW l \in Links
    PROVE  /\ Whole[l] \in Nat /\ Len(wire'[l]) \in Nat
           /\ Len(wire'[l]) + Whole[l] <= Len(wire[l])
           /\ \A i \in 1 .. Len(wire'[l]) : wire'[l][i] = wire[l][i + Whole[l]]
  BY DEF Shortened
<1>1. Whole[l] = 0 /\ Len(wire[l]) \in Nat
  BY WireTypes DEF Whole
<1> QED BY <1>1

LEMMA CutShortens ==
  ASSUME TypeOK,
         \E k \in 0 .. Len(wire[client]) : wire' = [wire EXCEPT ![client] = SubSeq(@, 1, k)]
  PROVE  wire' \in [Links -> Seq(Messages)] /\ Shortened(Whole)
<1>1. PICK k \in 0 .. Len(wire[client]) : wire' = [wire EXCEPT ![client] = SubSeq(@, 1, k)]
  OBVIOUS
<1>2. client \in Links /\ wire \in [Links -> Seq(Messages)] /\ Len(wire[client]) \in Nat
  BY WireTypes DEF TypeOK
<1>3. \A i \in 1 .. k : wire[client][i] \in Messages
  BY <1>2, WireTypes
<1> DEFINE s == SubSeq(wire[client], 1, k)
<1>4. k \in Nat /\ 1 \in Int /\ k \in Int
  BY <1>2
<1>5. /\ s \in Seq(Messages) /\ Len(s) = IF 1 <= k THEN k - 1 + 1 ELSE 0
      /\ \A i \in 1 .. k - 1 + 1 : s[i] = wire[client][1 + i - 1]
  BY <1>3, <1>4, SubSeqProperties
<1>6. Len(s) = k /\ \A i \in 1 .. k : s[i] = wire[client][i]
  BY <1>4, <1>5
<1> HIDE DEF s
<1>7. wire' = [wire EXCEPT ![client] = s]
  BY <1>1 DEF s
<1>8. wire' \in [Links -> Seq(Messages)]
  BY <1>2, <1>5, <1>7
<1>9. Shortened(Whole)
  <2> SUFFICES ASSUME NEW l \in Links
      PROVE  /\ Whole[l] \in Nat /\ Len(wire'[l]) \in Nat
             /\ Len(wire'[l]) + Whole[l] <= Len(wire[l])
             /\ \A i \in 1 .. Len(wire'[l]) : wire'[l][i] = wire[l][i + Whole[l]]
    BY DEF Shortened
  <2>1. Whole[l] = 0 /\ Len(wire[l]) \in Nat
    BY WireTypes DEF Whole
  <2>2. CASE l = client
    <3>1. wire'[l] = s BY <1>2, <1>7, <2>2
    <3> QED BY <1>2, <1>4, <1>6, <2>1, <2>2, <3>1
  <2>3. CASE l # client
    <3>1. wire'[l] = wire[l] BY <1>2, <1>7, <2>3
    <3> QED BY <2>1, <3>1
  <2> QED BY <2>2, <2>3
<1> QED BY <1>8, <1>9

\* What is left to show of a step that calls with nothing and receives nothing.
LEMMA LinkStep ==
  ASSUME IInv, Shortened(Whole), TypeOK', KexInv', DraftInv',
         Called <= Called', LatestKey <= LatestKey', recvKey <= recvKey',
         UNCHANGED <<received, hand, seen, thread, windows, chat>>,
         gui' = "joining" <=> gui = "joining"
  PROVE  IInv'
<1>1. /\ Called \in Nat /\ LatestKey \in Nat /\ recvKey \in Nat
  <2>1. Called \in 0 .. MaxMessages /\ LatestKey \in Links
    BY DraftTypes DEF IInv
  <2>2. recvKey \in Links
    BY DEF IInv, TypeOK
  <2> QED BY <2>1, <2>2, BoundsAssumption DEF Links
<1>2. Called' \in Nat
  <2>1. sent' \in 0 .. MaxMessages /\ draft' \in Drafts \cup {None}
    BY DEF TypeOK
  <2>2. ASSUME draft' # None PROVE sent' \in 1 .. MaxMessages
    <3>1. draft'.num \in 1 .. MaxMessages BY <2>1, <2>2 DEF Drafts
    <3>2. draft'.num = sent' BY <2>2 DEF DraftInv
    <3> QED BY <3>1, <3>2
  <2>3. CASE draft' = None
    <3>1. Called' = sent' BY <2>3 DEF Called
    <3> QED BY <2>1, <3>1, BoundsAssumption
  <2>4. CASE draft' # None
    <3>1. Called' = sent' - 1 BY <2>4 DEF Called
    <3> QED BY <2>2, <2>4, <3>1, BoundsAssumption
  <2> QED BY <2>3, <2>4
<1>3. LatestKey' \in Nat /\ recvKey' \in Nat
  <2>1. /\ sendKey' \in Links /\ recvKey' \in Links
        /\ draft' # None => draft'.key \in Links
    BY DEF TypeOK, Drafts
  <2> QED BY <2>1, BoundsAssumption DEF LatestKey, Links
<1>4. WireInv' /\ \A n \in Nat : Ahead(n) => Ahead(n)'
  BY <1>1, <1>2, <1>3, ShortenedInv
<1>5. QueueInv'
  BY <1>4, QueueKept
<1>6. WindowInv'
  BY DEF IInv, WindowInv
<1> QED BY <1>4, <1>5, <1>6 DEF IInv

LEMMA EncryptInv ==
  ASSUME IInv, NEW mode \in Modes, Encrypt(mode)
  PROVE  IInv' /\ sent' = sent + 1 /\ seen' = seen
<1> USE DEF Encrypt, kexVars, recvVars, guiVars, threadVars
<1> DEFINE d == [num |-> sent + 1, key |-> sendKey, mode |-> mode]
<1>1. sent \in Nat /\ sent < MaxMessages /\ sendKey \in Links /\ sendKey \in Nat
  BY BoundsAssumption DEF IInv, TypeOK, Links
<1>2. /\ sent' = sent + 1 /\ draft' = d /\ d \in Drafts
      /\ d.num = sent + 1 /\ d.key = sendKey /\ draft = None
  BY <1>1, BoundsAssumption DEF Drafts
<1>3. draft' # None
  BY <1>2, NoneAssumption
<1> HIDE DEF d
<1>4. TypeOK'
  BY <1>1, <1>2, BoundsAssumption DEF IInv, TypeOK
<1>5. /\ Called = sent /\ Called' = sent /\ LatestKey = sendKey /\ LatestKey' = sendKey
  BY <1>1, <1>2, <1>3 DEF Called, LatestKey
<1>6. DraftInv'
  BY <1>1, <1>2, <1>5 DEF IInv, DraftInv
<1>7. KexInv'
  BY DEF IInv, KexInv
<1>8. recvKey \in Nat /\ recvKey' = recvKey
  BY BoundsAssumption DEF IInv, TypeOK, Links
<1> QED BY <1>1, <1>2, <1>4, <1>5, <1>6, <1>7, <1>8, KeptShortens, LinkStep DEF IInv

LEMMA AnswerArrivesInv ==
  ASSUME IInv, AnswerArrives
  PROVE  IInv'
<1> USE DEF AnswerArrives, kexVars, recvVars, guiVars, threadVars
<1>1. Len(wire[client]) \in Nat /\ unanswered \in 0 .. MaxMessages
  BY WireTypes DEF IInv, TypeOK
<1>2. unanswered' = unanswered - 1 /\ unanswered' \in 0 .. MaxMessages
  BY <1>1, BoundsAssumption
<1>3. TypeOK'
  BY <1>2 DEF IInv, TypeOK
<1>4. Called \in Nat /\ LatestKey \in Nat /\ Called' = Called /\ LatestKey' = LatestKey
  BY DraftTypes, BoundsAssumption DEF IInv, Called, LatestKey, Links
<1>5. DraftInv'
  BY <1>1, <1>2, <1>4 DEF IInv, DraftInv
<1>6. KexInv'
  BY DEF IInv, KexInv
<1>7. recvKey \in Nat
  BY BoundsAssumption DEF IInv, TypeOK, Links
<1> QED BY <1>3, <1>4, <1>5, <1>6, <1>7, KeptShortens, LinkStep DEF IInv

LEMMA SenderEndsInv ==
  ASSUME IInv, SenderEnds
  PROVE  IInv'
<1> USE DEF SenderEnds, recvVars, guiVars, threadVars
<1>1. wire' \in [Links -> Seq(Messages)] /\ Shortened(Whole)
  BY CutShortens DEF IInv
<1>2. kex' = kex \/ (kex = "senderAnswered" /\ kex' = "senderKeyed")
  OBVIOUS
<1>3. TypeOK'
  BY <1>1, <1>2 DEF IInv, TypeOK, Kexes
<1>4. /\ Called \in Nat /\ LatestKey \in Nat /\ Called' = sent /\ LatestKey' = sendKey
      /\ Called <= sent /\ LatestKey <= sendKey /\ sent \in Nat /\ unanswered \in Nat
  BY DraftTypes, BoundsAssumption DEF IInv, TypeOK, Called, LatestKey, Links
<1>5. DraftInv'
  BY <1>4 DEF IInv, DraftInv
<1>6. KexInv'
  BY <1>2 DEF IInv, KexInv
<1>7. recvKey \in Nat
  BY BoundsAssumption DEF IInv, TypeOK, Links
<1> QED BY <1>1, <1>3, <1>4, <1>5, <1>6, <1>7, LinkStep

\* A handshake begins, or one of its steps that leaves the sender's client alone.
LEMMA KexStep ==
  ASSUME IInv,
         SenderConnects \/ ReceiverTakesKex \/ ReceiverConnects \/ SenderTakesKex
           \/ ReceiverFinishes \/ ReceiverFails
  PROVE  IInv'
<1> USE DEF kexVars, recvVars, guiVars, threadVars, sendVars, senderVars
<1>1. /\ UNCHANGED <<sent, draft, unanswered, wire, received, hand, seen, thread, windows, chat>>
      /\ gui' = "joining" <=> gui = "joining"
  BY DEF SenderConnects, ReceiverTakesKex, ReceiverConnects, SenderTakesKex,
     ReceiverFinishes, ReceiverFails, IInv, KexInv
<1>2. /\ handshakes \in Nat /\ handshakes <= MaxHandshakes /\ MaxHandshakes \in Nat
      /\ sendKey \in Nat /\ recvKey \in Nat
      /\ sendKey <= handshakes /\ recvKey <= handshakes
      /\ windows \in Nat
  BY BoundsAssumption DEF IInv, TypeOK, KexInv, Links, Windows
<1>3. /\ sendKey' \in {sendKey, handshakes} /\ recvKey' \in {recvKey, handshakes}
      /\ handshakes' \in {handshakes, handshakes + 1}
      /\ handshakes' = handshakes + 1 => handshakes < MaxHandshakes
  BY <1>2 DEF SenderConnects, ReceiverTakesKex, ReceiverConnects, SenderTakesKex,
     ReceiverFinishes, ReceiverFails
<1>4. sendKey' \in Links /\ recvKey' \in Links /\ handshakes' \in Links
  BY <1>2, <1>3 DEF Links
<1>5. TypeOK' /\ KexInv'
  <2>1. CASE SenderConnects
    <3>1. TypeOK' BY <1>4, <2>1 DEF SenderConnects, IInv, TypeOK, Kexes
    <3>2. KexInv' BY <1>2, <2>1 DEF SenderConnects, IInv, KexInv, One
    <3> QED BY <3>1, <3>2
  <2>2. CASE ReceiverTakesKex
    <3>1. TypeOK' BY <1>4, <2>2 DEF ReceiverTakesKex, IInv, TypeOK, Kexes
    <3>2. KexInv' BY <1>2, <2>2 DEF ReceiverTakesKex, IInv, KexInv, One
    <3> QED BY <3>1, <3>2
  <2>3. CASE ReceiverConnects
    <3>1. TypeOK' BY <1>4, <2>3 DEF ReceiverConnects, IInv, TypeOK, Kexes
    <3>2. KexInv' BY <1>2, <2>3 DEF ReceiverConnects, IInv, KexInv, One
    <3> QED BY <3>1, <3>2
  <2>4. CASE SenderTakesKex
    <3>1. TypeOK' BY <1>4, <2>4 DEF SenderTakesKex, IInv, TypeOK, Kexes
    <3>2. KexInv' BY <1>2, <2>4 DEF SenderTakesKex, IInv, KexInv, One
    <3> QED BY <3>1, <3>2
  <2>5. CASE ReceiverFinishes
    <3>1. TypeOK' BY <1>4, <2>5 DEF ReceiverFinishes, IInv, TypeOK, Kexes
    <3>2. KexInv' BY <1>2, <2>5 DEF ReceiverFinishes, IInv, KexInv, One
    <3> QED BY <3>1, <3>2
  <2>6. CASE ReceiverFails
    <3>1. TypeOK' BY <1>4, <2>6 DEF ReceiverFails, IInv, TypeOK, Kexes
    <3>2. KexInv' BY <1>2, <2>6 DEF ReceiverFails, IInv, KexInv, One
    <3> QED BY <3>1, <3>2
  <2> QED BY <2>1, <2>2, <2>3, <2>4, <2>5, <2>6
<1>6. /\ Called \in Nat /\ Called' = Called /\ LatestKey \in Nat /\ LatestKey <= LatestKey'
      /\ draft # None => draft.key \in Links
  BY <1>1, <1>2, <1>3, DraftTypes, BoundsAssumption DEF IInv, Called, LatestKey, Links
<1>7. DraftInv'
  <2>1. draft # None => draft.key <= sendKey'
    BY <1>2, <1>3, <1>6 DEF IInv, DraftInv, Links
  <2> QED BY <1>1, <1>6, <2>1 DEF IInv, DraftInv
<1>8. recvKey <= recvKey' /\ Called <= Called'
  BY <1>2, <1>3, <1>6
<1> QED BY <1>1, <1>5, <1>6, <1>7, <1>8, KeptShortens, LinkStep DEF IInv

LEMMA ReconnectStep ==
  ASSUME IInv, SenderFinishes \/ SenderAnswers
  PROVE  IInv'
<1> USE DEF kexVars, recvVars, guiVars, threadVars
<1>1. /\ UNCHANGED <<sent, draft, ended, recvVars, guiVars, threadVars, handshakes>>
      /\ Reconnected /\ sendKey' \in {sendKey, handshakes}
  BY DEF SenderFinishes, SenderAnswers
<1>2. wire' \in [Links -> Seq(Messages)] /\ Shortened(Whole)
  BY <1>1, CutShortens DEF IInv, Reconnected
<1>3. /\ handshakes \in Nat /\ sendKey \in Nat /\ recvKey \in Nat
      /\ sendKey <= handshakes /\ handshakes \in Links
  BY BoundsAssumption DEF IInv, TypeOK, KexInv, Links
<1>4. broken' \in BOOLEAN /\ client' = handshakes /\ unanswered' = 0
  BY <1>1 DEF Reconnected, Broken, IInv, TypeOK
<1>5. kex' \in Kexes /\ KexInv'
  <2>1. CASE SenderFinishes
    BY <1>3, <2>1 DEF SenderFinishes, Kexes, IInv, KexInv, One
  <2>2. CASE SenderAnswers
    BY <1>3, <2>2 DEF SenderAnswers, Kexes, IInv, KexInv, One
  <2> QED BY <2>1, <2>2
<1>6. TypeOK'
  <2>1. sendKey' \in Links /\ unanswered' \in 0 .. MaxMessages
    BY <1>1, <1>3, <1>4, BoundsAssumption DEF IInv, TypeOK
  <2>2. TypeOK BY DEF IInv
  <2> QED BY <1>1, <1>2, <1>3, <1>4, <1>5, <2>1, <2>2 DEF TypeOK
<1>7. /\ Called \in Nat /\ Called' = Called /\ LatestKey \in Nat /\ LatestKey <= LatestKey'
      /\ draft # None => draft.key \in Links
  BY <1>1, <1>3, DraftTypes, BoundsAssumption DEF IInv, Called, LatestKey, Links
<1>8. DraftInv'
  <2>1. draft # None => draft.key <= sendKey'
    BY <1>1, <1>3, <1>7, BoundsAssumption DEF IInv, DraftInv, Links
  <2> QED BY <1>1, <1>4, <1>7, <2>1 DEF IInv, DraftInv
<1>9. recvKey <= recvKey' /\ Called <= Called'
  BY <1>1, <1>3, <1>7
<1> QED BY <1>1, <1>2, <1>5, <1>6, <1>7, <1>8, <1>9, LinkStep

\* The new message is the last of its connection, with the latest number and key.
LEMMA AsyncCallInv ==
  ASSUME IInv, AsyncCall
  PROVE  IInv'
<1> USE DEF AsyncCall, kexVars, recvVars, guiVars, threadVars
<1> DEFINE m == [num |-> draft.num, key |-> draft.key, link |-> client, mode |-> draft.mode]
<1>1. /\ draft.num \in 1 .. MaxMessages /\ draft.key \in Links /\ draft.mode \in Modes
      /\ draft.num = sent /\ draft.key <= sendKey
      /\ client \in Links /\ sendKey \in Links /\ sent \in 0 .. MaxMessages
      /\ unanswered \in 0 .. MaxMessages
  BY DraftTypes DEF IInv, DraftInv, TypeOK
<1>2. m \in Messages /\ m.num = sent /\ m.key = draft.key /\ m.link = client
  BY <1>1 DEF Messages
<1>3. wire' = [wire EXCEPT ![client] = Append(@, m)]
  OBVIOUS
<1> HIDE DEF m
<1>4. /\ Called = sent - 1 /\ Called' = sent /\ LatestKey = draft.key /\ LatestKey' = sendKey
      /\ sent' = sent /\ draft' = None /\ sendKey' = sendKey
  BY DEF Called, LatestKey
<1>5. sent \in Nat /\ draft.key \in Nat /\ sendKey \in Nat /\ unanswered \in Nat
  BY <1>1, BoundsAssumption DEF Links
<1>6. /\ wire[client] \in Seq(Messages) /\ Len(wire[client]) \in Nat
      /\ wire \in [Links -> Seq(Messages)]
  BY <1>1, WireTypes DEF IInv, TypeOK
<1>7. /\ Append(wire[client], m) \in Seq(Messages)
      /\ Len(Append(wire[client], m)) = Len(wire[client]) + 1
      /\ \A i \in 1 .. Len(wire[client]) : Append(wire[client], m)[i] = wire[client][i]
      /\ Append(wire[client], m)[Len(wire[client]) + 1] = m
  BY <1>2, <1>6, AppendProperties
<1>8. /\ wire' \in [Links -> Seq(Messages)]
      /\ wire'[client] = Append(wire[client], m)
      /\ \A l \in Links : l # client => wire'[l] = wire[l]
  BY <1>1, <1>3, <1>6, <1>7
<1>9. unanswered' = unanswered + 1 /\ unanswered <= Called /\ unanswered' <= Called'
  BY <1>4, <1>5 DEF IInv, DraftInv
<1>10. TypeOK'
  <2>1. unanswered' = unanswered + 1 /\ unanswered + 1 <= sent
    BY <1>4, <1>9
  <2>2. unanswered + 1 \in 0 .. MaxMessages
    BY <1>1, <1>5, <2>1, BoundsAssumption
  <2> QED BY <1>8, <2>1, <2>2 DEF IInv, TypeOK
<1>11. WindowInv' /\ KexInv' /\ DraftInv'
  <2>1. WindowInv' BY DEF IInv, WindowInv
  <2>2. KexInv' BY DEF IInv, KexInv
  <2>3. DraftInv' BY <1>9 DEF DraftInv
  <2> QED BY <2>1, <2>2, <2>3
<1>12. ASSUME NEW l \in Links, NEW i \in 1 .. Len(wire'[l])
       PROVE  \/ i \in 1 .. Len(wire[l]) /\ wire'[l][i] = wire[l][i]
              \/ l = client /\ i = Len(wire[l]) + 1 /\ wire'[l][i] = m
  BY <1>6, <1>7, <1>8
<1>13. ASSUME NEW l \in Links, NEW i \in 1 .. Len(wire[l])
       PROVE  /\ wire[l][i].num \in Nat /\ wire[l][i].num < sent
              /\ wire[l][i].key \in Nat /\ wire[l][i].key <= draft.key
              /\ wire[l][i].link = l
  <2>1. /\ wire[l][i].num \in 1 .. MaxMessages /\ wire[l][i].key \in Links
    BY WireTypes DEF IInv
  <2>2. wire[l][i].num <= Called /\ wire[l][i].key <= LatestKey /\ wire[l][i].link = l
    BY DEF IInv, WireInv
  <2> QED BY <1>4, <1>5, <2>1, <2>2, BoundsAssumption DEF Links
<1>14. WireInv'
  <2> SUFFICES ASSUME NEW k \in Links, NEW i \in 1 .. Len(wire'[k])
      PROVE  /\ wire'[k][i].num <= Called' /\ wire'[k][i].key <= LatestKey'
             /\ wire'[k][i].link = k
             /\ \A j \in 1 .. Len(wire'[k]) : i < j => wire'[k][i].num < wire'[k][j].num
             /\ \A l \in Links : \A j \in 1 .. Len(wire'[l]) :
                  wire'[k][i].key < wire'[l][j].key => wire'[k][i].num < wire'[l][j].num
    <3> HIDE DEF AsyncCall
    <3> QED BY DEF WireInv
  <2>1. CASE i \in 1 .. Len(wire[k]) /\ wire'[k][i] = wire[k][i]
    <3>1. /\ wire'[k][i].num <= Called' /\ wire'[k][i].key <= LatestKey'
          /\ wire'[k][i].link = k
      <4>1. /\ wire[k][i].num \in Nat /\ wire[k][i].num < sent
            /\ wire[k][i].key \in Nat /\ wire[k][i].key <= draft.key
            /\ wire[k][i].link = k
        BY <1>13, <2>1
      <4>2. draft.key <= sendKey BY <1>1
      <4> HIDE DEF AsyncCall
      <4>3. wire[k][i].num <= sent /\ wire[k][i].key <= sendKey
        BY <1>5, <4>1, <4>2
      <4> QED BY <1>4, <2>1, <4>1, <4>3
    <3>2. ASSUME NEW j \in 1 .. Len(wire'[k]), i < j
          PROVE  wire'[k][i].num < wire'[k][j].num
      <4>1. CASE j \in 1 .. Len(wire[k]) /\ wire'[k][j] = wire[k][j]
        BY <2>1, <3>2, <4>1 DEF IInv, WireInv
      <4>2. CASE wire'[k][j] = m
        BY <1>2, <1>13, <2>1, <4>2
      <4> QED BY <1>12, <4>1, <4>2
    <3>3. ASSUME NEW l \in Links, NEW j \in 1 .. Len(wire'[l]),
                 wire'[k][i].key < wire'[l][j].key
          PROVE  wire'[k][i].num < wire'[l][j].num
      <4>1. CASE j \in 1 .. Len(wire[l]) /\ wire'[l][j] = wire[l][j]
        BY <2>1, <3>3, <4>1 DEF IInv, WireInv
      <4>2. CASE wire'[l][j] = m
        BY <1>2, <1>13, <2>1, <4>2
      <4> QED BY <1>12, <4>1, <4>2
    <3> QED BY <3>1, <3>2, <3>3
  <2>2. CASE k = client /\ i = Len(wire[k]) + 1 /\ wire'[k][i] = m
    <3>1. /\ wire'[k][i].num <= Called' /\ wire'[k][i].key <= LatestKey'
          /\ wire'[k][i].link = k
      BY <1>1, <1>2, <1>4, <1>5, <2>2
    <3>2. \A j \in 1 .. Len(wire'[k]) : ~(i < j)
      BY <1>6, <1>7, <1>8, <2>2
    <3>3. ASSUME NEW l \in Links, NEW j \in 1 .. Len(wire'[l])
          PROVE  ~(wire'[k][i].key < wire'[l][j].key)
      <4>1. CASE j \in 1 .. Len(wire[l]) /\ wire'[l][j] = wire[l][j]
        BY <1>2, <1>5, <1>13, <2>2, <4>1
      <4>2. CASE wire'[l][j] = m
        BY <1>2, <1>5, <2>2, <4>2
      <4> QED BY <1>12, <4>1, <4>2
    <3> QED BY <3>1, <3>2, <3>3
  <2> QED BY <1>12, <2>1, <2>2
<1>15. ASSUME NEW n \in Nat, Ahead(n) PROVE Ahead(n)'
  <2>1. n < sent
    BY <1>4, <1>5, <1>15 DEF Ahead
  <2>2. ASSUME NEW l \in Links, NEW i \in 1 .. Len(wire'[l]),
               wire'[l][i].key = l, recvKey' <= l
        PROVE  n < wire'[l][i].num
    <3>1. CASE i \in 1 .. Len(wire[l]) /\ wire'[l][i] = wire[l][i]
      BY <1>15, <2>2, <3>1 DEF Ahead
    <3>2. CASE wire'[l][i] = m
      BY <1>2, <2>1, <3>2
    <3> QED BY <1>12, <3>1, <3>2
  <2>3. n <= Called'
    BY <1>4, <1>5, <2>1
  <2> QED BY <2>2, <2>3 DEF Ahead
<1>16. QueueInv'
  BY <1>15, QueueKept
<1> QED BY <1>10, <1>11, <1>14, <1>16 DEF IInv

\* A message that is read rightly comes after all that have been received, and
\* before all that may yet be.
LEMMA ReceiveMessageInv ==
  ASSUME IInv, NEW l \in Links, ReceiveMessage(l)
  PROVE  IInv'
<1> USE DEF ReceiveMessage, senderVars, kexVars, guiVars, threadVars
<1> DEFINE off == [k \in Links |-> One(k = l)]
<1>1. /\ wire[l] \in Seq(Messages) /\ wire[l] # <<>> /\ Len(wire[l]) \in Nat
      /\ Len(wire[l]) >= 1 /\ wire \in [Links -> Seq(Messages)]
  BY WireTypes DEF IInv, TypeOK
<1>1a. wire[l][1] \in Messages
  BY <1>1, WireTypes DEF IInv
<1>1b. PICK h \in Messages : h = wire[l][1]
  BY <1>1a
<1>1c. PICK e \in Messages \X BOOLEAN : e = <<h, h.key = recvKey>>
  <2>1. (h.key = recvKey) \in BOOLEAN
    OBVIOUS
  <2>2. <<h, h.key = recvKey>> \in Messages \X BOOLEAN
    BY <2>1
  <2> QED BY <2>2
<1>2. /\ Head(wire[l]) = h /\ Tail(wire[l]) \in Seq(Messages)
      /\ Len(Tail(wire[l])) = Len(wire[l]) - 1
      /\ \A i \in 1 .. Len(Tail(wire[l])) : Tail(wire[l])[i] = wire[l][i + 1]
  <2>1. Head(wire[l]) = wire[l][1]
    BY <1>1
  <2>2. /\ Tail(wire[l]) \in Seq(Messages)
        /\ Len(Tail(wire[l])) = Len(wire[l]) - 1
        /\ \A i \in 1 .. Len(Tail(wire[l])) : Tail(wire[l])[i] = wire[l][i + 1]
    BY <1>1, HeadTailProperties
  <2> QED BY <1>1b, <2>1, <2>2
<1>3. /\ wire' \in [Links -> Seq(Messages)] /\ wire'[l] = Tail(wire[l])
      /\ \A k \in Links : k # l => wire'[k] = wire[k]
  BY <1>1, <1>2
<1>4. /\ h \in Messages /\ h.num \in 1 .. MaxMessages /\ h.num \in Nat
      /\ h.key \in Links /\ h.key \in Nat
  BY <1>1, <1>1b, WireTypes, BoundsAssumption DEF IInv, Links
<1>5. \/ received' = received
      \/ received' = Append(received, e)
  BY <1>2, <1>1c
<1>6. Shortened(off)
  <2> SUFFICES ASSUME NEW k \in Links
      PROVE  /\ off[k] \in Nat /\ Len(wire'[k]) \in Nat
             /\ Len(wire'[k]) + off[k] <= Len(wire[k])
             /\ \A i \in 1 .. Len(wire'[k]) : wire'[k][i] = wire[k][i + off[k]]
    BY DEF Shortened
  <2>1. CASE k = l
    <3>1. off[k] = 1 /\ wire'[k] = Tail(wire[k])
      BY <1>3, <2>1 DEF One
    <3> QED BY <1>1, <1>2, <2>1, <3>1
  <2>2. CASE k # l
    <3>1. off[k] = 0 /\ wire'[k] = wire[k]
      BY <1>3, <2>2 DEF One
    <3>2. TypeOK BY DEF IInv
    <3>3. Len(wire[k]) \in Nat BY <3>2, WireTypes
    <3> HIDE DEF off, ReceiveMessage
    <3> QED BY <3>1, <3>3
  <2> QED BY <2>1, <2>2
<1>7. /\ Called \in Nat /\ Called' = Called /\ LatestKey \in Nat /\ LatestKey' = LatestKey
      /\ recvKey \in Nat /\ recvKey' = recvKey
  <2>1. Called \in 0 .. MaxMessages /\ LatestKey \in Links /\ recvKey \in Links
    BY DraftTypes DEF IInv, TypeOK
  <2> QED BY <2>1, BoundsAssumption DEF Called, LatestKey, Links
<1> HIDE DEF off
<1>8. WireInv' /\ \A n \in Nat : Ahead(n) => Ahead(n)'
  BY <1>6, <1>7, ShortenedInv
<1>9. WindowInv' /\ KexInv' /\ DraftInv'
  <2>1. WindowInv' BY DEF IInv, WindowInv
  <2>2. KexInv' BY DEF IInv, KexInv
  <2>3. DraftInv' BY <1>7 DEF IInv, DraftInv
  <2> QED BY <2>1, <2>2, <2>3
<1>10. /\ received \in Seq(Entries) /\ Len(received) \in Nat
       /\ \A i \in 1 .. Len(received) : received[i][1].num \in Nat
       /\ \A v \in Windows : hand[v] # None => hand[v][1].num \in Nat
       /\ \A i \in 1 .. Len(seen) : seen[i] \in Nat
  BY QueueTypes, BoundsAssumption DEF IInv
<1>11. e \in Entries /\ e[1] = h /\ e[2] = (h.key = recvKey)
  BY <1>1c DEF Entries
<1>12. TypeOK'
  <2>1. received' \in Seq(Entries)
    BY <1>5, <1>10, <1>11, AppendProperties
  <2>2. refused' \in SUBSET (1 .. MaxMessages)
    BY <1>2, <1>4 DEF IInv, TypeOK
  <2> QED BY <1>3, <2>1, <2>2 DEF IInv, TypeOK
<1>13. ASSUME Regular(e)
       PROVE  Ahead(h.num)' /\ \A n \in Nat : Ahead(n) => n < h.num
  <2>1. h.link = l /\ h.num <= Called
    BY <1>1, <1>1b DEF IInv, WireInv
  <2>2. h.key = l /\ recvKey = l
    BY <1>11, <1>13, <2>1 DEF Regular
  <2>3. \A n \in Nat : Ahead(n) => n < h.num
    BY <1>1, <1>7, <1>1b, <2>2 DEF Ahead
  <2>4. ASSUME NEW k \in Links, NEW i \in 1 .. Len(wire'[k]),
               wire'[k][i].key = k, recvKey' <= k
        PROVE  h.num < wire'[k][i].num
    <3>1. CASE k = l
      <4>1. i + 1 \in 1 .. Len(wire[l]) /\ wire'[k][i] = wire[l][i + 1] /\ 1 < i + 1
        BY <1>1, <1>2, <1>3, <3>1
      <4> QED BY <1>1, <1>1b, <4>1 DEF IInv, WireInv
    <3>2. CASE k # l
      <4>1. h.key < k
        BY <1>4, <1>7, <2>2, <2>4, <3>2, BoundsAssumption DEF Links
      <4>2. wire'[k][i] = wire[k][i] /\ i \in 1 .. Len(wire[k])
        BY <1>3, <3>2
      <4>3. h.key < wire[k][i].key
        BY <2>4, <4>1, <4>2
      <4>4. 1 \in 1 .. Len(wire[l])
        BY <1>1
      <4>5. h.num < wire[k][i].num
        BY <1>1b, <4>2, <4>3, <4>4 DEF IInv, WireInv
      <4> QED BY <4>2, <4>5
    <3> QED BY <3>1, <3>2
  <2>5. Ahead(h.num)'
    BY <1>7, <2>1, <2>4 DEF Ahead
  <2> QED BY <2>3, <2>5
<1>14. CASE received' = received
  <2>1. QueueInv'
    BY <1>8, <1>14, QueueKept
  <2> QED BY <1>8, <1>9, <1>12, <2>1 DEF IInv
<1>15. CASE received' = Append(received, e)
  <2>1. /\ Len(received') = Len(received) + 1
        /\ \A i \in 1 .. Len(received) : received'[i] = received[i]
        /\ received'[Len(received) + 1] = e
    BY <1>10, <1>11, <1>15, AppendProperties
  <2>2. ASSUME NEW j \in 1 .. Len(received'), Regular(received[j])'
        PROVE  \/ /\ j \in 1 .. Len(received) /\ received'[j] = received[j]
                  /\ Regular(received[j])
               \/ /\ j = Len(received) + 1 /\ received'[j] = e
                  /\ Regular(e)
    <3>1. j \in 1 .. Len(received) \/ j = Len(received) + 1
      BY <1>10, <2>1
    <3>2. CASE j \in 1 .. Len(received)
      BY <2>1, <2>2, <3>2 DEF Regular
    <3>3. CASE j = Len(received) + 1
      BY <2>1, <2>2, <3>3 DEF Regular
    <3> QED BY <3>1, <3>2, <3>3
  <2>3. ASSUME NEW n \in Nat, Ahead(n), NEW j \in 1 .. Len(received'),
               Regular(received[j])', j = Len(received) + 1
        PROVE  n < received'[j][1].num
    BY <1>10, <1>11, <1>13, <2>2, <2>3
  <2>4. ASSUME NEW i \in 1 .. Len(received'), Regular(received[i])'
        PROVE  /\ Ahead(received[i][1].num)'
               /\ \A j \in 1 .. Len(received') :
                    i < j /\ Regular(received[j])'
                      => received'[i][1].num < received'[j][1].num
    <3>1. CASE /\ i \in 1 .. Len(received) /\ received'[i] = received[i]
               /\ Regular(received[i])
      <4>1. PICK n \in Nat : n = received[i][1].num BY <1>10, <3>1
      <4>2. Ahead(n) BY <3>1, <4>1 DEF IInv, QueueInv
      <4>3. Ahead(n)' BY <1>8, <4>2
      <4>4. Ahead(received[i][1].num)' BY <3>1, <4>1, <4>3 DEF Ahead
      <4>5. ASSUME NEW j \in 1 .. Len(received'), i < j, Regular(received[j])'
            PROVE  received'[i][1].num < received'[j][1].num
        <5>1. CASE /\ j \in 1 .. Len(received) /\ received'[j] = received[j]
                   /\ Regular(received[j])
          BY <3>1, <4>5, <5>1 DEF IInv, QueueInv
        <5>2. CASE j = Len(received) + 1
          BY <2>3, <3>1, <4>1, <4>2, <4>5, <5>2
        <5> QED BY <2>2, <4>5, <5>1, <5>2
      <4> QED BY <4>4, <4>5
    <3>2. CASE i = Len(received) + 1 /\ received'[i] = e /\ Regular(e)
      <4>3. Ahead(received[i][1].num)' BY <1>11, <1>13, <3>2 DEF Ahead
      <4>4. \A j \in 1 .. Len(received') : ~(i < j) BY <1>10, <2>1, <3>2
      <4> QED BY <4>3, <4>4
    <3> QED BY <2>2, <2>4, <3>1, <3>2
  <2>5. ASSUME NEW v \in Windows, hand[v] # None, Regular(hand[v])
        PROVE  /\ Ahead(hand[v][1].num)'
               /\ \A j \in 1 .. Len(received') :
                    Regular(received[j])' => hand[v][1].num < received'[j][1].num
    <3>1. PICK n \in Nat : n = hand[v][1].num BY <1>10, <2>5
    <3>2. Ahead(n) BY <2>5, <3>1 DEF IInv, QueueInv
    <3>3. Ahead(n)' BY <1>8, <3>2
    <3>4. Ahead(hand[v][1].num)' BY <3>1, <3>3 DEF Ahead
    <3>5. ASSUME NEW j \in 1 .. Len(received'), Regular(received[j])'
          PROVE  hand[v][1].num < received'[j][1].num
      <4>1. CASE /\ j \in 1 .. Len(received) /\ received'[j] = received[j]
                 /\ Regular(received[j])
        BY <2>5, <4>1 DEF IInv, QueueInv
      <4>2. CASE j = Len(received) + 1
        BY <2>3, <3>1, <3>2, <3>5, <4>2
      <4> QED BY <2>2, <3>5, <4>1, <4>2
    <3> QED BY <3>4, <3>5
  <2>6. ASSUME NEW i \in 1 .. Len(seen)
        PROVE  /\ Ahead(seen[i])'
               /\ \A j \in 1 .. Len(received') :
                    Regular(received[j])' => seen[i] < received'[j][1].num
               /\ \A v \in Windows :
                    hand[v] # None /\ Regular(hand[v]) => seen[i] < hand[v][1].num
    <3>1. PICK n \in Nat : n = seen[i] BY <1>10
    <3>2. Ahead(n) BY <3>1 DEF IInv, QueueInv
    <3>3. Ahead(n)' BY <1>8, <3>2
    <3>4. Ahead(seen[i])' BY <3>1, <3>3 DEF Ahead
    <3>5. ASSUME NEW j \in 1 .. Len(received'), Regular(received[j])'
          PROVE  seen[i] < received'[j][1].num
      <4>1. CASE /\ j \in 1 .. Len(received) /\ received'[j] = received[j]
                 /\ Regular(received[j])
        BY <4>1 DEF IInv, QueueInv
      <4>2. CASE j = Len(received) + 1
        BY <2>3, <3>1, <3>2, <3>5, <4>2
      <4> QED BY <2>2, <3>5, <4>1, <4>2
    <3>6. \A v \in Windows :
            hand[v] # None /\ Regular(hand[v]) => seen[i] < hand[v][1].num
      BY DEF IInv, QueueInv
    <3> QED BY <3>4, <3>5, <3>6
  <2>7. hand' = hand /\ seen' = seen
    OBVIOUS
  <2>8. \A v \in Windows : Regular(hand[v])' <=> Regular(hand[v])
    BY <2>7 DEF Regular
  <2> HIDE DEF ReceiveMessage
  <2>9. \A v \in Windows : hand'[v] # None /\ Regular(hand[v])' =>
          /\ Ahead(hand[v][1].num)'
          /\ \A j \in 1 .. Len(received') :
               Regular(received[j])' => hand'[v][1].num < received'[j][1].num
    BY <2>5, <2>7, <2>8
  <2>10. \A i \in 1 .. Len(seen') :
           /\ Ahead(seen[i])'
           /\ \A j \in 1 .. Len(received') :
                Regular(received[j])' => seen'[i] < received'[j][1].num
           /\ \A v \in Windows :
                hand'[v] # None /\ Regular(hand[v])' => seen'[i] < hand'[v][1].num
    BY <2>6, <2>7, <2>8
  <2>11. QueueInv'
    BY <2>4, <2>9, <2>10 DEF QueueInv
  <2> QED BY <1>8, <1>9, <1>12, <2>11 DEF IInv
<1> QED BY <1>5, <1>14, <1>15

-----------------------------------------------------------------------------
(* The invariant and what follows from it.                                 *)

\* A step that neither sends nor shows a message.
Untouched ==
  \/ AsyncCall
  \/ AnswerArrives
  \/ SenderEnds
  \/ \E l \in Links : ReceiveMessage(l)
  \/ SenderConnects
  \/ ReceiverConnects
  \/ Answers
  \/ ReceiverFails
  \/ Gui

LEMMA UntouchedStep ==
  ASSUME IInv, Untouched
  PROVE  IInv' /\ UNCHANGED <<sent, seen>>
<1>1. IInv'
  <2>1. ASSUME NEW l \in Links, ReceiveMessage(l) PROVE IInv'
    BY <2>1, ReceiveMessageInv
  <2> QED
    BY <2>1, AsyncCallInv, AnswerArrivesInv, SenderEndsInv, KexStep, ReconnectStep, GuiInv
    DEF Untouched, Answers
<1>2. UNCHANGED <<sent, seen>>
  BY DEF Untouched, Answers, AsyncCall, AnswerArrives, SenderEnds, ReceiveMessage,
     SenderConnects, ReceiverConnects, ReceiverTakesKex, SenderFinishes, SenderTakesKex,
     SenderAnswers, ReceiverFinishes, ReceiverFails, Gui, Tick, BuildWindow, StartChat,
     ClearNeeded, sendVars, senderVars, recvVars, guiVars, threadVars
<1> QED BY <1>1, <1>2

LEMMA NextStep ==
  ASSUME IInv, [Next]_vars
  PROVE  IInv' /\ [Order!Next]_<<sent, seen>>
<1>1. CASE UNCHANGED vars
  BY <1>1 DEF vars, sendVars, senderVars, kexVars, recvVars, guiVars, threadVars, IInv,
     TypeOK, WindowInv, KexInv, DraftInv, WireInv, QueueInv, Ahead, Called, LatestKey
<1>2. ASSUME NEW mode \in Modes, Encrypt(mode)
      PROVE  IInv' /\ [Order!Next]_<<sent, seen>>
  BY <1>2, EncryptInv DEF Order!Next, Order!Send
<1>3. CASE Untouched
  BY <1>3, UntouchedStep
<1>4. ASSUME NEW w \in Windows, ChatThread(w)
      PROVE  IInv' /\ [Order!Next]_<<sent, seen>>
  <2>1. CASE TestExit(w) \/ PopMessage(w)
    <3>1. IInv' BY <2>1, TestExitInv, PopMessageInv
    <3>2. UNCHANGED <<sent, seen>>
      BY <2>1 DEF TestExit, PopMessage, sendVars, senderVars
    <3> QED BY <3>1, <3>2
  <2>2. CASE Show(w)
    <3>1. IInv' BY <2>2, ShowInv
    <3>2. sent' = sent
      BY <2>2 DEF Show, sendVars, senderVars
    <3>3. CASE UNCHANGED seen
      BY <3>1, <3>2, <3>3
    <3>4. ASSUME NEW n \in 1 .. sent, \A i \in 1 .. Len(seen) : seen[i] < n,
                 seen' = Append(seen, n)
          PROVE  Order!Next
      <4>1. seen \in Seq(1 .. MaxMessages)
        BY DEF IInv, TypeOK
      <4>2. DOMAIN seen = 1 .. Len(seen)
        BY <4>1, LenProperties
      <4> QED BY <3>2, <3>4, <4>2 DEF Order!Next, Order!See
    <3> QED BY <2>2, <3>1, <3>3, <3>4, ShowInv
  <2> QED BY <1>4, <2>1, <2>2 DEF ChatThread
<1> QED BY <1>1, <1>2, <1>3, <1>4 DEF Next, Untouched

\* No step of any thread breaks IInv.
THEOREM InductiveInvariant == Safety => []IInv
BY InitInv, NextStep, PTL DEF Safety

\* Types of the two processes; a chat thread holds an entry exactly while it shows one.
THEOREM TypeCorrect == Safety => []TypeOK
<1>1. IInv => TypeOK BY DEF IInv
<1> QED BY <1>1, InductiveInvariant, PTL

\* The join in ~Chat keeps at most one thread at the queue of received messages.
THEOREM OneThread == Safety => []OneChatThread
<1>1. IInv => OneChatThread
  <2> SUFFICES ASSUME IInv, NEW v \in Windows, NEW w \in Windows,
                      thread[v] \notin {"none", "ended"}, thread[w] \notin {"none", "ended"}
      PROVE  v = w
    BY DEF OneChatThread
  <2>1. v = chat /\ w = chat
    BY ActiveIsCurrent DEF IInv
  <2> QED BY <2>1
<1> QED BY <1>1, InductiveInvariant, PTL

\* Messages that are read rightly are seen once and in the order in which they were
\* sent, whatever handshakes come between them.
THEOREM MessagesInOrder == Safety => OrderSpec
<1>1. Init => Order!Init
  BY DEF Init, Order!Init
<1>2. IInv /\ [Next]_vars => [Order!Next]_<<sent, seen>>
  BY NextStep
<1> QED BY <1>1, <1>2, InductiveInvariant, PTL DEF Safety, OrderSpec, Order!Spec

=============================================================================
