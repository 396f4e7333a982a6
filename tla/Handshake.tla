----------------------------- MODULE Handshake -----------------------------
(***************************************************************************)
(* How processes agree on a shared key: ConnectAndHandshake on the GUI     *)
(* thread of one process, ReceiveKex on the RPC thread of the other, and   *)
(* the chat window that either of them opens.  A process has one GUI       *)
(* thread and one RPC thread; they share sharedKey, client, theirIPAddress *)
(* and the key pair without a lock, and write client and theirIPAddress in *)
(* opposite orders.                                                        *)
(*                                                                         *)
(* A shared key is named by the handshake it comes from: both ends of one  *)
(* handshake derive the same key, different handshakes different keys.  A  *)
(* key pair is a number: a signature verifies when the private key it was  *)
(* made with has the number of the public key it is sent with.  The        *)
(* elliptic-curve operations themselves do not fail, and theirPublicKey,   *)
(* which is only written, is left out.                                     *)
(***************************************************************************)
EXTENDS Naturals

CONSTANTS
  Peers,         \* processes, each one with an AppState and an AppGUI
  Initiators,    \* those whose user presses Connect
  Targets,       \* those whose address is entered
  MaxAttempts,   \* bound: handshakes each initiator starts
  MaxKeyPairs,   \* bound: key pairs each target generates
  None

ASSUME PeersAssumption ==
  None \notin Peers /\ Initiators \subseteq Peers /\ Targets \subseteq Peers
ASSUME BoundsAssumption == MaxAttempts \in Nat /\ MaxKeyPairs \in Nat

VARIABLES
  (* AppState *)
  publicKey, privateKey,   \* the key pair of each process
  sharedKey,               \* the key it encrypts and decrypts with
  client,                  \* the peer its rpc::client is connected to
  theirAddress,            \* theirIPAddress and theirPort
  (* GUI thread *)
  gui,                     \* where it stands in tryConnect or tick
  target,                  \* the peer it is connecting to
  attempts,                \* handshakes started
  reply,                   \* the Kex call it waits for
  chat,                    \* the peer its chat window names
  chatWindowNeeded,        \* set by the Kex callback for tick
  (* RPC thread *)
  serving,                 \* the peer whose Kex it is handling
  offered,                 \* the public key it has put into its answer
  answer,                  \* the answer it has signed, once it has connected back
  (* History, read by the properties only *)
  rejectedBy,              \* peers whose last answer to each process did not verify
  owed                     \* the window for the last Kex: "no", "yes" or "missed"

keyVars == <<publicKey, privateKey>>
linkVars == <<sharedKey, client, theirAddress>>
guiVars == <<gui, target, attempts, chat>>
rpcVars == <<serving, offered, answer>>
history == <<rejectedBy, owed>>
vars == <<keyVars, linkVars, guiVars, reply, chatWindowNeeded, rpcVars, history>>

Everyone(value) == [p \in Peers |-> value]

Init ==
  /\ publicKey = Everyone(0)
  /\ privateKey = Everyone(0)
  /\ sharedKey = Everyone(None)
  /\ client = Everyone(None)
  /\ theirAddress = Everyone(None)
  /\ gui = Everyone("starting")
  /\ target = Everyone(None)
  /\ attempts = Everyone(0)
  /\ reply = Everyone("none")
  /\ chat = Everyone(None)
  /\ chatWindowNeeded = Everyone(FALSE)
  /\ serving = Everyone(None)
  /\ offered = Everyone(0)
  /\ answer = Everyone("none")
  /\ rejectedBy = Everyone({})
  /\ owed = Everyone("no")

\* The key of the handshake that p has started last.
HandshakeKey(p) == <<p, attempts[p]>>

-----------------------------------------------------------------------------
(* The GUI thread.                                                         *)

\* The constructor of AppGUI sets the Kex callback and the main loop starts.  The
\* RPC thread has been running since the constructor of AppState.
Start(p) ==
  /\ gui[p] = "starting"
  /\ gui' = [gui EXCEPT ![p] = "idle"]
  /\ UNCHANGED <<keyVars, linkVars, target, attempts, chat, reply, chatWindowNeeded,
                 rpcVars, history>>

\* ConnectAndHandshake up to the Kex call it waits for.  Key pairs change on this
\* thread only, so the request is always signed with the key it carries.
Connect(p, q) ==
  /\ p # q
  /\ gui[p] = "idle"
  /\ attempts[p] < MaxAttempts
  /\ gui' = [gui EXCEPT ![p] = "waiting"]
  /\ target' = [target EXCEPT ![p] = q]
  /\ attempts' = [attempts EXCEPT ![p] = @ + 1]
  /\ reply' = [reply EXCEPT ![p] = "requested"]
  /\ UNCHANGED <<keyVars, linkVars, chat, chatWindowNeeded, rpcVars, history>>

\* The answer arrives.  One that verifies yields the shared key; otherwise a
\* KexError ends the attempt in a message box and nothing is changed.
TakeResponse(p) ==
  /\ gui[p] = "waiting"
  /\ \/ /\ reply[p] = "accepted"
        /\ sharedKey' = [sharedKey EXCEPT ![p] = HandshakeKey(p)]
        /\ gui' = [gui EXCEPT ![p] = "keyed"]
        /\ rejectedBy' = [rejectedBy EXCEPT ![p] = @ \ {target[p]}]
     \/ /\ reply[p] = "unverifiable"
        /\ gui' = [gui EXCEPT ![p] = "idle"]
        /\ rejectedBy' = [rejectedBy EXCEPT ![p] = @ \cup {target[p]}]
        /\ UNCHANGED sharedKey
  /\ reply' = [reply EXCEPT ![p] = "none"]
  /\ UNCHANGED <<keyVars, client, theirAddress, target, attempts, chat,
                 chatWindowNeeded, rpcVars, owed>>

\* The client after a successful attempt.  MutClientAfterConnect keeps one that
\* is there already.
MutClientAfterConnect(p) == IF client[p] = None THEN target[p] ELSE client[p]

ClientAfterConnect(p) == target[p]

\* The rest of ConnectAndHandshake: first the address, then the client.
SetAddress(p) ==
  /\ gui[p] = "keyed"
  /\ theirAddress' = [theirAddress EXCEPT ![p] = target[p]]
  /\ gui' = [gui EXCEPT ![p] = "addressed"]
  /\ UNCHANGED <<keyVars, sharedKey, client, target, attempts, reply, chat,
                 chatWindowNeeded, rpcVars, history>>

SwitchClient(p) ==
  /\ gui[p] = "addressed"
  /\ client' = [client EXCEPT ![p] = ClientAfterConnect(p)]
  /\ gui' = [gui EXCEPT ![p] = "connected"]
  /\ UNCHANGED <<keyVars, sharedKey, theirAddress, target, attempts, reply, chat,
                 chatWindowNeeded, rpcVars, history>>

\* tryConnect calls initiateChat: a new window names the address found now.
OpenChat(p) ==
  /\ gui[p] = "connected"
  /\ chat' = [chat EXCEPT ![p] = theirAddress[p]]
  /\ gui' = [gui EXCEPT ![p] = "idle"]
  /\ owed' = [owed EXCEPT ![p] = "no"]
  /\ UNCHANGED <<keyVars, linkVars, target, attempts, reply, chatWindowNeeded, rpcVars,
                 rejectedBy>>

\* tick finds chatWindowNeeded set and calls initiateChat ...
BeginTick(p) ==
  /\ gui[p] = "idle"
  /\ chatWindowNeeded[p]
  /\ chat' = [chat EXCEPT ![p] = theirAddress[p]]
  /\ gui' = [gui EXCEPT ![p] = "ticking"]
  /\ owed' = [owed EXCEPT ![p] = "no"]
  /\ UNCHANGED <<keyVars, linkVars, target, attempts, reply, chatWindowNeeded, rpcVars,
                 rejectedBy>>

\* ... and then clears it.
EndTick(p) ==
  /\ gui[p] = "ticking"
  /\ chatWindowNeeded' = [chatWindowNeeded EXCEPT ![p] = FALSE]
  /\ gui' = [gui EXCEPT ![p] = "idle"]
  /\ UNCHANGED <<keyVars, linkVars, target, attempts, reply, chat, rpcVars, history>>

\* KeyManager::genKeyPair and AppState::GenerateKey.  In the instances that have
\* it, what matters is that it happens while the RPC thread composes an answer.
GenerateKey(p) ==
  /\ gui[p] = "idle"
  /\ privateKey[p] < MaxKeyPairs
  /\ privateKey' = [privateKey EXCEPT ![p] = @ + 1]
  /\ publicKey' = [publicKey EXCEPT ![p] = privateKey[p] + 1]
  /\ UNCHANGED <<linkVars, guiVars, reply, chatWindowNeeded, rpcVars, history>>

-----------------------------------------------------------------------------
(* The RPC thread.                                                         *)

\* The server has one thread, which handles one call at a time, whatever the GUI
\* thread is doing.  MutMayServe has it wait for a GUI thread that is waiting.
MutMayServe(q) == serving[q] = None /\ gui[q] # "waiting"

MayServe(q) == serving[q] = None

\* The key q encrypts with once it has received the Kex of p.  MutKeyAfterKex
\* keeps one that is there already.
MutKeyAfterKex(q, p) == IF sharedKey[q] = None THEN HandshakeKey(p) ELSE sharedKey[q]

KeyAfterKex(q, p) == HandshakeKey(p)

\* ReceiveKex up to the signature: the key is replaced, the answer is given the
\* public key.
ReceiveKex(q, p) ==
  /\ MayServe(q)
  /\ reply[p] = "requested" /\ target[p] = q
  /\ serving' = [serving EXCEPT ![q] = p]
  /\ sharedKey' = [sharedKey EXCEPT ![q] = KeyAfterKex(q, p)]
  /\ offered' = [offered EXCEPT ![q] = publicKey[q]]
  /\ UNCHANGED <<keyVars, client, theirAddress, guiVars, reply, chatWindowNeeded,
                 answer, history>>

\* ReceiveKex signs and connects back.  The signature verifies when the private key
\* is still that of the public key in the answer.
ConnectBack(q) ==
  /\ serving[q] # None
  /\ answer[q] = "none"
  /\ answer' = [answer EXCEPT ![q] =
                  IF offered[q] = privateKey[q] THEN "accepted" ELSE "unverifiable"]
  /\ client' = [client EXCEPT ![q] = serving[q]]
  /\ UNCHANGED <<keyVars, sharedKey, theirAddress, guiVars, reply, chatWindowNeeded,
                 serving, offered, history>>

\* chatWindowNeeded after a Kex: the callback sets it, if it is there to be called.
\* MutKexNotice toggles the flag.
MutKexNotice(q) == ~chatWindowNeeded[q]

KexNotice(q) == chatWindowNeeded[q] \/ gui[q] # "starting"

\* The rest of ReceiveKex: the address, the callback that asks for a chat window,
\* the answer.  A notice between the two halves of tick is lost, and so is one that
\* comes before the callback is set.
AnswerKex(q) ==
  /\ serving[q] # None
  /\ answer[q] # "none"
  /\ theirAddress' = [theirAddress EXCEPT ![q] = serving[q]]
  /\ chatWindowNeeded' = [chatWindowNeeded EXCEPT ![q] = KexNotice(q)]
  /\ owed' = [owed EXCEPT ![q] =
                IF gui[q] \in {"starting", "ticking"} THEN "missed" ELSE "yes"]
  /\ reply' = [reply EXCEPT ![serving[q]] = answer[q]]
  /\ serving' = [serving EXCEPT ![q] = None]
  /\ answer' = [answer EXCEPT ![q] = "none"]
  /\ UNCHANGED <<keyVars, sharedKey, client, guiVars, offered, rejectedBy>>

-----------------------------------------------------------------------------
Gui(p) ==
  \/ Start(p) \/ TakeResponse(p) \/ SetAddress(p) \/ SwitchClient(p) \/ OpenChat(p)
  \/ BeginTick(p) \/ EndTick(p)

Rpc(q) == ConnectBack(q) \/ AnswerKex(q) \/ \E p \in Peers : ReceiveKex(q, p)

Next ==
  \/ \E p \in Initiators, q \in Targets : Connect(p, q)
  \/ \E p \in Peers : Gui(p) \/ Rpc(p)
  \/ \E p \in Targets : GenerateKey(p)

Safety == Init /\ [][Next]_vars

\* Both threads of a process keep running; the users need not do anything.
Spec == Safety /\ \A p \in Peers : WF_vars(Gui(p)) /\ WF_vars(Rpc(p))

-----------------------------------------------------------------------------
(* Properties.                                                             *)

HandshakeKeys == Peers \X (1 .. MaxAttempts)

\* Every variable keeps to the values the C++ members can have.
TypeOK ==
  /\ publicKey \in [Peers -> 0 .. MaxKeyPairs]
  /\ privateKey \in [Peers -> 0 .. MaxKeyPairs]
  /\ sharedKey \in [Peers -> HandshakeKeys \cup {None}]
  /\ client \in [Peers -> Peers \cup {None}]
  /\ theirAddress \in [Peers -> Peers \cup {None}]
  /\ gui \in [Peers -> {"starting", "idle", "waiting", "keyed", "addressed", "connected",
                        "ticking"}]
  /\ target \in [Peers -> Targets \cup {None}]
  /\ attempts \in [Peers -> 0 .. MaxAttempts]
  /\ reply \in [Peers -> {"none", "requested", "accepted", "unverifiable"}]
  /\ chat \in [Peers -> Peers \cup {None}]
  /\ chatWindowNeeded \in [Peers -> BOOLEAN]
  /\ serving \in [Peers -> Initiators \cup {None}]
  /\ offered \in [Peers -> 0 .. MaxKeyPairs]
  /\ answer \in [Peers -> {"none", "accepted", "unverifiable"}]
  /\ rejectedBy \in [Peers -> SUBSET Targets]
  /\ owed \in [Peers -> {"no", "yes", "missed"}]

\* Neither thread of p is inside a handshake.
Settled(p) == gui[p] \notin {"waiting", "keyed", "addressed"} /\ serving[p] = None

\* Two peers that talk to each other have the same key: what one encrypts the
\* other can decrypt.  True if nobody connects to a peer that connects itself, in
\* whatever order several initiators reach the same target and while key pairs
\* change.  The exception is an attempt that one rejected, of which it was told: the
\* other has already replaced its key.  A rejected attempt leaves the links to all
\* other peers as they were, and the next that succeeds mends this one.
PeersAgree ==
  \A p, q \in Peers :
    Settled(p) /\ Settled(q) /\ client[p] = q /\ client[q] = p
      => \/ sharedKey[p] = sharedKey[q]
         \/ q \in rejectedBy[p] \/ p \in rejectedBy[q]

\* Under the same condition the chat window names the peer that its messages go to,
\* once tick has served the last Kex, however several of them overlap with the
\* windows being built.  The exceptions are a notice that got lost between the two
\* halves of tick, and a Kex before the callback was set.
WindowNamesClient ==
  \A p \in Peers :
    gui[p] = "idle" /\ serving[p] = None /\ ~chatWindowNeeded[p] /\ owed[p] # "missed"
      => chat[p] = client[p]

\* A handshake ends, also when two peers connect to each other at the same time:
\* each one's RPC thread answers while its GUI thread waits.
HandshakesEnd == \A p \in Peers : (gui[p] = "waiting") ~> (gui[p] = "idle")

\* After every Kex the target's user gets a new chat window, also when the one
\* before has just been asked for or opened.  The exceptions are those of
\* WindowNamesClient.
KexOpensChat == \A p \in Peers : (owed[p] = "yes") ~> (owed[p] = "no")

=============================================================================
