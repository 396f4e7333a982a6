-------------------------- MODULE HandshakeProofs --------------------------
(***************************************************************************)
(* The handshake for any set of processes, any number of attempts and of   *)
(* key pairs: the types of its state, and, when nobody connects to a       *)
(* process that is itself connecting, that two processes which talk to     *)
(* each other have the same key unless one was told of a rejection, and    *)
(* that chat windows name the peer their messages go to.                   *)
(***************************************************************************)
EXTENDS Handshake, TLAPS

(* The inductive invariants behind PeersAgree and WindowNamesClient.       *)

\* Who is inside a handshake, and with whom.
RolesInv ==
  /\ \A p \in Peers :
       /\ target[p] # None <=> attempts[p] > 0
       /\ attempts[p] > 0 => p \in Initiators
       /\ gui[p] \in {"waiting", "keyed", "addressed", "connected"} => attempts[p] > 0
       /\ reply[p] # "none" => gui[p] = "waiting"
  /\ \A q \in Peers :
       /\ serving[q] # None => reply[serving[q]] = "requested" /\ target[serving[q]] = q
       /\ answer[q] # "none" => serving[q] # None
       /\ owed[q] = "yes" => chatWindowNeeded[q] /\ gui[q] \notin {"starting", "ticking"}

\* Nobody connects to a peer that connects.
Star == Initiators \cap Targets = {}

\* p's last attempt has succeeded and p has still to take its key or its client.
Succeeding(p) == reply[p] = "accepted" \/ gui[p] \in {"keyed", "addressed"}

\* Then q, when it is linked to p and serves nobody, has the key of p's attempt while
\* that is succeeding, and p's key otherwise, unless it has rejected p.
LinkInv(q, p) ==
  client[q] = p /\ serving[q] = None =>
    /\ target[p] = q /\ Succeeding(p) => sharedKey[q] = HandshakeKey(p)
    /\ \/ client[p] # q \/ q \in rejectedBy[p] \/ gui[p] \in {"keyed", "addressed"}
       \/ target[p] = q /\ reply[p] \in {"accepted", "unverifiable"}
       \/ sharedKey[q] = sharedKey[p]

\* Initiators have clients to targets and the other way round; a key is set before
\* the client that goes with it.
StarInv ==
  /\ \A p \in Peers :
       client[p] # None => \/ p \in Initiators /\ client[p] \in Targets
                           \/ p \in Targets /\ client[p] \in Initiators
  /\ \A p \in Initiators :
       gui[p] \in {"keyed", "addressed"} => sharedKey[p] = HandshakeKey(p)
  /\ \A q \in Targets :
       /\ serving[q] # None => sharedKey[q] = HandshakeKey(serving[q])
       /\ answer[q] # "none" => client[q] = serving[q]
  /\ \A q \in Targets, p \in Initiators : LinkInv(q, p)

\* The address is that of the client, and the window that of the address, but while
\* one of them is being replaced or a window is owed.
WindowInv ==
  \A p \in Peers :
    /\ gui[p] = "addressed" => theirAddress[p] = target[p]
    /\ gui[p] # "addressed" /\ serving[p] = None => theirAddress[p] = client[p]
    /\ gui[p] \notin {"addressed", "connected"} /\ owed[p] = "no" =>
         chat[p] = theirAddress[p]

-----------------------------------------------------------------------------
RoleInv == TypeOK /\ RolesInv

LEMMA InitRoles == Init => RoleInv
BY BoundsAssumption DEF Init, Everyone, RoleInv, TypeOK, RolesInv

LEMMA NextRoles == RoleInv /\ [Next]_vars => RoleInv'
<1> SUFFICES ASSUME RoleInv, [Next]_vars PROVE RoleInv'
  OBVIOUS
<1> USE PeersAssumption, BoundsAssumption
<1> USE DEF RoleInv, keyVars, linkVars, guiVars, rpcVars, history
<1>1. ASSUME NEW p \in Initiators, NEW q \in Targets, Connect(p, q) PROVE RoleInv'
  <2>1. TypeOK' BY <1>1 DEF Connect, TypeOK
  <2>2. RolesInv' BY <1>1 DEF Connect, TypeOK, RolesInv
  <2> QED BY <2>1, <2>2
<1>2. ASSUME NEW p \in Peers, Start(p) PROVE RoleInv'
  <2>1. TypeOK' BY <1>2 DEF Start, TypeOK
  <2>2. RolesInv' BY <1>2 DEF Start, TypeOK, RolesInv
  <2> QED BY <2>1, <2>2
<1>3. ASSUME NEW p \in Peers, TakeResponse(p) PROVE RoleInv'
  <2>1. HandshakeKey(p) \in HandshakeKeys
    BY <1>3 DEF TakeResponse, TypeOK, RolesInv, HandshakeKey, HandshakeKeys
  <2>2. TypeOK'
    <3>1. target[p] \in Targets
      BY <1>3 DEF TakeResponse, TypeOK, RolesInv
    <3>2. rejectedBy' \in [Peers -> SUBSET Targets]
      BY <1>3, <3>1 DEF TakeResponse, TypeOK
    <3> QED BY <1>3, <2>1, <3>2 DEF TakeResponse, TypeOK
  <2>3. RolesInv' BY <1>3 DEF TakeResponse, TypeOK, RolesInv
  <2> QED BY <2>2, <2>3
<1>4. ASSUME NEW p \in Peers, SetAddress(p) \/ SwitchClient(p) PROVE RoleInv'
  <2>1. target[p] \in Peers
    BY <1>4 DEF SetAddress, SwitchClient, TypeOK, RolesInv
  <2>2. TypeOK'
    <3>1. CASE SetAddress(p) BY <2>1, <3>1 DEF SetAddress, TypeOK
    <3>2. CASE SwitchClient(p) BY <2>1, <3>2 DEF SwitchClient, ClientAfterConnect, TypeOK
    <3> QED BY <1>4, <3>1, <3>2
  <2>3. RolesInv' BY <1>4 DEF SetAddress, SwitchClient, TypeOK, RolesInv
  <2> QED BY <2>2, <2>3
<1>5. ASSUME NEW p \in Peers, OpenChat(p) \/ BeginTick(p) \/ EndTick(p) PROVE RoleInv'
  <2>1. TypeOK'
    <3>1. CASE OpenChat(p) BY <3>1 DEF OpenChat, TypeOK
    <3>2. CASE BeginTick(p) BY <3>2 DEF BeginTick, TypeOK
    <3>3. CASE EndTick(p) BY <3>3 DEF EndTick, TypeOK
    <3> QED BY <1>5, <3>1, <3>2, <3>3
  <2>2. RolesInv' BY <1>5 DEF OpenChat, BeginTick, EndTick, TypeOK, RolesInv
  <2> QED BY <2>1, <2>2
<1>6. ASSUME NEW p \in Targets, GenerateKey(p) PROVE RoleInv'
  <2>1. TypeOK' BY <1>6 DEF GenerateKey, TypeOK
  <2>2. RolesInv' BY <1>6 DEF GenerateKey, TypeOK, RolesInv
  <2> QED BY <2>1, <2>2
<1>7. ASSUME NEW q \in Peers, NEW p \in Peers, ReceiveKex(q, p) PROVE RoleInv'
  <2>1. p \in Initiators /\ HandshakeKey(p) \in HandshakeKeys
    BY <1>7 DEF ReceiveKex, TypeOK, RolesInv, HandshakeKey, HandshakeKeys
  <2>2. TypeOK' BY <1>7, <2>1 DEF ReceiveKex, KeyAfterKex, TypeOK
  <2>3. RolesInv' BY <1>7, <2>1 DEF ReceiveKex, TypeOK, RolesInv
  <2> QED BY <2>2, <2>3
<1>8. ASSUME NEW q \in Peers, ConnectBack(q) PROVE RoleInv'
  <2>1. TypeOK' BY <1>8 DEF ConnectBack, TypeOK
  <2>2. RolesInv' BY <1>8 DEF ConnectBack, TypeOK, RolesInv
  <2> QED BY <2>1, <2>2
<1>9. ASSUME NEW q \in Peers, AnswerKex(q) PROVE RoleInv'
  <2>1. serving[q] \in Initiators /\ KexNotice(q) \in BOOLEAN
    BY <1>9 DEF AnswerKex, TypeOK, KexNotice
  <2>2. TypeOK' BY <1>9, <2>1 DEF AnswerKex, TypeOK
  <2>3. ASSUME NEW u \in Peers
        PROVE  /\ target'[u] # None <=> attempts'[u] > 0
               /\ attempts'[u] > 0 => u \in Initiators
               /\ gui'[u] \in {"waiting", "keyed", "addressed", "connected"}
                    => attempts'[u] > 0
               /\ reply'[u] # "none" => gui'[u] = "waiting"
    BY <1>9, <2>1 DEF AnswerKex, TypeOK, RolesInv
  <2>4. ASSUME NEW u \in Peers
        PROVE  /\ serving'[u] # None => /\ reply'[serving'[u]] = "requested"
                                        /\ target'[serving'[u]] = u
               /\ answer'[u] # "none" => serving'[u] # None
    BY <1>9, <2>1 DEF AnswerKex, TypeOK, RolesInv
  <2>5. ASSUME NEW u \in Peers, owed'[u] = "yes"
        PROVE  chatWindowNeeded'[u] /\ gui'[u] \notin {"starting", "ticking"}
    <3>1. CASE u = q
      BY <1>9, <2>5, <3>1 DEF AnswerKex, KexNotice, TypeOK
    <3>2. CASE u # q
      BY <1>9, <2>5, <3>2 DEF AnswerKex, TypeOK, RolesInv
    <3> QED BY <3>1, <3>2
  <2>6. RolesInv' BY <2>3, <2>4, <2>5 DEF RolesInv
  <2> QED BY <2>2, <2>6
<1>10. CASE UNCHANGED vars
  BY <1>10 DEF vars, TypeOK, RolesInv
<1> QED BY <1>1, <1>2, <1>3, <1>4, <1>5, <1>6, <1>7, <1>8, <1>9, <1>10 DEF Next, Gui, Rpc

\* Whatever the threads of all processes do, the state keeps to its types; a
\* handshake key always names an attempt that was made.
THEOREM TypeCorrect == Safety => []TypeOK
<1>1. RoleInv => TypeOK BY DEF RoleInv
<1> QED BY <1>1, InitRoles, NextRoles, PTL DEF Safety

-----------------------------------------------------------------------------
(* The star: initiators and targets are different processes.               *)

LEMMA InitStar == Init => StarInv
BY PeersAssumption DEF Init, Everyone, StarInv, LinkInv

LEMMA NextStar == Star /\ RoleInv /\ StarInv /\ [Next]_vars => StarInv'
<1> SUFFICES ASSUME Star, RoleInv, StarInv, [Next]_vars PROVE StarInv'
  OBVIOUS
<1> USE PeersAssumption, BoundsAssumption
<1> USE DEF RoleInv, Star, TypeOK, RolesInv, HandshakeKey, keyVars, linkVars, guiVars,
        rpcVars, history
<1>1. ASSUME NEW p \in Initiators, NEW q \in Targets, Connect(p, q) PROVE StarInv'
  <2>1. ASSUME NEW v \in Targets, NEW u \in Initiators PROVE LinkInv(v, u)'
    BY <1>1 DEF Connect, StarInv, LinkInv, Succeeding
  <2> QED BY <1>1, <2>1 DEF Connect, StarInv
<1>2. ASSUME NEW p \in Peers, Start(p) PROVE StarInv'
  <2>1. ASSUME NEW v \in Targets, NEW u \in Initiators PROVE LinkInv(v, u)'
    BY <1>2 DEF Start, StarInv, LinkInv, Succeeding
  <2> QED BY <1>2, <2>1 DEF Start, StarInv
<1>3. ASSUME NEW p \in Peers, TakeResponse(p) PROVE StarInv'
  <2>1. ASSUME NEW v \in Targets, NEW u \in Initiators PROVE LinkInv(v, u)'
    BY <1>3 DEF TakeResponse, StarInv, LinkInv, Succeeding
  <2> QED BY <1>3, <2>1 DEF TakeResponse, StarInv
<1>4. ASSUME NEW p \in Peers, SetAddress(p) PROVE StarInv'
  <2>1. ASSUME NEW v \in Targets, NEW u \in Initiators PROVE LinkInv(v, u)'
    BY <1>4 DEF SetAddress, StarInv, LinkInv, Succeeding
  <2> QED BY <1>4, <2>1 DEF SetAddress, StarInv
<1>5. ASSUME NEW p \in Peers, SwitchClient(p) PROVE StarInv'
  <2>1. ASSUME NEW v \in Targets, NEW u \in Initiators PROVE LinkInv(v, u)'
    <3>1. p \in Initiators /\ v # p /\ LinkInv(v, u) /\ LinkInv(v, p)
      BY <1>5 DEF SwitchClient, StarInv
    <3>2. CASE u = p
      <4>1. sharedKey[p] = HandshakeKey(p)
        BY <1>5, <3>1 DEF SwitchClient, StarInv
      <4> QED BY <1>5, <3>1, <3>2, <4>1
              DEF SwitchClient, ClientAfterConnect, LinkInv, Succeeding
    <3>3. CASE u # p
      BY <1>5, <3>1, <3>3 DEF SwitchClient, LinkInv, Succeeding
    <3> QED BY <3>2, <3>3
  <2> QED BY <1>5, <2>1 DEF SwitchClient, ClientAfterConnect, StarInv
<1>6. ASSUME NEW p \in Peers, OpenChat(p) \/ BeginTick(p) \/ EndTick(p) PROVE StarInv'
  <2>1. ASSUME NEW v \in Targets, NEW u \in Initiators PROVE LinkInv(v, u)'
    BY <1>6 DEF OpenChat, BeginTick, EndTick, StarInv, LinkInv, Succeeding
  <2> QED BY <1>6, <2>1 DEF OpenChat, BeginTick, EndTick, StarInv
<1>7. ASSUME NEW p \in Targets, GenerateKey(p) PROVE StarInv'
  <2>1. ASSUME NEW v \in Targets, NEW u \in Initiators PROVE LinkInv(v, u)'
    BY <1>7 DEF GenerateKey, StarInv, LinkInv, Succeeding
  <2> QED BY <1>7, <2>1 DEF GenerateKey, StarInv
<1>8. ASSUME NEW q \in Peers, NEW p \in Peers, ReceiveKex(q, p) PROVE StarInv'
  <2>1. ASSUME NEW v \in Targets, NEW u \in Initiators PROVE LinkInv(v, u)'
    BY <1>8 DEF ReceiveKex, KeyAfterKex, StarInv, LinkInv, Succeeding
  <2>2. q \in Targets /\ p \in Initiators /\ answer[q] = "none"
    BY <1>8 DEF ReceiveKex, MayServe
  <2>3. ASSUME NEW u \in Initiators
        PROVE  gui'[u] \in {"keyed", "addressed"} => sharedKey'[u] = HandshakeKey(u)'
    BY <1>8, <2>2 DEF ReceiveKex, StarInv
  <2>4. ASSUME NEW v \in Targets
        PROVE  /\ serving'[v] # None => sharedKey'[v] = HandshakeKey(serving[v])'
               /\ answer'[v] # "none" => client'[v] = serving'[v]
    BY <1>8, <2>2 DEF ReceiveKex, KeyAfterKex, StarInv
  <2>5. ASSUME NEW u \in Peers, client'[u] # None
        PROVE  \/ u \in Initiators /\ client'[u] \in Targets
               \/ u \in Targets /\ client'[u] \in Initiators
    BY <1>8, <2>5 DEF ReceiveKex, StarInv
  <2> HIDE DEF RoleInv, Star, TypeOK, RolesInv, HandshakeKey
  <2> QED BY <2>1, <2>3, <2>4, <2>5 DEF StarInv
<1>9. ASSUME NEW q \in Peers, ConnectBack(q) PROVE StarInv'
  <2>1. ASSUME NEW v \in Targets, NEW u \in Initiators PROVE LinkInv(v, u)'
    BY <1>9 DEF ConnectBack, StarInv, LinkInv, Succeeding
  <2> QED BY <1>9, <2>1 DEF ConnectBack, StarInv
<1>10. ASSUME NEW q \in Peers, AnswerKex(q) PROVE StarInv'
  <2>1. ASSUME NEW v \in Targets, NEW u \in Initiators PROVE LinkInv(v, u)'
    BY <1>10 DEF AnswerKex, StarInv, LinkInv, Succeeding
  <2> QED BY <1>10, <2>1 DEF AnswerKex, StarInv
<1>11. CASE UNCHANGED vars
  BY <1>11 DEF vars, StarInv, LinkInv, Succeeding
<1> QED BY <1>1, <1>2, <1>3, <1>4, <1>5, <1>6, <1>7, <1>8, <1>9, <1>10, <1>11
        DEF Next, Gui, Rpc

LEMMA StarKeys ==
  ASSUME Star, RoleInv, StarInv, NEW p \in Initiators, NEW q \in Peers,
         Settled(p), Settled(q), client[p] = q, client[q] = p
  PROVE  sharedKey[p] = sharedKey[q] \/ q \in rejectedBy[p]
<1>1. q \in Targets /\ p \in Peers
  BY PeersAssumption DEF Star, StarInv
<1>2. LinkInv(q, p)
  BY <1>1 DEF StarInv
<1>3. reply[p] = "none"
  BY <1>1 DEF RoleInv, TypeOK, RolesInv, Settled
<1> QED BY <1>1, <1>2, <1>3 DEF LinkInv, Settled

LEMMA StarInvariant == ASSUME Star PROVE Safety => [](RoleInv /\ StarInv)
<1>1. Init => RoleInv /\ StarInv BY InitRoles, InitStar
<1>2. (RoleInv /\ StarInv) /\ [Next]_vars => (RoleInv /\ StarInv)'
  BY NextRoles, NextStar
<1> QED BY <1>1, <1>2, PTL DEF Safety

\* If nobody connects to a process that is itself connecting, two processes whose
\* clients point at each other have the same shared key, whoever else connects to
\* the target of the two, however often, and whatever key pairs are generated,
\* unless the last attempt of one at the other was rejected.
THEOREM StarAgrees == ASSUME Star PROVE Safety => []PeersAgree
<1>1. RoleInv /\ StarInv => PeersAgree
  <2> SUFFICES ASSUME RoleInv, StarInv, NEW p \in Peers, NEW q \in Peers,
                      Settled(p), Settled(q), client[p] = q, client[q] = p
               PROVE  \/ sharedKey[p] = sharedKey[q]
                      \/ q \in rejectedBy[p] \/ p \in rejectedBy[q]
    BY DEF PeersAgree
  <2>1. p \in Initiators \/ q \in Initiators
    BY PeersAssumption DEF StarInv
  <2> QED BY <2>1, StarKeys
<1> QED BY <1>1, StarInvariant, PTL

LEMMA NextWindow ==
  Star /\ RoleInv /\ StarInv /\ WindowInv /\ [Next]_vars => WindowInv'
<1> SUFFICES ASSUME Star, RoleInv, StarInv, WindowInv, [Next]_vars PROVE WindowInv'
  OBVIOUS
<1> USE PeersAssumption, BoundsAssumption
<1> USE DEF RoleInv, Star, TypeOK, RolesInv, WindowInv, keyVars, linkVars, guiVars,
        rpcVars, history
<1>1. ASSUME NEW p \in Initiators, NEW q \in Targets, Connect(p, q) PROVE WindowInv'
  BY <1>1 DEF Connect
<1>2. ASSUME NEW p \in Peers, Start(p) \/ TakeResponse(p) PROVE WindowInv'
  BY <1>2 DEF Start, TakeResponse
<1>3. ASSUME NEW p \in Peers, SetAddress(p) PROVE WindowInv'
  BY <1>3 DEF SetAddress
<1>4. ASSUME NEW p \in Peers, SwitchClient(p) PROVE WindowInv'
  BY <1>4 DEF SwitchClient, ClientAfterConnect
<1>5. ASSUME NEW p \in Peers, OpenChat(p) \/ BeginTick(p) \/ EndTick(p) PROVE WindowInv'
  BY <1>5 DEF OpenChat, BeginTick, EndTick
<1>6. ASSUME NEW p \in Targets, GenerateKey(p) PROVE WindowInv'
  BY <1>6 DEF GenerateKey
<1>7. ASSUME NEW q \in Peers, NEW p \in Peers, ReceiveKex(q, p) PROVE WindowInv'
  BY <1>7 DEF ReceiveKex
<1>8. ASSUME NEW q \in Peers, ConnectBack(q) PROVE WindowInv'
  BY <1>8 DEF ConnectBack
<1>9. ASSUME NEW q \in Peers, AnswerKex(q) PROVE WindowInv'
  BY <1>9 DEF AnswerKex, StarInv
<1>10. CASE UNCHANGED vars
  BY <1>10 DEF vars
<1> QED BY <1>1, <1>2, <1>3, <1>4, <1>5, <1>6, <1>7, <1>8, <1>9, <1>10 DEF Next, Gui, Rpc

\* Under the same condition a chat window names the peer its messages go to whenever
\* no window is asked for, however Kexes of several peers overlap with the windows
\* being built; the exceptions are the notices that WindowNamesClient excepts.
THEOREM StarNamesClients == ASSUME Star PROVE Safety => []WindowNamesClient
<1>1. Init => WindowInv BY DEF Init, Everyone, WindowInv
<1>2. (RoleInv /\ StarInv) /\ WindowInv /\ [Next]_vars => WindowInv'
  BY NextWindow
<1>3. RoleInv /\ WindowInv => WindowNamesClient
  BY DEF RoleInv, TypeOK, RolesInv, WindowInv, WindowNamesClient
<1> QED BY <1>1, <1>2, <1>3, StarInvariant, PTL DEF Safety
=============================================================================
