------------------------- MODULE TransferSlotProofs -------------------------
(***************************************************************************)
(* The transfer slots of two processes: types for any number of files and  *)
(* blocks, also when both send at once; and, when only one of them sends,  *)
(* that a properly started transfer is alone and gets its blocks into its  *)
(* own file.                                                               *)
(***************************************************************************)
EXTENDS TransferSlot, TLAPS

(* The inductive invariants behind the safety properties.                  *)

\* A GUI thread inside SendFile belongs to a sender that has a file on offer.
GuiInv ==
  \A p \in Peers :
    gui[p] \notin {"idle", "accepting"} => p \in Senders /\ sent[p] > 0

\* With one sender s, the peer r follows it: r is at most one file behind, and
\* only while s has not yet got the FileMeta of its last file across.  Workers
\* that have not ended belong to the object in the slot or to the one that
\* SendFile is destroying.
Behind(s) == gui[s] \in {"joining", "hashing", "offering"}

FollowInv(s, r) ==
  /\ rpc[s] = "idle" /\ slot[s] = IF sent[s] = 0 THEN None ELSE Offered(s)
  /\ gui[s] # "accepting" /\ gui[r] \in {"idle", "accepting"}
  /\ accepting[s] = None /\ (gui[r] = "idle" => accepting[r] = None)
  /\ ~Behind(s) => slot[r] = slot[s]
  /\ Behind(s) => slot[r] = IF sent[s] = 1 THEN None ELSE <<s, sent[s] - 1>>
  /\ rpcJoins[r] = None
  /\ guiJoins[s] = IF gui[s] = "joining" THEN slot[r] ELSE None

\* r has accepted no file that it has not heard of; workers are started by the
\* accept of such a file, and not for a file that s has not begun to send.
AcceptedInv(s, r) ==
  /\ \A f \in Files : accepted[f] => slot[r] # None /\ f[2] <= slot[r][2]
  /\ accepting[r] # None => accepted[accepting[r]]
  /\ \A f \in Files : Started(f) => accepted[startedFor[f]] /\ f[2] <= sent[s]

\* Workers that have not ended belong to the object in the slot or to the one that
\* SendFile is destroying, and only workers send blocks.
RunningInv(s) ==
  /\ \A f \in Files : Started(f) => Ended(f) \/ f = slot[s] \/ f = guiJoins[s]
  /\ \A f \in Files, b \in Blocks : blockAt[f][b] # "unsent" => Started(f)
  /\ \A f, g \in Files, b \in Blocks : <<f, b>> \in stored[g] => Started(f)

\* A transfer that was properly started finds its own file at r until it has
\* ended, and r's accept is spent: nothing can start another one.
HomeInv(s, r) ==
  /\ \A f \in Files : ProperlyStarted(f) => Ended(f) \/ slot[r] = f
  /\ slot[r] # None /\ ProperlyStarted(slot[r])
       => accepting[r] = None /\ (Behind(s) => ~Started(slot[s]))

OneSenderInv ==
  \A s \in Senders, r \in Peers :
    r # s => FollowInv(s, r) /\ AcceptedInv(s, r) /\ RunningInv(s) /\ HomeInv(s, r)

\* With two senders: an object for sending that is in the slot is the last one that
\* SendFile has made, only such objects have been started, and the GUI thread does
\* not send while it waits for the answer to an accept.
OfferInv ==
  /\ \A q \in Peers : IsSend(q) => slot[q] = Offered(q)
  /\ \A f \in Files : Started(f) => f[2] <= sent[f[1]]
  /\ \A q \in Peers : gui[q] = "accepting" => ~IsSend(q) /\ rpcJoins[q] = None
  /\ \A q \in Peers : rpcJoins[q] # None => rpc[q] = "joining"
  /\ \A p, q \in Peers : p # q /\ rpc[q] = "joining" => gui[p] = "handled"

\* While p is inside SendFile it accepts nothing, so what it offers and what q has
\* in its slot, or destroys for it, have not both been started; and of two objects
\* that both RPC threads destroy one is the last of its process.
CrossInv ==
  \A p, q \in Peers : p # q =>
    /\ gui[p] \notin {"idle", "accepting"} /\ IsSend(q) /\ Started(slot[q])
         => ~Started(Offered(p))
    /\ rpcJoins[q] # None /\ Started(rpcJoins[q]) => ~Started(Offered(p))
    /\ rpcJoins[p] # None /\ rpcJoins[q] # None
         => rpcJoins[p] = Offered(p) \/ rpcJoins[q] = Offered(q)

-----------------------------------------------------------------------------
TypeInv == TypeOK /\ GuiInv

LEMMA FileFacts ==
  /\ \A f \in Files : f = <<f[1], f[2]>> /\ f[1] \in Senders /\ f[1] \in Peers /\ f[2] \in 1 .. MaxFiles
  /\ \A p \in Senders, n \in 1 .. MaxFiles :
       <<p, n>> \in Files /\ <<p, n>>[1] = p /\ <<p, n>>[2] = n
BY SendersAssumption DEF Files

LEMMA OtherPeer == ASSUME NEW p \in Peers, NEW q \in Peers, NEW r \in Peers, p # q, r # q
                   PROVE  r = p
BY PeersAssumption

LEMMA InitTypes == Init => TypeInv
BY BoundsAssumption DEF Init, TypeInv, TypeOK, GuiInv, GuiLabels

LEMMA GuiTypes ==
  ASSUME TypeInv, NEW p \in Peers,
         (p \in Senders /\ SendFile(p)) \/ Gui(p) \/ AcceptTransfer(p)
  PROVE  TypeInv'
<1>1. ASSUME p \in Senders, SendFile(p) PROVE TypeInv'
  <2>1. sent[p] + 1 \in 1 .. MaxFiles BY <1>1, BoundsAssumption DEF SendFile, TypeInv, TypeOK
  <2>2. <<p, sent[p] + 1>> \in Files BY <1>1, <2>1, FileFacts
  <2>3. TypeOK' BY <1>1, <2>1, <2>2 DEF SendFile, TypeInv, TypeOK, GuiLabels, rpcVars, workerVars
  <2>4. GuiInv' BY <1>1 DEF SendFile, TypeInv, TypeOK, GuiInv
  <2> QED BY <2>3, <2>4 DEF TypeInv
<1>2. CASE EndGuiJoin(p)
  <2>1. TypeOK'
    BY <1>2 DEF EndGuiJoin, TypeInv, TypeOK, GuiLabels, rpcVars, workerVars
  <2>2. GuiInv' BY <1>2 DEF EndGuiJoin, TypeInv, TypeOK, GuiInv
  <2> QED BY <2>1, <2>2 DEF TypeInv
<1>3. CASE SendMeta(p)
  <2>1. TypeOK'
    BY <1>3 DEF SendMeta, TypeInv, TypeOK, GuiLabels, rpcVars, workerVars
  <2>2. GuiInv' BY <1>3 DEF SendMeta, TypeInv, TypeOK, GuiInv
  <2> QED BY <2>1, <2>2 DEF TypeInv
<1>4. CASE EndSendFile(p)
  <2>1. TypeOK'
    BY <1>4 DEF EndSendFile, TypeInv, TypeOK, GuiLabels, rpcVars, workerVars
  <2>2. GuiInv' BY <1>4 DEF EndSendFile, TypeInv, TypeOK, GuiInv
  <2> QED BY <2>1, <2>2 DEF TypeInv
<1>5. CASE AcceptTransfer(p)
  <2>1. slot[p] \in Files
    BY <1>5 DEF AcceptTransfer, AcceptShown, IsRecv, TypeInv, TypeOK
  <2>2. TypeOK'
    BY <1>5, <2>1 DEF AcceptTransfer, TypeInv, TypeOK, GuiLabels, rpcVars, workerVars
  <2>3. GuiInv' BY <1>5 DEF AcceptTransfer, TypeInv, TypeOK, GuiInv
  <2> QED BY <2>2, <2>3 DEF TypeInv
<1> QED BY <1>1, <1>2, <1>3, <1>4, <1>5 DEF Gui

LEMMA CallTypes ==
  ASSUME TypeInv, NEW p \in Peers, NEW q \in Peers, Calls(q, p) PROVE TypeInv'
<1>1. CASE ReceiveFileMeta(q, p)
  <2>1. Offered(p) \in Files
    <3>1. p \in Senders /\ sent[p] \in 1 .. MaxFiles
      BY <1>1, BoundsAssumption DEF ReceiveFileMeta, TypeInv, TypeOK, GuiInv
    <3> QED BY <3>1, FileFacts DEF Offered
  <2>2. TypeOK'
    BY <1>1, <2>1 DEF ReceiveFileMeta, TypeInv, TypeOK, GuiLabels, workerVars
  <2>3. GuiInv' BY <1>1 DEF ReceiveFileMeta, TypeInv, TypeOK, GuiInv
  <2> QED BY <2>2, <2>3 DEF TypeInv
<1>2. CASE EndRpcJoin(q, p)
  <2>1. TypeOK' BY <1>2 DEF EndRpcJoin, TypeInv, TypeOK, GuiLabels, workerVars
  <2>2. GuiInv' BY <1>2 DEF EndRpcJoin, TypeInv, TypeOK, GuiInv
  <2> QED BY <2>1, <2>2 DEF TypeInv
<1>3. CASE ReceiveFileTransferAccept(q, p)
  <2>1. TypeOK'
    BY <1>3, NoneAssumption DEF ReceiveFileTransferAccept, IsSend, TypeInv, TypeOK, GuiLabels, rpcVars
  <2>2. GuiInv' BY <1>3 DEF ReceiveFileTransferAccept, TypeInv, TypeOK, GuiInv
  <2> QED BY <2>1, <2>2 DEF TypeInv
<1> QED BY <1>1, <1>2, <1>3 DEF Calls

LEMMA BlockTypes ==
  ASSUME TypeInv, NEW f \in Files, NEW b \in Blocks,
         Worker(f, b) \/ \E q \in Peers : ReceiveFileBlock(q, f, b)
  PROVE  TypeInv'
<1>1. CASE TakeBlock(f, b)
  BY <1>1 DEF TakeBlock, TypeInv, TypeOK, GuiInv, guiVars, rpcVars
<1>2. CASE Resend(f, b)
  BY <1>2 DEF Resend, TypeInv, TypeOK, GuiInv, guiVars, rpcVars
<1>3. ASSUME NEW q \in Peers, ReceiveFileBlock(q, f, b) PROVE TypeInv'
  <2>1. blockAt' \in [Files -> [Blocks -> {"unsent", "travelling", "refused", "answered"}]]
    <3>1. PICK v \in {"answered", "refused"} : blockAt' = [blockAt EXCEPT ![f][b] = v]
      BY <1>3 DEF ReceiveFileBlock
    <3> QED BY <3>1 DEF TypeInv, TypeOK
  <2>2. /\ stored' \in [Files -> SUBSET (Files \X Blocks)]
        /\ \A g \in Files : \A s \in stored'[g] : s[1][1] = g[1]
    <3>1. CASE UNCHANGED stored BY <3>1 DEF TypeInv, TypeOK
    <3>2. CASE IsRecv(q) /\ stored' = [stored EXCEPT ![slot[q]] = @ \cup {<<f, b>>}]
      <4>1. slot[q] \in Files /\ slot[q][1] # q
        BY <3>2, NoneAssumption DEF IsRecv, TypeInv, TypeOK
      <4>2. f[1] # q BY <1>3 DEF ReceiveFileBlock, CanHandle
      <4>3. slot[q][1] = f[1] BY <4>1, <4>2, OtherPeer, FileFacts
      <4>4. <<f, b>> \in Files \X Blocks /\ <<f, b>>[1] = f OBVIOUS
      <4> QED BY <3>2, <4>1, <4>3, <4>4 DEF TypeInv, TypeOK
    <3> QED BY <1>3, <3>1, <3>2 DEF ReceiveFileBlock
  <2>3. TypeOK'
    BY <1>3, <2>1, <2>2 DEF ReceiveFileBlock, TypeInv, TypeOK, GuiLabels, guiVars, rpcVars
  <2>4. GuiInv' BY <1>3 DEF ReceiveFileBlock, TypeInv, TypeOK, GuiInv, guiVars
  <2> QED BY <2>3, <2>4 DEF TypeInv
<1> QED BY <1>1, <1>2, <1>3 DEF Worker

LEMMA NextTypes == TypeInv /\ [Next]_vars => TypeInv'
<1> SUFFICES ASSUME TypeInv, [Next]_vars PROVE TypeInv'
  OBVIOUS
<1>1. CASE UNCHANGED vars
  BY <1>1 DEF vars, guiVars, rpcVars, workerVars, TypeInv, TypeOK, GuiInv
<1>2. CASE Next
  BY <1>2, GuiTypes, CallTypes, BlockTypes, SendersAssumption DEF Next
<1> QED BY <1>1, <1>2

\* Types of both processes' slots for any number of files and blocks, whoever
\* sends; in particular an object for receiving never stores a block of a file
\* that its own process sends.
THEOREM TypeCorrect == Safety => []TypeOK
<1>1. TypeInv => TypeOK BY DEF TypeInv
<1> QED BY <1>1, InitTypes, NextTypes, PTL DEF Safety

-----------------------------------------------------------------------------
(* One sender s, and its peer r.                                           *)

Roles(s, r) == s \in Peers /\ r \in Peers /\ r # s /\ Senders = {s} /\ Peers = {s, r}

StartInv(s, r) == AcceptedInv(s, r) /\ RunningInv(s) /\ HomeInv(s, r)

OneInv(s, r) == TypeInv /\ FollowInv(s, r) /\ StartInv(s, r)

LEMMA OneSenderFiles ==
  ASSUME NEW s, NEW r, Roles(s, r)
  PROVE  /\ \A f \in Files : f[1] = s /\ f = <<s, f[2]>> /\ f[2] \in 1 .. MaxFiles
         /\ \A n \in 1 .. MaxFiles : <<s, n>> \in Files /\ <<s, n>>[1] = s /\ <<s, n>>[2] = n
BY DEF Roles, Files

LEMMA InitOne == ASSUME NEW s, NEW r, Roles(s, r) PROVE Init => OneInv(s, r)
<1> SUFFICES ASSUME Init PROVE FollowInv(s, r) /\ StartInv(s, r)
  BY InitTypes DEF OneInv
<1>1. FollowInv(s, r) BY DEF Init, Roles, FollowInv, Behind
<1>2. StartInv(s, r)
  BY NoneAssumption
     DEF Init, Roles, StartInv, AcceptedInv, RunningInv, HomeInv, Started, ProperlyStarted
<1> QED BY <1>1, <1>2

\* The slot of s and of r as far as the dynamic types go.
LEMMA OneSenderRoles ==
  ASSUME NEW s, NEW r, Roles(s, r), OneInv(s, r)
  PROVE  /\ ~IsSend(r) /\ ~IsRecv(s)
         /\ IsSend(s) <=> slot[s] # None
         /\ IsRecv(r) <=> slot[r] # None
<1>1. slot[s] \in Files \cup {None} /\ slot[r] \in Files \cup {None}
  BY DEF Roles, OneInv, TypeInv, TypeOK
<1>2. r # s /\ \A f \in Files : f[1] = s
  BY OneSenderFiles DEF Roles
<1> QED BY <1>1, <1>2 DEF IsSend, IsRecv

LEMMA FollowStep ==
  ASSUME NEW s, NEW r, Roles(s, r), OneInv(s, r), [Next]_vars
  PROVE  FollowInv(s, r)'
<1> USE DEF Roles, OneInv, TypeInv, FollowInv, Behind
<1>0. BoundsAssumption /\ NoneAssumption BY BoundsAssumption, NoneAssumption
<1>1. CASE SendFile(s)
  <2>1. /\ gui[s] = "idle" /\ gui'[s] = "joining" /\ gui'[r] = gui[r]
        /\ sent[s] \in Nat /\ sent'[s] = sent[s] + 1
        /\ slot'[s] = <<s, sent[s] + 1>> /\ slot'[r] = slot[r]
        /\ UNCHANGED <<accepting, rpc, rpcJoins>>
    BY <1>1, <1>0 DEF SendFile, TypeOK, rpcVars
  <2>2. guiJoins'[s] = slot[s]
    BY <1>1, OneSenderRoles DEF SendFile, TypeOK
  <2>3. slot[r] = slot[s] /\ slot[s] = IF sent[s] = 0 THEN None ELSE <<s, sent[s]>>
    BY <2>1 DEF Offered
  <2>4. slot'[s] = Offered(s)' /\ sent'[s] # 0 /\ Behind(s)'
    BY <2>1 DEF Offered
  <2>5. slot'[r] = IF sent'[s] = 1 THEN None ELSE <<s, sent'[s] - 1>>
    BY <2>1, <2>3
  <2> QED BY <2>1, <2>2, <2>3, <2>4, <2>5
<1>2. ASSUME NEW p \in Peers, Gui(p) PROVE FollowInv(s, r)'
  BY <1>2 DEF Gui, EndGuiJoin, SendMeta, EndSendFile, Offered, TypeOK, rpcVars
<1>3. ASSUME NEW p \in Peers, AcceptTransfer(p) PROVE FollowInv(s, r)'
  BY <1>3, OneSenderRoles DEF AcceptTransfer, AcceptShown, Offered, TypeOK, rpcVars
<1>4. ASSUME NEW p \in Peers, NEW q \in Peers, ReceiveFileMeta(q, p) PROVE FollowInv(s, r)'
  <2>1. p = s /\ q = r /\ gui[s] = "offering"
    BY <1>4 DEF ReceiveFileMeta, CanHandle
  <2>2. sent[s] # 0 BY <2>1, <1>0 DEF GuiInv, TypeOK
  <2>3. /\ slot'[r] = Offered(s) /\ slot'[s] = slot[s] /\ rpcJoins'[r] = None
        /\ gui'[s] = "handled" /\ gui'[r] = gui[r] /\ rpc'[s] = rpc[s]
        /\ UNCHANGED <<guiJoins, sent, accepting>>
    BY <1>4, <2>1, OneSenderRoles DEF ReceiveFileMeta, TypeOK
  <2> QED BY <2>1, <2>2, <2>3 DEF Offered
<1>5. ASSUME NEW p \in Peers, NEW q \in Peers, EndRpcJoin(q, p) PROVE FollowInv(s, r)'
  BY <1>5 DEF EndRpcJoin, Offered, TypeOK
<1>6. ASSUME NEW p \in Peers, NEW q \in Peers, ReceiveFileTransferAccept(q, p)
      PROVE  FollowInv(s, r)'
  BY <1>6 DEF ReceiveFileTransferAccept, CanHandle, Offered, TypeOK, rpcVars
<1>7. ASSUME NEW f \in Files, NEW b \in Blocks,
             Worker(f, b) \/ \E q \in Peers : ReceiveFileBlock(q, f, b)
      PROVE  FollowInv(s, r)'
  BY <1>7 DEF Worker, TakeBlock, Resend, ReceiveFileBlock, Offered, guiVars, rpcVars
<1>8. CASE UNCHANGED vars
  BY <1>8 DEF vars, Offered, guiVars, rpcVars
<1> QED BY <1>1, <1>2, <1>3, <1>4, <1>5, <1>6, <1>7, <1>8 DEF Next, Calls

LEMMA StartSendFile ==
  ASSUME NEW s, NEW r, Roles(s, r), OneInv(s, r), SendFile(s)
  PROVE  StartInv(s, r)'
<1> USE DEF Roles, OneInv, TypeInv, StartInv
<1>1. /\ gui[s] = "idle" /\ gui'[s] = "joining" /\ sent[s] \in Nat
      /\ sent[s] + 1 \in 1 .. MaxFiles /\ sent'[s] = sent[s] + 1
      /\ slot'[s] = <<s, sent[s] + 1>> /\ slot'[r] = slot[r]
      /\ guiJoins'[s] = slot[s]
      /\ UNCHANGED <<accepting, accepted, startedFor, blockAt, stored>>
  <2>1. sent[s] \in Nat /\ sent[s] < MaxFiles /\ sent[s] + 1 \in 1 .. MaxFiles
    BY BoundsAssumption DEF SendFile, TypeOK
  <2>2. guiJoins'[s] = slot[s]
    BY OneSenderRoles DEF SendFile, TypeOK
  <2>3. sent'[s] = sent[s] + 1 BY DEF SendFile, TypeOK
  <2>4. slot'[s] = <<s, sent[s] + 1>> /\ slot'[r] = slot[r] BY DEF SendFile, TypeOK
  <2> QED BY <2>1, <2>2, <2>3, <2>4 DEF SendFile, TypeOK, workerVars
<1>2. slot[r] = slot[s] /\ guiJoins[s] = None
  BY <1>1 DEF FollowInv, Behind
<1>3. \A f \in Files : Started(f)' = Started(f) /\ Ended(f)' = Ended(f)
                       /\ ProperlyStarted(f)' = ProperlyStarted(f)
  BY <1>1 DEF Started, Ended, ProperlyStarted
<1>4. slot'[s] \in Files /\ slot'[s][2] = sent[s] + 1
  BY <1>1, OneSenderFiles
<1>5. AcceptedInv(s, r)'
  <2>1. \A f \in Files : f[2] \in Nat BY OneSenderFiles
  <2>2. \A f \in Files : Started(f)' => accepted'[startedFor'[f]] /\ f[2] <= sent'[s]
    BY <1>1, <1>3, <2>1 DEF AcceptedInv
  <2> QED BY <1>1, <2>2 DEF AcceptedInv
<1>6. RunningInv(s)'
  BY <1>1, <1>2, <1>3, NoneAssumption DEF RunningInv
<1>7. ~Started(slot'[s])
  BY <1>1, <1>4 DEF AcceptedInv
<1>8. HomeInv(s, r)'
  <2>1. ~Started(slot[s])' BY <1>1, <1>7 DEF Started
  <2>2. slot[r] # None /\ ProperlyStarted(slot[r])
          => accepting[r] = None /\ ~Started(slot[s])'
    BY <2>1 DEF HomeInv
  <2>3. ProperlyStarted(slot[r])' = ProperlyStarted(slot[r])
    BY <1>1 DEF ProperlyStarted
  <2>4. \A f \in Files : ProperlyStarted(f)' => Ended(f)' \/ slot'[r] = f
    BY <1>1, <1>3 DEF HomeInv
  <2> QED BY <1>1, <2>2, <2>3, <2>4 DEF HomeInv
<1> QED BY <1>5, <1>6, <1>8

\* The steps of the GUI threads that only move within SendFile.
LEMMA StartGui ==
  ASSUME NEW s, NEW r, Roles(s, r), OneInv(s, r), NEW p \in Peers, Gui(p)
  PROVE  StartInv(s, r)'
<1> USE DEF Roles, OneInv, TypeInv, StartInv
<1>1. UNCHANGED <<slot, sent, accepting, accepted, startedFor, blockAt, stored>>
  BY DEF Gui, EndGuiJoin, SendMeta, EndSendFile, workerVars
<1>2. \A f \in Files : Started(f)' = Started(f) /\ Ended(f)' = Ended(f)
                       /\ ProperlyStarted(f)' = ProperlyStarted(f)
  BY <1>1 DEF Started, Ended, ProperlyStarted
<1>3. guiJoins'[s] = guiJoins[s] \/ (guiJoins'[s] = None /\ Destroyed(guiJoins[s]))
  BY DEF Gui, EndGuiJoin, SendMeta, EndSendFile, TypeOK
<1>4. Behind(s)' => Behind(s)
  BY DEF Gui, EndGuiJoin, SendMeta, EndSendFile, TypeOK, Behind
<1>5. AcceptedInv(s, r)' BY <1>1, <1>2 DEF AcceptedInv
<1>6. RunningInv(s)'
  BY <1>1, <1>2, <1>3, NoneAssumption DEF RunningInv, Destroyed
<1>7. HomeInv(s, r)'
  BY <1>1, <1>2, <1>4 DEF HomeInv, ProperlyStarted, Started
<1> QED BY <1>5, <1>6, <1>7

LEMMA StartAcceptTransfer ==
  ASSUME NEW s, NEW r, Roles(s, r), OneInv(s, r), NEW p \in Peers, AcceptTransfer(p)
  PROVE  StartInv(s, r)'
<1> USE DEF Roles, OneInv, TypeInv, StartInv
<1>1. p = r BY OneSenderRoles DEF AcceptTransfer, AcceptShown
<1>2. /\ slot[r] \in Files /\ ~accepted[slot[r]]
      /\ accepted' = [accepted EXCEPT ![slot[r]] = TRUE]
      /\ accepting'[r] = slot[r]
      /\ gui'[s] = gui[s]
      /\ UNCHANGED <<slot, sent, guiJoins, startedFor, blockAt, stored>>
  BY <1>1, OneSenderRoles DEF AcceptTransfer, AcceptShown, TypeOK, workerVars
<1>3. \A f \in Files : Started(f)' = Started(f) /\ Ended(f)' = Ended(f)
                       /\ ProperlyStarted(f)' = ProperlyStarted(f)
  BY <1>2 DEF Started, Ended, ProperlyStarted
<1>4. \A f \in Files : accepted'[f] <=> accepted[f] \/ f = slot[r]
  BY <1>2 DEF TypeOK
<1>5. ~ProperlyStarted(slot[r])
  BY <1>2, NoneAssumption DEF ProperlyStarted, Started, AcceptedInv
<1>6. AcceptedInv(s, r)'
  <2>1. \A f \in Files : f[2] \in Nat BY OneSenderFiles
  <2>2. \A f \in Files : accepted'[f] => slot'[r] # None /\ f[2] <= slot'[r][2]
    BY <1>2, <1>4, <2>1, NoneAssumption DEF AcceptedInv
  <2>3. \A f \in Files : Started(f)' => accepted'[startedFor'[f]] /\ f[2] <= sent'[s]
    BY <1>2, <1>3, <1>4 DEF AcceptedInv, TypeOK, Started
  <2> QED BY <1>2, <1>4, <2>2, <2>3 DEF AcceptedInv
<1>7. RunningInv(s)' BY <1>2, <1>3 DEF RunningInv
<1>8. HomeInv(s, r)' BY <1>2, <1>3, <1>5 DEF HomeInv
<1> QED BY <1>6, <1>7, <1>8

LEMMA StartReceiveFileMeta ==
  ASSUME NEW s, NEW r, Roles(s, r), OneInv(s, r), NEW p \in Peers, NEW q \in Peers,
         ReceiveFileMeta(q, p)
  PROVE  StartInv(s, r)'
<1> USE DEF Roles, OneInv, TypeInv, StartInv
<1>1. p = s /\ q = r /\ gui[s] = "offering"
  BY DEF ReceiveFileMeta, CanHandle, FollowInv
<1>2. sent[s] \in Nat /\ sent[s] # 0 /\ Behind(s)
  BY <1>1, BoundsAssumption DEF TypeOK, GuiInv, Behind
<1>3. /\ slot[s] \in Files /\ slot[s][2] = sent[s] /\ guiJoins[s] = None
      /\ slot[r] # None => slot[r][2] = sent[s] - 1
  <2>1. slot[s] = <<s, sent[s]>> /\ guiJoins[s] = None
    BY <1>1, <1>2 DEF FollowInv, Offered
  <2>2. slot[s] \in Files BY <2>1, NoneAssumption, <1>2, BoundsAssumption, FileFacts DEF TypeOK
  <2>3. slot[r] # None => slot[r] = <<s, sent[s] - 1>> BY <1>2 DEF FollowInv
  <2> QED BY <2>1, <2>2, <2>3
<1>4. /\ slot'[r] = slot[s] /\ slot'[s] = slot[s] /\ ~Behind(s)'
      /\ UNCHANGED <<guiJoins, sent, accepting, accepted, startedFor, blockAt, stored>>
  <2>1. slot[s] = Offered(s) BY <1>2 DEF FollowInv
  <2> QED BY <1>1, <2>1 DEF ReceiveFileMeta, Behind, TypeOK, workerVars
<1>5. \A f \in Files : Started(f)' = Started(f) /\ Ended(f)' = Ended(f)
                       /\ ProperlyStarted(f)' = ProperlyStarted(f)
  BY <1>4 DEF Started, Ended, ProperlyStarted
<1>6. AcceptedInv(s, r)'
  <2>1. \A f \in Files : accepted'[f] => slot'[r] # None /\ f[2] <= slot'[r][2]
    <3>1. \A f \in Files : f[2] \in Nat BY OneSenderFiles
    <3>2. slot'[r] # None /\ slot'[r][2] = sent[s] BY <1>3, <1>4, NoneAssumption
    <3> QED BY <1>2, <1>3, <1>4, <3>1, <3>2 DEF AcceptedInv
  <2> QED BY <1>4, <1>5, <2>1 DEF AcceptedInv
<1>7. RunningInv(s)' BY <1>4, <1>5 DEF RunningInv
<1>8. ~ProperlyStarted(slot[s])
  <2>1. ~accepted[slot[s]] BY <1>2, <1>3 DEF AcceptedInv
  <2> QED BY <1>3, <2>1, NoneAssumption DEF AcceptedInv, ProperlyStarted, Started
<1>9. HomeInv(s, r)'
  <2>1. \A f \in Files : ProperlyStarted(f) => Started(f)
    BY NoneAssumption DEF ProperlyStarted, Started
  <2>2. \A f \in Files : ProperlyStarted(f)' => Ended(f)' \/ slot'[r] = f
    BY <1>3, <1>4, <1>5, <2>1, NoneAssumption DEF RunningInv
  <2>3. ~ProperlyStarted(slot[r])' BY <1>3, <1>4, <1>8 DEF ProperlyStarted
  <2> QED BY <2>2, <2>3 DEF HomeInv
<1> QED BY <1>6, <1>7, <1>9

LEMMA StartEndRpcJoin ==
  ASSUME NEW s, NEW r, Roles(s, r), OneInv(s, r), NEW p \in Peers, NEW q \in Peers,
         EndRpcJoin(q, p)
  PROVE  StartInv(s, r)'
<1> USE DEF Roles, OneInv, TypeInv, StartInv
<1>1. UNCHANGED <<slot, guiJoins, sent, accepting, accepted, startedFor, blockAt, stored>>
      /\ (Behind(s)' => Behind(s))
  BY DEF EndRpcJoin, workerVars, Behind, TypeOK
<1>2. \A f \in Files : Started(f)' = Started(f) /\ Ended(f)' = Ended(f)
                       /\ ProperlyStarted(f)' = ProperlyStarted(f)
  BY <1>1 DEF Started, Ended, ProperlyStarted
<1>3. AcceptedInv(s, r)' BY <1>1, <1>2 DEF AcceptedInv
<1>4. RunningInv(s)' BY <1>1, <1>2 DEF RunningInv
<1>5. HomeInv(s, r)' BY <1>1, <1>2 DEF HomeInv, ProperlyStarted, Started
<1> QED BY <1>3, <1>4, <1>5

\* An accept starts the object in the slot of s, for the file that r accepted; it
\* has been properly started if and only if s has not offered another one since.
LEMMA StartTransferAccept ==
  ASSUME NEW s, NEW r, Roles(s, r), OneInv(s, r), NEW p \in Peers, NEW q \in Peers,
         ReceiveFileTransferAccept(q, p)
  PROVE  StartInv(s, r)'
<1> USE DEF Roles, OneInv, TypeInv, StartInv
<1>1. p = r /\ q = s /\ gui[r] = "accepting"
  BY DEF ReceiveFileTransferAccept, CanHandle, FollowInv
<1>2. /\ accepting'[r] = None
      /\ UNCHANGED <<slot, guiJoins, sent, accepted, blockAt, stored>>
      /\ (Behind(s)' => Behind(s))
  BY <1>1 DEF ReceiveFileTransferAccept, Behind, TypeOK
<1>3. CASE UNCHANGED startedFor
  <2>1. \A f \in Files : Started(f)' = Started(f) /\ Ended(f)' = Ended(f)
                         /\ ProperlyStarted(f)' = ProperlyStarted(f)
    BY <1>2, <1>3 DEF Started, Ended, ProperlyStarted
  <2>2. AcceptedInv(s, r)' BY <1>2, <1>3, <2>1 DEF AcceptedInv
  <2>3. RunningInv(s)' BY <1>2, <2>1 DEF RunningInv
  <2>4. HomeInv(s, r)' BY <1>2, <1>3, <2>1 DEF HomeInv, ProperlyStarted, Started
  <2> QED BY <2>2, <2>3, <2>4
<1>4. CASE IsSend(s) /\ ~Started(slot[s])
           /\ startedFor' = [startedFor EXCEPT ![slot[s]] = accepting[r]]
  <2>1. slot[s] \in Files /\ slot[s] = <<s, sent[s]>> /\ sent[s] \in Nat \ {0}
    <3>1. slot[s] \in Files BY <1>4 DEF IsSend, TypeOK
    <3>2. slot[s] = <<s, sent[s]>> BY <3>1, NoneAssumption DEF FollowInv, Offered
    <3> QED BY <3>1, <3>2, BoundsAssumption, OneSenderFiles
  <2>2. /\ startedFor'[slot[s]] = accepting[r]
        /\ \A f \in Files : f # slot[s] => startedFor'[f] = startedFor[f]
    BY <1>4, <2>1 DEF TypeOK
  <2>3. /\ \A f \in Files : Ended(f)' = Ended(f)
        /\ \A f \in Files : Started(f)' <=> Started(f) \/ (f = slot[s] /\ accepting[r] # None)
    BY <1>2, <1>4, <2>1, <2>2 DEF Started, Ended
  <2>4. AcceptedInv(s, r)'
    <3>1. \A f \in Files : Started(f)' => accepted'[startedFor'[f]] /\ f[2] <= sent'[s]
      <4>1. ASSUME NEW f \in Files, Started(f)', f = slot[s]
            PROVE  accepted'[startedFor'[f]] /\ f[2] <= sent'[s]
        <5>1. accepted[accepting[r]] BY <4>1, <1>4, <2>3 DEF AcceptedInv
        <5>2. f[2] <= sent[s] BY <4>1, <2>1
        <5> QED BY <5>1, <5>2, <4>1, <2>2, <1>2
      <4>2. ASSUME NEW f \in Files, Started(f)', f # slot[s]
            PROVE  accepted'[startedFor'[f]] /\ f[2] <= sent'[s]
        BY <4>2, <2>2, <2>3, <1>2 DEF AcceptedInv
      <4> QED BY <4>1, <4>2
    <3> QED BY <1>2, <3>1 DEF AcceptedInv
  <2>5. RunningInv(s)' BY <1>2, <2>1, <2>3 DEF RunningInv
  <2>6. accepting[r] = slot[s] => slot[r] = slot[s]
    <3> SUFFICES ASSUME accepting[r] = slot[s], Behind(s) PROVE FALSE
      BY DEF FollowInv
    <3>1. slot[r] # None /\ slot[s][2] <= slot[r][2]
      BY <2>1, NoneAssumption DEF AcceptedInv
    <3>2. slot[r][2] = sent[s] - 1 BY <3>1 DEF FollowInv
    <3> QED BY <3>1, <3>2, <2>1
  <2>7. HomeInv(s, r)'
    <3>1. \A f \in Files : ProperlyStarted(f)' => Ended(f)' \/ slot'[r] = f
      BY <1>2, <2>2, <2>3, <2>6 DEF HomeInv, ProperlyStarted
    <3>2. ASSUME slot[r] # None, ProperlyStarted(slot[r])', Behind(s)
          PROVE  ~Started(slot[s])'
      <4>1. slot[r] # slot[s]
        <5>1. slot[r] = <<s, sent[s] - 1>> BY <3>2 DEF FollowInv
        <5> QED BY <5>1, <2>1
      <4>2. slot[r] \in Files BY <3>2 DEF TypeOK
      <4>3. ProperlyStarted(slot[r])
        BY <3>2, <4>1, <4>2, <1>2, <2>2 DEF ProperlyStarted
      <4>4. accepting[r] = None BY <3>2, <4>3 DEF HomeInv
      <4> QED BY <4>4, <1>2, <2>2 DEF Started
    <3> QED BY <1>2, <3>1, <3>2 DEF HomeInv
  <2> QED BY <2>4, <2>5, <2>7
<1> QED BY <1>1, <1>3, <1>4 DEF ReceiveFileTransferAccept

\* A step of a worker or of a block call touches no transfer that has ended.
LEMMA EndedStays ==
  ASSUME TypeOK, NEW f \in Files, NEW b \in Blocks,
         Worker(f, b) \/ \E q \in Peers : ReceiveFileBlock(q, f, b)
  PROVE  /\ \A g \in Files : Ended(g) => Ended(g)'
         /\ \A g \in Files, c \in Blocks :
              blockAt'[g][c] # "unsent" => blockAt[g][c] # "unsent" \/ (g = f /\ Started(f))
         /\ UNCHANGED <<slot, guiVars, rpcVars, accepted, startedFor>>
<1>1. UNCHANGED <<slot, guiVars, rpcVars, accepted, startedFor>>
  BY DEF Worker, TakeBlock, Resend, ReceiveFileBlock
<1>2. PICK v : blockAt' = [blockAt EXCEPT ![f][b] = v]
               /\ blockAt[f][b] # "answered"
               /\ (blockAt[f][b] = "unsent" => Started(f))
  <2>1. CASE Worker(f, b) BY <2>1 DEF Worker, TakeBlock, Resend
  <2>2. CASE \E q \in Peers : ReceiveFileBlock(q, f, b) BY <2>2 DEF ReceiveFileBlock
  <2> QED BY <2>1, <2>2
<1>3. \A g \in Files, c \in Blocks : <<g, c>> # <<f, b>> => blockAt'[g][c] = blockAt[g][c]
  BY <1>2 DEF TypeOK
<1>4. ~Ended(f) BY <1>2 DEF Ended
<1>5. \A g \in Files : Ended(g) => Ended(g)'
  BY <1>3, <1>4 DEF Ended
<1> QED BY <1>1, <1>2, <1>3, <1>5

LEMMA StartBlocks ==
  ASSUME NEW s, NEW r, Roles(s, r), OneInv(s, r), NEW f \in Files, NEW b \in Blocks,
         Worker(f, b) \/ \E q \in Peers : ReceiveFileBlock(q, f, b)
  PROVE  StartInv(s, r)'
<1> USE DEF Roles, OneInv, TypeInv, StartInv
<1>1. /\ UNCHANGED <<slot, gui, guiJoins, sent, accepting, accepted, startedFor>>
      /\ \A g \in Files : Ended(g) => Ended(g)'
      /\ \A g \in Files, c \in Blocks :
           blockAt'[g][c] # "unsent" => blockAt[g][c] # "unsent" \/ (g = f /\ Started(f))
  BY EndedStays DEF guiVars
<1>2. \A g \in Files : Started(g)' = Started(g) /\ ProperlyStarted(g)' = ProperlyStarted(g)
  BY <1>1 DEF Started, ProperlyStarted
<1>3. \A g, h \in Files, c \in Blocks : <<g, c>> \in stored'[h] => Started(g)
  <2>1. CASE UNCHANGED stored BY <2>1 DEF RunningInv
  <2>2. ASSUME NEW q \in Peers, ReceiveFileBlock(q, f, b),
               stored' = [stored EXCEPT ![slot[q]] = @ \cup {<<f, b>>}]
        PROVE  \A g, h \in Files, c \in Blocks : <<g, c>> \in stored'[h] => Started(g)
    <3>1. Started(f) BY <2>2 DEF ReceiveFileBlock, RunningInv
    <3>2. \A h \in Files : stored'[h] \subseteq stored[h] \cup {<<f, b>>}
      BY <2>2 DEF TypeOK
    <3> QED BY <3>1, <3>2 DEF RunningInv
  <2> QED BY <2>1, <2>2 DEF Worker, TakeBlock, Resend, ReceiveFileBlock
<1>4. AcceptedInv(s, r)' BY <1>1, <1>2 DEF AcceptedInv
<1>5. RunningInv(s)' BY <1>1, <1>2, <1>3 DEF RunningInv
<1>6. HomeInv(s, r)' BY <1>1, <1>2 DEF HomeInv, ProperlyStarted, Started, Behind
<1> QED BY <1>4, <1>5, <1>6

\* start() runs once: what started a transfer is never overwritten.
LEMMA StartedStays ==
  ASSUME TypeOK, [Next]_vars, NEW f \in Files, Started(f)
  PROVE  startedFor'[f] = startedFor[f]
<1>1. CASE UNCHANGED startedFor BY <1>1
<1>2. ASSUME NEW p \in Peers, NEW q \in Peers, ReceiveFileTransferAccept(q, p)
      PROVE  startedFor'[f] = startedFor[f]
  BY <1>2 DEF ReceiveFileTransferAccept, Started, TypeOK
<1>3. UNCHANGED startedFor \/ \E p, q \in Peers : ReceiveFileTransferAccept(q, p)
  <2>1. CASE UNCHANGED vars BY <2>1 DEF vars, workerVars
  <2>2. CASE \E p \in Peers : SendFile(p) \/ Gui(p) \/ AcceptTransfer(p)
    BY <2>2 DEF SendFile, Gui, EndGuiJoin, SendMeta, EndSendFile, AcceptTransfer, workerVars
  <2>3. CASE \E p, q \in Peers : Calls(q, p)
    BY <2>3 DEF Calls, ReceiveFileMeta, EndRpcJoin, workerVars
  <2>4. CASE \E g \in Files, b \in Blocks : Worker(g, b) \/ \E q \in Peers : ReceiveFileBlock(q, g, b)
    BY <2>4 DEF Worker, TakeBlock, Resend, ReceiveFileBlock
  <2> QED BY <2>1, <2>2, <2>3, <2>4, SendersAssumption DEF Next
<1> QED BY <1>1, <1>2, <1>3

LEMMA OneStep ==
  ASSUME NEW s, NEW r, Roles(s, r), OneInv(s, r), [Next]_vars
  PROVE  OneInv(s, r)'
<1>1. TypeInv' /\ FollowInv(s, r)' BY NextTypes, FollowStep DEF OneInv
<1>2. StartInv(s, r)'
  <2>1. CASE UNCHANGED vars
    BY <2>1 DEF vars, guiVars, rpcVars, workerVars, OneInv, StartInv, AcceptedInv, RunningInv,
                HomeInv, Started, Ended, ProperlyStarted, Behind
  <2>2. ASSUME NEW p \in Senders, SendFile(p) PROVE StartInv(s, r)'
    BY <2>2, StartSendFile DEF Roles
  <2>3. ASSUME NEW p \in Peers, NEW q \in Peers, Calls(q, p) PROVE StartInv(s, r)'
    BY <2>3, StartReceiveFileMeta, StartEndRpcJoin, StartTransferAccept DEF Calls
  <2> QED BY <2>1, <2>2, <2>3, StartGui, StartAcceptTransfer, StartBlocks DEF Next
<1> QED BY <1>1, <1>2 DEF OneInv

-----------------------------------------------------------------------------
(* The theorems: whenever only one of the two processes sends files.       *)

\* Blocks of two transfers are never on the way together when the first was
\* started by its own accept, although SendFile may be called at any time.
THEOREM ProperAlone ==
  ASSUME NEW s, NEW r, Roles(s, r) PROVE Safety => []ProperTransferAlone
<1>1. OneInv(s, r) => ProperTransferAlone
  <2> SUFFICES ASSUME OneInv(s, r), NEW f \in Files, NEW g \in Files,
                      ProperlyStarted(f), InFlight(f), InFlight(g)
               PROVE  f = g
    BY DEF ProperTransferAlone
  <2> USE DEF OneInv, StartInv
  <2>1. ~Ended(f) /\ ~Ended(g) BY DEF InFlight, Ended
  <2>2. Started(g) BY DEF InFlight, RunningInv
  <2>3. slot[r] = f BY <2>1 DEF HomeInv
  <2>4. g = slot[s] \/ g = guiJoins[s] BY <2>1, <2>2 DEF RunningInv
  <2>5. CASE g = slot[s]
    <3>1. ~Behind(s) BY <2>2, <2>3, <2>5, NoneAssumption DEF HomeInv
    <3> QED BY <2>3, <2>5, <3>1 DEF FollowInv
  <2>6. CASE g = guiJoins[s]
    BY <2>3, <2>6, NoneAssumption DEF FollowInv
  <2> QED BY <2>4, <2>5, <2>6
<1> QED BY <1>1, InitOne, OneStep, PTL DEF Safety

AtHome ==
  \A f, g \in Files : \A b \in Blocks :
    ProperlyStarted(f) /\ <<f, b>> \in stored[g] => f = g

\* A properly started transfer stores its blocks in its own file, and nowhere else.
THEOREM BlocksAtHome ==
  ASSUME NEW s, NEW r, Roles(s, r) PROVE Safety => []ProperBlocksAtHome
<1> DEFINE I == OneInv(s, r) /\ AtHome
<1>1. Init => I
  BY InitOne DEF Init, AtHome
<1>2. I /\ [Next]_vars => I'
  <2> SUFFICES ASSUME I, [Next]_vars PROVE AtHome'
    BY OneStep
  <2> USE DEF AtHome
  <2>1. CASE UNCHANGED stored
    <3> SUFFICES ASSUME NEW f \in Files, NEW g \in Files, NEW b \in Blocks,
                        ProperlyStarted(f)', <<f, b>> \in stored[g]
                 PROVE  f = g
      BY <2>1
    <3>1. Started(f) BY DEF OneInv, StartInv, RunningInv
    <3>2. startedFor'[f] = startedFor[f]
      BY <3>1, StartedStays DEF OneInv, TypeInv
    <3> QED BY <3>2 DEF ProperlyStarted
  <2>2. ASSUME NEW q \in Peers, NEW f \in Files, NEW b \in Blocks, ReceiveFileBlock(q, f, b),
               IsRecv(q), stored' = [stored EXCEPT ![slot[q]] = @ \cup {<<f, b>>}]
        PROVE  AtHome'
    <3>1. q = r /\ slot[r] \in Files
      BY <2>2, OneSenderRoles, NoneAssumption DEF Roles, OneInv, TypeInv, TypeOK, IsRecv
    <3>2. ~Ended(f) BY <2>2 DEF ReceiveFileBlock, Ended
    <3>3. ProperlyStarted(f) => slot[r] = f BY <3>2 DEF OneInv, StartInv, HomeInv
    <3>4. \A g \in Files : stored'[g] = IF g = slot[r] THEN stored[g] \cup {<<f, b>>} ELSE stored[g]
      BY <2>2, <3>1 DEF OneInv, TypeInv, TypeOK
    <3>5. \A g \in Files : ProperlyStarted(g)' = ProperlyStarted(g)
      BY <2>2 DEF ReceiveFileBlock, ProperlyStarted
    <3>6. ASSUME NEW g \in Files, NEW h \in Files, NEW c \in Blocks,
                 ProperlyStarted(g), <<g, c>> \in stored'[h]
          PROVE  g = h
      <4>1. CASE <<g, c>> \in stored[h] BY <3>6, <4>1
      <4>2. CASE h = slot[r] /\ <<g, c>> = <<f, b>> BY <3>3, <3>6, <4>2
      <4>3. <<g, c>> \in stored[h] \/ (h = slot[r] /\ <<g, c>> \in {<<f, b>>})
        BY <3>4, <3>6
      <4> QED BY <4>1, <4>2, <4>3
    <3> QED BY <3>5, <3>6
  <2>3. UNCHANGED stored \/ \E q \in Peers, f \in Files, b \in Blocks :
          /\ ReceiveFileBlock(q, f, b) /\ IsRecv(q)
          /\ stored' = [stored EXCEPT ![slot[q]] = @ \cup {<<f, b>>}]
    <3>1. CASE UNCHANGED vars BY <3>1 DEF vars
    <3>2. ASSUME NEW f \in Files, NEW b \in Blocks, NEW q \in Peers, ReceiveFileBlock(q, f, b)
          PROVE  UNCHANGED stored \/ (IsRecv(q) /\ stored' = [stored EXCEPT ![slot[q]] = @ \cup {<<f, b>>}])
      BY <3>2 DEF ReceiveFileBlock
    <3>3. CASE \E f \in Files, b \in Blocks : Worker(f, b)
      BY <3>3 DEF Worker, TakeBlock, Resend
    <3>4. CASE \E p \in Peers : SendFile(p) \/ Gui(p) \/ AcceptTransfer(p)
      BY <3>4 DEF SendFile, Gui, EndGuiJoin, SendMeta, EndSendFile, AcceptTransfer
    <3>5. CASE \E p, q \in Peers : Calls(q, p)
      BY <3>5 DEF Calls, ReceiveFileMeta, EndRpcJoin, ReceiveFileTransferAccept
    <3> QED BY <3>1, <3>2, <3>3, <3>4, <3>5, SendersAssumption DEF Next
  <2> QED BY <2>1, <2>2, <2>3
<1>3. I => ProperBlocksAtHome BY DEF AtHome, ProperBlocksAtHome
<1> QED BY <1>1, <1>2, <1>3, PTL DEF Safety

-----------------------------------------------------------------------------
(* What ends a process, when only one side sends.                          *)

\* start() runs on an object that has been started only if the accept was meant for
\* another one, or the first one was.
THEOREM OnlyStraysKill ==
  ASSUME NEW s, NEW r, Roles(s, r) PROVE Safety => []OnlyStrayAcceptsKill
<1> DEFINE Stray(p) == \E f \in Files : f[1] = p /\ Started(f) /\ ~ProperlyStarted(f)
           Kill == \A p \in Peers : ~alive[p] => Stray(p)
           Waiting == gui[r] = "accepting" => accepting[r] # None
           I == OneInv(s, r) /\ Kill /\ Waiting
<1>1. Init => I
  BY InitOne DEF Init, Roles
<1>2. I /\ [Next]_vars => I'
  <2> SUFFICES ASSUME I, [Next]_vars PROVE Kill' /\ Waiting'
    BY OneStep
  <2> USE DEF Roles
  <2>1. \A f \in Files : Started(f) => startedFor'[f] = startedFor[f]
    BY StartedStays DEF OneInv, TypeInv
  <2>2. \A p \in Peers : Stray(p) => Stray(p)'
    BY <2>1 DEF Started, ProperlyStarted
  <2>3. ASSUME UNCHANGED alive PROVE Kill'
    BY <2>2, <2>3
  <2>4. ASSUME NEW p \in Peers, SendMeta(p) PROVE UNCHANGED alive
    <3>1. p = s BY <2>4 DEF SendMeta, OneInv, FollowInv
    <3>2. sent[s] # 0 BY <2>4, <3>1 DEF SendMeta, OneInv, TypeInv, TypeOK, GuiInv
    <3> QED BY <2>4, <3>1, <3>2 DEF SendMeta, OneInv, FollowInv
  <2>5. ASSUME NEW p \in Peers, NEW q \in Peers, ReceiveFileTransferAccept(q, p) PROVE Kill'
    <3>1. CASE UNCHANGED alive BY <2>3, <3>1
    <3>2. CASE IsSend(q) /\ Started(slot[q]) /\ alive' = [alive EXCEPT ![q] = FALSE]
      <4>1. p = r /\ q = s /\ gui[r] = "accepting"
        BY <2>5 DEF ReceiveFileTransferAccept, CanHandle, OneInv, FollowInv
      <4>2. slot[s] \in Files /\ slot[s][1] = s
        BY <3>2, <4>1 DEF IsSend, OneInv, TypeInv, TypeOK
      <4>3. ~ProperlyStarted(slot[s])
        <5> SUFFICES ASSUME ProperlyStarted(slot[s]) PROVE FALSE
          OBVIOUS
        <5>1. accepting[r] # None BY <4>1
        <5>2. slot[r] # slot[s]
          BY <4>2, <5>1, NoneAssumption DEF OneInv, StartInv, HomeInv
        <5>3. Behind(s) BY <5>2 DEF OneInv, FollowInv
        <5>4. sent[s] \in Nat /\ slot[s] = <<s, sent[s]>>
          <6>1. sent[s] \in Nat BY BoundsAssumption DEF OneInv, TypeInv, TypeOK
          <6> QED BY <4>2, <6>1, NoneAssumption DEF OneInv, FollowInv, Offered
        <5>5. accepted[slot[s]] BY <4>2, <4>1, <3>2 DEF OneInv, StartInv, AcceptedInv, ProperlyStarted
        <5>6. slot[r] # None /\ slot[s][2] <= slot[r][2]
          BY <4>2, <5>5 DEF OneInv, StartInv, AcceptedInv
        <5>7. slot[r] = <<s, sent[s] - 1>>
          BY <5>3, <5>6 DEF OneInv, FollowInv
        <5> QED BY <5>4, <5>6, <5>7
      <4>4. Stray(s) BY <3>2, <4>1, <4>2, <4>3
      <4>5. Stray(s)' BY <2>2, <4>4
      <4>6. \A t \in Peers : t # s => alive'[t] = alive[t]
        BY <3>2, <4>1 DEF OneInv, TypeInv, TypeOK
      <4> QED BY <2>2, <4>5, <4>6
    <3> QED BY <2>5, <3>1, <3>2 DEF ReceiveFileTransferAccept
  <2>6. Kill'
    <3>1. CASE \E p \in Peers : SendMeta(p) BY <2>3, <2>4, <3>1
    <3>2. CASE \E p, q \in Peers : ReceiveFileTransferAccept(q, p) BY <2>5, <3>2
    <3>3. CASE \E p \in Peers : SendFile(p) \/ EndGuiJoin(p) \/ EndSendFile(p) \/ AcceptTransfer(p)
      <4>1. UNCHANGED alive
        BY <3>3 DEF SendFile, EndGuiJoin, EndSendFile, AcceptTransfer
      <4> QED BY <2>3, <4>1
    <3>4. CASE \E p, q \in Peers : ReceiveFileMeta(q, p) \/ EndRpcJoin(q, p)
      <4>1. UNCHANGED alive
        BY <3>4 DEF ReceiveFileMeta, EndRpcJoin
      <4> QED BY <2>3, <4>1
    <3>5. CASE \E f \in Files, b \in Blocks :
                 Worker(f, b) \/ \E q \in Peers : ReceiveFileBlock(q, f, b)
      <4>1. UNCHANGED alive
        BY <3>5 DEF Worker, TakeBlock, Resend, ReceiveFileBlock
      <4> QED BY <2>3, <4>1
    <3>6. CASE UNCHANGED vars BY <2>3, <3>6 DEF vars
    <3> QED BY <3>1, <3>2, <3>3, <3>4, <3>5, <3>6, SendersAssumption DEF Next, Gui, Calls
  <2>7. Waiting'
    <3>1. ASSUME NEW p \in Peers, SendFile(p) \/ Gui(p) PROVE Waiting'
      BY <3>1 DEF SendFile, Gui, EndGuiJoin, SendMeta, EndSendFile, OneInv, TypeInv, TypeOK
    <3>2. ASSUME NEW p \in Peers, AcceptTransfer(p) PROVE Waiting'
      BY <3>2 DEF AcceptTransfer, AcceptShown, IsRecv, OneInv, TypeInv, TypeOK
    <3>3. ASSUME NEW p \in Peers, NEW q \in Peers, Calls(q, p) PROVE Waiting'
      BY <3>3 DEF Calls, ReceiveFileMeta, EndRpcJoin, ReceiveFileTransferAccept, OneInv, TypeInv,
                  TypeOK
    <3>4. CASE \E f \in Files, b \in Blocks :
                 Worker(f, b) \/ \E q \in Peers : ReceiveFileBlock(q, f, b)
      BY <3>4 DEF Worker, TakeBlock, Resend, ReceiveFileBlock, guiVars
    <3>5. CASE UNCHANGED vars BY <3>5 DEF vars, guiVars
    <3> QED BY <3>1, <3>2, <3>3, <3>4, <3>5, SendersAssumption DEF Next
  <2> QED BY <2>6, <2>7
<1>3. I => OnlyStrayAcceptsKill BY DEF OnlyStrayAcceptsKill
<1> QED BY <1>1, <1>2, <1>3, PTL DEF Safety

-----------------------------------------------------------------------------
(* Both processes may send.                                                *)

TwoInv == TypeInv /\ OfferInv /\ CrossInv

LEMMA InitTwo == Init => TwoInv
<1> SUFFICES ASSUME Init PROVE OfferInv /\ CrossInv
  BY InitTypes DEF TwoInv
<1> QED BY DEF Init, OfferInv, CrossInv, IsSend, Started

\* The file p offers has a number of its own, and p is its sender.
LEMMA OfferedTypes ==
  ASSUME TypeInv, NEW p \in Peers, gui[p] \notin {"idle", "accepting"}
  PROVE  Offered(p) \in Files /\ Offered(p)[1] = p
<1>1. p \in Senders /\ sent[p] \in 1 .. MaxFiles
  BY BoundsAssumption DEF TypeInv, TypeOK, GuiInv
<1> QED BY <1>1, FileFacts DEF Offered

LEMMA SlotTypes ==
  ASSUME TypeInv, NEW q \in Peers
  PROVE  /\ IsSend(q) => slot[q] \in Files /\ slot[q][1] = q
         /\ rpcJoins[q] \in Files \cup {None}
BY DEF TypeInv, TypeOK, IsSend

\* Steps that start nothing and leave the slots and the destructors alone.
LEMMA QuietStep ==
  ASSUME TwoInv, UNCHANGED <<slot, sent, rpcVars, startedFor>>,
         \A p \in Peers :
           \/ gui'[p] = gui[p]
           \/ gui'[p] = "idle" /\ gui[p] # "handled"
           \/ gui[p] \notin {"idle", "accepting", "handled"} /\ gui'[p] # "accepting"
           \/ gui'[p] = "accepting" /\ gui[p] = "idle" /\ ~IsSend(p) /\ rpcJoins[p] = None
  PROVE  OfferInv' /\ CrossInv'
<1>1. /\ \A p \in Peers : IsSend(p)' = IsSend(p) /\ Offered(p)' = Offered(p)
      /\ \A f \in Files : Started(f)' = Started(f)
      /\ \A q \in Peers : Started(slot[q])' = Started(slot[q])
      /\ \A q \in Peers : Started(rpcJoins[q])' = Started(rpcJoins[q])
      /\ \A q \in Peers : Started(Offered(q))' = Started(Offered(q))
  BY DEF IsSend, Offered, Started, rpcVars
<1>2. OfferInv'
  BY <1>1 DEF TwoInv, OfferInv, rpcVars
<1>3. CrossInv'
  BY <1>1 DEF TwoInv, CrossInv, rpcVars
<1> QED BY <1>2, <1>3

LEMMA CrossSendFile ==
  ASSUME TwoInv, NEW s \in Senders, SendFile(s)
  PROVE  OfferInv' /\ CrossInv'
<1>1. /\ s \in Peers /\ gui[s] = "idle" /\ sent[s] \in Nat /\ sent[s] + 1 \in 1 .. MaxFiles
      /\ sent' = [sent EXCEPT ![s] = sent[s] + 1]
      /\ slot' = [slot EXCEPT ![s] = <<s, sent[s] + 1>>]
      /\ gui' = [gui EXCEPT ![s] = "joining"]
      /\ UNCHANGED <<rpc, rpcJoins, startedFor>>
  BY SendersAssumption, BoundsAssumption DEF SendFile, TwoInv, TypeInv, TypeOK, rpcVars, workerVars
<1>2. PICK f \in Files : f = <<s, sent[s] + 1>> /\ f[1] = s /\ f[2] = sent[s] + 1
  <2>1. <<s, sent[s] + 1>> \in Files /\ <<s, sent[s] + 1>>[1] = s
        /\ <<s, sent[s] + 1>>[2] = sent[s] + 1
    BY <1>1, FileFacts
  <2> QED BY <2>1
<1>3. f # None BY <1>2, NoneAssumption
<1>4. /\ slot'[s] = f /\ \A q \in Peers : q # s => slot'[q] = slot[q]
      /\ gui'[s] = "joining" /\ \A q \in Peers : q # s => gui'[q] = gui[q]
      /\ sent'[s] = sent[s] + 1 /\ \A q \in Peers : q # s => sent'[q] = sent[q]
  BY <1>1, <1>2 DEF TwoInv, TypeInv, TypeOK
<1>5. Offered(s)' = f /\ \A q \in Peers : q # s => Offered(q)' = Offered(q)
  BY <1>2, <1>4 DEF Offered
<1>6. \A g \in Files : Started(g)' = Started(g)
  BY <1>1 DEF Started
<1>7. ~Started(f)
  BY <1>1, <1>2 DEF TwoInv, OfferInv
<1>8. \A q \in Peers : q # s => (IsSend(q)' = IsSend(q))
  BY <1>4 DEF IsSend
<1>9. OfferInv'
  <2>1. \A q \in Peers : IsSend(q)' => slot'[q] = Offered(q)'
    BY <1>4, <1>5, <1>8 DEF TwoInv, OfferInv
  <2>2. ASSUME NEW g \in Files, Started(g)' PROVE g[2] <= sent'[g[1]]
    <3>1. g[1] \in Peers /\ g[2] \in Nat /\ sent[g[1]] \in Nat /\ g[2] <= sent[g[1]]
      BY <1>6, <2>2, FileFacts, BoundsAssumption DEF TwoInv, OfferInv, TypeInv, TypeOK
    <3> QED BY <1>4, <3>1
  <2>3. \A q \in Peers : gui'[q] = "accepting" => ~IsSend(q)' /\ rpcJoins'[q] = None
    BY <1>1, <1>4, <1>8 DEF TwoInv, OfferInv
  <2>4. \A q \in Peers : rpcJoins'[q] # None => rpc'[q] = "joining"
    BY <1>1 DEF TwoInv, OfferInv
  <2>5. \A p, q \in Peers : p # q /\ rpc'[q] = "joining" => gui'[p] = "handled"
    BY <1>1, <1>4 DEF TwoInv, OfferInv
  <2> QED BY <2>1, <2>2, <2>3, <2>4, <2>5 DEF OfferInv
<1>10. \A q \in Peers : q # s => rpcJoins[q] = None
  BY <1>1 DEF TwoInv, OfferInv
<1>11. ASSUME NEW p \in Peers, NEW q \in Peers, p # q
       PROVE  /\ gui'[p] \notin {"idle", "accepting"} /\ IsSend(q)' /\ Started(slot[q])'
                   => ~Started(Offered(p))'
              /\ rpcJoins'[q] # None /\ Started(rpcJoins[q])' => ~Started(Offered(p))'
              /\ rpcJoins'[p] # None /\ rpcJoins'[q] # None
                   => rpcJoins'[p] = Offered(p)' \/ rpcJoins'[q] = Offered(q)'
  <2>1. ~Started(f)' BY <1>1, <1>7 DEF Started
  <2>2. CASE p = s
    <3>1. ~Started(Offered(p))' BY <1>5, <2>1, <2>2 DEF Started
    <3>2. rpcJoins'[q] = None BY <1>1, <1>10, <1>11, <2>2
    <3> QED BY <3>1, <3>2
  <2>3. CASE q = s
    <3>1. ~Started(slot[q])' BY <1>4, <2>1, <2>3 DEF Started
    <3>2. /\ rpcJoins'[p] = None /\ rpcJoins'[q] = rpcJoins[q] /\ Offered(p)' = Offered(p)
      BY <1>1, <1>5, <1>10, <1>11, <2>3
    <3>3. Started(rpcJoins[q])' = Started(rpcJoins[q])
          /\ Started(Offered(p))' = Started(Offered(p))
      BY <1>1, <3>2 DEF Started
    <3>4. rpcJoins[q] # None /\ Started(rpcJoins[q]) => ~Started(Offered(p))
      BY <1>11 DEF TwoInv, CrossInv
    <3> QED BY <3>1, <3>2, <3>3, <3>4
  <2>4. p = s \/ q = s BY <1>1, <1>11, PeersAssumption
  <2> QED BY <2>2, <2>3, <2>4
<1>12. CrossInv' BY <1>11 DEF CrossInv
<1> QED BY <1>9, <1>12

LEMMA CrossFileMeta ==
  ASSUME TwoInv, NEW s \in Peers, NEW r \in Peers, ReceiveFileMeta(r, s)
  PROVE  OfferInv' /\ CrossInv'
<1>1. /\ s # r /\ rpc[r] = "idle" /\ gui[s] = "offering"
      /\ slot'[r] = Offered(s) /\ slot'[s] = slot[s]
      /\ rpcJoins'[r] = IF IsSend(r) THEN slot[r] ELSE None
      /\ rpcJoins'[s] = rpcJoins[s]
      /\ rpc'[r] = "joining" /\ rpc'[s] = rpc[s]
      /\ gui'[s] = "handled" /\ gui'[r] = gui[r]
      /\ UNCHANGED <<sent, startedFor>>
  BY DEF ReceiveFileMeta, CanHandle, TwoInv, TypeInv, TypeOK, workerVars
<1>2. \A p \in Peers : p = s \/ p = r
  BY <1>1, PeersAssumption
<1>3. Offered(s) \in Files /\ Offered(s)[1] = s
  BY <1>1, OfferedTypes DEF TwoInv
<1>4. ~IsSend(r)' /\ IsSend(s)' = IsSend(s)
  BY <1>1, <1>3 DEF IsSend
<1>5. Offered(s)' = Offered(s) /\ Offered(r)' = Offered(r)
  BY <1>1 DEF Offered
<1>6. /\ \A f \in Files : Started(f)' = Started(f)
      /\ Started(Offered(s))' = Started(Offered(s)) /\ Started(Offered(r))' = Started(Offered(r))
      /\ Started(slot[s])' = Started(slot[s]) /\ Started(rpcJoins[s])' = Started(rpcJoins[s])
      /\ IsSend(r) => Started(rpcJoins[r])' = Started(slot[r])
  BY <1>1, <1>5 DEF Started
<1>8. OfferInv'
  <2>1. \A q \in Peers : IsSend(q)' => slot'[q] = Offered(q)'
    BY <1>1, <1>2, <1>4, <1>5 DEF TwoInv, OfferInv
  <2>2. \A f \in Files : Started(f)' => f[2] <= sent'[f[1]]
    BY <1>1, <1>6 DEF TwoInv, OfferInv
  <2>3. \A q \in Peers : gui'[q] = "accepting" => ~IsSend(q)' /\ rpcJoins'[q] = None
    BY <1>1, <1>2, <1>4 DEF TwoInv, OfferInv
  <2>4. \A q \in Peers : rpcJoins'[q] # None => rpc'[q] = "joining"
    BY <1>1, <1>2 DEF TwoInv, OfferInv
  <2>5. \A p, q \in Peers : p # q /\ rpc'[q] = "joining" => gui'[p] = "handled"
    BY <1>1, <1>2 DEF TwoInv, OfferInv
  <2> QED BY <2>1, <2>2, <2>3, <2>4, <2>5 DEF OfferInv
<1>7. CrossInv'
  <2>1. ASSUME rpcJoins'[r] # None
        PROVE  IsSend(r) /\ rpcJoins'[r] = slot[r] /\ slot[r] = Offered(r)
    BY <1>1, <2>1 DEF TwoInv, OfferInv
  <2>2. ASSUME rpcJoins'[r] # None, Started(rpcJoins[r])' PROVE ~Started(Offered(s))'
    BY <1>1, <1>6, <2>1, <2>2 DEF TwoInv, CrossInv
  <2>3. /\ gui[r] \notin {"idle", "accepting"} /\ IsSend(s) /\ Started(slot[s])
             => ~Started(Offered(r))
        /\ rpcJoins[s] # None /\ Started(rpcJoins[s]) => ~Started(Offered(r))
    BY <1>1 DEF TwoInv, CrossInv
  <2> QED BY <1>1, <1>2, <1>4, <1>5, <1>6, <2>1, <2>2, <2>3 DEF CrossInv
<1> QED BY <1>7, <1>8

LEMMA CrossEndRpcJoin ==
  ASSUME TwoInv, NEW s \in Peers, NEW r \in Peers, EndRpcJoin(r, s)
  PROVE  OfferInv' /\ CrossInv'
<1>1. /\ s # r /\ rpc[r] = "joining" /\ gui[s] = "handled"
      /\ rpcJoins'[r] = None /\ rpcJoins'[s] = rpcJoins[s]
      /\ rpc'[r] = "idle" /\ rpc'[s] = rpc[s]
      /\ gui'[s] = "answered" /\ gui'[r] = gui[r]
      /\ UNCHANGED <<slot, sent, startedFor>>
  BY DEF EndRpcJoin, TwoInv, TypeInv, TypeOK, workerVars
<1>2. \A p \in Peers : p = s \/ p = r
  BY <1>1, PeersAssumption
<1>3. \A p \in Peers : /\ IsSend(p)' = IsSend(p) /\ Offered(p)' = Offered(p)
                       /\ Started(slot[p])' = Started(slot[p])
                       /\ Started(Offered(p))' = Started(Offered(p))
  BY <1>1 DEF IsSend, Offered, Started
<1>4. Started(rpcJoins[s])' = Started(rpcJoins[s]) /\ \A f \in Files : Started(f)' = Started(f)
  BY <1>1 DEF Started
<1>5. OfferInv'
  <2>1. \A p, q \in Peers : p # q /\ rpc'[q] = "joining" => gui'[p] = "handled"
    BY <1>1, <1>2 DEF TwoInv, OfferInv
  <2>2. \A q \in Peers : /\ gui'[q] = "accepting" => ~IsSend(q)' /\ rpcJoins'[q] = None
                         /\ rpcJoins'[q] # None => rpc'[q] = "joining"
    BY <1>1, <1>2, <1>3 DEF TwoInv, OfferInv
  <2> QED BY <1>1, <1>3, <1>4, <2>1, <2>2 DEF TwoInv, OfferInv
<1>6. CrossInv'
  BY <1>1, <1>2, <1>3, <1>4 DEF TwoInv, CrossInv
<1> QED BY <1>5, <1>6

LEMMA CrossTransferAccept ==
  ASSUME TwoInv, NEW s \in Peers, NEW r \in Peers, ReceiveFileTransferAccept(s, r)
  PROVE  OfferInv' /\ CrossInv'
<1>1. /\ s # r /\ rpc[s] = "idle" /\ gui[r] = "accepting"
      /\ gui'[r] = "idle" /\ gui'[s] = gui[s]
      /\ UNCHANGED <<slot, sent, rpc, rpcJoins>>
  BY DEF ReceiveFileTransferAccept, CanHandle, TwoInv, TypeInv, TypeOK, rpcVars
<1>2. \A p \in Peers : p = s \/ p = r
  BY <1>1, PeersAssumption
<1>3. /\ ~IsSend(r) /\ rpcJoins[r] = None /\ rpcJoins[s] = None
      /\ rpc[s] # "joining"
  BY <1>1 DEF TwoInv, OfferInv
<1>4. \A p \in Peers : IsSend(p)' = IsSend(p) /\ Offered(p)' = Offered(p)
  BY <1>1 DEF IsSend, Offered
<1>5. \A f \in Files : Started(f)' => f[2] <= sent'[f[1]]
  <2>1. CASE UNCHANGED startedFor
    BY <1>1, <2>1 DEF Started, TwoInv, OfferInv
  <2>2. CASE IsSend(s) /\ startedFor' = [startedFor EXCEPT ![slot[s]] = accepting[r]]
    <3>1. slot[s] \in Files /\ slot[s][1] = s /\ slot[s] = Offered(s)
      BY <2>2, SlotTypes DEF TwoInv, OfferInv
    <3>2. slot[s][2] = sent[s] /\ sent[s] \in Nat
      BY <3>1, BoundsAssumption DEF Offered, TwoInv, TypeInv, TypeOK
    <3>3. \A f \in Files : f # slot[s] => startedFor'[f] = startedFor[f]
      BY <2>2 DEF TwoInv, TypeInv, TypeOK
    <3>4. ASSUME NEW f \in Files, Started(f)' PROVE f[2] <= sent'[f[1]]
      <4>1. CASE f = slot[s] BY <1>1, <3>1, <3>2, <4>1
      <4>2. CASE f # slot[s]
        <5>1. Started(f) BY <3>3, <3>4, <4>2 DEF Started
        <5> QED BY <1>1, <5>1 DEF TwoInv, OfferInv
      <4> QED BY <4>1, <4>2
    <3> QED BY <3>4
  <2> QED BY <2>1, <2>2 DEF ReceiveFileTransferAccept
<1>6. OfferInv'
  BY <1>1, <1>2, <1>3, <1>4, <1>5 DEF TwoInv, OfferInv
<1>7. CrossInv'
  BY <1>1, <1>2, <1>3, <1>4 DEF CrossInv
<1> QED BY <1>6, <1>7

LEMMA TwoStep == TwoInv /\ [Next]_vars => TwoInv'
<1> SUFFICES ASSUME TwoInv, [Next]_vars PROVE OfferInv' /\ CrossInv'
  BY NextTypes DEF TwoInv
<1>1. CASE UNCHANGED vars
  BY <1>1, QuietStep DEF vars, guiVars, rpcVars, workerVars
<1>2. ASSUME NEW p \in Peers, Gui(p) PROVE OfferInv' /\ CrossInv'
  <2>1. UNCHANGED <<slot, sent, rpcVars, startedFor>>
    BY <1>2 DEF Gui, EndGuiJoin, SendMeta, EndSendFile, workerVars
  <2>2. /\ \A q \in Peers : q # p => gui'[q] = gui[q]
        /\ \/ gui'[p] = gui[p]
           \/ gui'[p] = "idle" /\ gui[p] # "handled"
           \/ gui[p] \notin {"idle", "accepting", "handled"} /\ gui'[p] # "accepting"
    BY <1>2 DEF Gui, EndGuiJoin, SendMeta, EndSendFile, TwoInv, TypeInv, TypeOK
  <2> QED BY <2>1, <2>2, QuietStep
<1>3. ASSUME NEW p \in Peers, AcceptTransfer(p) PROVE OfferInv' /\ CrossInv'
  <2>1. UNCHANGED <<slot, sent, rpcVars, startedFor>>
    BY <1>3 DEF AcceptTransfer, workerVars
  <2>2. /\ \A q \in Peers : q # p => gui'[q] = gui[q]
        /\ gui'[p] = "accepting" /\ gui[p] = "idle" /\ ~IsSend(p) /\ rpcJoins[p] = None
    BY <1>3 DEF AcceptTransfer, AcceptShown, IsRecv, IsSend, TwoInv, TypeInv, TypeOK, OfferInv
  <2> QED BY <2>1, <2>2, QuietStep
<1>4. ASSUME NEW f \in Files, NEW b \in Blocks,
             Worker(f, b) \/ \E q \in Peers : ReceiveFileBlock(q, f, b)
      PROVE  OfferInv' /\ CrossInv'
  <2>1. UNCHANGED <<slot, sent, gui, rpcVars, startedFor>>
    BY <1>4 DEF Worker, TakeBlock, Resend, ReceiveFileBlock, guiVars
  <2> QED BY <2>1, QuietStep
<1>5. ASSUME NEW p \in Peers, NEW q \in Peers, Calls(q, p) PROVE OfferInv' /\ CrossInv'
  BY <1>5, CrossFileMeta, CrossEndRpcJoin, CrossTransferAccept DEF Calls
<1> QED BY <1>1, <1>2, <1>3, <1>4, <1>5, CrossSendFile DEF Next

\* However the two senders cross, one of the two RPC threads is not in a destructor
\* that waits for workers.
THEOREM OneAnswers == Safety => []OneServerAnswers
<1>1. TwoInv => OneServerAnswers
  <2> SUFFICES ASSUME TwoInv, \A p \in Peers : RpcStuck(p) PROVE FALSE
    BY DEF OneServerAnswers
  <2>1. PICK p \in Peers, q \in Peers : p # q
    BY PeersAssumption
  <2>2. /\ rpcJoins[p] # None /\ Started(rpcJoins[p])
        /\ rpcJoins[q] # None /\ Started(rpcJoins[q])
    BY DEF RpcStuck, Destroyed
  <2>3. ~Started(Offered(p)) /\ ~Started(Offered(q))
    BY <2>1, <2>2 DEF TwoInv, CrossInv
  <2>4. rpcJoins[p] = Offered(p) \/ rpcJoins[q] = Offered(q)
    BY <2>1, <2>2 DEF TwoInv, CrossInv
  <2> QED BY <2>2, <2>3, <2>4
<1> QED BY <1>1, InitTwo, TwoStep, PTL DEF Safety
=============================================================================
