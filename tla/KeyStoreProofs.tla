--------------------------- MODULE KeyStoreProofs ---------------------------
(***************************************************************************)
(* Proofs about KeyStore, for any names, passphrases and number of pairs.  *)
(***************************************************************************)
EXTENDS KeyStore, TLAPS

Saving == gui \in {"writeKey", "openPub", "writePub", "notify"}

\* What the steps of a save have done so far, if none of them failed.
SaveInv ==
  /\ Saving => damaged[name]
  /\ gui \in {"openPub", "writePub", "notify"} /\ ~failed
       => keyFile[name] = [key |-> privateKey, pass |-> pass]
  /\ gui = "notify" /\ ~failed => pubFile[name] = publicKey

\* What the first half of a load has done.
LoadInv ==
  gui = "loadPub" =>
    /\ publicKey = privateKey
    /\ ~loose
    /\ keyFile[name] \in Sealed
    /\ keyFile[name].key = privateKey

IInv ==
  /\ TypeOK
  /\ SaveInv
  /\ LoadInv
  /\ PairMatches
  /\ SavedIsLoadable
  /\ FingerprintIsCurrent

-----------------------------------------------------------------------------
\* The contents of an intact pair of files are a sealed private key and its own
\* public key.
LEMMA IntactPair ==
  ASSUME TypeOK, SavedIsLoadable, NEW n \in Names, ~damaged[n], keyFile[n] # Missing
  PROVE  keyFile[n] \in Sealed /\ pubFile[n] = keyFile[n].key
  BY DEF TypeOK, SavedIsLoadable

LEMMA InitInv == Init => IInv
<1>1. 1 \in Keys
  BY KeysAssumption DEF Keys
<1> QED
  BY <1>1 DEF Init, IInv, TypeOK, SaveInv, Saving, LoadInv, PairMatches, SavedIsLoadable,
              FingerprintIsCurrent

LEMMA GenerateInv ==
  ASSUME IInv, GenKeyPair \/ Restart
  PROVE  IInv'
<1>1. keys' \in Keys
  <2>1. keys \in Keys /\ keys < MaxKeys /\ keys' = keys + 1
    BY Zenon DEF IInv, TypeOK, GenKeyPair, Restart, GenerateKey
  <2> QED
    BY <2>1, KeysAssumption DEF Keys
<1> USE <1>1 DEF IInv, TypeOK, GenerateKey, GenKeyPair, Restart, files, SaveInv, Saving,
                 LoadInv, PairMatches, SavedIsLoadable, FingerprintIsCurrent
<1>2. TypeOK'
  OBVIOUS
<1>3. (SaveInv /\ LoadInv)'
  OBVIOUS
<1>4. (PairMatches /\ SavedIsLoadable /\ FingerprintIsCurrent)'
  OBVIOUS
<1> QED
  BY <1>2, <1>3, <1>4

LEMMA LoadKeepsInv ==
  ASSUME IInv, Load
  PROVE  IInv'
<1> USE DEF IInv, SaveInv, Saving, LoadInv, PairMatches, SavedIsLoadable,
            FingerprintIsCurrent, files, shown, memory
<1>1. ASSUME NEW n \in Names, NEW p \in Passes, LoadPrivateKey(n, p) PROVE IInv'
  <2>1. TypeOK'
    BY <1>1 DEF TypeOK, LoadPrivateKey, Derived, Sealed
  <2> QED
    BY <1>1, <2>1 DEF LoadPrivateKey, Derived
<1>2. ASSUME NEW n \in Names, LoadPublicKey(n) PROVE IInv'
  <2>1. TypeOK'
    BY <1>2 DEF TypeOK, LoadPublicKey, Read
  <2>2. PairMatches'
    <3> SUFFICES ASSUME ~loose' PROVE publicKey' = privateKey'
      OBVIOUS
    <3>1. n = name /\ ~damaged[name] /\ gui = "loadPub"
      BY <1>2 DEF LoadPublicKey
    <3>2. keyFile[name] # Missing
      BY <3>1, ContentsAssumption
    <3>3. pubFile[name] = privateKey
      BY <3>1, <3>2, IntactPair
    <3> QED
      BY <1>2, <3>1, <3>3 DEF LoadPublicKey, Read
  <2>3. (SaveInv /\ LoadInv /\ SavedIsLoadable /\ FingerprintIsCurrent)'
    BY <1>2 DEF LoadPublicKey
  <2> QED
    BY <2>1, <2>2, <2>3
<1>3. ASSUME CannotLoad \/ CannotLoadPublic PROVE IInv'
  BY <1>3 DEF CannotLoad, CannotLoadPublic, TypeOK
<1> QED
  BY <1>1, <1>2, <1>3 DEF Load

LEMMA SaveKeepsInv ==
  ASSUME IInv, Save
  PROVE  IInv'
<1> USE DEF IInv, SaveInv, Saving, LoadInv, PairMatches, SavedIsLoadable,
            FingerprintIsCurrent, files, shown, memory
<1>1. ASSUME NEW n \in Names, NEW p \in Passes, BeginSave(n, p) PROVE IInv'
  BY <1>1 DEF BeginSave, TypeOK
<1>2. CASE WriteKey
  <2>1. [key |-> privateKey, pass |-> pass] \in Sealed
    BY DEF TypeOK, Sealed
  <2>2. TypeOK'
    BY <1>2, <2>1 DEF WriteKey, TypeOK
  <2>3. damaged[name] /\ name \in Names /\ keyFile \in [Names -> Sealed \cup {Missing, Empty}]
    BY <1>2 DEF WriteKey, TypeOK
  <2>4. SaveInv'
    BY <1>2, <2>3 DEF WriteKey
  <2>5. SavedIsLoadable'
    BY <1>2, <2>3 DEF WriteKey
  <2>6. (LoadInv /\ PairMatches /\ FingerprintIsCurrent)'
    BY <1>2 DEF WriteKey
  <2> QED
    BY <2>2, <2>4, <2>5, <2>6
<1>3. CASE OpenPub
  BY <1>3 DEF OpenPub, TypeOK
<1>4. CASE WritePub
  BY <1>4 DEF WritePub, Public, TypeOK
<1>5. CASE NotifySaved
  <2>1. [key |-> privateKey, pass |-> pass] \in Sealed
    BY DEF TypeOK, Sealed
  <2>2. TypeOK'
    BY <1>5, <2>1 DEF NotifySaved, AfterSave, TypeOK
  <2>3. SavedIsLoadable'
    <3> SUFFICES ASSUME NEW n \in Names, ~damaged'[n]
                 PROVE  /\ keyFile'[n] = saved'[n]
                        /\ keyFile'[n] # Missing => pubFile'[n] = keyFile'[n].key
      OBVIOUS
    <3>1. CASE n = name
      <4>1. ~failed /\ ~loose /\ gui = "notify"
        BY <1>5, <3>1 DEF NotifySaved, TypeOK
      <4>2. /\ keyFile[name] = [key |-> privateKey, pass |-> pass]
            /\ pubFile[name] = privateKey
        BY <4>1
      <4>3. saved'[name] = [key |-> privateKey, pass |-> pass]
        BY <1>5 DEF NotifySaved, TypeOK
      <4>4. keyFile' = keyFile /\ pubFile' = pubFile
        BY <1>5 DEF NotifySaved
      <4>5. [key |-> privateKey, pass |-> pass].key = privateKey
        OBVIOUS
      <4> QED
        BY <3>1, <4>2, <4>3, <4>4, <4>5, Zenon
    <3>2. CASE n # name
      BY <1>5, <3>2 DEF NotifySaved, TypeOK
    <3> QED
      BY <3>1, <3>2
  <2>4. (SaveInv /\ LoadInv /\ PairMatches /\ FingerprintIsCurrent)'
    BY <1>5 DEF NotifySaved, AfterSave
  <2> QED
    BY <2>2, <2>3, <2>4
<1> QED
  BY <1>1, <1>2, <1>3, <1>4, <1>5 DEF Save

\* IInv holds in every reachable state: what the steps of a save and of a load
\* leave behind, whichever of them fail and wherever the process ends.
THEOREM InductiveInvariant == Spec => []IInv
<1>1. IInv /\ [Next]_vars => IInv'
  <2> SUFFICES ASSUME IInv, [Next]_vars PROVE IInv'
    OBVIOUS
  <2>1. CASE UNCHANGED vars
    BY <2>1 DEF vars, memory, files, shown, IInv, TypeOK, SaveInv, Saving, LoadInv,
                PairMatches, SavedIsLoadable, FingerprintIsCurrent
  <2> QED
    BY <2>1, GenerateInv, LoadKeepsInv, SaveKeepsInv DEF Next
<1> QED
  BY InitInv, <1>1, PTL DEF Spec

\* Types: no load or save leaves the marks of an unwritten file in memory.
THEOREM TypeCorrect == Spec => []TypeOK
  BY InductiveInvariant, PTL DEF IInv

\* The pair in use belongs together, whatever loads failed halfway and whatever
\* saves were cut off, unless the files it came from need not belong together.
THEOREM PairsMatch == Spec => []PairMatches
  BY InductiveInvariant, PTL DEF IInv

\* What the user was last told was saved under a name is in its two files, unless
\* that save or a later one under this name went wrong.
THEOREM SavedLoads == Spec => []SavedIsLoadable
  BY InductiveInvariant, PTL DEF IInv

\* The fingerprint shown is that of the private key in use, except after a load
\* that failed.
THEOREM FingerprintCorrect == Spec => []FingerprintIsCurrent
  BY InductiveInvariant, PTL DEF IInv
=============================================================================
