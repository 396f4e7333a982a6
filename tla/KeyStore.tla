------------------------------ MODULE KeyStore ------------------------------
(***************************************************************************)
(* The key pair of a process and the files it is kept in: generating,      *)
(* loading and saving on the GUI thread, one file operation at a time, and *)
(* the end of the process between any two of them.                         *)
(*                                                                         *)
(* A pair is saved as two files, NAME.key with the encrypted private key   *)
(* and NAME.pub; a private key and its public key have the same number.    *)
(* Opening a file to write empties it, the small content reaches it when   *)
(* it is closed.  Any opening and any writing may fail.                    *)
(***************************************************************************)
EXTENDS Naturals

CONSTANTS
  Names,      \* file names without extension
  Passes,     \* passphrases
  MaxKeys,    \* bound: key pairs generated
  Missing,    \* content of a file that does not exist
  Empty       \* content of a file that was emptied and not written

Keys == 1 .. MaxKeys
Sealed == [key : Keys, pass : Passes]

ASSUME KeysAssumption == MaxKeys \in Nat \ {0}
ASSUME ContentsAssumption ==
  Missing # Empty /\ {Missing, Empty} \cap (Keys \cup Sealed) = {}

VARIABLES
  keys,          \* key pairs generated so far
  privateKey,
  publicKey,
  keyFile,       \* per name: the content of NAME.key
  pubFile,       \* per name: the content of NAME.pub
  gui,           \* what the key manager does next
  name,          \* the name it loads from or saves to
  pass,          \* the passphrase it saves with
  fingerprint,   \* the key whose fingerprint is shown
  notice,        \* the message shown last
  (* history *)
  loose,         \* the pair came from files that need not belong together
  failed,        \* a step of the save under way has failed
  damaged,       \* per name: the last save did not come to a good end
  saved          \* per name: what the user was told was saved last

memory == <<keys, privateKey, publicKey, loose>>
files == <<keyFile, pubFile, damaged>>
shown == <<fingerprint, notice>>
vars == <<memory, files, gui, name, pass, shown, failed, saved>>

Init ==
  /\ keys = 1
  /\ privateKey = 1
  /\ publicKey = 1
  /\ keyFile = [n \in Names |-> Missing]
  /\ pubFile = [n \in Names |-> Missing]
  /\ gui = "idle"
  /\ name \in Names
  /\ pass \in Passes
  /\ fingerprint = 1
  /\ notice = "none"
  /\ loose = FALSE
  /\ failed = FALSE
  /\ damaged = [n \in Names |-> FALSE]
  /\ saved = [n \in Names |-> Missing]

-----------------------------------------------------------------------------
(* Generating; the end of the process and its next start.                  *)

GenerateKey ==
  /\ keys < MaxKeys
  /\ keys' = keys + 1
  /\ privateKey' = keys'
  /\ publicKey' = keys'
  /\ loose' = FALSE

GenKeyPair ==
  /\ gui = "idle"
  /\ GenerateKey
  /\ fingerprint' = privateKey'
  /\ notice' = "generated"
  /\ UNCHANGED <<files, gui, name, pass, failed, saved>>

\* The process ends, at whatever it was; the constructors of AppState and
\* KeyManager run again.
Restart ==
  /\ GenerateKey
  /\ fingerprint' = privateKey'
  /\ notice' = "none"
  /\ gui' = "idle"
  /\ UNCHANGED <<files, name, pass, failed, saved>>

-----------------------------------------------------------------------------
(* Loading.                                                                *)

\* LoadPrivateKey decrypts the file and derives the public key; a wrong
\* passphrase or an empty file fails the MAC and changes nothing.  MutDerived
\* leaves the public key to LoadPublicKey.
MutDerived(k) == publicKey

Derived(k) == k

LoadPrivateKey(n, p) ==
  /\ gui = "idle"
  /\ keyFile[n] \in Sealed
  /\ keyFile[n].pass = p
  /\ privateKey' = keyFile[n].key
  /\ publicKey' = Derived(keyFile[n].key)
  /\ loose' = FALSE
  /\ name' = n
  /\ gui' = "loadPub"
  /\ UNCHANGED <<keys, files, pass, shown, failed, saved>>

\* No file or not one of each kind, not readable, or the wrong passphrase.
CannotLoad ==
  /\ gui = "idle"
  /\ notice' = "cannot load"
  /\ UNCHANGED <<memory, files, gui, name, pass, fingerprint, failed, saved>>

\* LoadPublicKey reads what there is: an empty file leaves the derived key.
Read(n) == IF pubFile[n] = Empty THEN publicKey ELSE pubFile[n]

\* The .pub file has the name of the .key file or any other.
LoadPublicKey(n) ==
  /\ gui = "loadPub"
  /\ pubFile[n] # Missing
  /\ publicKey' = Read(n)
  /\ loose' = (n # name \/ damaged[n])
  /\ fingerprint' = privateKey
  /\ notice' = "loaded"
  /\ gui' = "idle"
  /\ UNCHANGED <<keys, privateKey, files, name, pass, failed, saved>>

\* The .pub file cannot be opened: the user is told that nothing was loaded and
\* the fingerprint stays.
CannotLoadPublic ==
  /\ gui = "loadPub"
  /\ notice' = "cannot load"
  /\ gui' = "idle"
  /\ UNCHANGED <<memory, files, name, pass, fingerprint, failed, saved>>

-----------------------------------------------------------------------------
(* Saving: trySaveKeyPair ignores what SavePrivateKey and SavePublicKey    *)
(* return, and these do not test their writes.                             *)

BeginSave(n, p) ==
  /\ gui = "idle"
  /\ name' = n
  /\ pass' = p
  /\ damaged' = [damaged EXCEPT ![n] = TRUE]
  /\ \/ /\ keyFile' = [keyFile EXCEPT ![n] = Empty]
        /\ gui' = "writeKey"
        /\ failed' = FALSE
     \/ /\ gui' = "openPub"
        /\ failed' = TRUE
        /\ UNCHANGED keyFile
  /\ UNCHANGED <<memory, pubFile, shown, saved>>

WriteKey ==
  /\ gui = "writeKey"
  /\ gui' = "openPub"
  /\ \/ /\ keyFile' = [keyFile EXCEPT ![name] = [key |-> privateKey, pass |-> pass]]
        /\ UNCHANGED failed
     \/ failed' = TRUE /\ UNCHANGED keyFile
  /\ UNCHANGED <<memory, pubFile, damaged, name, pass, shown, saved>>

OpenPub ==
  /\ gui = "openPub"
  /\ \/ /\ pubFile' = [pubFile EXCEPT ![name] = Empty]
        /\ gui' = "writePub"
        /\ UNCHANGED failed
     \/ /\ gui' = "notify"
        /\ failed' = TRUE
        /\ UNCHANGED pubFile
  /\ UNCHANGED <<memory, keyFile, damaged, name, pass, shown, saved>>

\* MutPublic writes the key of the fingerprint that is shown.
MutPublic == fingerprint

Public == publicKey

WritePub ==
  /\ gui = "writePub"
  /\ gui' = "notify"
  /\ \/ /\ pubFile' = [pubFile EXCEPT ![name] = Public]
        /\ UNCHANGED failed
     \/ failed' = TRUE /\ UNCHANGED pubFile
  /\ UNCHANGED <<memory, keyFile, damaged, name, pass, shown, saved>>

\* The fingerprint after a save.  MutAfterSave does not update it.
MutAfterSave == fingerprint

AfterSave == privateKey

\* "Current key pair saved to ...", whatever has happened.
NotifySaved ==
  /\ gui = "notify"
  /\ gui' = "idle"
  /\ notice' = "saved"
  /\ fingerprint' = AfterSave
  /\ damaged' = [damaged EXCEPT ![name] = failed \/ loose]
  /\ saved' = [saved EXCEPT ![name] = [key |-> privateKey, pass |-> pass]]
  /\ UNCHANGED <<memory, keyFile, pubFile, name, pass, failed>>

-----------------------------------------------------------------------------
Load ==
  \/ \E n \in Names, p \in Passes : LoadPrivateKey(n, p)
  \/ \E n \in Names : LoadPublicKey(n)
  \/ CannotLoad
  \/ CannotLoadPublic

Save ==
  \/ \E n \in Names, p \in Passes : BeginSave(n, p)
  \/ WriteKey
  \/ OpenPub
  \/ WritePub
  \/ NotifySaved

Next == GenKeyPair \/ Restart \/ Load \/ Save

Spec == Init /\ [][Next]_vars

-----------------------------------------------------------------------------
(* Properties.                                                             *)

TypeOK ==
  /\ keys \in Keys
  /\ privateKey \in Keys
  /\ publicKey \in Keys
  /\ keyFile \in [Names -> Sealed \cup {Missing, Empty}]
  /\ pubFile \in [Names -> Keys \cup {Missing, Empty}]
  /\ gui \in {"idle", "loadPub", "writeKey", "openPub", "writePub", "notify"}
  /\ name \in Names
  /\ pass \in Passes
  /\ fingerprint \in Keys
  /\ notice \in {"none", "generated", "loaded", "cannot load", "saved"}
  /\ loose \in BOOLEAN
  /\ failed \in BOOLEAN
  /\ damaged \in [Names -> BOOLEAN]
  /\ saved \in [Names -> Sealed \cup {Missing}]

\* The process can sign with the pair it hands out, unless the user loaded two
\* files of different names or of a save that did not come to a good end; such a
\* pair stays loose when it is saved and loaded again.
PairMatches == ~loose => publicKey = privateKey

\* The last pair that the user was told was saved under a name can be loaded from
\* it with its passphrase, unless a step of that save failed, or a later one under the
\* same name has failed or was cut off by the end of the process.  A loose pair need
\* not have been loadable in the first place; its save counts as a failed one.
SavedIsLoadable ==
  \A n \in Names :
    ~damaged[n] => /\ keyFile[n] = saved[n]
                   /\ keyFile[n] # Missing => pubFile[n] = keyFile[n].key

\* The fingerprint the user compares is that of the key in use, except after a
\* load that failed halfway, until the next message.
FingerprintIsCurrent ==
  gui # "loadPub" /\ notice # "cannot load" => fingerprint = privateKey

=============================================================================
