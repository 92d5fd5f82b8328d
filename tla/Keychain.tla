------------------------------- MODULE Keychain -------------------------------
(***************************************************************************)
(* The identity of the daemon's user: the private key in the system's key  *)
(* ring, its public key and the hub token in the store, and the private    *)
(* key cached in memory.  None of them is guarded by a lock, and a key is  *)
(* stored in three steps (storeKeyPair, then the cache).                   *)
(*                                                                         *)
(* Abstractions.  A private key, its public key and its mnemonic are one   *)
(* member of Key; which of the variables holds it says which of them it    *)
(* is.  Tokens are there or not: nothing ties them to the key.  A key      *)
(* imported from a local backup has an empty mnemonic, which no property   *)
(* here tells apart.  The key ring can be opened.                          *)
(***************************************************************************)
EXTENDS Naturals

CONSTANTS Key, None

VARIABLES
  ring,     \* the key ring's item: private key and mnemonic
  pub,      \* PublicKeyStoreKey in the store
  privKey,  \* the cached private key
  token     \* the store has hub tokens that have not expired

keys == <<ring, pub, privKey>>
KeyOrNone == Key \cup {None}

KeychainTypeOK ==
  /\ ring \in KeyOrNone /\ pub \in KeyOrNone /\ privKey \in KeyOrNone
  /\ token \in BOOLEAN

\* What earlier runs of the daemon may have left: a crash between two steps of
\* storeKeyPair, DeleteKeypair or DropAll leaves any two of them.
KeychainInit ==
  /\ ring \in KeyOrNone /\ pub \in KeyOrNone /\ privKey = None
  /\ token \in BOOLEAN

GetStoredPublicKey == IF ring = None THEN None ELSE pub

\* The private key of GetStoredKeyPairInLibP2PFormat; the mnemonic comes from
\* the ring at all times.
GetStoredKeyPair ==
  IF GetStoredPublicKey = None THEN None
  ELSE IF privKey # None THEN privKey ELSE ring

CacheKeyPair ==
  privKey' = IF GetStoredKeyPair = None THEN privKey ELSE GetStoredKeyPair

\* storeKeyPair and what follows it, step by step.
RingSet(k) == ring' = k /\ UNCHANGED <<pub, privKey>>
PubSet(k) == pub' = k /\ UNCHANGED <<ring, privKey>>
CacheSet(k) == privKey' = k /\ UNCHANGED <<ring, pub>>

\* The error of the ring's removal is overwritten by that of the store's.
DeleteKeypair(ok) ==
  /\ ring' \in {None, ring}
  /\ IF ok THEN pub' = None /\ privKey' = None ELSE UNCHANGED <<pub, privKey>>

\* Tokens that have expired are not retrieved any more, and are overwritten.
ExpireTokens == token /\ token' = FALSE /\ UNCHANGED keys

\* store.DropAll: everything but the ring and the memory.
DropAll == pub' = None /\ token' = FALSE /\ UNCHANGED <<ring, privKey>>

===============================================================================
