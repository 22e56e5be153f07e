------------------------------ MODULE KeyTerms ------------------------------
(***************************************************************************)
(* Hashes and keys as terms, shared by the HES and the RMM.  A term is     *)
(* equal to another exactly when it was made from the same inputs, which   *)
(* is what the code assumes of SHA-2, HKDF and ECDSA.                      *)
(***************************************************************************)
CONSTANTS None, Junk    \* no value; bytes that are not what was asked for

(* A seed is HKDF of a secret, a context and a label; a key is a seed and a salt. *)
GenerateSeed(secret, context, label) == [secret |-> secret, context |-> context, label |-> label]
DeriveKey(seed, salt) == [seed |-> seed, salt |-> salt]

(* The hash of a key's public part. *)
PublicKeyHash(algo, key) == [hash |-> algo, of |-> key]
=============================================================================
