----------------------------- MODULE ServerKeys -----------------------------
(***************************************************************************)
(* ServerIdentity of backend/services/security_service.py: the ML-DSA key  *)
(* a process signs audit events with. A process without a configured key   *)
(* generates one when it first needs it and loses it when it stops, so the *)
(* key must be in server_signing_keys before anything signed with it is    *)
(* stored: verification looks the key up by the key_id of the event.       *)
(*                                                                         *)
(* The threads of a process share its identity. A thread is one call of    *)
(* write_audit_log, up to the append that AuditChain models:               *)
(*   ensure -> waiting (for _key_lock) -> keyed -> inserted -> sign ->     *)
(*   signed -> written, or failed                                          *)
(* rotate has no caller outside the tests and is left out.                 *)
(***************************************************************************)
EXTENDS Naturals, FiniteSets

CONSTANTS Signers,       \* threads that call write_audit_log
          Servers,       \* processes
          ServerOf,      \* thread |-> its process
          MaxKeys,       \* bound on keys and key ids that are generated
          Absent

ASSUME KeysAssumption ==
    /\ ServerOf \in [Signers -> Servers]
    /\ MaxKeys \in Nat
    /\ Absent \notin Nat /\ Absent \notin Signers

VARIABLES configured,  \* SERVER_DSA_PRIVATE_KEY is set, to key 0, everywhere
          dsaKey,      \* per process: dsa_sk and dsa_pk
          keyId,       \* per process: key_id
          registered,  \* per process: _registered
          keyLock,     \* per process: the thread that holds _key_lock
          keyRows,     \* server_signing_keys
          events,      \* stored audit events: who signed and the key named
          at,          \* per thread: where it is
          signedBy,    \* per thread: the key that made its signature
          minted       \* number of keys and of key ids generated so far

keyVars == <<configured, dsaKey, keyId, registered, keyLock, keyRows, events, at, signedBy, minted>>

(* ServerIdentity.__init__ *)
StartKey == IF configured THEN 0 ELSE Absent

KeysInit ==
    /\ configured \in BOOLEAN
    /\ dsaKey = [p \in Servers |-> StartKey]
    /\ keyId  = [p \in Servers |-> Absent]
    /\ registered = [p \in Servers |-> FALSE]
    /\ keyLock = [p \in Servers |-> Absent]
    /\ keyRows = {} /\ events = {}
    /\ at = [t \in Signers |-> "ensure"]
    /\ signedBy = [t \in Signers |-> Absent]
    /\ minted = 0

Moves(t, loc) == at' = [at EXCEPT ![t] = loc]

-----------------------------------------------------------------------------
(* ensure_registered, which checks _registered again under the lock *)

EnsureRegistered(t) ==
    /\ at[t] = "ensure"
    /\ Moves(t, IF registered[ServerOf[t]] THEN "sign" ELSE "waiting")
    /\ UNCHANGED <<configured, dsaKey, keyId, registered, keyLock, keyRows, events, signedBy, minted>>

(* Generates although another thread did (mutant of TakeKeyLock). *)
TakeKeyLockOnce(t) ==
    LET p == ServerOf[t]
    IN /\ at[t] = "waiting" /\ keyLock[p] = Absent /\ minted < MaxKeys
       /\ keyLock' = [keyLock EXCEPT ![p] = t]
       /\ dsaKey' = [dsaKey EXCEPT ![p] = minted + 1]
       /\ keyId'  = [keyId EXCEPT ![p] = minted + 1]
       /\ minted' = minted + 1
       /\ Moves(t, "keyed")
       /\ UNCHANGED <<configured, registered, keyRows, events, signedBy>>

(* _ensure_keypair if this thread is the first to need a key *)
TakeKeyLock(t) ==
    LET p == ServerOf[t]
    IN /\ at[t] = "waiting" /\ keyLock[p] = Absent
       /\ \/ /\ registered[p]
             /\ Moves(t, "sign")
             /\ UNCHANGED <<dsaKey, keyId, keyLock, minted>>
          \/ /\ ~registered[p] /\ dsaKey[p] = Absent /\ minted < MaxKeys
             /\ keyLock' = [keyLock EXCEPT ![p] = t]
             /\ dsaKey' = [dsaKey EXCEPT ![p] = minted + 1]
             /\ keyId'  = [keyId EXCEPT ![p] = minted + 1]
             /\ minted' = minted + 1
             /\ Moves(t, "keyed")
          \/ /\ ~registered[p] /\ dsaKey[p] # Absent
             /\ keyLock' = [keyLock EXCEPT ![p] = t]
             /\ Moves(t, "keyed")
             /\ UNCHANGED <<dsaKey, keyId, minted>>
       /\ UNCHANGED <<configured, registered, keyRows, events, signedBy>>

(* register_in_db: insert-if-absent by fingerprint and commit *)
RegisterInDb(t) ==
    LET p   == ServerOf[t]
        new == [key |-> dsaKey[p], id |-> IF keyId[p] = Absent THEN minted + 1 ELSE keyId[p]]
        present == \E r \in keyRows : r.key = dsaKey[p]
    IN /\ at[t] = "keyed"
       /\ present \/ keyId[p] # Absent \/ minted < MaxKeys
       /\ keyRows' = IF present THEN keyRows ELSE keyRows \cup {new}
       /\ minted' = IF keyId[p] = Absent /\ ~present THEN minted + 1 ELSE minted
       /\ Moves(t, "inserted")
       /\ UNCHANGED <<configured, dsaKey, keyId, registered, keyLock, events, signedBy>>

(* ... then the key_id of whichever row won, under the same lock *)
AdoptRow(t) ==
    LET p == ServerOf[t]
    IN /\ at[t] = "inserted"
       /\ keyId' = [keyId EXCEPT ![p] = (CHOOSE r \in keyRows : r.key = dsaKey[p]).id]
       /\ registered' = [registered EXCEPT ![p] = TRUE]
       /\ keyLock' = [keyLock EXCEPT ![p] = Absent]
       /\ Moves(t, "sign")
       /\ UNCHANGED <<configured, dsaKey, keyRows, events, signedBy, minted>>

(* The database fails under register_in_db: the lock is released and the   *)
(* call of write_audit_log raises.                                         *)
RegisterFails(t) ==
    LET p == ServerOf[t]
    IN /\ at[t] = "keyed"
       /\ keyLock' = [keyLock EXCEPT ![p] = Absent]
       /\ Moves(t, "failed")
       /\ UNCHANGED <<configured, dsaKey, keyId, registered, keyRows, events, signedBy, minted>>

-----------------------------------------------------------------------------
(* write_audit_log signs, then reads the key_id and stores both *)

SignPayload(t) ==
    /\ at[t] = "sign"
    /\ signedBy' = [signedBy EXCEPT ![t] = dsaKey[ServerOf[t]]]
    /\ Moves(t, "signed")
    /\ UNCHANGED <<configured, dsaKey, keyId, registered, keyLock, keyRows, events, minted>>

WriteAuditLog(t) ==
    /\ at[t] = "signed"
    /\ events' = events \cup {[key |-> signedBy[t], id |-> keyId[ServerOf[t]]]}
    /\ Moves(t, "written")
    /\ UNCHANGED <<configured, dsaKey, keyId, registered, keyLock, keyRows, signedBy, minted>>

(* A process stops, its calls with it, and starts again. *)
RestartServer(p) ==
    /\ minted < MaxKeys
    /\ dsaKey' = [dsaKey EXCEPT ![p] = StartKey]
    /\ keyId'  = [keyId EXCEPT ![p] = Absent]
    /\ registered' = [registered EXCEPT ![p] = FALSE]
    /\ keyLock' = [keyLock EXCEPT ![p] = Absent]
    /\ at' = [t \in Signers |-> IF ServerOf[t] = p /\ at[t] # "written" THEN "ensure" ELSE at[t]]
    /\ signedBy' = [t \in Signers |-> IF ServerOf[t] = p THEN Absent ELSE signedBy[t]]
    /\ UNCHANGED <<configured, keyRows, events, minted>>

KeysNext ==
    \/ \E t \in Signers :
          \/ EnsureRegistered(t) \/ TakeKeyLock(t) \/ RegisterInDb(t) \/ AdoptRow(t)
          \/ RegisterFails(t) \/ SignPayload(t) \/ WriteAuditLog(t)
    \/ \E p \in Servers : RestartServer(p)

-----------------------------------------------------------------------------
(* Properties *)

(* What ensure_registered is for: an event that is stored names a key_id   *)
(* that server_signing_keys resolves to the one key that signed it, so     *)
(* that it verifies in every process, also once the signer is gone; and    *)
(* processes that share a key share its row.                               *)
SignaturesResolve ==
    /\ \A e \in events : \E r \in keyRows : r.id = e.id /\ r.key = e.key
    /\ \A r, s \in keyRows : r.id = s.id \/ r.key = s.key => r = s

KeysType ==
    /\ configured \in BOOLEAN /\ minted \in Nat
    /\ dsaKey \in [Servers -> Nat \cup {Absent}] /\ keyId \in [Servers -> Nat \cup {Absent}]
    /\ registered \in [Servers -> BOOLEAN] /\ keyLock \in [Servers -> Signers \cup {Absent}]
    /\ keyRows \subseteq [key : Nat, id : Nat]
    /\ at \in [Signers -> {"ensure", "waiting", "keyed", "inserted", "sign", "signed", "written", "failed"}]
    /\ DOMAIN signedBy = Signers

(* Why: a thread registers under the lock, what it signs with is           *)
(* registered and does not change until it has written, and an id is made  *)
(* for one key only.                                                       *)
KeysInv ==
    /\ KeysType
    /\ \A t \in Signers :
          LET p == ServerOf[t]
          IN /\ at[t] \in {"keyed", "inserted"} =>
                    keyLock[p] = t /\ ~registered[p] /\ dsaKey[p] # Absent
             /\ at[t] = "inserted" => \E r \in keyRows : r.key = dsaKey[p]
             /\ at[t] \in {"sign", "signed"} => registered[p]
             /\ at[t] = "signed" => signedBy[t] = dsaKey[p]
    /\ \A p \in Servers :
          /\ registered[p] => \E r \in keyRows : r.key = dsaKey[p] /\ r.id = keyId[p]
          /\ dsaKey[p] = IF configured THEN 0 ELSE keyId[p]
    /\ \A r \in keyRows : r.key = IF configured THEN 0 ELSE r.id
    /\ SignaturesResolve
=============================================================================
