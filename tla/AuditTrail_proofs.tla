------------------------- MODULE AuditTrail_proofs --------------------------
(***************************************************************************)
(* Proofs about AuditTrail: the start of a deployment, the keys that sign  *)
(* audit events, the chain of the events and its check, for any number of  *)
(* processes and threads, any chain and any number of faults.              *)
(***************************************************************************)
EXTENDS AuditTrail, FiniteSetTheorems, WellFoundedInduction, TLAPS

(* A step of the audit trail is a step, or none, of each of its parts. *)
LEMMA TrailSteps ==
    ASSUME [TrailNext]_trailVars
    PROVE  [Next]_vars /\ [KeysNext]_keyVars /\ [CheckNext]_checkVars /\ [StartNext]_startVars
BY DEF TrailNext, trailVars

-----------------------------------------------------------------------------
(* The keys of the servers *)

(* The initial state satisfies the invariant. *)
LEMMA KeysInitInv == KeysInit => KeysInv
BY KeysAssumption DEF KeysInit, KeysInv, KeysType, StartKey, SignaturesResolve

(* Every step keeps a registered key where its events can find it. *)
LEMMA KeysStep == KeysInv /\ [KeysNext]_keyVars => KeysInv'
<1> SUFFICES ASSUME KeysInv, [KeysNext]_keyVars PROVE KeysInv'
  OBVIOUS
<1> USE KeysAssumption DEF KeysInv, KeysType, SignaturesResolve, Moves
<1>1. CASE UNCHANGED keyVars
  BY <1>1 DEF keyVars
<1>2. ASSUME NEW t \in Signers, EnsureRegistered(t) PROVE KeysInv'
  BY <1>2 DEF EnsureRegistered
<1>3. ASSUME NEW t \in Signers, TakeKeyLock(t) PROVE KeysInv'
  BY <1>3 DEF TakeKeyLock
<1>4. ASSUME NEW t \in Signers, RegisterInDb(t) PROVE KeysInv'
  <2> DEFINE p == ServerOf[t]
             new == [key |-> dsaKey[p], id |-> IF keyId[p] = Absent THEN minted + 1 ELSE keyId[p]]
             present == \E r \in keyRows : r.key = dsaKey[p]
  <2>1. /\ p \in Servers /\ at[t] = "keyed" /\ at' = [at EXCEPT ![t] = "inserted"]
        /\ keyLock[p] = t /\ ~registered[p] /\ dsaKey[p] \in Nat
        /\ UNCHANGED <<configured, dsaKey, keyId, registered, keyLock, events, signedBy>>
    BY <1>4 DEF RegisterInDb
  <2>2. CASE present
    <3>1. keyRows' = keyRows /\ minted' = minted
      BY <1>4, <2>2 DEF RegisterInDb
    <3> QED
      BY <2>1, <2>2, <3>1
  <2>3. CASE ~present
    <3>1. keyRows' = keyRows \cup {new} /\ minted' \in Nat
      BY <1>4, <2>3 DEF RegisterInDb
    <3>2. /\ new \in [key : Nat, id : Nat] /\ new.key = dsaKey[p]
          /\ new.key = IF configured THEN 0 ELSE new.id
      BY <2>1
    <3>3. \A r \in keyRows : r.key # new.key /\ r.id # new.id
      BY <2>3, <3>2
    <3> HIDE DEF new
    <3>4. /\ keyRows' \subseteq [key : Nat, id : Nat]
          /\ \A r \in keyRows' : r.key = IF configured THEN 0 ELSE r.id
          /\ \A r, s \in keyRows' : r.id = s.id \/ r.key = s.key => r = s
          /\ keyRows \subseteq keyRows' /\ \E r \in keyRows' : r.key = dsaKey[p]
      BY <3>1, <3>2, <3>3
    <3> QED
      BY <2>1, <3>1, <3>4
  <2> QED
    BY <2>2, <2>3
<1>5. ASSUME NEW t \in Signers, AdoptRow(t) PROVE KeysInv'
  BY <1>5 DEF AdoptRow
<1>6. ASSUME NEW t \in Signers, RegisterFails(t) PROVE KeysInv'
  BY <1>6 DEF RegisterFails
<1>7. ASSUME NEW t \in Signers, SignPayload(t) PROVE KeysInv'
  BY <1>7 DEF SignPayload
<1>8. ASSUME NEW t \in Signers, WriteAuditLog(t) PROVE KeysInv'
  BY <1>8 DEF WriteAuditLog
<1>9. ASSUME NEW p \in Servers, RestartServer(p) PROVE KeysInv'
  BY <1>9 DEF RestartServer, StartKey
<1> QED
  BY <1>1, <1>2, <1>3, <1>4, <1>5, <1>6, <1>7, <1>8, <1>9 DEF KeysNext

-----------------------------------------------------------------------------
(* The start of a deployment *)

(* The initial state satisfies the invariant. *)
LEMMA StartInitInv == StartInit => StartInv
BY RolesAssumption DEF StartInit, StartInv, SchemaTables

(* Every step keeps the schema whole. *)
LEMMA StartStep == StartInv /\ [StartNext]_startVars => StartInv'
<1> SUFFICES ASSUME StartInv, [StartNext]_startVars PROVE StartInv'
  OBVIOUS
<1> USE RolesAssumption DEF StartInv, Boots, ReleaseMigrationLock, SchemaTables
<1>1. CASE UNCHANGED startVars
  BY <1>1 DEF startVars
<1>2. ASSUME NEW p \in Starters, Connect(p) PROVE StartInv'
  BY <1>2 DEF Connect
<1>3. ASSUME NEW p \in Starters, TryMigrationLock(p) PROVE StartInv'
  BY <1>3 DEF TryMigrationLock
<1>4. ASSUME NEW p \in Starters, LockTimeout(p) PROVE StartInv'
  BY <1>4 DEF LockTimeout
<1>5. ASSUME NEW p \in Starters, CheckOwner(p) PROVE StartInv'
  BY <1>5 DEF CheckOwner
<1>6. ASSUME NEW p \in Starters, Compare(p) PROVE StartInv'
  BY <1>6 DEF Compare
<1>7. ASSUME NEW p \in Starters, UpgradeSchema(p) PROVE StartInv'
  BY <1>7 DEF UpgradeSchema
<1>8. ASSUME NEW p \in Starters, CommitMigration(p) PROVE StartInv'
  BY <1>8 DEF CommitMigration
<1>9. ASSUME NEW p \in Starters, CheckSchema(p) PROVE StartInv'
  BY <1>9 DEF CheckSchema
<1>10. ASSUME NEW p \in Starters, WaitForSchema(p) PROVE StartInv'
  BY <1>10 DEF WaitForSchema
<1>11. ASSUME NEW p \in Starters, StartServing(p) \/ PrepareIdentity(p) PROVE StartInv'
  BY <1>11 DEF StartServing, PrepareIdentity
<1>12. ASSUME NEW p \in Starters, ProvisionAttempt(p) \/ ProvisionGivesUp(p) PROVE StartInv'
  BY <1>12 DEF ProvisionAttempt, ProvisionGivesUp
<1>13. ASSUME NEW p \in Starters, ProvisionCommit(p) PROVE StartInv'
  BY <1>13 DEF ProvisionCommit
<1>14. ASSUME NEW p \in Starters, BootCrash(p) PROVE StartInv'
  BY <1>14 DEF BootCrash
<1> QED
  BY <1>1, <1>2, <1>3, <1>4, <1>5, <1>6, <1>7, <1>8, <1>9, <1>10, <1>11, <1>12, <1>13, <1>14
  DEF StartNext

-----------------------------------------------------------------------------
(* The check of the chain *)

(* A set of numbers has a smallest one. *)
LEMMA Smallest ==
    ASSUME NEW T, T \subseteq Nat, T # {}
    PROVE  \E n \in T : \A j \in T : n <= j
<1>1. PICK n \in T : \A j \in T : ~ (<<j, n>> \in OpToRel(<, Nat))
  BY NatLessThanWellFounded, WFMin
<1>2. \A j \in T : ~ (j < n)
  BY <1>1 DEF OpToRel
<1> QED
  BY <1>2

(* Every link of the chain that is checked has a hash. *)
LEMMA LinkType ==
    ASSUME CheckInv, NEW i \in DOMAIN links
    PROVE  links[i].hash \in {0, 1}
<1> DEFINE Row == [hash : {0, 1}, sound : BOOLEAN]
<1>1. links \in Seq(Row)
  BY DEF CheckInv
<1>2. links[i] \in Row
  <2> HIDE DEF Row
  <2> QED
    BY <1>1
<1> QED
  BY <1>2

(* The initial state satisfies the invariant. *)
LEMMA CheckInitInv == CheckInit => CheckInv
BY DEF CheckInit, CheckInv, Sound, Idle

(* Every step keeps the head forgotten while a reported link is wrong. *)
LEMMA CheckStep == CheckInv /\ [CheckNext]_checkVars => CheckInv'
<1> SUFFICES ASSUME CheckInv, [CheckNext]_checkVars PROVE CheckInv'
  OBVIOUS
<1> USE DEF CheckInv
<1>1. CASE UNCHANGED checkVars
  BY <1>1 DEF checkVars
<1>2. ASSUME AppendLink PROVE CheckInv'
  BY <1>2 DEF AppendLink, Sound
<1>3. ASSUME NEW i \in DOMAIN links, RepairRow(i) PROVE CheckInv'
  BY <1>3 DEF RepairRow, Sound
<1>4. ASSUME NEW i \in DOMAIN links, NEW rehashed \in BOOLEAN, EditRow(i, rehashed) PROVE CheckInv'
  <2>1. /\ Len(links') = Len(links) /\ links' \in Seq([hash : {0, 1}, sound : BOOLEAN])
        /\ \A j \in DOMAIN links : ~links[j].sound => links'[j] = links[j]
    <3> DEFINE row == [hash |-> IF rehashed THEN 1 ELSE links[i].hash, sound |-> FALSE]
    <3>1. row \in [hash : {0, 1}, sound : BOOLEAN]
      <4>2. links[i].hash \in {0, 1}
        BY LinkType
      <4>3. (IF rehashed THEN 1 ELSE links[i].hash) \in {0, 1}
        BY <4>2
      <4> QED
        BY <4>3
    <3>2. links' = [links EXCEPT ![i] = row] /\ links[i].sound
      BY <1>4 DEF EditRow
    <3> HIDE DEF row
    <3> QED
      BY <3>1, <3>2
  <2>2. UNCHANGED <<verified, check, alarm, due>>
    BY <1>4 DEF EditRow
  <2> QED
    BY <2>1, <2>2
<1>5. ASSUME NEW c \in Checks, NEW full \in BOOLEAN, BeginCheck(c, full) PROVE CheckInv'
  BY <1>5 DEF BeginCheck
<1>6. ASSUME NEW c \in Checks, ProbeHead(c) PROVE CheckInv'
  BY <1>6, ZenonT(60) DEF ProbeHead, StartsAfter
<1>7. ASSUME NEW c \in Checks, StreamLinks(c) PROVE CheckInv'
  <2> DEFINE k == check[c]
             failing == {i \in (k.after + 1)..Len(links) : LinkFails(i, k.after, k.previous)}
             failed == IF failing = {} THEN {} ELSE {CHOOSE i \in failing : \A j \in failing : i <= j}
             last == IF Len(links) > k.after
                     THEN [sequence |-> Len(links), hash |-> links[Len(links)].hash] ELSE NoHead
             result == [at |-> "streamed", valid |-> failing = {}, generation |-> k.generation,
                        failed |-> failed, last |-> last]
  <2>1. /\ k.at = "probed" /\ check' = [check EXCEPT ![c] = result]
        /\ UNCHANGED <<links, verified, alarm, due>>
    BY <1>7 DEF StreamLinks
  <2>2. /\ k.after \in Nat /\ Len(links) \in Nat /\ k.generation \in Nat
        /\ (due[c] # {} => k.after = 0) /\ due[c] \subseteq alarm
    BY <2>1
  <2>3. due[c] # {} => failing # {}
    <3> SUFFICES ASSUME NEW i \in due[c] PROVE failing # {}
      OBVIOUS
    <3>1. i \in DOMAIN links /\ ~links[i].sound /\ k.after = 0
      BY <2>2
    <3>2. i \in 1..Len(links) /\ LinkFails(i, k.after, k.previous)
      BY <3>1 DEF LinkFails
    <3> QED
      BY <3>1, <3>2
  <2>4. failed \subseteq DOMAIN links
    <3>1. \A i \in failing : i \in DOMAIN links
      BY <2>2
    <3>2. CASE failing # {}
      <4>1. PICK n \in failing : \A j \in failing : n <= j
        <5>1. failing \subseteq Nat
          BY <2>2
        <5> HIDE DEF failing
        <5> QED
          BY <5>1, <3>2, Smallest
      <4> HIDE DEF failing
      <4>2. failed = {CHOOSE i \in failing : \A j \in failing : i <= j}
        BY <3>2
      <4> QED
        BY <4>1, <4>2, <3>1
    <3> QED
      BY <3>2
  <2>5. last \in [sequence : Nat, hash : {0, 1}] \cup {NoHead}
    <3>1. CASE Len(links) > k.after
      <4>1. Len(links) \in DOMAIN links
        BY <2>2, <3>1
      <4>2. links[Len(links)].hash \in {0, 1}
        BY <4>1, LinkType
      <4> QED
        BY <4>2, <3>1, <2>2
    <3> QED
      BY <3>1
  <2> HIDE DEF failing, failed, last
  <2>6. failing = {} => failed = {}
    BY DEF failed
  <2>7. /\ DOMAIN check' = Checks /\ check'[c] = result
        /\ \A d \in Checks : d # c => check'[d] = check[d]
    <3> HIDE DEF result
    <3> QED
      BY <2>1
  <2> QED
    BY <2>1, <2>2, <2>3, <2>4, <2>5, <2>6, <2>7, ZenonT(60)
<1>8. ASSUME NEW c \in Checks, FinishCheck(c) PROVE CheckInv'
  BY <1>8 DEF FinishCheck, Remember
<1> QED
  BY <1>1, <1>2, <1>3, <1>4, <1>5, <1>6, <1>7, <1>8 DEF CheckNext

-----------------------------------------------------------------------------
(* Sequences of events *)

(* What enqueueing does to a queue. *)
LEMMA Appended ==
    ASSUME NEW S, NEW s \in Seq(S), NEW x \in S
    PROVE  /\ Append(s, x) \in Seq(S) /\ Members(Append(s, x)) = Members(s) \cup {x}
           /\ Distinct(s) /\ x \notin Members(s) => Distinct(Append(s, x))
<1> DEFINE r == Append(s, x)
<1>1. /\ r \in Seq(S) /\ Len(s) \in Nat /\ DOMAIN s = 1..Len(s)
      /\ DOMAIN r = 1..(Len(s) + 1)
      /\ r[Len(s) + 1] = x /\ \A i \in 1..Len(s) : r[i] = s[i]
  OBVIOUS
<1> HIDE DEF r
<1>2. Members(r) = Members(s) \cup {x}
  BY <1>1 DEF Members
<1>3. Distinct(s) /\ x \notin Members(s) => Distinct(r)
  BY <1>1 DEF Members, Distinct
<1> QED
  BY <1>1, <1>2, <1>3 DEF r

(* What taking a batch off the front of a queue does. *)
LEMMA Divided ==
    ASSUME NEW S, NEW s \in Seq(S), NEW n \in 0..Len(s)
    PROVE  LET front == SubSeq(s, 1, n)
               back  == SubSeq(s, n + 1, Len(s))
           IN /\ front \in Seq(S) /\ back \in Seq(S) /\ Len(front) = n
              /\ Members(front) \subseteq Members(s) /\ Members(back) \subseteq Members(s)
              /\ Distinct(s) => /\ Distinct(front) /\ Distinct(back)
                                /\ Members(front) \cap Members(back) = {}
BY SMTT(30) DEF Members, Distinct

(* What is left when the first group is done. *)
LEMMA Shortened ==
    ASSUME NEW S, NEW s \in Seq(S), s # << >>
    PROVE  /\ Tail(s) \in Seq(S) /\ s[1] \in S /\ 1 \in DOMAIN s
           /\ \A i \in DOMAIN Tail(s) : i + 1 \in DOMAIN s /\ Tail(s)[i] = s[i + 1]
           /\ \A i \in DOMAIN s : i # 1 => i - 1 \in DOMAIN Tail(s) /\ Tail(s)[i - 1] = s[i]
           /\ Distinct(s) => /\ Distinct(Tail(s))
                             /\ \A i \in DOMAIN Tail(s) : Tail(s)[i] # s[1]
BY DEF Distinct

(* A batch that is tried again one by one. *)
LEMMA OneByOne ==
    ASSUME NEW S, NEW b \in Seq(S)
    PROVE  LET singles == [i \in DOMAIN b |-> <<b[i]>>]
           IN /\ singles \in Seq(Seq(S)) /\ DOMAIN singles = DOMAIN b
              /\ \A i \in DOMAIN b : singles[i] = <<b[i]>> /\ b[i] \in Members(b)
              /\ Distinct(b) => Distinct(singles)
<1> DEFINE singles == [i \in DOMAIN b |-> <<b[i]>>]
<1>1. DOMAIN b = 1..Len(b) /\ Len(b) \in Nat /\ \A i \in DOMAIN b : b[i] \in S /\ <<b[i]>> \in Seq(S)
  OBVIOUS
<1>2. singles \in Seq(Seq(S))
  BY <1>1
<1>3. \A i \in DOMAIN b : singles[i] = <<b[i]>> /\ b[i] \in Members(b)
  BY DEF Members
<1>4. \A i, j \in DOMAIN b : <<b[i]>> = <<b[j]>> => b[i] = b[j]
  OBVIOUS
<1> HIDE DEF singles
<1>5. DOMAIN singles = DOMAIN b
  BY DEF singles
<1>6. Distinct(b) => Distinct(singles)
  BY <1>3, <1>4, <1>5 DEF Distinct
<1> QED
  BY <1>2, <1>3, <1>5, <1>6 DEF singles

(* The members of a group of one. *)
LEMMA SingleMembers ==
    ASSUME NEW x
    PROVE  Members(<<x>>) = {x} /\ Len(<<x>>) = 1 /\ <<x>>[1] = x
BY DEF Members

(* A group of one has its first member only. *)
LEMMA OnlyMember ==
    ASSUME NEW S, NEW g \in Seq(S), Len(g) = 1
    PROVE  g[1] \in S /\ Members(g) = {g[1]}
<1>1. DOMAIN g = {1} /\ 1 \in 1..Len(g)
  OBVIOUS
<1> QED
  BY <1>1 DEF Members

-----------------------------------------------------------------------------
(* The chain: types *)

(* The links a leader makes of a group. *)
LEMMA LinksType ==
    ASSUME NEW h \in [sequence : Nat, hash : Seq(Threads)], NEW g \in Seq(Threads)
    PROVE  Links(h, g) \subseteq Link
<1> SUFFICES ASSUME NEW i \in 1..Len(g)
             PROVE  [sequence |-> h.sequence + i, event |-> g[i],
                     previous |-> h.hash \o SubSeq(g, 1, i - 1),
                     hash |-> h.hash \o SubSeq(g, 1, i)] \in Link
  BY DEF Links
<1>1. h.sequence + i \in Nat \ {0} /\ g[i] \in Threads
  OBVIOUS
<1>2. SubSeq(g, 1, i - 1) \in Seq(Threads) /\ SubSeq(g, 1, i) \in Seq(Threads)
  OBVIOUS
<1>3. h.hash \o SubSeq(g, 1, i - 1) \in Seq(Threads) /\ h.hash \o SubSeq(g, 1, i) \in Seq(Threads)
  BY <1>2
<1> QED
  BY <1>1, <1>3 DEF Link

(* The group a leader works on. *)
LEMMA GroupType ==
    ASSUME TypeOK, NEW t \in Threads, todo[t] # << >>
    PROVE  /\ todo[t] \in Seq(Seq(Threads)) /\ Group(t) \in Seq(Threads)
           /\ Tail(todo[t]) \in Seq(Seq(Threads)) /\ batch[t] \in Seq(Threads)
           /\ head[t] \in [sequence : Nat, hash : Seq(Threads)]
           /\ Links(head[t], Group(t)) \subseteq Link
<1>1. todo[t] \in Seq(Seq(Threads)) /\ batch[t] \in Seq(Threads)
      /\ head[t] \in [sequence : Nat, hash : Seq(Threads)]
  BY DEF TypeOK
<1>2. Tail(todo[t]) \in Seq(Seq(Threads)) /\ todo[t][1] \in Seq(Threads)
  BY <1>1, Shortened
<1> QED
  BY <1>1, <1>2, LinksType DEF Group

(* What a refusal leaves to be done. *)
LEMMA RefusedType ==
    ASSUME TypeOK, NEW t \in Threads, todo[t] # << >>, Refused(t)
    PROVE  /\ todo' \in [Threads -> Seq(Seq(Threads))] /\ error' \in [Threads -> BOOLEAN]
           /\ \A u \in Threads : u # t => todo'[u] = todo[u]
           /\ todo'[t] = IF Len(Group(t)) = 1 THEN Tail(todo[t])
                         ELSE [i \in DOMAIN batch[t] |-> <<batch[t][i]>>]
           /\ \A u \in Threads : error[u] => error'[u]
           /\ \A u \in Threads : error'[u] => error[u] \/ (Len(Group(t)) = 1 /\ u = Group(t)[1])
           /\ Len(Group(t)) = 1 => Group(t)[1] \in Threads /\ error'[Group(t)[1]]
<1>1. /\ Tail(todo[t]) \in Seq(Seq(Threads)) /\ Group(t) \in Seq(Threads)
      /\ [i \in DOMAIN batch[t] |-> <<batch[t][i]>>] \in Seq(Seq(Threads))
  BY GroupType, OneByOne
<1>2. CASE Len(Group(t)) = 1
  <2>1. /\ error' = [error EXCEPT ![Group(t)[1]] = TRUE]
        /\ todo'  = [todo EXCEPT ![t] = Tail(@)]
    BY <1>2 DEF Refused
  <2>2. Group(t)[1] \in Threads
    BY <1>2, GroupType, OnlyMember
  <2>3. /\ error' \in [Threads -> BOOLEAN] /\ error'[Group(t)[1]] = TRUE
        /\ \A u \in Threads : u # Group(t)[1] => error'[u] = error[u]
    BY <2>1, <2>2 DEF TypeOK
  <2>4. /\ todo' \in [Threads -> Seq(Seq(Threads))] /\ todo'[t] = Tail(todo[t])
        /\ \A u \in Threads : u # t => todo'[u] = todo[u]
    BY <1>1, <2>1 DEF TypeOK
  <2> QED
    BY <1>2, <2>2, <2>3, <2>4
<1>3. CASE Len(Group(t)) # 1
  <2>1. todo' = [todo EXCEPT ![t] = [i \in DOMAIN batch[t] |-> <<batch[t][i]>>]] /\ error' = error
    BY <1>3 DEF Refused
  <2> QED
    BY <1>1, <1>3, <2>1 DEF TypeOK
<1> QED
  BY <1>2, <1>3

(* How much a leader takes. *)
LEMMA Taken ==
    ASSUME TypeOK, NEW t \in Threads
    PROVE  LET p == ProcessOf[t]
               n == IF Len(queue[p]) < BatchMax THEN Len(queue[p]) ELSE BatchMax
           IN p \in Processes /\ queue[p] \in Seq(Threads) /\ n \in 0..Len(queue[p]) /\ n <= BatchMax
BY ChainAssumption DEF TypeOK

(* A chain that has links has a newest one. *)
LEMMA NewestExists ==
    ASSUME TypeOK, HeadIsTrue, chain # {}
    PROVE  LET newest == CHOOSE l \in chain : \A m \in chain : m.sequence <= l.sequence
           IN /\ newest \in chain
              /\ {l.sequence : l \in chain} = 1..newest.sequence
<1>1. PICK n \in {0} \cup {l.sequence : l \in chain} : {l.sequence : l \in chain} = 1..n
  BY DEF HeadIsTrue
<1>2. \A l \in chain : l.sequence \in Nat \ {0} /\ l.sequence \in 1..n
  BY <1>1 DEF TypeOK, Link
<1>3. n \in Nat /\ n # 0
  BY <1>1, <1>2
<1>4. PICK l \in chain : l.sequence = n
  BY <1>1, <1>3
<1>5. \A m \in chain : m.sequence <= l.sequence
  BY <1>2, <1>3, <1>4
<1> DEFINE newest == CHOOSE k \in chain : \A m \in chain : m.sequence <= k.sequence
<1>6. newest \in chain /\ \A m \in chain : m.sequence <= newest.sequence
  BY <1>4, <1>5
<1>7. newest.sequence = n
  BY <1>2, <1>3, <1>4, <1>6
<1> QED
  BY <1>1, <1>6, <1>7

(* Every step keeps the types of the chain and its appenders. *)
LEMMA ChainTypeStep == TypeOK /\ HeadIsTrue /\ [Next]_vars => TypeOK'
<1> SUFFICES ASSUME TypeOK, HeadIsTrue, [Next]_vars PROVE TypeOK'
  OBVIOUS
<1> USE ChainAssumption
<1>0. ASSUME NEW t \in Threads, pc[t] = "locked" PROVE todo[t] # << >>
  BY <1>0 DEF HeadIsTrue
<1>01. ASSUME NEW t \in Threads, Unlock(t) PROVE lock' \in Threads \cup {Nobody}
  BY <1>01 DEF Unlock, TypeOK
<1>02. ASSUME faults' = faults + 1, faults < MaxFaults PROVE faults' \in 0..MaxFaults
  BY <1>02 DEF TypeOK
<1>1. CASE UNCHANGED vars
  BY <1>1 DEF vars, appender, leaderVars, TypeOK
<1>2. ASSUME NEW t \in Threads, Enqueue(t) PROVE TypeOK'
  <2>1. Append(queue[ProcessOf[t]], t) \in Seq(Threads)
    BY Appended DEF TypeOK
  <2> QED
    BY <1>2, <2>1 DEF Enqueue, Goto, leaderVars, TypeOK
<1>3. ASSUME NEW t \in Threads, Lead(t) PROVE TypeOK'
  <2> DEFINE p == ProcessOf[t]
             n == IF Len(queue[p]) < BatchMax THEN Len(queue[p]) ELSE BatchMax
             front == SubSeq(queue[p], 1, n)
             back == SubSeq(queue[p], n + 1, Len(queue[p]))
  <2>1. /\ p \in Processes /\ front \in Seq(Threads) /\ back \in Seq(Threads) /\ Len(front) <= BatchMax
    BY Taken, Divided
  <2>2. /\ writing' = [writing EXCEPT ![p] = TRUE]
        /\ batch' = [batch EXCEPT ![t] = front] /\ todo' = [todo EXCEPT ![t] = <<front>>]
        /\ queue' = [queue EXCEPT ![p] = back] /\ pc' = [pc EXCEPT ![t] = "leading"]
        /\ UNCHANGED <<chain, lock, head, done, error, faults>>
    BY <1>3 DEF Lead, Goto
  <2> HIDE DEF front, back, p
  <2>3. <<front>> \in Seq(Seq(Threads))
    BY <2>1
  <2> QED
    BY <2>1, <2>2, <2>3 DEF TypeOK
<1>4. ASSUME NEW t \in Threads, Return(t) PROVE TypeOK'
  BY <1>4 DEF Return, Goto, appender, leaderVars, TypeOK
<1>5. ASSUME NEW t \in Threads, LockHead(t) PROVE TypeOK'
  <2>1. PICK h \in [sequence : Nat, hash : Seq(Threads)] : head' = [head EXCEPT ![t] = h]
    <3>1. CASE chain = {}
      <4>1. Genesis \in [sequence : Nat, hash : Seq(Threads)]
        BY DEF Genesis
      <4> QED
        BY <4>1, <3>1, <1>5 DEF LockHead
    <3>2. CASE chain # {}
      <4> DEFINE newest == CHOOSE l \in chain : \A m \in chain : m.sequence <= l.sequence
      <4>1. newest \in Link
        BY <3>2, NewestExists DEF TypeOK
      <4>2. [sequence |-> newest.sequence, hash |-> newest.hash] \in [sequence : Nat, hash : Seq(Threads)]
        BY <4>1 DEF Link
      <4> QED
        BY <4>2, <3>2, <1>5 DEF LockHead
    <3> QED
      BY <3>1, <3>2
  <2> QED
    BY <1>5, <2>1 DEF LockHead, Goto, appender, TypeOK
<1>6. ASSUME NEW t \in Threads, InsertLinks(t) PROVE TypeOK'
  <2>1. Links(head[t], Group(t)) \subseteq Link /\ Tail(todo[t]) \in Seq(Seq(Threads))
    BY <1>0, <1>6, GroupType DEF InsertLinks
  <2> QED
    BY <1>01, <1>6, <2>1 DEF InsertLinks, Goto, appender, TypeOK
<1>7. ASSUME NEW t \in Threads, InsertRefused(t) PROVE TypeOK'
  <2>1. todo' \in [Threads -> Seq(Seq(Threads))] /\ error' \in [Threads -> BOOLEAN]
    BY <1>0, <1>7, RefusedType DEF InsertRefused
  <2> QED
    BY <1>01, <1>7, <2>1 DEF InsertRefused, Goto, appender, TypeOK
<1>8. ASSUME NEW t \in Threads, DatabaseFails(t) PROVE TypeOK'
  <2>1. /\ todo' \in [Threads -> Seq(Seq(Threads))] /\ error' \in [Threads -> BOOLEAN]
        /\ Links(head[t], Group(t)) \subseteq Link
    BY <1>0, <1>8, RefusedType, GroupType DEF DatabaseFails
  <2> QED
    BY <1>01, <1>02, <1>8, <2>1 DEF DatabaseFails, Goto, appender, TypeOK
<1>9. ASSUME NEW t \in Threads, FinishBatch(t) PROVE TypeOK'
  BY <1>9 DEF FinishBatch, Goto, Genesis, TypeOK
<1>10. ASSUME NEW t \in Threads, Interrupt(t) PROVE TypeOK'
  BY <1>02, <1>10 DEF Interrupt, Goto, Genesis, TypeOK
<1>11. ASSUME NEW t \in Threads, CloseSession(t) PROVE TypeOK'
  BY <1>01, <1>11 DEF CloseSession, Goto, appender, leaderVars, TypeOK
<1>12. ASSUME NEW p \in Processes, Crash(p) PROVE TypeOK'
  BY <1>02, <1>12 DEF Crash, Genesis, TypeOK
<1> QED
  BY <1>1, <1>2, <1>3, <1>4, <1>5, <1>6, <1>7, <1>8, <1>9, <1>10, <1>11, <1>12 DEF Next, Step

-----------------------------------------------------------------------------
(* The chain: its head *)

(* A chain without gaps, forks or repeated events. *)
Whole(c) ==
    /\ \E n \in {0} \cup {l.sequence : l \in c} : {l.sequence : l \in c} = 1..n
    /\ \A l, m \in c : l.sequence = m.sequence \/ l.event = m.event => l = m
    /\ \A l \in c : l.sequence = 1 => l.previous = << >>
    /\ \A l, m \in c : m.sequence = l.sequence + 1 => m.previous = l.hash

(* The leader t holds the lock and the head of the chain. *)
HoldsHead(t) ==
    /\ lock = t /\ todo[t] # << >>
    /\ {l.sequence : l \in chain} = 1..head[t].sequence
    /\ \A l \in chain : l.sequence = head[t].sequence => l.hash = head[t].hash
    /\ head[t].sequence = 0 => head[t].hash = << >>

(* The two parts of HeadIsTrue. *)
LEMMA HeadParts ==
    HeadIsTrue <=> Whole(chain) /\ \A t \in Threads : pc[t] = "locked" => HoldsHead(t)
BY DEF HeadIsTrue, Whole, HoldsHead

(* The i-th link a leader makes of a group. *)
LinkAt(h, g, i) ==
    [sequence |-> h.sequence + i, event |-> g[i], previous |-> h.hash \o SubSeq(g, 1, i - 1),
     hash |-> h.hash \o SubSeq(g, 1, i)]

(* The links of a group continue the chain from the head. *)
LEMMA LinksFacts ==
    ASSUME NEW h \in [sequence : Nat, hash : Seq(Threads)], NEW g \in Seq(Threads)
    PROVE  /\ \A l \in Links(h, g) : \E i \in 1..Len(g) : l = LinkAt(h, g, i)
           /\ \A i \in 1..Len(g) : LinkAt(h, g, i) \in Links(h, g)
           /\ \A i \in 1..Len(g) : /\ LinkAt(h, g, i).sequence = h.sequence + i
                                   /\ LinkAt(h, g, i).event = g[i]
           /\ 1 \in 1..Len(g) => LinkAt(h, g, 1).previous = h.hash
           /\ \A i \in 1..Len(g) : i + 1 \in 1..Len(g) =>
                 LinkAt(h, g, i + 1).previous = LinkAt(h, g, i).hash
<1>1. h.hash \o SubSeq(g, 1, 0) = h.hash
  <2>1. SubSeq(g, 1, 0) = << >>
    OBVIOUS
  <2>2. h.hash \in Seq(Threads)
    OBVIOUS
  <2> QED
    BY <2>1, <2>2
<1>2. 1 \in 1..Len(g) => LinkAt(h, g, 1).previous = h.hash
  <2>1. LinkAt(h, g, 1).previous = h.hash \o SubSeq(g, 1, 1 - 1)
    BY DEF LinkAt
  <2>2. 1 - 1 = 0
    OBVIOUS
  <2>3. LinkAt(h, g, 1).previous = h.hash \o SubSeq(g, 1, 0)
    BY <2>1, <2>2, Zenon
  <2> QED
    BY <1>1, <2>3, Zenon
<1>3. ASSUME NEW i \in 1..Len(g), i + 1 \in 1..Len(g)
      PROVE  LinkAt(h, g, i + 1).previous = LinkAt(h, g, i).hash
  <2>1. /\ LinkAt(h, g, i + 1).previous = h.hash \o SubSeq(g, 1, (i + 1) - 1)
        /\ LinkAt(h, g, i).hash = h.hash \o SubSeq(g, 1, i)
    BY DEF LinkAt
  <2>2. (i + 1) - 1 = i
    OBVIOUS
  <2> QED
    BY <2>1, <2>2
<1>4. /\ \A l \in Links(h, g) : \E i \in 1..Len(g) : l = LinkAt(h, g, i)
      /\ \A i \in 1..Len(g) : LinkAt(h, g, i) \in Links(h, g)
  BY DEF Links, LinkAt
<1>5. \A i \in 1..Len(g) : /\ LinkAt(h, g, i).sequence = h.sequence + i
                          /\ LinkAt(h, g, i).event = g[i]
  BY DEF LinkAt
<1> QED
  BY <1>2, <1>3, <1>4, <1>5

(* A group of distinct new events, linked from the head, leaves the chain  *)
(* whole.                                                                  *)
LEMMA ChainGrows ==
    ASSUME NEW c, c \subseteq Link, Whole(c),
           NEW h \in [sequence : Nat, hash : Seq(Threads)], NEW g \in Seq(Threads), Distinct(g),
           {l.sequence : l \in c} = 1..h.sequence,
           \A l \in c : l.sequence = h.sequence => l.hash = h.hash,
           h.sequence = 0 => h.hash = << >>,
           \A l \in c, m \in Links(h, g) : l.sequence # m.sequence /\ l.event # m.event
    PROVE  Whole(c \cup Links(h, g))
<1> DEFINE d == c \cup Links(h, g)
           N == h.sequence
           L(i) == LinkAt(h, g, i)
<1>1. /\ \A l \in Links(h, g) : \E i \in 1..Len(g) : l = L(i)
      /\ \A i \in 1..Len(g) : L(i) \in Links(h, g)
      /\ \A i \in 1..Len(g) : L(i).sequence = N + i /\ L(i).event = g[i]
      /\ 1 \in 1..Len(g) => L(1).previous = h.hash
      /\ \A i \in 1..Len(g) : i + 1 \in 1..Len(g) => L(i + 1).previous = L(i).hash
  BY LinksFacts
<1>2. N \in Nat /\ Len(g) \in Nat /\ DOMAIN g = 1..Len(g)
  OBVIOUS
<1>3. \A l \in c : l.sequence \in 1..N
  OBVIOUS
<1> HIDE DEF L, N
<1>4. {l.sequence : l \in d} = 1..(N + Len(g))
  <2>1. ASSUME NEW l \in d PROVE l.sequence \in 1..(N + Len(g))
    BY <1>1, <1>2, <1>3
  <2>2. ASSUME NEW j \in 1..(N + Len(g)) PROVE \E l \in d : l.sequence = j
    <3>1. CASE j \in 1..N
      BY <3>1 DEF N
    <3>2. CASE j \notin 1..N
      <4>1. j - N \in 1..Len(g) /\ N + (j - N) = j
        BY <1>2, <3>2
      <4> QED
        BY <4>1, <1>1
    <3> QED
      BY <3>1, <3>2
  <2> QED
    BY <2>1, <2>2
<1>5. \A l, m \in d : l.sequence = m.sequence \/ l.event = m.event => l = m
  <2>1. ASSUME NEW i \in 1..Len(g), NEW j \in 1..Len(g),
               L(i).sequence = L(j).sequence \/ L(i).event = L(j).event
        PROVE  i = j
    <3>1. L(i).sequence = N + i /\ L(j).sequence = N + j /\ L(i).event = g[i] /\ L(j).event = g[j]
      BY <1>1
    <3>2. CASE N + i = N + j
      BY <1>2, <3>2
    <3>3. CASE g[i] = g[j]
      BY <1>2, <3>3 DEF Distinct
    <3> QED
      BY <2>1, <3>1, <3>2, <3>3
  <2>2. \A l, m \in Links(h, g) : l.sequence = m.sequence \/ l.event = m.event => l = m
    BY <1>1, <2>1
  <2> QED
    BY <2>2 DEF Whole
<1>6. \A l \in d : l.sequence = 1 => l.previous = << >>
  <2>1. ASSUME NEW i \in 1..Len(g), L(i).sequence = 1 PROVE L(i).previous = << >>
    <3>1. N = 0 /\ i = 1
      BY <1>1, <1>2, <2>1
    <3> QED
      BY <3>1, <1>1 DEF N
  <2> QED
    BY <1>1, <2>1 DEF Whole
<1>7. ASSUME NEW l \in d, NEW m \in d, m.sequence = l.sequence + 1 PROVE m.previous = l.hash
  <2>1. CASE l \in c /\ m \in c
    BY <1>7, <2>1 DEF Whole
  <2>2. CASE l \in c /\ m \in Links(h, g)
    <3>1. PICK i \in 1..Len(g) : m = L(i)
      BY <1>1, <2>2
    <3>2. l.sequence = N /\ i = 1
      BY <1>1, <1>2, <1>3, <1>7, <2>2, <3>1
    <3> QED
      BY <1>1, <2>2, <3>1, <3>2 DEF N
  <2>3. CASE l \in Links(h, g) /\ m \in c
    <3>1. PICK i \in 1..Len(g) : l = L(i)
      BY <1>1, <2>3
    <3> QED
      BY <1>1, <1>2, <1>3, <1>7, <2>3, <3>1
  <2>4. CASE l \in Links(h, g) /\ m \in Links(h, g)
    <3>1. PICK i \in 1..Len(g), j \in 1..Len(g) : l = L(i) /\ m = L(j)
      BY <1>1, <2>4
    <3>2. j = i + 1
      BY <1>1, <1>2, <1>7, <3>1
    <3> QED
      BY <1>1, <3>1, <3>2
  <2> QED
    BY <2>1, <2>2, <2>3, <2>4
<1>8. \E n \in {0} \cup {l.sequence : l \in d} : {l.sequence : l \in d} = 1..n
  <2>1. N + Len(g) \in 1..(N + Len(g)) \/ N + Len(g) = 0
    BY <1>2
  <2> QED
    BY <1>4, <2>1
<1> QED
  BY <1>5, <1>6, <1>7, <1>8 DEF Whole

(* The group a leader works on is of its batch. *)
LEMMA GroupOfBatch ==
    ASSUME TypeOK, EventsAreApart, NEW t \in Threads, todo[t] # << >>
    PROVE  /\ Distinct(Group(t)) /\ Members(Group(t)) \subseteq Members(batch[t])
           /\ Len(Group(t)) # 1 => todo[t] = <<batch[t]>>
<1>1. todo[t] \in Seq(Seq(Threads)) /\ 1 \in DOMAIN todo[t]
  BY GroupType, Shortened
<1>2. CASE todo[t] = <<batch[t]>>
  <2>1. Group(t) = batch[t]
    BY <1>2 DEF Group
  <2> QED
    BY <1>2, <2>1 DEF EventsAreApart
<1>3. CASE todo[t] # <<batch[t]>>
  <2>1. PICK u \in Members(batch[t]) : Group(t) = <<u>>
    BY <1>1, <1>3 DEF EventsAreApart, Group
  <2>2. Distinct(<<u>>)
    BY DEF Distinct
  <2> QED
    BY <2>1, <2>2, SingleMembers
<1> QED
  BY <1>2, <1>3

(* A group that is inserted leaves the chain whole. *)
LEMMA Inserted ==
    ASSUME TypeOK, HeadIsTrue, EventsAreApart, NEW t \in Threads, pc[t] = "locked", Insertable(t)
    PROVE  Whole(chain \cup Links(head[t], Group(t)))
<1>1. Whole(chain) /\ HoldsHead(t) /\ todo[t] # << >>
  BY HeadParts DEF HoldsHead
<1>2. /\ Group(t) \in Seq(Threads) /\ head[t] \in [sequence : Nat, hash : Seq(Threads)]
      /\ Distinct(Group(t)) /\ chain \subseteq Link
  BY <1>1, GroupType, GroupOfBatch DEF TypeOK
<1>3. /\ {l.sequence : l \in chain} = 1..head[t].sequence
      /\ \A l \in chain : l.sequence = head[t].sequence => l.hash = head[t].hash
      /\ head[t].sequence = 0 => head[t].hash = << >>
      /\ \A l \in chain, m \in Links(head[t], Group(t)) : l.sequence # m.sequence /\ l.event # m.event
  BY <1>1 DEF HoldsHead, Insertable
<1> QED
  BY <1>1, <1>2, <1>3, ChainGrows

(* Every step keeps the head of the thread that holds the lock true. *)
LEMMA HeadStep == TypeOK /\ HeadIsTrue /\ EventsAreApart /\ [Next]_vars => HeadIsTrue'
<1> SUFFICES ASSUME TypeOK, HeadIsTrue, EventsAreApart, [Next]_vars
             PROVE  Whole(chain') /\ \A u \in Threads : pc'[u] = "locked" => HoldsHead(u)'
  <2>1. (HeadIsTrue <=> Whole(chain) /\ \A t \in Threads : pc[t] = "locked" => HoldsHead(t))'
    BY HeadParts, PTL
  <2> QED
    BY <2>1 DEF Whole
<1> DEFINE Goal == Whole(chain') /\ \A u \in Threads : pc'[u] = "locked" => HoldsHead(u)'
<1>0. Whole(chain) /\ \A t \in Threads : pc[t] = "locked" => HoldsHead(t)
  BY HeadParts
<1>01. ASSUME NEW t \in Threads, NEW u \in Threads, pc[t] = "locked", pc[u] = "locked" PROVE t = u
  BY <1>0, <1>01 DEF HoldsHead
<1>02. pc \in [Threads -> {"new", "queued", "leading", "locked", "unwinding", "returned",
                            "failed", "crashed"}]
  BY DEF TypeOK
<1> USE ChainAssumption
<1>1. CASE UNCHANGED vars
  BY <1>0, <1>1 DEF vars, appender, leaderVars, HoldsHead
<1>2. ASSUME NEW t \in Threads, Enqueue(t) PROVE Goal
  BY <1>0, <1>02, <1>2 DEF Enqueue, Goto, leaderVars, HoldsHead
<1>3. ASSUME NEW t \in Threads, Lead(t) PROVE Goal
  <2>1. /\ chain' = chain /\ lock' = lock /\ head' = head
        /\ pc'[t] = "leading" /\ \A u \in Threads : u # t => pc'[u] = pc[u] /\ todo'[u] = todo[u]
    BY <1>3 DEF Lead, Goto, TypeOK
  <2> QED
    BY <1>0, <2>1 DEF HoldsHead
<1>4. ASSUME NEW t \in Threads, Return(t) PROVE Goal
  <2>1. pc'[t] # "locked" /\ \A u \in Threads : u # t => pc'[u] = pc[u]
    BY <1>02, <1>4 DEF Return, Goto
  <2> QED
    BY <1>0, <1>4, <2>1 DEF Return, appender, leaderVars, HoldsHead
<1>5. ASSUME NEW t \in Threads, LockHead(t) PROVE Goal
  <2>1. /\ chain' = chain /\ lock' = t /\ todo' = todo /\ todo[t] # << >> /\ lock = Nobody
        /\ pc'[t] = "locked" /\ \A u \in Threads : u # t => pc'[u] = pc[u]
    BY <1>02, <1>5 DEF LockHead, Goto
  <2>2. \A u \in Threads : u # t => pc'[u] # "locked"
    BY <1>0, <2>1 DEF HoldsHead
  <2>3. CASE chain = {}
    <3>1. head'[t] = Genesis
      BY <1>5, <2>3 DEF LockHead, TypeOK
    <3> QED
      BY <1>0, <2>1, <2>2, <2>3, <3>1 DEF HoldsHead, Genesis
  <2>4. CASE chain # {}
    <3> DEFINE newest == CHOOSE l \in chain : \A m \in chain : m.sequence <= l.sequence
    <3>1. newest \in chain /\ {l.sequence : l \in chain} = 1..newest.sequence
      BY <2>4, NewestExists
    <3>2. head' = [head EXCEPT ![t] = [sequence |-> newest.sequence, hash |-> newest.hash]]
      BY <1>5, <2>4 DEF LockHead
    <3> HIDE DEF newest
    <3>3. head'[t].sequence = newest.sequence /\ head'[t].hash = newest.hash
      BY <3>2 DEF TypeOK
    <3>4. \A l \in chain : l.sequence = newest.sequence => l.hash = newest.hash
      BY <1>0, <3>1 DEF Whole
    <3>5. newest.sequence # 0
      BY <3>1 DEF TypeOK, Link
    <3> QED
      BY <1>0, <2>1, <2>2, <3>1, <3>3, <3>4, <3>5 DEF HoldsHead
  <2> QED
    BY <2>3, <2>4
<1>6. ASSUME NEW t \in Threads, pc[t] = "locked", Goto(t, "leading"),
             chain' = chain \/ (Insertable(t) /\ chain' = chain \cup Links(head[t], Group(t)))
      PROVE  Goal
  <2>1. \A u \in Threads : pc'[u] # "locked"
    BY <1>01, <1>02, <1>6 DEF Goto
  <2>2. Whole(chain')
    BY <1>0, <1>6, Inserted
  <2> QED
    BY <2>1, <2>2
<1>7. ASSUME NEW t \in Threads, InsertLinks(t) \/ InsertRefused(t) \/ DatabaseFails(t) PROVE Goal
  BY <1>6, <1>7 DEF InsertLinks, InsertRefused, DatabaseFails
<1>8. ASSUME NEW t \in Threads, FinishBatch(t) \/ Interrupt(t) PROVE Goal
  <2>1. /\ chain' = chain /\ lock' = lock /\ pc'[t] # "locked"
        /\ \A u \in Threads : u # t => pc'[u] = pc[u] /\ head'[u] = head[u] /\ todo'[u] = todo[u]
    BY <1>8 DEF FinishBatch, Interrupt, Goto, TypeOK
  <2> QED
    BY <1>0, <2>1 DEF HoldsHead
<1>9. ASSUME NEW t \in Threads, CloseSession(t) PROVE Goal
  <2>1. /\ chain' = chain /\ head' = head /\ todo' = todo /\ pc'[t] # "locked"
        /\ lock' = IF lock = t THEN Nobody ELSE lock
        /\ \A u \in Threads : u # t => pc'[u] = pc[u]
    BY <1>02, <1>9 DEF CloseSession, Goto, Unlock, leaderVars
  <2> QED
    BY <1>0, <2>1 DEF HoldsHead
<1>10. ASSUME NEW p \in Processes, Crash(p) PROVE Goal
  <2> DEFINE own == {t \in Threads : ProcessOf[t] = p /\ pc[t] # "new"}
  <2>1. /\ chain' = chain /\ lock' = IF lock \in own THEN Nobody ELSE lock
        /\ \A u \in own : pc'[u] # "locked"
        /\ \A u \in Threads : u \notin own =>
              pc'[u] = pc[u] /\ head'[u] = head[u] /\ todo'[u] = todo[u]
    BY <1>10 DEF Crash, TypeOK
  <2> HIDE DEF own
  <2> QED
    BY <1>0, <2>1 DEF HoldsHead
<1> QED
  BY <1>1, <1>2, <1>3, <1>4, <1>5, <1>7, <1>8, <1>9, <1>10 DEF Next, Step

-----------------------------------------------------------------------------
(* The chain: queues and batches *)

(* What is still to be tried of a batch: all of it, or some of its events  *)
(* one by one.                                                             *)
ToTry(t) ==
    \/ todo[t] = <<batch[t]>>
    \/ /\ Distinct(todo[t])
       /\ \A i \in DOMAIN todo[t] : \E u \in Members(batch[t]) : todo[t][i] = <<u>>

(* The part of EventsAreApart that is about one thread, and about a queue. *)
ThreadApart(t) ==
    /\ Leading(t) => writing[ProcessOf[t]]
    /\ Distinct(batch[t])
    /\ ~Leading(t) => batch[t] = << >> /\ todo[t] = << >>
    /\ \A u \in Members(batch[t]) :
          pc[u] # "new" /\ ProcessOf[u] = ProcessOf[t] /\ u \notin Members(queue[ProcessOf[t]])
    /\ ToTry(t)

QueueApart(p) ==
    /\ Distinct(queue[p])
    /\ \A u \in Members(queue[p]) : pc[u] # "new" /\ ProcessOf[u] = p

OneLeader ==
    \A t, u \in Threads : Leading(t) /\ Leading(u) /\ ProcessOf[t] = ProcessOf[u] => t = u

(* The parts of EventsAreApart. *)
LEMMA ApartParts ==
    EventsAreApart <=> /\ OneLeader /\ \A t \in Threads : ThreadApart(t)
                       /\ \A p \in Processes : QueueApart(p)
BY DEF EventsAreApart, OneLeader, ThreadApart, QueueApart, ToTry

(* The empty sequence. *)
LEMMA NothingIn == Distinct(<< >>) /\ Members(<< >>) = {} /\ DOMAIN << >> = {}
BY DEF Distinct, Members

(* The events of a batch and of a queue are threads. *)
LEMMA MembersType ==
    ASSUME TypeOK
    PROVE  /\ \A t \in Threads : Members(batch[t]) \subseteq Threads
           /\ \A p \in Processes : Members(queue[p]) \subseteq Threads
<1>1. \A s \in Seq(Threads) : Members(s) \subseteq Threads
  BY DEF Members
<1> QED
  BY <1>1 DEF TypeOK

(* What is left to be tried after a group is inserted or refused. *)
LEMMA TriesLeft ==
    ASSUME TypeOK, NEW t \in Threads, todo[t] # << >>, ToTry(t), Distinct(batch[t]), batch' = batch,
           todo'[t] = Tail(todo[t]) \/ todo'[t] = [i \in DOMAIN batch[t] |-> <<batch[t][i]>>]
    PROVE  ToTry(t)'
<1>1. todo[t] \in Seq(Seq(Threads)) /\ batch[t] \in Seq(Threads)
  BY GroupType
<1>2. CASE todo'[t] = [i \in DOMAIN batch[t] |-> <<batch[t][i]>>]
  <2>1. /\ Distinct(todo'[t]) /\ DOMAIN todo'[t] = DOMAIN batch[t]
        /\ \A i \in DOMAIN batch[t] : todo'[t][i] = <<batch[t][i]>> /\ batch[t][i] \in Members(batch[t])
    BY <1>1, <1>2, OneByOne
  <2> QED
    BY <2>1 DEF ToTry, Distinct, Members
<1>3. CASE todo'[t] = Tail(todo[t]) /\ todo[t] = <<batch[t]>>
  <2>1. todo'[t] = << >>
    BY <1>1, <1>3
  <2> QED
    BY <2>1, NothingIn DEF ToTry, Distinct
<1>4. CASE todo'[t] = Tail(todo[t]) /\ todo[t] # <<batch[t]>>
  <2>1. /\ Distinct(todo[t])
        /\ \A i \in DOMAIN todo[t] : \E u \in Members(batch[t]) : todo[t][i] = <<u>>
    BY <1>4 DEF ToTry
  <2>2. /\ Distinct(Tail(todo[t]))
        /\ \A i \in DOMAIN Tail(todo[t]) : i + 1 \in DOMAIN todo[t] /\ Tail(todo[t])[i] = todo[t][i + 1]
    BY <1>1, <2>1, Shortened
  <2>3. \A i \in DOMAIN Tail(todo[t]) : \E u \in Members(batch[t]) : Tail(todo[t])[i] = <<u>>
    BY <2>1, <2>2
  <2> QED
    BY <1>4, <2>2, <2>3 DEF ToTry, Distinct, Members
<1> QED
  BY <1>2, <1>3, <1>4

(* Every step keeps the events of queues and batches apart. *)
LEMMA ApartStep == TypeOK /\ HeadIsTrue /\ EventsAreApart /\ [Next]_vars => EventsAreApart'
<1> SUFFICES ASSUME TypeOK, HeadIsTrue, EventsAreApart, [Next]_vars
             PROVE  /\ OneLeader' /\ \A t \in Threads : ThreadApart(t)'
                    /\ \A p \in Processes : QueueApart(p)'
  <2>1. (EventsAreApart <=> /\ OneLeader /\ \A t \in Threads : ThreadApart(t)
                            /\ \A p \in Processes : QueueApart(p))'
    BY ApartParts, PTL
  <2> QED
    BY <2>1
<1> DEFINE Goal == /\ OneLeader' /\ \A t \in Threads : ThreadApart(t)'
                   /\ \A p \in Processes : QueueApart(p)'
<1>0. /\ OneLeader /\ \A t \in Threads : ThreadApart(t)
      /\ \A p \in Processes : QueueApart(p)
  BY ApartParts
<1>01. /\ \A t \in Threads : Members(batch[t]) \subseteq Threads
       /\ \A p \in Processes : Members(queue[p]) \subseteq Threads
  BY MembersType
<1>02. pc \in [Threads -> {"new", "queued", "leading", "locked", "unwinding", "returned",
                            "failed", "crashed"}]
  BY DEF TypeOK
<1>03. /\ \A t \in Threads : ProcessOf[t] \in Processes
       /\ Distinct(<< >>) /\ Members(<< >>) = {} /\ DOMAIN << >> = {}
  BY ChainAssumption, NothingIn
<1>04. ASSUME NEW u \in Threads, batch'[u] = batch[u], todo'[u] = todo[u] PROVE ToTry(u)'
  BY <1>0, <1>04 DEF ThreadApart, ToTry, Distinct, Members
<1>05. ASSUME NEW u \in Threads, batch'[u] = batch[u], ToTry(u)', Leading(u)' <=> Leading(u),
              ~Leading(u) => todo'[u] = todo[u], Leading(u) => writing'[ProcessOf[u]],
              \A v \in Members(batch[u]) : pc'[v] # "new" /\ v \notin Members(queue'[ProcessOf[u]])
       PROVE  ThreadApart(u)'
  <2>1. (Leading(u) => writing[ProcessOf[u]])' /\ (~Leading(u) => batch[u] = << >> /\ todo[u] = << >>)'
    BY <1>0, <1>05 DEF ThreadApart
  <2>2. (Distinct(batch[u]))'
    BY <1>0, <1>05 DEF ThreadApart, Distinct
  <2>3. (\A v \in Members(batch[u]) :
            pc[v] # "new" /\ ProcessOf[v] = ProcessOf[u] /\ v \notin Members(queue[ProcessOf[u]]))'
    <3>1. ASSUME NEW v \in Members(batch'[u])
          PROVE  pc'[v] # "new" /\ ProcessOf[v] = ProcessOf[u] /\ v \notin Members(queue'[ProcessOf[u]])
      BY <1>0, <1>05, <3>1 DEF ThreadApart
    <3> QED
      BY <3>1 DEF Members
  <2> QED
    BY <1>05, <2>1, <2>2, <2>3 DEF ThreadApart
<1>1. CASE UNCHANGED vars
  BY <1>0, <1>1 DEF vars, appender, leaderVars, OneLeader, Leading, ThreadApart, QueueApart, ToTry,
                    Distinct, Members
<1>2. ASSUME NEW t \in Threads, Enqueue(t) PROVE Goal
  <2> DEFINE p == ProcessOf[t]
  <2>1. /\ pc[t] = "new" /\ pc'[t] = "queued" /\ \A u \in Threads : u # t => pc'[u] = pc[u]
        /\ queue'[p] = Append(queue[p], t)
        /\ \A q \in Processes : q # p => queue'[q] = queue[q]
        /\ UNCHANGED <<writing, batch, todo>>
    BY <1>2, <1>02, <1>03 DEF Enqueue, Goto, leaderVars, TypeOK
  <2>2. /\ Members(queue'[p]) = Members(queue[p]) \cup {t}
        /\ Distinct(queue[p]) /\ t \notin Members(queue[p]) => Distinct(queue'[p])
    BY <1>03, <2>1, Appended DEF TypeOK
  <2>3. t \notin Members(queue[p]) /\ \A u \in Threads : t \notin Members(batch[u])
    BY <1>0, <1>03, <2>1 DEF ThreadApart, QueueApart
  <2>4. \A u \in Threads : Leading(u)' <=> Leading(u)
    BY <2>1 DEF Leading
  <2>5. ASSUME NEW u \in Threads PROVE ThreadApart(u)'
    <3>1. Members(queue'[ProcessOf[u]]) \subseteq Members(queue[ProcessOf[u]]) \cup {t}
      BY <1>03, <2>1, <2>2
    <3>2. \A v \in Members(batch[u]) : pc'[v] # "new" /\ v \notin Members(queue'[ProcessOf[u]])
      BY <1>0, <1>01, <2>1, <2>3, <3>1 DEF ThreadApart
    <3> QED
      BY <1>0, <1>04, <1>05, <2>1, <2>4, <3>2 DEF ThreadApart
  <2>6. ASSUME NEW q \in Processes PROVE QueueApart(q)'
    <3>1. CASE q = p
      <4>1. Distinct(queue'[p]) /\ \A u \in Members(queue'[p]) : pc'[u] # "new" /\ ProcessOf[u] = p
        BY <1>0, <1>01, <1>03, <2>1, <2>2, <2>3 DEF QueueApart
      <4> QED
        BY <3>1, <4>1 DEF QueueApart, Distinct, Members
    <3>2. CASE q # p
      <4>1. queue'[q] = queue[q]
        BY <2>1, <3>2
      <4>2. \A u \in Members(queue[q]) : pc'[u] # "new"
        BY <1>0, <1>01, <2>1 DEF QueueApart
      <4> QED
        BY <1>0, <4>1, <4>2 DEF QueueApart, Distinct, Members
    <3> QED
      BY <3>1, <3>2
  <2> QED
    BY <1>0, <2>4, <2>5, <2>6 DEF OneLeader
<1>3. ASSUME NEW t \in Threads, Lead(t) PROVE Goal
  <2> DEFINE p == ProcessOf[t]
             n == IF Len(queue[p]) < BatchMax THEN Len(queue[p]) ELSE BatchMax
             front == SubSeq(queue[p], 1, n)
             back == SubSeq(queue[p], n + 1, Len(queue[p]))
  <2>1. /\ pc[t] = "queued" /\ ~writing[p] /\ pc'[t] = "leading" /\ writing'[p]
        /\ batch'[t] = front /\ todo'[t] = <<front>> /\ queue'[p] = back
        /\ \A u \in Threads : u # t => pc'[u] = pc[u] /\ batch'[u] = batch[u] /\ todo'[u] = todo[u]
        /\ \A q \in Processes : q # p => queue'[q] = queue[q] /\ writing'[q] = writing[q]
    BY <1>3, <1>02, <1>03 DEF Lead, Goto, TypeOK
  <2>2. /\ Members(front) \subseteq Members(queue[p]) /\ Members(back) \subseteq Members(queue[p])
        /\ Distinct(front) /\ Distinct(back) /\ Members(front) \cap Members(back) = {}
    BY <1>0, <1>03, Taken, Divided DEF QueueApart
  <2> HIDE DEF front, back, n
  <2>3. \A u \in Threads : ProcessOf[u] = p => ~Leading(u) /\ batch[u] = << >> /\ todo[u] = << >>
    BY <1>0, <2>1 DEF ThreadApart
  <2>4. Leading(t)' /\ \A u \in Threads : u # t => (Leading(u)' <=> Leading(u))
    BY <2>1 DEF Leading
  <2>5. ASSUME NEW u \in Threads PROVE ThreadApart(u)'
    <3>1. CASE u = t
      <4>1. \A v \in Members(front) : pc'[v] # "new" /\ ProcessOf[v] = p /\ v \notin Members(back)
        BY <1>0, <1>01, <1>03, <2>1, <2>2 DEF QueueApart
      <4> QED
        BY <2>1, <2>2, <2>4, <3>1, <4>1 DEF ThreadApart, ToTry, Distinct, Members
    <3>2. CASE u # t /\ ProcessOf[u] = p
      BY <1>0, <1>03, <2>1, <2>3, <2>4, <3>2 DEF ThreadApart, ToTry, Distinct, Members
    <3>3. CASE ProcessOf[u] # p
      <4>1. \A v \in Members(batch[u]) : pc'[v] # "new"
        BY <1>0, <1>01, <2>1 DEF ThreadApart
      <4>2. u # t /\ queue'[ProcessOf[u]] = queue[ProcessOf[u]]
                  /\ writing'[ProcessOf[u]] = writing[ProcessOf[u]]
        BY <1>03, <2>1, <3>3
      <4> QED
        BY <1>0, <1>04, <1>05, <2>1, <2>4, <4>1, <4>2 DEF ThreadApart
    <3> QED
      BY <3>1, <3>2, <3>3
  <2>6. ASSUME NEW q \in Processes PROVE QueueApart(q)'
    <3>1. \A u \in Members(queue[q]) : pc'[u] # "new"
      BY <1>0, <1>01, <2>1 DEF QueueApart
    <3>2. Distinct(queue'[q]) /\ Members(queue'[q]) \subseteq Members(queue[q])
      BY <1>0, <2>1, <2>2 DEF QueueApart
    <3>3. \A u \in Members(queue'[q]) : pc'[u] # "new" /\ ProcessOf[u] = q
      BY <1>0, <3>1, <3>2 DEF QueueApart
    <3> QED
      BY <3>2, <3>3 DEF QueueApart, Distinct, Members
  <2>7. OneLeader'
    BY <1>0, <2>3, <2>4 DEF OneLeader
  <2> QED
    BY <2>5, <2>6, <2>7
<1>4. ASSUME NEW t \in Threads,
             UNCHANGED <<batch, queue, writing>>,
             \A u \in Threads : Leading(u)' <=> Leading(u),
             \A u \in Threads : pc[u] # "new" => pc'[u] # "new",
             \A u \in Threads : u # t => todo'[u] = todo[u],
             todo'[t] = todo[t] \/ (Leading(t) /\ ToTry(t)')
      PROVE  Goal
  <2>1. ASSUME NEW u \in Threads PROVE ThreadApart(u)'
    <3>1. \A v \in Members(batch[u]) : pc'[v] # "new"
      BY <1>0, <1>01, <1>4 DEF ThreadApart
    <3>2. ToTry(u)'
      <4>1. CASE todo'[u] = todo[u]
        BY <1>0, <1>4, <4>1 DEF ThreadApart, ToTry, Distinct, Members
      <4> QED
        BY <1>4, <4>1
    <3>3. ~Leading(u) => todo'[u] = todo[u]
      BY <1>4
    <3>4. batch'[u] = batch[u] /\ queue' = queue /\ writing' = writing /\ (Leading(u)' <=> Leading(u))
      BY <1>4
    <3> QED
      BY <1>0, <1>05, <3>1, <3>2, <3>3, <3>4 DEF ThreadApart
  <2>2. ASSUME NEW q \in Processes PROVE QueueApart(q)'
    <3>1. \A u \in Members(queue[q]) : pc'[u] # "new"
      BY <1>0, <1>01, <1>4 DEF QueueApart
    <3> QED
      BY <1>0, <1>4, <3>1 DEF QueueApart, Distinct, Members
  <2> QED
    BY <1>0, <1>4, <2>1, <2>2 DEF OneLeader
<1>5. ASSUME NEW t \in Threads, Return(t) \/ LockHead(t) \/ CloseSession(t) PROVE Goal
  <2>1. /\ UNCHANGED <<batch, queue, writing, todo>>
        /\ \A u \in Threads : u # t => pc'[u] = pc[u]
        /\ pc'[t] # "new" /\ (pc'[t] \in {"leading", "locked"} <=> pc[t] \in {"leading", "locked"})
    BY <1>02, <1>5 DEF Return, LockHead, CloseSession, Goto, appender, leaderVars
  <2>2. /\ \A u \in Threads : Leading(u)' <=> Leading(u)
        /\ \A u \in Threads : pc[u] # "new" => pc'[u] # "new"
    BY <2>1 DEF Leading
  <2> QED
    BY <1>4, <2>1, <2>2
<1>6. ASSUME NEW t \in Threads, InsertLinks(t) \/ InsertRefused(t) \/ DatabaseFails(t) PROVE Goal
  <2>1. /\ pc[t] = "locked" /\ pc'[t] = "leading" /\ \A u \in Threads : u # t => pc'[u] = pc[u]
        /\ UNCHANGED <<batch, queue, writing>>
    BY <1>02, <1>6 DEF InsertLinks, InsertRefused, DatabaseFails, Goto, appender
  <2>2. todo[t] # << >>
    BY <2>1 DEF HeadIsTrue
  <2>3. /\ \A u \in Threads : u # t => todo'[u] = todo[u]
        /\ todo'[t] = Tail(todo[t]) \/ todo'[t] = [i \in DOMAIN batch[t] |-> <<batch[t][i]>>]
    <3>1. CASE InsertLinks(t)
      BY <3>1 DEF InsertLinks, TypeOK
    <3>2. CASE InsertRefused(t) \/ DatabaseFails(t)
      BY <2>2, <3>2, RefusedType DEF InsertRefused, DatabaseFails
    <3> QED
      BY <1>6, <3>1, <3>2
  <2>4. ToTry(t)'
    BY <1>0, <2>1, <2>2, <2>3, TriesLeft DEF ThreadApart
  <2>5. /\ \A u \in Threads : Leading(u)' <=> Leading(u)
        /\ \A u \in Threads : pc[u] # "new" => pc'[u] # "new"
        /\ Leading(t)
    BY <2>1 DEF Leading
  <2> QED
    BY <1>4, <2>1, <2>3, <2>4, <2>5
<1>7. ASSUME NEW t \in Threads, FinishBatch(t) \/ Interrupt(t) PROVE Goal
  <2> DEFINE p == ProcessOf[t]
  <2>1. /\ pc[t] \in {"leading", "locked"} /\ pc'[t] \in {"queued", "unwinding"} /\ queue' = queue
        /\ batch'[t] = << >> /\ todo'[t] = << >>
        /\ \A u \in Threads : u # t => pc'[u] = pc[u] /\ batch'[u] = batch[u] /\ todo'[u] = todo[u]
        /\ \A q \in Processes : q # p => writing'[q] = writing[q]
    BY <1>7, <1>02, <1>03 DEF FinishBatch, Interrupt, Goto, TypeOK
  <2>2. Leading(t) /\ ~Leading(t)' /\ \A u \in Threads : u # t => (Leading(u)' <=> Leading(u))
    BY <2>1 DEF Leading
  <2>3. \A u \in Threads : Leading(u)' => ProcessOf[u] # p
    BY <1>0, <2>2 DEF OneLeader
  <2>4. \A u \in Threads : pc[u] # "new" => pc'[u] # "new"
    BY <2>1
  <2>5. ASSUME NEW u \in Threads PROVE ThreadApart(u)'
    <3>1. CASE u = t
      BY <1>03, <2>1, <2>2, <3>1 DEF ThreadApart, ToTry, Distinct, Members
    <3>2. CASE u # t
      <4>1. \A v \in Members(batch[u]) : pc'[v] # "new"
        BY <1>0, <1>01, <2>4 DEF ThreadApart
      <4>2. Leading(u)' => writing'[ProcessOf[u]]
        BY <1>0, <1>03, <2>1, <2>2, <2>3, <3>2 DEF ThreadApart
      <4> QED
        BY <1>0, <1>04, <1>05, <2>1, <2>2, <3>2, <4>1, <4>2 DEF ThreadApart
    <3> QED
      BY <3>1, <3>2
  <2>6. ASSUME NEW q \in Processes PROVE QueueApart(q)'
    <3>1. \A u \in Members(queue[q]) : pc'[u] # "new"
      BY <1>0, <1>01, <2>4 DEF QueueApart
    <3> QED
      BY <1>0, <2>1, <3>1 DEF QueueApart, Distinct, Members
  <2>7. OneLeader'
    BY <1>0, <2>2 DEF OneLeader
  <2> QED
    BY <2>5, <2>6, <2>7
<1>8. ASSUME NEW p \in Processes, Crash(p) PROVE Goal
  <2> DEFINE own == {t \in Threads : ProcessOf[t] = p /\ pc[t] # "new"}
  <2>1. /\ \A t \in own : pc'[t] = "crashed" /\ batch'[t] = << >> /\ todo'[t] = << >>
        /\ \A t \in Threads : t \notin own =>
              pc'[t] = pc[t] /\ batch'[t] = batch[t] /\ todo'[t] = todo[t]
        /\ queue'[p] = << >>
        /\ \A q \in Processes : q # p => queue'[q] = queue[q] /\ writing'[q] = writing[q]
    BY <1>8 DEF Crash, TypeOK
  <2>2. \A t \in Threads : ProcessOf[t] = p /\ t \notin own => pc[t] = "new"
    OBVIOUS
  <2>3. \A t \in own : t \in Threads /\ ProcessOf[t] = p
    OBVIOUS
  <2> HIDE DEF own
  <2>4. \A u \in Threads : pc[u] # "new" => pc'[u] # "new"
    BY <2>1
  <2>5. \A u \in Threads : Leading(u)' => Leading(u) /\ ProcessOf[u] # p /\ u \notin own
    BY <2>1, <2>2 DEF Leading
  <2>6. \A u \in Threads : u \notin own => (Leading(u) <=> Leading(u)')
    BY <2>1 DEF Leading
  <2>7. ASSUME NEW u \in Threads PROVE ThreadApart(u)'
    <3>1. CASE u \in own
      BY <1>03, <2>1, <2>5, <3>1 DEF ThreadApart, ToTry, Distinct, Members
    <3>2. CASE u \notin own /\ ProcessOf[u] = p
      <4>1. ~Leading(u) /\ batch[u] = << >> /\ todo[u] = << >>
        BY <1>0, <2>2, <3>2 DEF ThreadApart, Leading
      <4> QED
        BY <1>03, <2>1, <2>6, <3>2, <4>1 DEF ThreadApart, ToTry, Distinct, Members
    <3>3. CASE ProcessOf[u] # p
      <4>1. \A v \in Members(batch[u]) : pc'[v] # "new"
        BY <1>0, <1>01, <2>4 DEF ThreadApart
      <4>2. u \notin own
        BY <2>3, <3>3
      <4>3. queue'[ProcessOf[u]] = queue[ProcessOf[u]] /\ writing'[ProcessOf[u]] = writing[ProcessOf[u]]
        BY <1>03, <2>1, <3>3
      <4> QED
        BY <1>0, <1>04, <1>05, <2>1, <2>6, <4>1, <4>2, <4>3 DEF ThreadApart
    <3> QED
      BY <3>1, <3>2, <3>3
  <2>8. ASSUME NEW q \in Processes PROVE QueueApart(q)'
    <3>1. CASE q = p
      BY <1>03, <2>1, <3>1 DEF QueueApart, Distinct, Members
    <3>2. CASE q # p
      <4>1. \A u \in Members(queue[q]) : pc'[u] # "new"
        BY <1>0, <1>01, <2>4 DEF QueueApart
      <4> QED
        BY <1>0, <2>1, <3>2, <4>1 DEF QueueApart, Distinct, Members
    <3> QED
      BY <3>1, <3>2
  <2>9. OneLeader'
    BY <1>0, <2>5 DEF OneLeader
  <2> QED
    BY <2>7, <2>8, <2>9
<1> QED
  BY <1>1, <1>2, <1>3, <1>5, <1>6, <1>7, <1>8 DEF Next, Step

-----------------------------------------------------------------------------
(* The chain: what a batch owes *)

(* The events still to be tried. *)
Untried(t) == UNION {Members(todo[t][i]) : i \in DOMAIN todo[t]}

(* The parts of BatchesAreHonest. *)
Owes(t) == \A u \in Members(batch[t]) : error[u] \/ Linked(u) \/ u \in Untried(t)

Told(t) ==
    /\ done[t] => error[t] \/ Linked(t)
    /\ pc[t] = "returned" => Linked(t)
    /\ pc[t] = "new" => ~Linked(t)
    /\ error[t] /\ faults = 0 => t \in Bad

Fresh ==
    /\ \A t \in Threads : \A u \in Untried(t) : ~Linked(u)
    /\ \A p \in Processes : \A u \in Members(queue[p]) : ~Linked(u)

(* The parts of BatchesAreHonest. *)
LEMMA HonestParts ==
    BatchesAreHonest <=> /\ \A t \in Threads : Owes(t) /\ Told(t)
                         /\ faults = 0 => Fresh
<1>1. \A t, u : u \in Untried(t) <=> \E i \in DOMAIN todo[t] : u \in Members(todo[t][i])
  BY DEF Untried
<1>2. \A t : Owes(t) <=> \A u \in Members(batch[t]) :
                  error[u] \/ Linked(u) \/ \E i \in DOMAIN todo[t] : u \in Members(todo[t][i])
  BY <1>1 DEF Owes
<1>3. Fresh <=> /\ \A t \in Threads : \A i \in DOMAIN todo[t] : \A u \in Members(todo[t][i]) : ~Linked(u)
                /\ \A p \in Processes : \A u \in Members(queue[p]) : ~Linked(u)
  BY <1>1 DEF Fresh
<1> QED
  BY <1>2, <1>3 DEF BatchesAreHonest, Told

(* What is still to be tried is of the batch, and none of it is of another *)
(* batch or in a queue.                                                    *)
LEMMA UntriedApart ==
    ASSUME TypeOK, EventsAreApart, NEW t \in Threads
    PROVE  /\ Untried(t) \subseteq Members(batch[t]) /\ Members(batch[t]) \subseteq Threads
           /\ \A w \in Threads : w # t => Members(batch[t]) \cap Members(batch[w]) = {}
           /\ \A p \in Processes : Members(batch[t]) \cap Members(queue[p]) = {}
<1>1. OneLeader /\ (\A w \in Threads : ThreadApart(w)) /\ \A p \in Processes : QueueApart(p)
  BY ApartParts
<1>2. ASSUME NEW u \in Untried(t) PROVE u \in Members(batch[t])
  <2>1. PICK i \in DOMAIN todo[t] : u \in Members(todo[t][i])
    BY <1>2 DEF Untried
  <2>2. CASE todo[t] = <<batch[t]>>
    <3>1. todo[t][i] = batch[t]
      BY <2>1, <2>2
    <3> QED
      BY <2>1, <3>1
  <2>3. CASE todo[t] # <<batch[t]>>
    <3>1. PICK v \in Members(batch[t]) : todo[t][i] = <<v>>
      BY <1>1, <2>1, <2>3 DEF ThreadApart, ToTry
    <3> QED
      BY <2>1, <3>1, SingleMembers
  <2> QED
    BY <2>2, <2>3
<1>3. ASSUME NEW w \in Threads, w # t PROVE Members(batch[t]) \cap Members(batch[w]) = {}
  <2>1. SUFFICES ASSUME NEW u \in Members(batch[t]), u \in Members(batch[w]) PROVE FALSE
    OBVIOUS
  <2>2. Leading(t) /\ Leading(w)
    BY <1>1, <2>1, NothingIn DEF ThreadApart
  <2>3. ProcessOf[t] = ProcessOf[w]
    BY <1>1, <2>1 DEF ThreadApart
  <2> QED
    BY <1>1, <1>3, <2>2, <2>3 DEF OneLeader
<1>4. ASSUME NEW p \in Processes PROVE Members(batch[t]) \cap Members(queue[p]) = {}
  BY <1>1 DEF ThreadApart, QueueApart
<1> QED
  BY <1>2, <1>3, <1>4, MembersType

(* What is left of a batch when its first group is taken away. *)
LEMMA UntriedTail ==
    ASSUME TypeOK, EventsAreApart, NEW t \in Threads, todo[t] # << >>, todo'[t] = Tail(todo[t])
    PROVE  /\ Untried(t) = Members(Group(t)) \cup Untried(t)'
           /\ Members(Group(t)) \cap Untried(t)' = {}
<1>1. /\ 1 \in DOMAIN todo[t] /\ todo[t] \in Seq(Seq(Threads))
      /\ \A i \in DOMAIN Tail(todo[t]) : i + 1 \in DOMAIN todo[t] /\ Tail(todo[t])[i] = todo[t][i + 1]
      /\ \A i \in DOMAIN todo[t] : i # 1 => i - 1 \in DOMAIN Tail(todo[t]) /\ Tail(todo[t])[i - 1] = todo[t][i]
      /\ Distinct(todo[t]) => \A i \in DOMAIN Tail(todo[t]) : Tail(todo[t])[i] # todo[t][1]
  BY GroupType, Shortened
<1>2. \A u : u \in Untried(t)' <=> \E i \in DOMAIN Tail(todo[t]) : u \in Members(Tail(todo[t])[i])
  BY DEF Untried, Members
<1>3. \A u : u \in Untried(t) <=> \E i \in DOMAIN todo[t] : u \in Members(todo[t][i])
  BY DEF Untried
<1>4. ASSUME NEW u PROVE u \in Untried(t) <=> u \in Members(Group(t)) \/ u \in Untried(t)'
  <2>1. ASSUME u \in Untried(t), u \notin Members(Group(t)) PROVE u \in Untried(t)'
    <3>1. PICK i \in DOMAIN todo[t] : u \in Members(todo[t][i])
      BY <1>3, <2>1
    <3>2. i # 1
      BY <2>1, <3>1 DEF Group
    <3> QED
      BY <1>1, <1>2, <3>1, <3>2
  <2>2. ASSUME u \in Members(Group(t)) PROVE u \in Untried(t)
    BY <1>1, <1>3, <2>2 DEF Group
  <2>3. ASSUME u \in Untried(t)' PROVE u \in Untried(t)
    BY <1>1, <1>2, <1>3, <2>3
  <2> QED
    BY <2>1, <2>2, <2>3
<1>5. ASSUME NEW u, u \in Members(Group(t)), u \in Untried(t)' PROVE FALSE
  <2>1. PICK i \in DOMAIN Tail(todo[t]) : u \in Members(Tail(todo[t])[i])
    BY <1>2, <1>5
  <2>2. CASE todo[t] = <<batch[t]>>
    <3>1. Tail(todo[t]) = << >>
      BY <1>1, <2>2
    <3> QED
      BY <2>1, <3>1, NothingIn
  <2>3. CASE todo[t] # <<batch[t]>>
    <3>1. Distinct(todo[t]) /\ \A j \in DOMAIN todo[t] : \E v \in Members(batch[t]) : todo[t][j] = <<v>>
      BY <2>3 DEF EventsAreApart
    <3>2. PICK v : todo[t][1] = <<v>>
      BY <1>1, <3>1
    <3>3. PICK w : Tail(todo[t])[i] = <<w>>
      BY <1>1, <2>1, <3>1
    <3>4. v = u /\ w = u
      BY <1>5, <2>1, <3>2, <3>3, SingleMembers DEF Group
    <3> QED
      BY <1>1, <2>1, <3>1, <3>2, <3>3, <3>4
  <2> QED
    BY <2>2, <2>3
<1> QED
  BY <1>4, <1>5

(* A batch that is tried one by one is tried whole. *)
LEMMA UntriedSingles ==
    ASSUME TypeOK, NEW t \in Threads, todo'[t] = [i \in DOMAIN batch[t] |-> <<batch[t][i]>>]
    PROVE  Untried(t)' = Members(batch[t])
<1> DEFINE singles == todo'[t]
<1>1. /\ DOMAIN singles = DOMAIN batch[t]
      /\ \A i \in DOMAIN batch[t] : singles[i] = <<batch[t][i]>>
  OBVIOUS
<1>2. Untried(t)' = UNION {Members(singles[i]) : i \in DOMAIN singles}
  BY DEF Untried, Members
<1> HIDE DEF singles
<1>3. \A i \in DOMAIN batch[t] : Members(singles[i]) = {batch[t][i]}
  BY <1>1, SingleMembers
<1>4. UNION {Members(singles[i]) : i \in DOMAIN singles} = {batch[t][i] : i \in DOMAIN batch[t]}
  BY <1>1, <1>3
<1> QED
  BY <1>2, <1>4 DEF Members

(* The events that a committed group links. *)
LEMMA NewlyLinked ==
    ASSUME TypeOK, NEW t \in Threads, todo[t] # << >>, chain' = chain \cup Links(head[t], Group(t))
    PROVE  \A u : Linked(u)' <=> Linked(u) \/ u \in Members(Group(t))
<1>1. Group(t) \in Seq(Threads) /\ head[t] \in [sequence : Nat, hash : Seq(Threads)]
  BY GroupType
<1>2. DOMAIN Group(t) = 1..Len(Group(t))
  BY <1>1
<1>3. \A u : (\E l \in Links(head[t], Group(t)) : l.event = u) <=> u \in Members(Group(t))
  <2>1. \A l \in Links(head[t], Group(t)) : \E i \in 1..Len(Group(t)) : l.event = Group(t)[i]
    BY <1>1, LinksFacts
  <2>2. \A i \in 1..Len(Group(t)) : \E l \in Links(head[t], Group(t)) : l.event = Group(t)[i]
    BY <1>1, LinksFacts
  <2> QED
    BY <1>2, <2>1, <2>2, ZenonT(60) DEF Members
<1> QED
  BY <1>3 DEF Linked

(* A single append that the database refuses while it works is bad: its    *)
(* sequence number is free and its event is not linked.                    *)
LEMMA RefusedIsBad ==
    ASSUME TypeOK, HeadIsTrue, NEW t \in Threads, pc[t] = "locked", ~Insertable(t),
           Members(Group(t)) \cap Bad = {}
    PROVE  \E u \in Members(Group(t)) : Linked(u)
<1>1. HoldsHead(t) /\ todo[t] # << >>
  BY HeadParts DEF HoldsHead
<1>2. Group(t) \in Seq(Threads) /\ head[t] \in [sequence : Nat, hash : Seq(Threads)]
  BY <1>1, GroupType
<1>3. PICK l \in chain, m \in Links(head[t], Group(t)) : l.sequence = m.sequence \/ l.event = m.event
  BY DEF Insertable
<1>4. PICK i \in 1..Len(Group(t)) : m.sequence = head[t].sequence + i /\ m.event = Group(t)[i]
  BY <1>2, LinksFacts
<1>5. l.sequence \in 1..head[t].sequence /\ head[t].sequence \in Nat
  <2>1. {k.sequence : k \in chain} = 1..head[t].sequence
    BY <1>1 DEF HoldsHead
  <2>2. l.sequence \in {k.sequence : k \in chain}
    OBVIOUS
  <2>3. head[t].sequence \in Nat
    BY <1>2
  <2> QED
    BY <2>1, <2>2, <2>3
<1>6. l.event = Group(t)[i] /\ i \in DOMAIN Group(t)
  <2>1. i \in DOMAIN Group(t) /\ l.sequence # head[t].sequence + i
    BY <1>2, <1>5
  <2> QED
    BY <1>3, <1>4, <2>1
<1> QED
  BY <1>6 DEF Linked, Members


(* Every step keeps the batches honest. *)
LEMMA HonestStep == ChainInv /\ [Next]_vars => BatchesAreHonest'
<1> SUFFICES ASSUME TypeOK, HeadIsTrue, EventsAreApart, BatchesAreHonest, [Next]_vars
             PROVE  (\A t \in Threads : Owes(t)' /\ Told(t)') /\ (faults' = 0 => Fresh')
  <2>1. (BatchesAreHonest <=> /\ \A t \in Threads : Owes(t) /\ Told(t)
                              /\ faults = 0 => Fresh)'
    BY HonestParts, PTL
  <2> QED
    BY <2>1 DEF ChainInv
<1> DEFINE Goal == (\A t \in Threads : Owes(t)' /\ Told(t)') /\ (faults' = 0 => Fresh')
<1>0. (\A t \in Threads : Owes(t) /\ Told(t)) /\ (faults = 0 => Fresh)
  BY HonestParts
<1>01. /\ \A t \in Threads : Untried(t) \subseteq Members(batch[t]) /\ Members(batch[t]) \subseteq Threads
       /\ \A p \in Processes : Members(queue[p]) \subseteq Threads
  BY UntriedApart, MembersType
<1>02. /\ pc \in [Threads -> {"new", "queued", "leading", "locked", "unwinding", "returned",
                              "failed", "crashed"}]
       /\ done \in [Threads -> BOOLEAN] /\ error \in [Threads -> BOOLEAN] /\ faults \in Nat
  BY ChainAssumption DEF TypeOK
<1>03. \A t \in Threads : ProcessOf[t] \in Processes
  BY ChainAssumption
<1>04. ASSUME NEW t \in Threads,
              \A u \in Members(batch'[t]) : error'[u] \/ Linked(u)' \/ u \in Untried(t)'
       PROVE  Owes(t)'
  BY <1>04 DEF Owes, Members
<1>05. ASSUME \A t \in Threads : \A u \in Untried(t)' : ~Linked(u)',
              \A p \in Processes : \A u \in Members(queue'[p]) : ~Linked(u)'
       PROVE  Fresh'
  BY <1>05 DEF Fresh, Members
<1>06. ASSUME NEW t, todo'[t] = todo[t] PROVE Untried(t)' = Untried(t)
  BY <1>06 DEF Untried, Members
<1>07. ASSUME NEW t, todo'[t] = << >> PROVE Untried(t)' = {}
  BY <1>07 DEF Untried, Members
<1>08. ASSUME chain' = chain PROVE \A u : Linked(u)' <=> Linked(u)
  BY <1>08 DEF Linked
<1>1. CASE UNCHANGED vars
  <2>1. UNCHANGED <<chain, queue, pc, batch, todo, done, error, faults>>
    BY <1>1 DEF vars, appender, leaderVars
  <2>2. (\A u : Linked(u)' <=> Linked(u)) /\ \A t : Untried(t)' = Untried(t)
    BY <1>06, <1>08, <2>1
  <2>3. ASSUME NEW t \in Threads PROVE Owes(t)' /\ Told(t)'
    BY <1>0, <1>04, <2>1, <2>2 DEF Owes, Told
  <2>4. faults' = 0 => Fresh'
    BY <1>0, <1>05, <2>1, <2>2 DEF Fresh
  <2> QED
    BY <2>3, <2>4
<1>2. ASSUME NEW t \in Threads, Enqueue(t) PROVE Goal
  <2> DEFINE p == ProcessOf[t]
  <2>1. /\ pc[t] = "new" /\ pc'[t] = "queued" /\ \A u \in Threads : u # t => pc'[u] = pc[u]
        /\ queue'[p] = Append(queue[p], t)
        /\ \A q \in Processes : q # p => queue'[q] = queue[q]
        /\ UNCHANGED <<chain, batch, todo, done, error, faults>>
    BY <1>2, <1>02, <1>03 DEF Enqueue, Goto, leaderVars, TypeOK
  <2>2. Members(queue'[p]) = Members(queue[p]) \cup {t}
    BY <1>03, <2>1, Appended DEF TypeOK
  <2>3. (\A u : Linked(u)' <=> Linked(u)) /\ (\A u : Untried(u)' = Untried(u)) /\ ~Linked(t)
    BY <1>0, <1>06, <1>08, <2>1 DEF Told
  <2>4. ASSUME NEW u \in Threads PROVE Owes(u)' /\ Told(u)'
    BY <1>0, <1>04, <2>1, <2>3 DEF Owes, Told
  <2>5. ASSUME faults' = 0 PROVE Fresh'
    <3>1. Fresh
      BY <1>0, <2>1, <2>5
    <3>2. \A q \in Processes : \A u \in Members(queue'[q]) : ~Linked(u)'
      BY <2>1, <2>2, <2>3, <3>1 DEF Fresh
    <3> QED
      BY <1>05, <2>3, <3>1, <3>2 DEF Fresh
  <2> QED
    BY <2>4, <2>5
<1>3. ASSUME NEW t \in Threads, Lead(t) PROVE Goal
  <2> DEFINE p == ProcessOf[t]
             n == IF Len(queue[p]) < BatchMax THEN Len(queue[p]) ELSE BatchMax
             front == SubSeq(queue[p], 1, n)
             back == SubSeq(queue[p], n + 1, Len(queue[p]))
  <2>1. /\ pc[t] = "queued" /\ pc'[t] = "leading"
        /\ batch'[t] = front /\ todo'[t] = <<front>> /\ queue'[p] = back
        /\ \A u \in Threads : u # t => pc'[u] = pc[u] /\ batch'[u] = batch[u] /\ todo'[u] = todo[u]
        /\ \A q \in Processes : q # p => queue'[q] = queue[q]
        /\ UNCHANGED <<chain, done, error, faults>>
    BY <1>3, <1>02, <1>03 DEF Lead, Goto, TypeOK
  <2>2. Members(front) \subseteq Members(queue[p]) /\ Members(back) \subseteq Members(queue[p])
    BY <1>03, Taken, Divided
  <2> HIDE DEF front, back, n
  <2>3. Untried(t)' = Members(front)
    <3>1. DOMAIN <<front>> = {1} /\ <<front>>[1] = front
      OBVIOUS
    <3> QED
      BY <2>1, <3>1 DEF Untried, Members
  <2>4. (\A u : Linked(u)' <=> Linked(u)) /\ (\A u \in Threads : u # t => Untried(u)' = Untried(u))
    BY <1>06, <1>08, <2>1
  <2>5. ASSUME NEW u \in Threads PROVE Owes(u)' /\ Told(u)'
    <3>1. Owes(u)'
      BY <1>0, <1>04, <2>1, <2>3, <2>4 DEF Owes
    <3> QED
      BY <1>0, <2>1, <2>4, <3>1 DEF Told
  <2>6. ASSUME faults' = 0 PROVE Fresh'
    <3>1. Fresh
      BY <1>0, <2>1, <2>6
    <3>2. \A q \in Processes : \A u \in Members(queue'[q]) : ~Linked(u)'
      BY <2>1, <2>2, <2>4, <3>1 DEF Fresh
    <3>3. \A u \in Threads : \A v \in Untried(u)' : ~Linked(v)'
      BY <1>03, <2>2, <2>3, <2>4, <3>1 DEF Fresh
    <3> QED
      BY <1>05, <3>2, <3>3
  <2> QED
    BY <2>5, <2>6
<1>4. ASSUME NEW t \in Threads, Return(t) \/ LockHead(t) \/ CloseSession(t) PROVE Goal
  <2>1. /\ UNCHANGED <<chain, queue, batch, todo, done, error, faults>>
        /\ \A u \in Threads : u # t => pc'[u] = pc[u]
        /\ pc'[t] # "new" /\ (pc'[t] = "returned" => done[t] /\ ~error[t])
    BY <1>02, <1>4 DEF Return, LockHead, CloseSession, Goto, appender, leaderVars
  <2>2. (\A u : Linked(u)' <=> Linked(u)) /\ \A u : Untried(u)' = Untried(u)
    BY <1>06, <1>08, <2>1
  <2>3. ASSUME NEW u \in Threads PROVE Owes(u)' /\ Told(u)'
    BY <1>0, <1>04, <2>1, <2>2 DEF Owes, Told
  <2>4. faults' = 0 => Fresh'
    BY <1>0, <1>05, <2>1, <2>2 DEF Fresh
  <2> QED
    BY <2>3, <2>4
<1>5. ASSUME NEW t \in Threads, InsertLinks(t) PROVE Goal
  <2>1. /\ pc[t] = "locked" /\ pc'[t] = "leading" /\ \A u \in Threads : u # t => pc'[u] = pc[u]
        /\ chain' = chain \cup Links(head[t], Group(t)) /\ todo'[t] = Tail(todo[t])
        /\ \A u \in Threads : u # t => todo'[u] = todo[u]
        /\ UNCHANGED <<queue, batch, done, error, faults>>
    BY <1>02, <1>5 DEF InsertLinks, Goto, appender, TypeOK
  <2>2. todo[t] # << >>
    BY <2>1 DEF HeadIsTrue
  <2>3. /\ \A u : Linked(u)' <=> Linked(u) \/ u \in Members(Group(t))
        /\ Untried(t) = Members(Group(t)) \cup Untried(t)' /\ Members(Group(t)) \cap Untried(t)' = {}
        /\ \A u \in Threads : u # t => Untried(u)' = Untried(u)
    BY <1>06, <2>1, <2>2, NewlyLinked, UntriedTail
  <2>4. /\ Members(Group(t)) \subseteq Members(batch[t])
        /\ \A u \in Members(Group(t)) : pc[u] # "new"
    BY <2>2, GroupOfBatch DEF EventsAreApart
  <2>5. ASSUME NEW u \in Threads PROVE Owes(u)' /\ Told(u)'
    <3>1. Owes(u)'
      BY <1>0, <1>04, <2>1, <2>3 DEF Owes
    <3> QED
      BY <1>0, <2>1, <2>3, <2>4, <3>1 DEF Told
  <2>6. ASSUME faults' = 0 PROVE Fresh'
    <3>1. Fresh
      BY <1>0, <2>1, <2>6
    <3>2. \A q \in Processes : \A u \in Members(queue[q]) : u \notin Members(Group(t))
      BY <2>4, UntriedApart
    <3>3. ASSUME NEW w \in Threads, w # t PROVE \A u \in Untried(w) : u \notin Members(Group(t))
      BY <2>4, <3>3, UntriedApart
    <3>4. \A u \in Threads : \A v \in Untried(u)' : ~Linked(v)'
      BY <2>3, <3>1, <3>3 DEF Fresh
    <3>5. \A q \in Processes : \A u \in Members(queue'[q]) : ~Linked(u)'
      BY <2>1, <2>3, <3>1, <3>2 DEF Fresh
    <3> QED
      BY <1>05, <3>4, <3>5
  <2> QED
    BY <2>5, <2>6
<1>6. ASSUME NEW t \in Threads, InsertRefused(t) \/ DatabaseFails(t) PROVE Goal
  <2>1. /\ pc[t] = "locked" /\ pc'[t] = "leading" /\ \A u \in Threads : u # t => pc'[u] = pc[u]
        /\ chain' = chain \/ chain' = chain \cup Links(head[t], Group(t))
        /\ UNCHANGED <<queue, batch, done>> /\ Refused(t)
        /\ faults' = 0 => chain' = chain /\ faults = 0 /\ ~Insertable(t)
    BY <1>02, <1>6 DEF InsertRefused, DatabaseFails, Goto, appender
  <2>2. todo[t] # << >>
    BY <2>1 DEF HeadIsTrue
  <2>3. /\ \A u : Linked(u) => Linked(u)'
        /\ \A u : Linked(u)' => Linked(u) \/ u \in Members(Group(t))
        /\ chain' = chain => \A u : Linked(u)' <=> Linked(u)
    BY <1>08, <2>1, <2>2, NewlyLinked
  <2>4. /\ \A u \in Threads : u # t => todo'[u] = todo[u]
        /\ todo'[t] = IF Len(Group(t)) = 1 THEN Tail(todo[t])
                      ELSE [i \in DOMAIN batch[t] |-> <<batch[t][i]>>]
        /\ \A u \in Threads : error[u] => error'[u]
        /\ \A u \in Threads : error'[u] => error[u] \/ (Len(Group(t)) = 1 /\ u = Group(t)[1])
        /\ Len(Group(t)) = 1 => Group(t)[1] \in Threads /\ error'[Group(t)[1]]
    BY <2>1, <2>2, RefusedType
  <2>5. /\ Members(Group(t)) \subseteq Members(batch[t])
        /\ \A u \in Members(Group(t)) : pc[u] # "new"
        /\ Len(Group(t)) = 1 => Members(Group(t)) = {Group(t)[1]}
    BY <2>2, GroupOfBatch, GroupType, OnlyMember DEF EventsAreApart
  <2>6. \A u \in Threads : u # t => Untried(u)' = Untried(u)
    BY <1>06, <2>4
  <2>7. CASE Len(Group(t)) = 1
    <3>1. Untried(t) = Members(Group(t)) \cup Untried(t)'
      BY <2>2, <2>4, <2>7, UntriedTail
    <3>2. ASSUME NEW u \in Threads PROVE Owes(u)'
      <4>1. \A v \in Members(batch[u]) : error'[v] \/ Linked(v)' \/ v \in Untried(u)'
        BY <1>0, <1>01, <2>3, <2>4, <2>5, <2>6, <2>7, <3>1 DEF Owes
      <4> QED
        BY <1>04, <2>1, <4>1
    <3>3. ASSUME faults' = 0 PROVE Group(t)[1] \in Bad
      <4>1. ~Linked(Group(t)[1])
        BY <1>0, <2>1, <2>5, <2>7, <3>1, <3>3 DEF Fresh
      <4> QED
        BY <2>1, <2>5, <2>7, <3>3, <4>1, RefusedIsBad
    <3>4. ASSUME NEW u \in Threads PROVE Told(u)'
      BY <1>0, <2>1, <2>3, <2>4, <2>5, <3>3 DEF Told
    <3>5. ASSUME faults' = 0 PROVE Fresh'
      BY <1>0, <1>05, <2>1, <2>3, <2>6, <3>1, <3>5 DEF Fresh
    <3> QED
      BY <3>2, <3>4, <3>5
  <2>8. CASE Len(Group(t)) # 1
    <3>1. Untried(t)' = Members(batch[t])
      BY <2>4, <2>8, UntriedSingles
    <3>2. Untried(t) = Members(batch[t])
      <4>1. todo[t] = <<batch[t]>>
        BY <2>2, <2>8, GroupOfBatch
      <4>2. DOMAIN <<batch[t]>> = {1} /\ <<batch[t]>>[1] = batch[t]
        OBVIOUS
      <4> QED
        BY <4>1, <4>2 DEF Untried
    <3>3. ASSUME NEW u \in Threads PROVE Owes(u)'
      <4>1. \A v \in Members(batch[u]) : error'[v] \/ Linked(v)' \/ v \in Untried(u)'
        BY <1>0, <1>01, <2>3, <2>4, <2>6, <3>1 DEF Owes
      <4> QED
        BY <1>04, <2>1, <4>1
    <3>4. ASSUME NEW u \in Threads PROVE Told(u)'
      BY <1>0, <2>1, <2>3, <2>4, <2>5, <2>8 DEF Told
    <3>5. ASSUME faults' = 0 PROVE Fresh'
      BY <1>0, <1>05, <2>1, <2>3, <2>6, <3>1, <3>2, <3>5 DEF Fresh
    <3> QED
      BY <3>3, <3>4, <3>5
  <2> QED
    BY <2>7, <2>8
<1>7. ASSUME NEW t \in Threads, FinishBatch(t) PROVE Goal
  <2>1. /\ todo[t] = << >> /\ todo' = todo /\ pc'[t] = "queued" /\ batch'[t] = << >>
        /\ \A u \in Threads : u # t => pc'[u] = pc[u] /\ batch'[u] = batch[u]
        /\ \A u \in Threads : done'[u] <=> done[u] \/ u \in Members(batch[t])
        /\ UNCHANGED <<chain, queue, error, faults>>
    BY <1>7, <1>02 DEF FinishBatch, Goto, TypeOK
  <2>2. (\A u : Linked(u)' <=> Linked(u)) /\ (\A u : Untried(u)' = Untried(u)) /\ Untried(t)' = {}
    BY <1>06, <1>07, <1>08, <2>1
  <2>3. ASSUME NEW u \in Threads PROVE Owes(u)' /\ Told(u)'
    <3>1. Owes(u)'
      BY <1>0, <1>04, <2>1, <2>2, NothingIn DEF Owes
    <3>2. u \in Members(batch[t]) => error[u] \/ Linked(u)
      BY <1>0, <2>2 DEF Owes
    <3> QED
      BY <1>0, <2>1, <2>2, <3>1, <3>2 DEF Told
  <2>4. faults' = 0 => Fresh'
    BY <1>0, <1>05, <2>1, <2>2 DEF Fresh
  <2> QED
    BY <2>3, <2>4
<1>8. ASSUME NEW t \in Threads, Interrupt(t) PROVE Goal
  <2>1. /\ todo'[t] = << >> /\ pc'[t] = "unwinding" /\ batch'[t] = << >> /\ faults' = faults + 1
        /\ \A u \in Threads : u # t => pc'[u] = pc[u] /\ batch'[u] = batch[u] /\ todo'[u] = todo[u]
        /\ \A u \in Threads : done'[u] <=> done[u] \/ u \in Members(batch[t])
        /\ \A u \in Threads : error'[u] <=> error[u] \/ u \in Members(batch[t])
        /\ UNCHANGED <<chain, queue>>
    BY <1>8, <1>02 DEF Interrupt, Goto, TypeOK
  <2>2. /\ \A u : Linked(u)' <=> Linked(u)
        /\ \A u \in Threads : u # t => Untried(u)' = Untried(u)
    BY <1>06, <1>08, <2>1
  <2>3. faults' # 0
    BY <1>02, <2>1
  <2>4. ASSUME NEW u \in Threads PROVE Owes(u)' /\ Told(u)'
    <3>1. \A v \in Members(batch'[u]) : error'[v] \/ Linked(v)' \/ v \in Untried(u)'
      BY <1>0, <1>01, <2>1, <2>2, NothingIn DEF Owes
    <3> QED
      BY <1>0, <1>04, <2>1, <2>2, <2>3, <3>1 DEF Told
  <2> QED
    BY <2>3, <2>4
<1>9. ASSUME NEW p \in Processes, Crash(p) PROVE Goal
  <2>1. /\ faults' = faults + 1 /\ UNCHANGED <<chain, done, error>>
        /\ \A t \in Threads : pc'[t] = pc[t] \/ pc'[t] = "crashed"
        /\ \A t \in Threads : batch'[t] = << >> \/ (batch'[t] = batch[t] /\ todo'[t] = todo[t])
    BY <1>9 DEF Crash, TypeOK
  <2>2. (\A u : Linked(u)' <=> Linked(u)) /\ faults' # 0
    BY <1>02, <1>08, <2>1
  <2>3. ASSUME NEW u \in Threads PROVE Owes(u)' /\ Told(u)'
    <3>1. \A v \in Members(batch'[u]) : error'[v] \/ Linked(v)' \/ v \in Untried(u)'
      BY <1>0, <1>06, <2>1, <2>2, NothingIn DEF Owes
    <3> QED
      BY <1>0, <1>04, <2>1, <2>2, <3>1 DEF Told
  <2> QED
    BY <2>2, <2>3
<1> QED
  BY <1>1, <1>2, <1>3, <1>4, <1>5, <1>6, <1>7, <1>8, <1>9 DEF Next, Step


(* The initial state satisfies the invariant. *)
LEMMA ChainInitInv == Init => ChainInv
<1> SUFFICES ASSUME Init PROVE ChainInv
  OBVIOUS
<1> USE ChainAssumption DEF Init
<1>1. TypeOK
  <2>1. << >> \in Seq(Threads) /\ << >> \in Seq(Seq(Threads)) /\ Len(<< >>) = 0
    OBVIOUS
  <2>2. Genesis \in [sequence : Nat, hash : Seq(Threads)]
    BY <2>1 DEF Genesis
  <2> QED
    BY <2>1, <2>2 DEF TypeOK
<1>2. HeadIsTrue
  <2>1. {l.sequence : l \in chain} = {} /\ 1..0 = {}
    OBVIOUS
  <2> QED
    BY <2>1 DEF HeadIsTrue
<1>3. EventsAreApart
  BY NothingIn DEF EventsAreApart, Leading, Distinct
<1>4. BatchesAreHonest
  BY NothingIn DEF BatchesAreHonest, Linked
<1> QED
  BY <1>1, <1>2, <1>3, <1>4 DEF ChainInv

(* A step keeps the invariant of the chain. *)
LEMMA ChainStep == ChainInv /\ [Next]_vars => ChainInv'
BY ChainTypeStep, HeadStep, ApartStep, HonestStep DEF ChainInv

-----------------------------------------------------------------------------
(* The theorems *)

(* The invariants of the four parts: the lock of the chain covers the read *)
(* of its head and the insert, a key is registered under its lock, a       *)
(* migration keeps the lock until it commits, and no head is remembered    *)
(* while a reported link is wrong.                                         *)
THEOREM TrailInvariant == TrailSpec => [](ChainInv /\ KeysInv /\ CheckInv /\ StartInv)
<1> DEFINE Inv == ChainInv /\ KeysInv /\ CheckInv /\ StartInv
<1>1. TrailInit => Inv
  BY ChainInitInv, KeysInitInv, CheckInitInv, StartInitInv DEF TrailInit
<1>2. Inv /\ [TrailNext]_trailVars => Inv'
  BY TrailSteps, ChainStep, KeysStep, CheckStep, StartStep
<1> QED
  BY <1>1, <1>2, PTL DEF TrailSpec

(* Sets of which one is mapped onto the other, one to one, are of a size. *)
LEMMA OneToOne ==
    ASSUME NEW S, NEW T, NEW f \in [S -> T], IsFiniteSet(T),
           \A x, y \in S : f[x] = f[y] => x = y, \A z \in T : \E x \in S : f[x] = z
    PROVE  IsFiniteSet(S) /\ Cardinality(S) = Cardinality(T)
<1>1. f \in Injection(S, T) /\ f \in Surjection(S, T)
  BY DEF Injection, IsInjective, Surjection
<1> QED
  BY <1>1, FS_Injection

(* The links of _insert_chain_links form one chain, whichever processes    *)
(* append and whatever fails.                                              *)
THEOREM ChainStaysLinear == TrailSpec => []ChainIsLinear
<1>1. ChainInv => ChainIsLinear
  <2> SUFFICES ASSUME TypeOK, HeadIsTrue PROVE ChainIsLinear
    BY DEF ChainInv
  <2> DEFINE Sequences == {l.sequence : l \in chain}
             Linkeds == {l.event : l \in chain}
             number == [l \in chain |-> l.sequence]
             event == [l \in chain |-> l.event]
  <2>1. PICK n \in {0} \cup Sequences : Sequences = 1..n
    BY DEF HeadIsTrue
  <2>2. n \in Nat /\ \A l, m \in chain : l.sequence = m.sequence \/ l.event = m.event => l = m
    <3>1. \A l \in chain : l.sequence \in Nat
      BY DEF TypeOK, Link
    <3>2. n \in Nat
      BY <2>1, <3>1
    <3> QED
      BY <3>2 DEF HeadIsTrue
  <2>3. IsFiniteSet(1..n) /\ Cardinality(1..n) = n
    <3>1. 1 \in Int /\ n \in Int
      BY <2>2
    <3>2. IsFiniteSet(1..n) /\ Cardinality(1..n) = IF 1 > n THEN 0 ELSE n - 1 + 1
      BY <3>1, FS_Interval
    <3> QED
      BY <2>2, <3>2
  <2>4. IsFiniteSet(chain) /\ Cardinality(chain) = n
    <3>1. number \in [chain -> Sequences]
      OBVIOUS
    <3>2. \A l, m \in chain : number[l] = number[m] => l = m
      BY <2>2
    <3>3. \A i \in Sequences : \E l \in chain : number[l] = i
      OBVIOUS
    <3>4. IsFiniteSet(chain) /\ Cardinality(chain) = Cardinality(Sequences)
      <4> HIDE DEF number, Sequences
      <4> QED
        BY <2>1, <2>3, <3>1, <3>2, <3>3, OneToOne
    <3> QED
      BY <2>1, <2>3, <3>4
  <2>5. Cardinality(Linkeds) = Cardinality(chain)
    <3>1. event \in Bijection(chain, Linkeds)
      <4>1. event \in [chain -> Linkeds] /\ \A e \in Linkeds : \E l \in chain : event[l] = e
        OBVIOUS
      <4>2. \A l, m \in DOMAIN event : event[l] = event[m] => l = m
        BY <2>2
      <4> HIDE DEF event, Linkeds
      <4> QED
        BY <4>1, <4>2 DEF Bijection, Injection, IsInjective, Surjection
    <3> HIDE DEF event, Linkeds
    <3> QED
      BY <2>4, <3>1, FS_Surjection DEF Bijection
  <2>6. /\ \A l \in chain : l.sequence = 1 => l.previous = << >>
        /\ \A l, m \in chain : m.sequence = l.sequence + 1 => m.previous = l.hash
    BY DEF HeadIsTrue
  <2>7. Sequences = 1..Cardinality(chain)
    BY <2>1, <2>4
  <2> QED
    BY <2>5, <2>6, <2>7 DEF ChainIsLinear
<1> QED
  BY <1>1, TrailInvariant, PTL

(* append returns only what is linked, and while nothing fails only a bad  *)
(* append fails.                                                           *)
THEOREM AppendsStayHonest == TrailSpec => []AppendsAreHonest
<1>1. ChainInv => AppendsAreHonest
  BY DEF ChainInv, BatchesAreHonest, AppendsAreHonest, Linked
<1> QED
  BY <1>1, TrailInvariant, PTL

(* Every stored event names the row of the key that signed it. *)
THEOREM SignaturesDoResolve == TrailSpec => []SignaturesResolve
<1>1. KeysInv => SignaturesResolve
  BY DEF KeysInv
<1> QED
  BY <1>1, TrailInvariant, PTL

(* A check that starts while a reported link is wrong reports it again. *)
THEOREM AlarmsAreHeard == TrailSpec => []AlarmIsHeard
<1>1. CheckInv => AlarmIsHeard
  BY DEF CheckInv, AlarmIsHeard
<1> QED
  BY <1>1, TrailInvariant, PTL

(* Processes serve on the schema of their code, migrations exclude each    *)
(* other and leave no table without its owner and grants.                  *)
THEOREM SchemaStaysWhole == TrailSpec => []SchemaIsWhole
<1>1. StartInv => SchemaIsWhole
  <2> SUFFICES ASSUME StartInv PROVE SchemaIsWhole
    OBVIOUS
  <2> DEFINE Migrating == {p \in Starters : boot[p] \in {"owned", "compare", "upgrade", "commit"}}
  <2>1. \A p, q \in Migrating : p = q
    BY DEF StartInv
  <2> HIDE DEF Migrating
  <2>2. Cardinality(Migrating) <= 1
    <3>1. CASE Migrating = {}
      BY <3>1, FS_EmptySet
    <3>2. CASE Migrating # {}
      <4>1. PICK p \in Migrating : Migrating = {p}
        BY <2>1, <3>2
      <4>2. Cardinality({p}) = 1
        BY FS_Singleton
      <4> QED
        BY <4>1, <4>2
    <3> QED
      BY <3>1, <3>2
  <2> QED
    BY <2>2 DEF StartInv, SchemaIsWhole, Migrating
<1> QED
  BY <1>1, TrailInvariant, PTL
=============================================================================
