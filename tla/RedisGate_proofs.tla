-------------------------- MODULE RedisGate_proofs --------------------------
(***************************************************************************)
(* Proofs about RedisGate: kill switches, signed requests, stream slots    *)
(* and handshakes, for any number of processes, orders, copies, tabs and   *)
(* threads, any limits and any number of faults.                           *)
(***************************************************************************)
EXTENDS RedisGate, FiniteSetTheorems, TLAPS

-----------------------------------------------------------------------------
(* What a step of the deployment does to each user of Redis *)

(* Faults are only ever added, and the environment does not change. *)
Monotone ==
    /\ production' = production
    /\ outages' >= outages /\ restarts' >= restarts

(* Every step keeps the deployment's own invariant. *)
LEMMA DeploymentStep == DeploymentInv /\ [Next]_vars => DeploymentInv' /\ Monotone
<1> SUFFICES ASSUME DeploymentInv, [Next]_vars PROVE DeploymentInv' /\ Monotone
  OBVIOUS
<1> USE DEF DeploymentInv, Monotone
<1>1. ASSUME UNCHANGED deployed PROVE DeploymentInv' /\ Monotone
  BY <1>1 DEF deployed
<1>2. ASSUME RedisFails \/ RedisReturns \/ SomeRestart PROVE DeploymentInv' /\ Monotone
  <2>1. CASE RedisFails
    <3>1. outages' = outages + 1 /\ restarts' = restarts /\ production' = production /\ up' = FALSE
      BY <2>1 DEF RedisFails
    <3>2. outages' \in Nat /\ outages' > 0 /\ outages' >= outages /\ restarts' >= restarts
      BY <3>1
    <3> QED
      BY <3>1, <3>2
  <2>2. CASE RedisReturns
    BY <2>2 DEF RedisReturns
  <2>3. CASE SomeRestart
    BY <2>3 DEF SomeRestart
  <2> QED
    BY <1>2, <2>1, <2>2, <2>3
<1>3. ASSUME NEW t \in HelloThreads, AnswerTooLate(t) PROVE DeploymentInv' /\ Monotone
  BY <1>3 DEF AnswerTooLate
<1>4. ASSUME GateNext PROVE DeploymentInv' /\ Monotone
  BY <1>1, <1>2, <1>4 DEF GateNext, Switching, Limiting, Serving, Connecting, Streaming,
                          Fault, Redis, Restart
<1>5. ASSUME HelloNext PROVE DeploymentInv' /\ Monotone
  BY <1>1, <1>2, <1>3, <1>5 DEF HelloNext, StartHello, AskForNonce, FinishHello, HelloTick,
                                HelloRedis, HelloRestart
<1> QED
  BY <1>1, <1>4, <1>5 DEF Next, vars

(* What a step does to the kill switches. *)
LEMMA SwitchSteps ==
    ASSUME [Next]_vars
    PROVE  \/ SwitchNext
           \/ UNCHANGED <<redis, local, calls, check, engaged, owed>>
           \/ \E p \in Processes : CallsDie(p)
BY DEF Next, vars, GateNext, Switching, Limiting, Serving, Connecting, Streaming, Fault, Redis,
       Restart, switchVars

(* What a step does to the signed requests. *)
LEMMA ApiSteps ==
    ASSUME [Next]_vars
    PROVE  \/ UNCHANGED apiVars
           \/ UNCHANGED deployed /\ RevokeKey
           \/ UNCHANGED deployed /\ \E c \in Copies, p \in Processes : RateIncr(c, p)
           \/ UNCHANGED deployed /\ \E c \in Copies : RateExpire(c) \/ VerifyHmac(c) \/ ConsumeNonce(c)
           \/ UNCHANGED deployed /\ ApiTick
           \/ SomeRestart /\ \E p \in Processes : RequestsDie(p)
BY DEF Next, vars, GateNext, Switching, Limiting, Serving, Connecting, Streaming, Fault, Redis,
       Restart

(* What a step does to the streams. *)
LEMMA StreamSteps ==
    ASSUME [Next]_vars
    PROVE  \/ UNCHANGED streamVars
           \/ UNCHANGED deployed /\ \E t \in Tabs, p \in Processes : AcquireIncr(t, p)
           \/ UNCHANGED deployed /\ \E t \in Tabs : StreamStep(t) \/ ReleaseSlot(t)
           \/ UNCHANGED deployed /\ StreamTick
           \/ SomeRestart /\ \E p \in Processes : StreamsDie(p)
BY DEF Next, vars, GateNext, Switching, Limiting, Serving, Connecting, Streaming, Fault, Redis,
       Restart

(* What a step does to the handshakes. *)
LEMMA HelloSteps ==
    ASSUME [Next]_vars
    PROVE  HelloNext \/ UNCHANGED helloVars
BY DEF Next, vars

-----------------------------------------------------------------------------
(* Kill switches *)

(* Every step keeps Redis ahead of what anybody was told is set. *)
LEMMA SwitchStep == DeploymentInv /\ SwitchInv /\ [Next]_vars => SwitchInv'
<1> SUFFICES ASSUME DeploymentInv, SwitchInv, [Next]_vars PROVE SwitchInv'
  OBVIOUS
<1> USE SwitchAssumption DEF SwitchInv
<1>1. ASSUME UNCHANGED <<redis, local, calls, check, engaged, owed>> PROVE SwitchInv'
  BY <1>1
<1>2. ASSUME NEW p \in Processes, CallsDie(p) PROVE SwitchInv'
  BY <1>2 DEF CallsDie
<1>3. ASSUME NEW p \in Processes, NEW s \in Switches, SetRemote(p, s) PROVE SwitchInv'
  <2> DEFINE Set == [at |-> p, sets |-> TRUE, switch |-> s, certain |-> TRUE]
  <2>1. Set \in Call /\ Set.switch = s
    BY DEF Call
  <2>2. calls' = calls \cup {Set} /\ redis' = redis \cup {s} /\ UNCHANGED <<check, engaged, owed>>
    BY <1>3 DEF SetRemote
  <2> QED
    BY <2>1, <2>2
<1>4. ASSUME NEW p \in Processes, NEW s \in Switches, ClearRemote(p, s) PROVE SwitchInv'
  <2> DEFINE Superseded(c) == [c EXCEPT !.certain = @ /\ c.switch # s]
             Clear == [at |-> p, sets |-> FALSE, switch |-> s, certain |-> TRUE]
  <2>1. calls' = {Superseded(c) : c \in calls} \cup {Clear}
    BY <1>4 DEF ClearRemote
  <2>2. Clear \in Call /\ ~Clear.sets
    BY DEF Call
  <2>3. ASSUME NEW c \in calls
        PROVE  /\ Superseded(c) \in Call
               /\ Superseded(c).sets /\ Superseded(c).certain => Superseded(c).switch \in redis \ {s}
    BY DEF Call
  <2>4. calls' \subseteq Call /\ \A c \in calls' : c.sets /\ c.certain => c.switch \in redis \ {s}
    <3> HIDE DEF Superseded, Clear
    <3> QED
      BY <2>1, <2>2, <2>3
  <2>5. /\ redis \ {s} \subseteq redis'
        /\ engaged' = engaged \ {s} /\ owed' = [o \in Orders |-> owed[o] \ {s}] /\ check' = check
    BY <1>4 DEF ClearRemote
  <2> QED
    BY <2>4, <2>5
<1>5. ASSUME NEW c \in calls, Return(c) PROVE SwitchInv'
  BY <1>5 DEF Return
<1>6. ASSUME NEW p \in Processes, NEW o \in Orders, CheckLocal(p, o) PROVE SwitchInv'
  BY <1>6 DEF CheckLocal, Unchecked
<1>7. ASSUME NEW o \in Orders, Decide(o) PROVE SwitchInv'
  BY <1>7 DEF Decide
<1>8. ASSUME NEW o \in Orders, NEW s \in Subject[o], AskRedis(o, s) PROVE SwitchInv'
  <2>1. s \in owed[o] /\ up => s \in redis
    OBVIOUS
  <2>2. check' = [check EXCEPT ![o] = [check[o] EXCEPT !.left = @ \ {s},
                      !.hit = @ \/ (up /\ s \in redis), !.unknown = @ \/ ~up]]
    BY <1>8 DEF AskRedis
  <2>3. UNCHANGED <<redis, calls, engaged, owed>>
    BY <1>8 DEF AskRedis
  <2>4. /\ check'[o].loc = check[o].loc /\ check'[o].left = check[o].left \ {s}
        /\ check'[o].hit = (check[o].hit \/ (up /\ s \in redis))
        /\ check'[o].unknown = (check[o].unknown \/ ~up)
        /\ \A q \in Orders : q # o => check'[q] = check[q]
    BY <2>2
  <2>5. check' \in [Orders -> [loc : {"new", "asking", "refused", "passed"}, left : SUBSET Switches,
                             hit : BOOLEAN, unknown : BOOLEAN]]
    <3> DEFINE hit == check[o].hit \/ (up /\ s \in redis)
               unknown == check[o].unknown \/ ~up
    <3>1. hit \in BOOLEAN /\ unknown \in BOOLEAN
      OBVIOUS
    <3>2. check' = [check EXCEPT ![o] = [check[o] EXCEPT !.left = @ \ {s}, !.hit = hit,
                                                         !.unknown = unknown]]
      BY <2>2
    <3> HIDE DEF hit, unknown
    <3> QED
      BY <3>1, <3>2, ZenonT(60)
  <2> QED
    BY <2>1, <2>3, <2>4, <2>5
<1> QED
  BY SwitchSteps, <1>1, <1>2, <1>3, <1>4, <1>5, <1>6, <1>7, <1>8 DEF SwitchNext

-----------------------------------------------------------------------------
(* Signed requests *)

(* A request that goes on is a request, where it went. *)
LEMMA WentOn ==
    ASSUME NEW r \in SignedRequest, NEW p \in Processes \cup {"none"},
           NEW l \in {"expire", "verify", "nonce", "refused", "served"}
    PROVE  GoesOn(r, p, l) \in SignedRequest /\ GoesOn(r, p, l).loc = l
<1>1. CASE l \in {"refused", "served"}
  <2>1. GoesOn(r, p, l) = [loc |-> l, at |-> "none", stall |-> 0]
    BY <1>1 DEF GoesOn, NotSent
  <2> QED
    BY <2>1 DEF SignedRequest
<1>2. CASE l \notin {"refused", "served"}
  <2>1. GoesOn(r, p, l) = [r EXCEPT !.at = p, !.loc = l]
    BY <1>2 DEF GoesOn
  <2> QED
    BY <2>1 DEF SignedRequest
<1> QED
  BY <1>1, <1>2

(* A request's step only moves that request. *)
LEMMA Moved ==
    ASSUME ApiType, NEW c \in Copies, NEW p \in Processes \cup {"none"},
           NEW l \in {"expire", "verify", "nonce", "refused", "served"},
           copy' = [copy EXCEPT ![c] = GoesOn(@, p, l)]
    PROVE  /\ copy' \in [Copies -> SignedRequest] /\ copy'[c].loc = l
           /\ \A d \in Copies : d # c => copy'[d] = copy[d]
<1>1. copy[c] \in SignedRequest
  BY DEF ApiType
<1>2. GoesOn(copy[c], p, l) \in SignedRequest /\ GoesOn(copy[c], p, l).loc = l
  BY <1>1, WentOn
<1> QED
  BY <1>2 DEF ApiType

(* The same where the request stays in its process. *)
LEMMA MovedHere ==
    ASSUME ApiType, NEW c \in Copies, NEW l \in {"expire", "verify", "nonce", "refused", "served"},
           Move(c, l)
    PROVE  /\ copy' \in [Copies -> SignedRequest] /\ copy'[c].loc = l
           /\ \A d \in Copies : d # c => copy'[d] = copy[d]
<1>1. copy[c].at \in Processes \cup {"none"}
  BY DEF ApiType, SignedRequest
<1>2. copy' = [copy EXCEPT ![c] = GoesOn(@, copy[c].at, l)]
  BY DEF Move
<1> QED
  BY <1>1, <1>2, Moved

(* The counter of a bucket stays a counter, and zero means absent. *)
LEMMA RateKept ==
    ASSUME ApiType
    PROVE  /\ Incr(rate, 1) \in [n : Nat, ttl : Nat \cup {Forever}] /\ Incr(rate, 1).n = rate.n + 1
           /\ rate.n # 0 => Incr(rate, 1).ttl = rate.ttl
           /\ rate.n = 0 => Incr(rate, 1).ttl = Forever
           /\ Expire(rate, RateWindow) \in [n : Nat, ttl : Nat \cup {Forever}]
           /\ rate # Absent => Expire(rate, RateWindow) = [n |-> rate.n, ttl |-> RateWindow]
           /\ Aged(rate) \in [n : Nat, ttl : Nat \cup {Forever}]
           /\ Aged(rate).n = 0 => Aged(rate) = Absent
BY ApiAssumption DEF ApiType, Incr, Expire, Aged, Absent, Forever

(* Sets of copies are finite. *)
LEMMA CopiesFinite ==
    ASSUME NEW S \in SUBSET Copies
    PROVE  /\ IsFiniteSet(S) /\ Cardinality(S) \in Nat
           /\ \A T \in SUBSET S : Cardinality(T) <= Cardinality(S)
           /\ \A c \in Copies : Cardinality(S \cup {c}) <= Cardinality(S) + 1
           /\ \A c \in S : Cardinality(S \ {c}) = Cardinality(S) - 1
<1>1. IsFiniteSet(S)
  BY FS_Subset, ApiAssumption
<1> QED
  BY <1>1, FS_CardinalityType, FS_Subset, FS_AddElement, FS_RemoveElement

(* The sets that the invariant counts are sets of copies, now and next. *)
LEMMA CountedCopies ==
    /\ Expiring \in SUBSET Copies /\ Recent \in SUBSET Copies
    /\ Expiring' \in SUBSET Copies /\ Recent' \in SUBSET Copies
BY DEF Expiring, Recent

(* What a step keeps that does not reach the bucket: a request that leaves *)
(* before it has asked for the expiry strands the bucket.                  *)
LEMMA BucketUntouched ==
    ASSUME ApiType, BucketInv, PassedInv,
           UNCHANGED <<rate, age, passed, through, begun>>, stranded' \in BOOLEAN,
           Expiring' \subseteq Expiring,
           stranded \/ Expiring' # Expiring => stranded',
           \A c \in Copies : copy[c].loc # "unsent" => copy'[c].loc # "unsent"
    PROVE  BucketInv' /\ PassedInv'
<1>1. Recent' = Recent
  BY DEF Recent
<1>2. BucketInv'
  <2>1. \A c \in Expiring' : rate.ttl = Forever /\ Expiring' = {c}
    BY DEF BucketInv
  <2>2. rate.ttl = Forever => stranded' \/ Expiring' # {}
    BY DEF BucketInv
  <2> QED
    BY <2>1, <2>2 DEF BucketInv
<1>3. Cardinality(through \cup Expiring') <= Cardinality(through \cup Expiring)
  <2>1. through \cup Expiring \in SUBSET Copies
    BY CountedCopies DEF ApiType
  <2> QED
    BY <2>1, CopiesFinite
<1>4. /\ Cardinality(through \cup Expiring') \in Nat /\ Cardinality(through \cup Expiring) \in Nat
      /\ rate.n \in Nat
  BY CountedCopies, CopiesFinite DEF ApiType
<1>5. PassedInv'
  BY <1>1, <1>3, <1>4, ApiAssumption DEF PassedInv, ApiType
<1> QED
  BY <1>2, <1>5

(* A request that is counted in the process's memory moves as one that is  *)
(* counted in Redis.                                                       *)
LEMMA CountedInMemory ==
    ASSUME ApiType, NEW c \in Copies, NEW p \in Processes \cup {"none"}, CountInMemory(c, p)
    PROVE  /\ copy' \in [Copies -> SignedRequest] /\ copy'[c].loc \in {"refused", "verify"}
           /\ \A d \in Copies : d # c => copy'[d] = copy[d]
<1>1. PICK l \in {"refused", "verify"} : copy' = [copy EXCEPT ![c] = GoesOn(@, p, l)]
  BY DEF CountInMemory
<1> QED
  BY <1>1, Moved

(* What the middleware's INCR does to a request and its bucket. *)
LEMMA IncrKeeps ==
    ASSUME ApiType, BucketInv, PassedInv, NEW c \in Copies, NEW p \in Processes, RateIncr(c, p)
    PROVE  /\ ApiType' /\ BucketInv' /\ PassedInv'
           /\ UNCHANGED <<age, nonce>>
           /\ copy'[c].loc # "served" /\ \A d \in Copies : d # c => copy'[d] = copy[d]
<1>0. UNCHANGED <<age, nonce, stranded>> /\ copy[c].loc = "unsent"
  BY DEF RateIncr
<1>1. CASE ~up
  <2>1. /\ UNCHANGED <<rate, begun, passed, through>>
        /\ Move(c, "refused") \/ CountInMemory(c, p)
    BY <1>1 DEF RateIncr
  <2>2. /\ copy' \in [Copies -> SignedRequest] /\ copy'[c].loc \in {"refused", "verify"}
        /\ \A d \in Copies : d # c => copy'[d] = copy[d]
    BY <2>1, MovedHere, CountedInMemory
  <2>3. Expiring' = Expiring
    BY <2>2, <1>0 DEF Expiring
  <2>4. BucketInv' /\ PassedInv'
    BY <2>1, <2>2, <2>3, <1>0, BucketUntouched DEF ApiType
  <2> QED
    BY <2>1, <2>2, <2>4, <1>0 DEF ApiType
<1>2. CASE up
  <2> DEFINE l == Verdict(rate.n + 1)
  <2>1. /\ rate' = Incr(rate, 1) /\ copy' = [copy EXCEPT ![c] = GoesOn(@, p, l)]
        /\ begun' = IF rate.n = 0 THEN age ELSE begun
        /\ l = "verify" => PassesRedis(c)
        /\ l # "verify" => UNCHANGED <<passed, through>>
    BY <1>2 DEF RateIncr
  <2>2. /\ l \in {"expire", "refused", "verify"} /\ rate.n \in Nat
        /\ l = "expire" <=> rate.n = 0
        /\ l = "verify" => rate.n + 1 <= RateLimit
    BY ApiAssumption DEF Verdict, ApiType
  <2> HIDE DEF l
  <2>3. /\ copy' \in [Copies -> SignedRequest] /\ copy'[c].loc = l
        /\ \A d \in Copies : d # c => copy'[d] = copy[d]
    BY <2>1, <2>2, Moved
  <2>4. ApiType'
    <3>1. passed' \in [Copies -> Int] /\ through' \subseteq Copies /\ begun' \in Int
      BY <2>1 DEF ApiType, PassesRedis
    <3>2. rate' \in [n : Nat, ttl : Nat \cup {Forever}] /\ rate'.n # 0
      BY <2>1, <2>2, RateKept
    <3> QED
      BY <3>1, <3>2, <2>3, <1>0 DEF ApiType
  <2>5. BucketInv' /\ PassedInv'
    <3>1. CASE l = "expire"
      <4>1. rate = Absent /\ rate.n = 0 /\ rate.ttl = 0 /\ Expiring = {} /\ through = {}
        BY <2>2, <3>1 DEF ApiType, BucketInv, PassedInv, Absent, Forever
      <4>2. rate'.n = 1 /\ rate'.ttl = Forever /\ rate' # Absent
        BY <4>1, <2>1, RateKept DEF Absent
      <4>3. Expiring' = {c} /\ through' = {} /\ Recent' = Recent /\ passed' = passed
        BY <2>1, <2>3, <3>1, <4>1, <1>0 DEF Expiring, Recent
      <4>4. Cardinality(through' \cup Expiring') = 1
        <5>1. through' \cup Expiring' = {c}
          BY <4>3
        <5> QED
          BY <5>1, FS_Singleton
      <4>5. BucketInv'
        BY <4>2, <4>3 DEF BucketInv
      <4>6. PassedInv'
        BY <4>1, <4>2, <4>3, <4>4, <1>0, ApiAssumption DEF PassedInv
      <4> QED
        BY <4>5, <4>6
    <3>2. CASE l # "expire"
      <4>1. rate'.n = rate.n + 1 /\ rate'.ttl = rate.ttl /\ rate.n > 0 /\ begun' = begun
        BY <2>1, <2>2, <3>2, RateKept
      <4>2. rate # Absent /\ rate' # Absent
        BY <4>1, <2>2 DEF Absent
      <4>3. Expiring' = Expiring /\ c \notin Expiring
        BY <2>3, <3>2, <1>0 DEF Expiring
      <4>4. BucketInv'
        BY <4>1, <4>2, <4>3, <1>0 DEF BucketInv
      <4>5. PassedInv'
        <5>1. CASE l = "refused"
          <6>1. passed' = passed /\ through' = through
            BY <2>1, <5>1
          <6>2. Recent' = Recent
            BY <6>1, <1>0 DEF Recent
          <6>3. Cardinality(through \cup Expiring) \in Nat
            BY CountedCopies, CopiesFinite DEF ApiType
          <6>4. \A d \in through : copy'[d].loc # "unsent"
            BY <2>3, <5>1 DEF ApiType, PassedInv
          <6> QED
            BY <4>1, <4>2, <4>3, <6>1, <6>2, <6>3, <6>4, <2>2, <1>0 DEF PassedInv
        <5>2. CASE l = "verify"
          <6>1. passed' = [passed EXCEPT ![c] = age] /\ through' = through \cup {c}
            BY <2>1, <5>2 DEF PassesRedis
          <6>2. c \notin through /\ passed'[c] = age /\ \A d \in Copies : d # c => passed'[d] = passed[d]
            BY <6>1, <1>0 DEF PassedInv, ApiType
          <6>3. Recent' \ through' \subseteq Recent \ through
            BY <6>1, <6>2, <1>0 DEF Recent
          <6>4. Cardinality(through' \cup Expiring') <= Cardinality(through \cup Expiring) + 1
            <7>1. through' \cup Expiring' = (through \cup Expiring) \cup {c}
              BY <6>1, <4>3
            <7>2. through \cup Expiring \in SUBSET Copies
              BY CountedCopies DEF ApiType
            <7> QED
              BY <7>1, <7>2, CopiesFinite
          <6>5. /\ Cardinality(Recent' \ through') <= Cardinality(Recent \ through)
                /\ Cardinality(Recent' \ through') \in Nat /\ Cardinality(Recent \ through) \in Nat
            BY <6>3, CountedCopies, CopiesFinite
          <6>6. /\ Cardinality(through \cup Expiring) \in Nat
                /\ Cardinality(through' \cup Expiring') \in Nat
            BY <2>4, CountedCopies, CopiesFinite DEF ApiType
          <6>7. /\ Cardinality(through' \cup Expiring') <= rate'.n
                /\ Cardinality(through' \cup Expiring') <= RateLimit
                /\ Cardinality(Recent' \ through') < RateLimit
            BY <6>4, <6>5, <6>6, <4>1, <2>2, <5>2, ApiAssumption DEF PassedInv
          <6>8. \A d \in through' : copy'[d].loc # "unsent"
            BY <6>1, <2>3, <5>2 DEF ApiType, PassedInv
          <6>9. \A d \in Copies : passed'[d] <= age
            BY <6>2, <1>0 DEF PassedInv, ApiType
          <6>10. rate.ttl # Forever => /\ \E d \in through' : passed'[d] = begun
                                       /\ \A d \in Recent' \ through' : passed'[d] <= begun
            <7>1. ASSUME rate.ttl # Forever PROVE \E d \in through' : passed'[d] = begun
              <8>1. PICK d \in through : passed[d] = begun
                BY <7>1, <4>2 DEF PassedInv
              <8>2. d \in through' /\ passed'[d] = passed[d]
                BY <6>1, <6>2 DEF ApiType
              <8> QED
                BY <8>1, <8>2
            <7>2. ASSUME rate.ttl # Forever, NEW d \in Recent' \ through' PROVE passed'[d] <= begun
              <8>1. d \in Recent \ through /\ d # c
                BY <6>1, <6>3
              <8> QED
                BY <8>1, <7>2, <6>2, <4>2, CountedCopies DEF PassedInv
            <7> QED
              BY <7>1, <7>2
          <6> QED
            BY <6>7, <6>8, <6>9, <6>10, <4>1, <4>2, <1>0 DEF PassedInv
        <5> QED
          BY <2>2, <3>2, <5>1, <5>2
      <4> QED
        BY <4>4, <4>5
    <3> QED
      BY <3>1, <3>2
  <2> QED
    BY <2>2, <2>3, <2>4, <2>5, <1>0
<1> QED
  BY <1>1, <1>2

(* What the EXPIRE of a bucket's first request does, or its failure. *)
LEMMA ExpireKeeps ==
    ASSUME ApiType, BucketInv, PassedInv, NEW c \in Copies, RateExpire(c)
    PROVE  /\ ApiType' /\ BucketInv' /\ PassedInv'
           /\ UNCHANGED <<age, nonce>>
           /\ copy'[c].loc # "served" /\ \A d \in Copies : d # c => copy'[d] = copy[d]
<1>0. UNCHANGED <<age, nonce>> /\ copy[c].loc = "expire" /\ copy[c].at \in Processes \cup {"none"}
  BY DEF RateExpire, ApiType, SignedRequest
<1>00. c \in Expiring /\ Expiring = {c} /\ rate.ttl = Forever
  BY <1>0 DEF Expiring, BucketInv
<1>1. CASE ~up
  <2>1. /\ UNCHANGED <<rate, begun, passed, through>> /\ stranded' = TRUE
        /\ Move(c, "refused") \/ CountInMemory(c, copy[c].at)
    BY <1>1 DEF RateExpire
  <2>2. /\ copy' \in [Copies -> SignedRequest] /\ copy'[c].loc \in {"refused", "verify"}
        /\ \A d \in Copies : d # c => copy'[d] = copy[d]
    BY <2>1, <1>0, MovedHere, CountedInMemory
  <2>3. Expiring' \subseteq Expiring
    BY <2>2, <1>0 DEF Expiring
  <2>4. BucketInv' /\ PassedInv'
    BY <2>1, <2>2, <2>3, <1>0, BucketUntouched DEF ApiType
  <2> QED
    BY <2>1, <2>2, <2>4, <1>0 DEF ApiType
<1>2. CASE up
  <2>1. /\ rate' = Expire(rate, RateWindow) /\ Move(c, "verify") /\ UNCHANGED stranded
        /\ passed' = [passed EXCEPT ![c] = age] /\ through' = through \cup {c} /\ begun' = age
    BY <1>2 DEF RateExpire, PassesRedis
  <2>2. /\ copy' \in [Copies -> SignedRequest] /\ copy'[c].loc = "verify"
        /\ \A d \in Copies : d # c => copy'[d] = copy[d]
    BY <2>1, MovedHere
  <2>3. rate # Absent /\ rate.n \in Nat /\ rate.n # 0
    BY <1>00 DEF Absent, Forever, ApiType
  <2>4. rate' = [n |-> rate.n, ttl |-> RateWindow] /\ rate'.n = rate.n /\ rate'.ttl = RateWindow
    BY <2>1, <2>3, RateKept
  <2>5. ApiType'
    BY <2>1, <2>2, <2>3, <2>4, <1>0, ApiAssumption DEF ApiType
  <2>6. Expiring' = {}
    BY <2>2, <1>00 DEF Expiring
  <2>7. BucketInv'
    BY <2>1, <2>4, <2>6, <1>0, ApiAssumption DEF BucketInv, ApiType, Forever
  <2>8. /\ passed'[c] = age /\ c \in through'
        /\ \A d \in Copies : d # c => passed'[d] = passed[d]
        /\ \A d \in Copies : passed'[d] <= age
    BY <2>1 DEF ApiType, PassedInv
  <2>9. Recent' \ through' \subseteq Recent \ through
    BY <2>1, <2>8, <1>0 DEF Recent
  <2>10. /\ Cardinality(Recent' \ through') <= Cardinality(Recent \ through)
         /\ Cardinality(Recent' \ through') \in Nat /\ Cardinality(Recent \ through) \in Nat
    BY <2>9, CountedCopies, CopiesFinite
  <2>11. through' \cup Expiring' = through \cup Expiring
    BY <2>1, <2>6, <1>00
  <2>12. \A d \in through' : copy'[d].loc # "unsent"
    BY <2>1, <2>2 DEF ApiType, PassedInv
  <2>13. \A d \in Recent' \ through' : passed'[d] <= begun'
    BY <2>1, <2>8, CountedCopies
  <2>14. /\ Cardinality(through' \cup Expiring') <= rate'.n
         /\ Cardinality(through' \cup Expiring') <= RateLimit
         /\ Cardinality(Recent' \ through') < RateLimit
    BY <2>4, <2>10, <2>11, ApiAssumption DEF PassedInv
  <2>15. rate' # Absent /\ \E d \in through' : passed'[d] = begun'
    BY <2>1, <2>3, <2>4, <2>8 DEF Absent
  <2>16. PassedInv'
    BY <2>8, <2>12, <2>13, <2>14, <2>15, <1>0 DEF PassedInv
  <2> QED
    BY <2>2, <2>5, <2>7, <2>16, <1>0
<1> QED
  BY <1>1, <1>2

(* What the passing of time does to the bucket. *)
LEMMA BucketAges ==
    ASSUME ApiType, ApiType', BucketInv, PassedInv, ApiTick
    PROVE  BucketInv' /\ PassedInv'
<1>1. /\ age' = age + 1 /\ rate' = Aged(rate) /\ UNCHANGED <<passed, begun, stranded>>
      /\ through' = IF rate' = Absent THEN {} ELSE through
  BY DEF ApiTick
<1>2. \A c \in Copies : copy'[c].loc = copy[c].loc
  BY DEF ApiTick, ApiType, SignedRequest
<1>3. Expiring' = Expiring /\ Recent' \subseteq Recent
  BY <1>1, <1>2, ApiAssumption DEF Expiring, Recent, ApiType
<1>4. /\ rate.n \in Nat /\ rate.ttl \in Nat \cup {Forever} /\ age \in Int /\ begun \in Int
      /\ passed \in [Copies -> Int]
  BY DEF ApiType
<1>5. /\ \A c \in Copies : passed'[c] <= age'
      /\ \A c \in through' : copy'[c].loc # "unsent"
      /\ rate' = Absent => through' = {}
  BY <1>1, <1>2, <1>4 DEF PassedInv, ApiType
<1>6. /\ Cardinality(Recent' \ through) <= Cardinality(Recent \ through)
      /\ Cardinality(Recent' \ through) \in Nat /\ Cardinality(Recent \ through) \in Nat
  <2>1. Recent' \ through \subseteq Recent \ through
    BY <1>3
  <2> QED
    BY <2>1, CountedCopies, CopiesFinite
<1>7. CASE rate = Absent
  <2>1. rate' = Absent /\ through = {} /\ through' = {} /\ Absent.ttl # Forever
    BY <1>1, <1>7 DEF Aged, Absent, Forever, PassedInv
  <2>2. BucketInv'
    BY <2>1, <1>1, <1>3, <1>7 DEF BucketInv
  <2>3. PassedInv'
    BY <2>1, <1>1, <1>3, <1>5, <1>6, <1>7, ApiAssumption DEF PassedInv
  <2> QED
    BY <2>2, <2>3
<1>8. CASE rate # Absent /\ rate.ttl = Forever
  <2>0. stranded' = stranded
    BY <1>1
  <2>1. rate' = rate /\ through' = through
    BY <1>1, <1>8 DEF Aged
  <2>2. BucketInv'
    <3>1. UNCHANGED <<rate, stranded>> /\ Expiring' = Expiring
      BY <2>0, <2>1, <1>3
    <3>2. /\ \A c \in Expiring' : rate'.ttl = Forever /\ Expiring' = {c}
          /\ stranded' \/ Expiring' # {}
      <4>1. \A c \in Expiring : Expiring = {c}
        BY DEF BucketInv
      <4>2. stranded \/ Expiring # {}
        BY <1>8 DEF BucketInv
      <4> QED
        BY <4>1, <4>2, <3>1, <1>8
    <3> QED
      BY <3>1, <3>2, <1>8 DEF BucketInv
  <2>3. PassedInv'
    BY <2>1, <1>3, <1>5, <1>6, <1>8, ApiAssumption DEF PassedInv
  <2> QED
    BY <2>2, <2>3
<1>9. CASE rate # Absent /\ rate.ttl # Forever /\ rate.ttl > 1
  <2>1. rate'.n = rate.n /\ rate'.ttl = rate.ttl - 1 /\ rate' # Absent
    BY <1>1, <1>4, <1>9 DEF Aged, Absent, ApiType
  <2>2. through' = through /\ rate'.ttl # Forever /\ rate'.ttl > 0
    BY <2>1, <1>1, <1>4, <1>9 DEF Forever
  <2>3. BucketInv'
    <3>1. rate'.ttl + (age' - begun') = RateWindow
      BY <2>1, <1>1, <1>4, <1>9, ApiAssumption DEF BucketInv
    <3> QED
      BY <2>1, <2>2, <3>1, <1>1, <1>3, <1>9 DEF BucketInv
  <2>4. PassedInv'
    <3>1. Cardinality(Recent' \ through') < RateLimit
      BY <2>2, <1>6, ApiAssumption DEF PassedInv
    <3>2. /\ \E c \in through' : passed'[c] = begun'
          /\ \A c \in Recent' \ through' : passed'[c] <= begun'
      BY <2>2, <1>1, <1>3, <1>9 DEF PassedInv
    <3>3. Cardinality(through' \cup Expiring') <= rate'.n /\ Cardinality(through' \cup Expiring') <= RateLimit
      BY <2>1, <2>2, <1>3 DEF PassedInv
    <3> QED
      BY <2>1, <2>2, <3>1, <3>2, <3>3, <1>5 DEF PassedInv
  <2> QED
    BY <2>3, <2>4
<1>10. CASE rate # Absent /\ rate.ttl # Forever /\ rate.ttl <= 1
  <2>1. rate.ttl = 1 /\ begun = age + 1 - RateWindow
    BY <1>4, <1>10, ApiAssumption DEF BucketInv, Forever
  <2>2. rate' = Absent /\ through' = {} /\ rate'.n = 0 /\ rate'.ttl # Forever
    BY <2>1, <1>1 DEF Aged, Absent, Forever
  <2>3. Expiring = {} /\ Expiring' = {}
    BY <1>3, <1>10 DEF BucketInv
  <2>4. PICK c \in through : passed[c] = begun
    BY <1>10 DEF PassedInv
  <2>5. Recent' \subseteq through \ {c}
    <3>1. ASSUME NEW d \in Recent' PROVE d \in Copies /\ passed[d] > begun
      BY <3>1, <1>1, <1>4, <2>1, ApiAssumption DEF Recent
    <3>2. ASSUME NEW d \in Recent', d \notin through PROVE FALSE
      <4>1. d \in Recent \ through
        BY <3>2, <1>3
      <4>2. passed[d] <= begun /\ passed[d] > begun
        BY <3>1, <4>1, <1>10 DEF PassedInv
      <4> QED
        BY <4>2, <3>1, <1>4
    <3>3. ASSUME NEW d \in Recent' PROVE d # c
      BY <3>1, <2>4, <1>4
    <3> QED
      BY <3>2, <3>3
  <2>6. Cardinality(Recent' \ through') < RateLimit
    <3>1. through \in SUBSET Copies /\ through \cup Expiring = through /\ Recent' \ through' = Recent'
      BY <2>2, <2>3 DEF ApiType
    <3>2. /\ Cardinality(through \ {c}) = Cardinality(through) - 1
          /\ Cardinality(through) \in Nat /\ Cardinality(through) <= RateLimit
      BY <3>1, CopiesFinite DEF PassedInv
    <3>3. Cardinality(Recent') <= Cardinality(through \ {c}) /\ Cardinality(Recent') \in Nat
      <4>1. through \ {c} \in SUBSET Copies
        BY <3>1
      <4> QED
        BY <4>1, <2>5, CopiesFinite, CountedCopies
    <3>4. Cardinality(Recent') < RateLimit
      BY <3>2, <3>3, ApiAssumption
    <3> QED
      BY <3>1, <3>4
  <2>7. Cardinality(through' \cup Expiring') = 0
    <3>1. through' \cup Expiring' = {}
      BY <2>2, <2>3
    <3> QED
      BY <3>1, FS_EmptySet
  <2>8. BucketInv'
    BY <2>2, <2>3 DEF BucketInv
  <2>9. PassedInv'
    BY <2>2, <2>6, <2>7, <1>5, ApiAssumption DEF PassedInv
  <2> QED
    BY <2>8, <2>9
<1> QED
  BY <1>4, <1>7, <1>8, <1>9, <1>10 DEF Forever

(* Every step keeps the bucket's expiry and its count, and the nonce of a  *)
(* request that was served alive as long as the request could be accepted  *)
(* again.                                                                  *)
LEMMA ApiStepKeeps == DeploymentInv /\ ApiInv /\ [Next]_vars => ApiInv'
<1> SUFFICES ASSUME DeploymentInv, ApiInv, [Next]_vars PROVE ApiInv'
  OBVIOUS
<1> DEFINE Alive == production \/ outages = 0 => NonceInv
           Bucket == ApiType /\ BucketInv /\ PassedInv
<1>0. /\ ApiType /\ BucketInv /\ PassedInv /\ Alive /\ Monotone
      /\ outages \in Nat /\ outages' \in Nat
      /\ (~up => outages > 0)
  BY DeploymentStep DEF ApiInv, DeploymentInv
<1>00. SUFFICES Bucket' /\ Alive'
  BY DEF ApiInv
<1>1. ASSUME UNCHANGED apiVars PROVE Bucket' /\ Alive'
  <2>1. Expiring' = Expiring /\ Recent' = Recent
    BY <1>1 DEF Expiring, Recent, apiVars, history
  <2>2. Bucket'
    BY <2>1, <1>0, <1>1 DEF ApiType, BucketInv, PassedInv, apiVars, history
  <2>3. Alive'
    BY <1>0, <1>1 DEF NonceInv, apiVars, Monotone
  <2> QED
    BY <2>2, <2>3
<1>2. ASSUME UNCHANGED deployed, RevokeKey PROVE Bucket' /\ Alive'
  <2>1. UNCHANGED <<rate, copy, age, nonce, passed, through, begun, stranded>>
    BY <1>2 DEF RevokeKey, history
  <2>2. Expiring' = Expiring /\ Recent' = Recent
    BY <2>1 DEF Expiring, Recent
  <2>3. Bucket'
    BY <2>1, <2>2, <1>0 DEF ApiType, BucketInv, PassedInv
  <2>4. Alive'
    BY <1>0, <2>1 DEF NonceInv, Monotone
  <2> QED
    BY <2>3, <2>4
<1>3. ASSUME UNCHANGED deployed, NEW c \in Copies, NEW p \in Processes, RateIncr(c, p)
      PROVE  Bucket' /\ Alive'
  BY <1>0, <1>3, IncrKeeps DEF NonceInv, deployed
<1>4. ASSUME UNCHANGED deployed, NEW c \in Copies, RateExpire(c) PROVE Bucket' /\ Alive'
  BY <1>0, <1>4, ExpireKeeps DEF NonceInv, deployed
<1>5. ASSUME UNCHANGED deployed, NEW c \in Copies, VerifyHmac(c) PROVE Bucket' /\ Alive'
  <2>1. PICK l \in {"nonce", "refused"} : Move(c, l)
    BY <1>5 DEF VerifyHmac
  <2>2. copy[c].loc = "verify" /\ UNCHANGED <<rate, age, nonce, passed, through, begun, stranded>>
    BY <1>5 DEF VerifyHmac, history
  <2>3. copy' \in [Copies -> SignedRequest] /\ copy'[c].loc = l /\ \A d \in Copies : d # c => copy'[d] = copy[d]
    BY <2>1, <1>0, MovedHere
  <2>4. Expiring' = Expiring
    BY <2>2, <2>3 DEF Expiring
  <2>5. BucketInv' /\ PassedInv'
    BY <2>2, <2>3, <2>4, <1>0, BucketUntouched DEF ApiType
  <2>6. ApiType' /\ Alive'
    BY <1>0, <1>5, <2>2, <2>3 DEF ApiType, NonceInv, deployed
  <2> QED
    BY <2>5, <2>6
<1>6. ASSUME UNCHANGED deployed, NEW c \in Copies, ConsumeNonce(c) PROVE Bucket' /\ Alive'
  <2>1. PICK l \in {"served", "refused"} : Move(c, l)
    BY <1>6 DEF ConsumeNonce
  <2>2. /\ copy[c].loc = "nonce" /\ UNCHANGED <<rate, age, passed, through, begun, stranded>>
        /\ nonce' \in {nonce, NonceTTL}
    BY <1>6 DEF ConsumeNonce, history
  <2>3. copy' \in [Copies -> SignedRequest] /\ copy'[c].loc = l /\ \A d \in Copies : d # c => copy'[d] = copy[d]
    BY <2>1, <1>0, MovedHere
  <2>4. Expiring' = Expiring
    BY <2>2, <2>3 DEF Expiring
  <2>5. BucketInv' /\ PassedInv'
    BY <2>2, <2>3, <2>4, <1>0, BucketUntouched DEF ApiType
  <2>6. ApiType'
    BY <1>0, <2>2, <2>3, ApiAssumption DEF ApiType
  <2>7. ASSUME production \/ outages = 0 PROVE NonceInv'
    <3>1. ASSUME NEW d \in Copies, copy[d].loc = "served" PROVE nonce > 0
      BY <1>0, <2>7, <3>1, ApiAssumption DEF ApiType, NonceInv
    <3>2. IF copy'[c].loc = "served" THEN nonce <= 0 /\ nonce' = NonceTTL ELSE nonce' = nonce
      <4>1. up \/ production
        BY <1>0, <2>7
      <4>2. CASE up
        <5>1. /\ Move(c, IF nonce > 0 THEN "refused" ELSE "served")
              /\ nonce' = IF nonce > 0 THEN nonce ELSE NonceTTL
          BY <1>6, <4>2 DEF ConsumeNonce
        <5>2. copy'[c].loc = IF nonce > 0 THEN "refused" ELSE "served"
          BY <5>1, <1>0, MovedHere
        <5> QED
          BY <5>1, <5>2, <1>0 DEF ApiType
      <4>3. CASE ~up /\ production
        BY <1>6, <4>3, <1>0, MovedHere DEF ConsumeNonce
      <4> QED
        BY <4>1, <4>2, <4>3
    <3>3. CASE copy'[c].loc = "served"
      <4>1. \A d \in Copies : copy'[d].loc = "served" => d = c
        <5>1. ~(nonce > 0)
          BY <3>2, <3>3, <1>0 DEF ApiType
        <5> QED
          BY <5>1, <3>1, <2>3
      <4>2. nonce' >= NonceTTL - (age' + ClockWindow)
        BY <3>2, <3>3, <2>2, <1>0, ApiAssumption DEF ApiType
      <4> QED
        BY <4>1, <4>2 DEF NonceInv
    <3>4. CASE copy'[c].loc # "served"
      BY <3>2, <2>3, <3>4, <2>2, <2>7, <1>0 DEF NonceInv
    <3> QED
      BY <3>3, <3>4
  <2>8. Alive'
    BY <2>7, <1>0 DEF Monotone
  <2> QED
    BY <2>5, <2>6, <2>8
<1>7. ASSUME UNCHANGED deployed, ApiTick PROVE Bucket' /\ Alive'
  <2>1. /\ age' = age + 1 /\ age < ClockWindow + MaxStall
        /\ rate' = Aged(rate) /\ nonce' = Less(nonce)
        /\ copy' = [c \in Copies |-> IF copy[c].loc = "nonce"
                                     THEN [copy[c] EXCEPT !.stall = @ + 1] ELSE copy[c]]
        /\ through' = IF rate' = Absent THEN {} ELSE through
        /\ UNCHANGED <<passed, begun, stranded>>
    BY <1>7 DEF ApiTick
  <2>2. \A c \in Copies : copy'[c].loc = copy[c].loc
    BY <2>1, <1>0 DEF ApiType, SignedRequest
  <2>3. nonce' \in Int /\ nonce' >= nonce - 1
    BY <2>1, <1>0 DEF ApiType, Less
  <2>4. ApiType'
    <3>1. copy' \in [Copies -> SignedRequest]
      BY <2>1, <1>0 DEF ApiType, SignedRequest
    <3> QED
      BY <1>0, <2>1, <2>3, <3>1, RateKept, ApiAssumption DEF ApiType
  <2>5. Alive'
    BY <1>0, <1>7, <2>1, <2>2, <2>3, ApiAssumption DEF deployed, ApiType, NonceInv
  <2> QED
    BY <2>4, <2>5, <1>0, <1>7, BucketAges
<1>8. ASSUME SomeRestart, NEW p \in Processes, RequestsDie(p) PROVE Bucket' /\ Alive'
  <2>1. /\ UNCHANGED <<rate, age, nonce, passed, through, begun>>
        /\ copy' = [c \in Copies |-> IF copy[c].at = p /\ copy[c].loc \in {"expire", "verify", "nonce"}
                                     THEN GoesOn(copy[c], p, "refused") ELSE copy[c]]
        /\ stranded' = (stranded \/ \E c \in Copies : copy[c].at = p /\ copy[c].loc = "expire")
    BY <1>8 DEF RequestsDie
  <2>2. ASSUME NEW c \in Copies
        PROVE  /\ copy'[c] \in SignedRequest
               /\ \/ copy'[c] = copy[c]
                  \/ copy[c].loc \in {"expire", "verify", "nonce"} /\ copy'[c].loc = "refused"
               /\ copy'[c] # copy[c] => copy[c].at = p
    <3>1. GoesOn(copy[c], p, "refused") \in SignedRequest /\ GoesOn(copy[c], p, "refused").loc = "refused"
      BY <1>0, WentOn DEF ApiType
    <3>2. CASE copy[c].at = p /\ copy[c].loc \in {"expire", "verify", "nonce"}
      <4>1. copy'[c] = GoesOn(copy[c], p, "refused")
        BY <2>1, <3>2
      <4> QED
        BY <3>1, <3>2, <4>1
    <3>3. CASE ~(copy[c].at = p /\ copy[c].loc \in {"expire", "verify", "nonce"})
      <4>1. copy'[c] = copy[c] /\ copy[c] \in SignedRequest
        BY <2>1, <3>3, <1>0 DEF ApiType
      <4> QED
        BY <4>1
    <3> QED
      BY <3>2, <3>3
  <2>3. ApiType'
    <3>1. copy' \in [Copies -> SignedRequest]
      BY <2>1, <2>2
    <3>2. stranded' \in BOOLEAN
      BY <2>1
    <3> QED
      BY <1>0, <2>1, <3>1, <3>2 DEF ApiType
  <2>4. Alive'
    BY <1>0, <2>1, <2>2 DEF Monotone, NonceInv
  <2>5. Expiring' \subseteq Expiring
    BY <2>2 DEF Expiring
  <2>6. Expiring' # Expiring => stranded'
    <3>1. ASSUME NEW c \in Expiring, c \notin Expiring' PROVE stranded'
      <4>1. c \in Copies /\ copy[c].loc = "expire" /\ copy'[c] # copy[c]
        BY <3>1 DEF Expiring
      <4> QED
        BY <4>1, <2>1, <2>2
    <3> QED
      BY <2>5, <3>1
  <2>7. BucketInv' /\ PassedInv'
    BY <2>1, <2>2, <2>3, <2>5, <2>6, <1>0, BucketUntouched DEF ApiType
  <2> QED
    BY <2>3, <2>4, <2>7
<1> QED
  BY ApiSteps, <1>1, <1>2, <1>3, <1>4, <1>5, <1>6, <1>7, <1>8

-----------------------------------------------------------------------------
(* The slots of the signal stream *)

(* The part of StreamInv that does not depend on the absence of outages. *)
Counter == [n : Int, ttl : Nat \cup {Forever}]

StreamType ==
    /\ tab \in [Tabs -> Connection]
    /\ slots \in Counter /\ (slots.ttl = 0 => slots = Absent) /\ lost \in Nat
    /\ \A t \in Tabs : tab[t].inRedis /\ tab[t].loc = "open" => tab[t].count <= MaxPerUser
    /\ \A t \in Tabs : tab[t].loc \in {"expire", "refuse"} => tab[t].inRedis

(* The counter has not less to live than since any stream's last EXPIRE. *)
SlotsFresh ==
    \A t \in Open : tab[t].inRedis /\ slots.ttl > 0 => slots.ttl + tab[t].since >= CounterTTL

SlotsCounted ==
    /\ slots.n + lost >= Cardinality(Holders)
    /\ Cardinality(Admitted) <= MaxPerUser + lost

(* The sets of tabs are finite. *)
LEMMA HoldersFinite ==
    /\ IsFiniteSet(Holders) /\ Cardinality(Holders) \in Nat
    /\ IsFiniteSet(Admitted) /\ Cardinality(Admitted) \in Nat
    /\ Cardinality(Admitted) <= Cardinality(Holders)
<1>1. Holders \subseteq Tabs /\ Admitted \subseteq Holders
  BY DEF Holders, Admitted
<1>2. IsFiniteSet(Holders)
  BY <1>1, FS_Subset, SlotsAssumption
<1> QED
  BY <1>1, <1>2, FS_Subset, FS_CardinalityType

(* The same of the next state. *)
LEMMA HoldersFiniteNext ==
    (/\ IsFiniteSet(Holders) /\ Cardinality(Holders) \in Nat
     /\ IsFiniteSet(Admitted) /\ Cardinality(Admitted) \in Nat
     /\ Cardinality(Admitted) <= Cardinality(Holders))'
BY HoldersFinite, PTL

(* The commands on the counter keep its type and move it as they should. *)
LEMMA SlotCommands ==
    ASSUME slots \in Counter, slots.ttl = 0 => slots = Absent
    PROVE  /\ \A k \in {Incr(slots, 1), Incr(slots, -1), Expire(slots, CounterTTL), Aged(slots)} :
                 k \in Counter /\ (k.ttl = 0 => k = Absent)
           /\ Incr(slots, 1).n = slots.n + 1 /\ Incr(slots, -1).n = slots.n - 1
           /\ Incr(slots, 1).ttl  \in {slots.ttl, Forever}
           /\ Incr(slots, -1).ttl \in {slots.ttl, Forever}
           /\ Expire(slots, CounterTTL).n = slots.n
           /\ Expire(slots, CounterTTL).ttl \in {0, CounterTTL}
           /\ Aged(slots).n = slots.n \/ Aged(slots) = Absent
           /\ Aged(slots).ttl > 0 => Aged(slots).ttl = slots.ttl - 1
           /\ Aged(slots) = Absent /\ slots # Absent => slots.ttl = 1
           /\ Absent.n = 0
<1>1. slots = [n |-> slots.n, ttl |-> slots.ttl] /\ slots.n \in Int /\ slots.ttl \in Nat \cup {Forever}
  BY DEF Counter
<1>2. Incr(slots, 1) \in Counter /\ Incr(slots, -1) \in Counter
  BY <1>1 DEF Incr, Counter, Forever
<1>3. /\ Incr(slots, 1).ttl = 0 => Incr(slots, 1) = Absent
      /\ Incr(slots, -1).ttl = 0 => Incr(slots, -1) = Absent
      /\ Incr(slots, 1).n = slots.n + 1 /\ Incr(slots, -1).n = slots.n - 1
      /\ Incr(slots, 1).ttl  \in {slots.ttl, Forever}
      /\ Incr(slots, -1).ttl \in {slots.ttl, Forever}
  BY <1>1 DEF Incr, Forever
<1>4. CASE slots = Absent
  <2>1. Expire(slots, CounterTTL) = Absent
    BY <1>4 DEF Expire
  <2>2. Aged(slots) = Absent
    BY <1>4 DEF Aged, Absent, Forever
  <2>3. Absent.n = 0 /\ Absent.ttl = 0 /\ Absent \in Counter
    BY DEF Absent, Counter
  <2> QED
    BY <1>2, <1>3, <1>4, <2>1, <2>2, <2>3
<1>5. CASE slots # Absent
  <2>1. slots.ttl # 0
    BY <1>5
  <2>2. Expire(slots, CounterTTL) = [n |-> slots.n, ttl |-> CounterTTL]
    BY <1>1, <1>5 DEF Expire
  <2>3. Absent.n = 0 /\ Absent.ttl = 0 /\ Absent \in Counter
    BY DEF Absent, Counter
  <2>4. CASE slots.ttl = Forever
    <3>1. Aged(slots) = slots
      BY <2>4 DEF Aged
    <3>2. ~(slots.ttl > 0)
      BY <2>4 DEF Forever
    <3> QED
      BY <1>1, <1>2, <1>3, <1>5, <2>1, <2>2, <2>3, <3>1, <3>2, SlotsAssumption DEF Counter
  <2>5. CASE slots.ttl = 1
    <3>1. Aged(slots) = Absent
      BY <2>5 DEF Aged, Forever
    <3> QED
      BY <1>1, <1>2, <1>3, <1>5, <2>1, <2>2, <2>3, <2>5, <3>1, SlotsAssumption DEF Counter
  <2>6. CASE slots.ttl # Forever /\ slots.ttl # 1
    <3>1. slots.ttl \in Nat /\ slots.ttl > 1
      BY <1>1, <2>1, <2>6
    <3>2. Aged(slots) = [n |-> slots.n, ttl |-> slots.ttl - 1]
      BY <1>1, <2>6, <3>1 DEF Aged
    <3>3. Aged(slots).ttl = slots.ttl - 1 /\ Aged(slots).n = slots.n /\ Aged(slots).ttl # 0
      BY <3>1, <3>2
    <3> QED
      BY <1>1, <1>2, <1>3, <1>5, <2>1, <2>2, <2>3, <3>1, <3>2, <3>3, SlotsAssumption DEF Counter
  <2> QED
    BY <2>4, <2>5, <2>6
<1> QED
  BY <1>4, <1>5

(* What keeps the counter's life: a new EXPIRE, or a step that leaves it   *)
(* and the streams alone.                                                  *)
LEMMA FreshKept ==
    ASSUME StreamType', SlotsFresh,
           slots'.ttl > 0 => slots'.ttl = slots.ttl \/ slots'.ttl = CounterTTL,
           \A t \in Open' : tab'[t].inRedis /\ slots'.ttl > 0 =>
               slots'.ttl = CounterTTL \/ (t \in Open /\ tab'[t] = tab[t])
    PROVE  SlotsFresh'
<1> SUFFICES ASSUME NEW t \in Open', tab'[t].inRedis, slots'.ttl > 0
             PROVE  slots'.ttl + tab'[t].since >= CounterTTL
  BY DEF SlotsFresh
<1>1. tab'[t].since \in Nat
  BY DEF StreamType, Connection, Open
<1>2. CASE slots'.ttl = CounterTTL
  BY <1>1, <1>2, SlotsAssumption
<1>3. CASE slots'.ttl # CounterTTL
  BY <1>3 DEF SlotsFresh
<1> QED
  BY <1>2, <1>3

(* Every step of the streams keeps the counter's life. *)
LEMMA FreshStep ==
    ASSUME StreamType, StreamType', SlotsFresh
    PROVE  (\/ \E t \in Tabs, p \in Processes : AcquireIncr(t, p)
            \/ \E t \in Tabs : StreamStep(t) \/ ReleaseSlot(t)
            \/ StreamTick
            \/ \E p \in Processes : StreamsDie(p))
           => SlotsFresh'
<1> DEFINE Life == \/ slots' = slots \/ slots' = Incr(slots, 1) \/ slots' = Incr(slots, -1)
                   \/ slots' = Expire(slots, CounterTTL) \/ slots' = [n |-> 0, ttl |-> CounterTTL]
           Same == \A t \in Open' : tab'[t].inRedis => t \in Open /\ tab'[t] = tab[t]
<1>1. ASSUME Life PROVE slots'.ttl > 0 => slots'.ttl = slots.ttl \/ slots'.ttl = CounterTTL
  BY <1>1, SlotCommands DEF StreamType, Forever
<1>2. ASSUME Life, Same PROVE SlotsFresh'
  BY <1>1, <1>2, FreshKept
<1>3. ASSUME slots' = Expire(slots, CounterTTL) PROVE SlotsFresh'
  <2>1. slots'.ttl \in {0, CounterTTL}
    BY <1>3, SlotCommands DEF StreamType
  <2> QED
    BY <2>1, FreshKept
<1>4. ASSUME NEW t \in Tabs, NEW c, c.loc # "open" \/ ~c.inRedis, tab' = [tab EXCEPT ![t] = c] PROVE Same
  BY <1>4 DEF Open, StreamType
<1>5. NoStream.loc # "open" /\ ~NoStream.inRedis
  BY DEF NoStream
<1>6. ASSUME NEW t \in Tabs, NEW p, AcquireWithoutRedis(t, p) PROVE Same
  <2> DEFINE c == [NoStream EXCEPT !.loc = "open", !.at = p]
  <2>1. ~c.inRedis
    BY DEF NoStream
  <2>2. tab' = [tab EXCEPT ![t] = c] \/ tab' = [tab EXCEPT ![t] = NoStream]
    BY <1>6 DEF AcquireWithoutRedis, Off
  <2> HIDE DEF c
  <2> QED
    BY <1>4, <1>5, <2>1, <2>2
<1>7. ASSUME NEW t \in Tabs, NEW p \in Processes, AcquireIncr(t, p) PROVE SlotsFresh'
  <2>1. CASE up
    <3> DEFINE c == [loc |-> "expire", at |-> p, count |-> slots.n + 1, inRedis |-> TRUE, since |-> 0]
    <3>1. c.loc # "open"
      OBVIOUS
    <3>2. tab' = [tab EXCEPT ![t] = c] /\ slots' = Incr(slots, 1)
      BY <1>7, <2>1 DEF AcquireIncr, NoStream
    <3>3. Life
      BY <3>2
    <3> HIDE DEF c, Life
    <3>4. Same
      BY <3>1, <3>2, <1>4
    <3> QED
      BY <3>3, <3>4, <1>2
  <2>2. CASE ~up
    BY <1>2, <1>6, <1>7, <2>2 DEF AcquireIncr
  <2> QED
    BY <2>1, <2>2
<1>8. ASSUME NEW t \in Tabs, AcquireExpire(t) PROVE SlotsFresh'
  <2>1. CASE up
    BY <1>3, <1>8, <2>1 DEF AcquireExpire
  <2>2. CASE ~up
    BY <1>2, <1>6, <1>8, <2>2 DEF AcquireExpire
  <2> QED
    BY <2>1, <2>2
<1>9. ASSUME NEW t \in Tabs, AcquireRefuse(t) PROVE SlotsFresh'
  <2>1. CASE up
    BY <1>2, <1>4, <1>5, <1>9, <2>1 DEF AcquireRefuse, Off
  <2>2. CASE ~up
    BY <1>2, <1>6, <1>9, <2>2 DEF AcquireRefuse
  <2> QED
    BY <2>1, <2>2
<1>10. ASSUME NEW t \in Tabs, Refresh(t) PROVE SlotsFresh'
  BY <1>3, <1>10 DEF Refresh
<1>11. ASSUME NEW t \in Tabs, ReleaseReset(t) PROVE SlotsFresh'
  BY <1>2, <1>4, <1>5, <1>11 DEF ReleaseReset, Off
<1>12. ASSUME NEW t \in Tabs, ReleaseSlot(t) PROVE SlotsFresh'
  <2>1. tab' = [tab EXCEPT ![t] = NoStream] \/ tab' = [tab EXCEPT ![t].loc = "reset"]
    BY <1>12 DEF ReleaseSlot, Off, At
  <2>2. Same
    <3>1. CASE tab' = [tab EXCEPT ![t] = NoStream]
      BY <1>4, <1>5, <3>1
    <3>2. CASE tab' = [tab EXCEPT ![t].loc = "reset"]
      <4> SUFFICES ASSUME NEW u \in Open' PROVE u \in Open /\ tab'[u] = tab[u]
        OBVIOUS
      <4>1. u \in Tabs /\ tab'[u].loc = "open" /\ tab \in [Tabs -> Connection]
        BY DEF Open, StreamType
      <4>2. u # t
        BY <3>2, <4>1 DEF Connection
      <4> QED
        BY <3>2, <4>1, <4>2 DEF Open
    <3> QED
      BY <2>1, <3>1, <3>2
  <2>3. Life
    BY <1>12 DEF ReleaseSlot
  <2> QED
    BY <1>2, <2>2, <2>3
<1>13. ASSUME StreamTick PROVE SlotsFresh'
  <2>1. slots' = Aged(slots)
    BY <1>13 DEF StreamTick
  <2> SUFFICES ASSUME NEW t \in Open', tab'[t].inRedis, slots'.ttl > 0
               PROVE  slots'.ttl + tab'[t].since >= CounterTTL
    BY DEF SlotsFresh
  <2>2. slots'.ttl = slots.ttl - 1 /\ slots.ttl \in Int /\ slots.ttl > 0
    BY <2>1, SlotCommands DEF StreamType, Counter, Forever
  <2>3. t \in Tabs /\ tab[t] \in Connection
    BY DEF Open, StreamType
  <2>4. /\ t \in Open /\ tab[t].inRedis
        /\ tab'[t].since = IF tab[t].since < CounterTTL THEN tab[t].since + 1 ELSE tab[t].since
    BY <1>13, <2>3 DEF StreamTick, Open, Connection
  <2>5. slots.ttl + tab[t].since >= CounterTTL /\ tab[t].since \in Nat
    BY <2>2, <2>3, <2>4 DEF SlotsFresh, Connection
  <2> QED
    BY <2>2, <2>4, <2>5, SlotsAssumption
<1>14. ASSUME NEW p \in Processes, StreamsDie(p) PROVE SlotsFresh'
  <2>1. Same /\ Life
    BY <1>5, <1>14 DEF StreamsDie, Open, StreamType
  <2> QED
    BY <1>2, <2>1
<1> QED
  BY <1>7, <1>8, <1>9, <1>10, <1>11, <1>12, <1>13, <1>14 DEF StreamStep

(* When only tabs leave, and the counter does not change, the slots stay   *)
(* counted.                                                                *)
LEMMA FewerHolders ==
    ASSUME StreamType, SlotsCounted, Holders' \subseteq Holders, Admitted' \subseteq Admitted,
           slots'.n \in Int, lost' \in Nat,
           slots'.n + lost' >= slots.n + lost, lost' >= lost
    PROVE  SlotsCounted'
<1>1. Cardinality(Holders') <= Cardinality(Holders) /\ Cardinality(Admitted') <= Cardinality(Admitted)
  BY HoldersFinite, FS_Subset
<1>2. slots.n \in Int /\ lost \in Nat
  BY DEF StreamType, Counter
<1> QED
  BY <1>1, <1>2, HoldersFinite, HoldersFiniteNext, SlotsAssumption DEF SlotsCounted

(* A holder that gives its slot back. *)
LEMMA HolderLeaves ==
    ASSUME StreamType, SlotsCounted, NEW t \in Holders, Holders' = Holders \ {t},
           Admitted' \subseteq Admitted, slots'.n = slots.n - 1, lost' = lost
    PROVE  SlotsCounted'
<1>1. Cardinality(Holders') = Cardinality(Holders) - 1
  BY HoldersFinite, FS_RemoveElement
<1>2. Cardinality(Admitted') <= Cardinality(Admitted)
  BY HoldersFinite, FS_Subset
<1>3. slots.n \in Int /\ lost \in Nat
  BY DEF StreamType, Counter
<1> QED
  BY <1>1, <1>2, <1>3, HoldersFinite, HoldersFiniteNext, SlotsAssumption DEF SlotsCounted

(* A tab that takes a slot: if it is admitted, all holders are within the  *)
(* limit.                                                                  *)
LEMMA HolderEnters ==
    ASSUME StreamType, SlotsCounted, NEW t, t \notin Holders, Holders' = Holders \cup {t},
           slots'.n = slots.n + 1, lost' = lost,
           \/ Admitted' = Admitted
           \/ slots'.n <= MaxPerUser
    PROVE  SlotsCounted'
<1>1. Cardinality(Holders') = Cardinality(Holders) + 1
  BY HoldersFinite, FS_AddElement
<1>2. slots.n \in Int /\ lost \in Nat
  BY DEF StreamType, Counter
<1>3. slots'.n + lost' >= Cardinality(Holders')
  BY <1>1, <1>2, HoldersFinite DEF SlotsCounted
<1>4. Cardinality(Admitted') <= MaxPerUser + lost'
  BY <1>2, <1>3, HoldersFiniteNext, SlotsAssumption DEF SlotsCounted
<1> QED
  BY <1>3, <1>4 DEF SlotsCounted

(* A tab that is served without Redis holds no slot of the counter. *)
LEMMA WithoutRedis ==
    ASSUME StreamType, NEW t \in Tabs, NEW p \in Processes \cup {"none"},
           AcquireWithoutRedis(t, p), UNCHANGED <<slots, lost>>
    PROVE  StreamType'
<1>1. PICK c \in Connection : c.inRedis = FALSE /\ c.loc \in {"open", "off"} /\ tab' = [tab EXCEPT ![t] = c]
  <2> DEFINE c == [NoStream EXCEPT !.loc = "open", !.at = p]
  <2>1. NoStream \in Connection /\ NoStream.inRedis = FALSE /\ NoStream.loc = "off"
    BY DEF NoStream, Connection
  <2>2. c \in Connection /\ c.inRedis = FALSE /\ c.loc = "open"
    BY <2>1 DEF Connection
  <2> QED
    BY <2>1, <2>2 DEF AcquireWithoutRedis, Off
<1> QED
  BY <1>1 DEF StreamType, Counter

(* Every step keeps the slots counted. *)
LEMMA StreamStepKeeps == DeploymentInv /\ StreamInv /\ [Next]_vars => StreamInv'
<1> SUFFICES ASSUME DeploymentInv, StreamInv, [Next]_vars PROVE StreamInv'
  OBVIOUS
<1>0. /\ StreamType /\ SlotsFresh /\ (outages = 0 => SlotsCounted)
      /\ outages \in Nat /\ outages' \in Nat /\ outages' >= outages
      /\ (outages' = 0 => up)
  BY DeploymentStep DEF StreamInv, StreamType, Counter, SlotsFresh, SlotsCounted, DeploymentInv, Monotone
<1>00. SUFFICES StreamType' /\ SlotsFresh' /\ (outages' = 0 => SlotsCounted')
  BY DEF StreamInv, StreamType, Counter, SlotsFresh, SlotsCounted
<1> DEFINE Kept == StreamType' /\ (outages' = 0 => SlotsCounted')
<1>01. ASSUME NEW t \in Tabs PROVE tab[t] \in Connection /\ NoStream \in Connection
  BY <1>0 DEF StreamType, Counter, Connection, NoStream
<1>1. ASSUME UNCHANGED streamVars PROVE Kept /\ SlotsFresh'
  BY <1>1, <1>0 DEF streamVars, StreamType, SlotsFresh, SlotsCounted, Holders, Admitted, Open
<1>2. ASSUME UNCHANGED deployed, NEW t \in Tabs, NEW p \in Processes, AcquireIncr(t, p) PROVE Kept
  <2>1. CASE up
    <3> DEFINE c == [loc |-> "expire", at |-> p, count |-> slots.n + 1, inRedis |-> TRUE, since |-> 0]
    <3>1. /\ tab[t].loc = "off" /\ slots' = Incr(slots, 1) /\ lost' = lost
          /\ tab' = [tab EXCEPT ![t] = c]
      BY <1>2, <2>1 DEF AcquireIncr, NoStream
    <3>2. c \in Connection
      BY <1>0 DEF StreamType, Counter, Connection
    <3>3. StreamType'
      BY <3>1, <3>2, <1>0, SlotCommands DEF StreamType, Counter
    <3>4. t \notin Holders /\ Holders' = Holders \cup {t}
      BY <3>1, <1>0 DEF Holders, StreamType
    <3>5. Admitted' = Admitted \/ slots'.n <= MaxPerUser
      <4>1. slots'.n = slots.n + 1
        BY <3>1, <1>0, SlotCommands DEF StreamType, Counter
      <4>2. CASE ~(slots.n + 1 <= MaxPerUser)
        BY <4>2, <3>1, <1>0 DEF Admitted, StreamType
      <4> QED
        BY <4>1, <4>2
    <3>6. slots'.n = slots.n + 1 /\ lost' = lost
      BY <3>1, <1>0, SlotCommands DEF StreamType, Counter
    <3> QED
      BY <3>3, <3>4, <3>5, <3>6, <1>0, HolderEnters
  <2>2. CASE ~up
    BY <1>2, <2>2, <1>0, WithoutRedis DEF AcquireIncr
  <2> QED
    BY <2>1, <2>2
<1>3. ASSUME UNCHANGED deployed, NEW t \in Tabs, AcquireExpire(t) PROVE Kept
  <2>1. CASE up
    <3>1. PICK l \in {"refuse", "open"} :
             /\ tab' = [tab EXCEPT ![t].loc = l]
             /\ l = "open" <=> tab[t].count <= MaxPerUser
      BY <1>3, <2>1, <1>0, SlotsAssumption DEF AcquireExpire, At, StreamType, Connection
    <3>2. slots' = Expire(slots, CounterTTL) /\ lost' = lost /\ tab[t].loc = "expire"
      BY <1>3, <2>1 DEF AcquireExpire
    <3>3. StreamType'
      BY <3>1, <3>2, <1>0, SlotCommands DEF StreamType, Counter, Connection
    <3>4. Holders' = Holders /\ Admitted' = Admitted
      BY <3>1, <3>2, <1>0 DEF Holders, Admitted, StreamType, Connection
    <3>5. slots'.n = slots.n /\ slots.n \in Int /\ lost \in Nat
      BY <3>2, <1>0, SlotCommands DEF StreamType, Counter
    <3> QED
      BY <3>2, <3>3, <3>4, <3>5, <1>0, FewerHolders
  <2>2. CASE ~up
    BY <1>3, <2>2, <1>0, <1>01, WithoutRedis DEF AcquireExpire, Connection
  <2> QED
    BY <2>1, <2>2
<1>4. ASSUME UNCHANGED deployed, NEW t \in Tabs, AcquireRefuse(t) PROVE Kept
  <2>1. CASE up
    <3>1. /\ tab[t].loc = "refuse" /\ slots' = Incr(slots, -1) /\ lost' = lost
          /\ tab' = [tab EXCEPT ![t] = NoStream]
      BY <1>4, <2>1 DEF AcquireRefuse, Off
    <3>2. StreamType'
      BY <3>1, <1>0, <1>01, SlotCommands DEF StreamType, Counter, NoStream
    <3>3. t \in Holders /\ Holders' = Holders \ {t} /\ Admitted' \subseteq Admitted
      BY <3>1, <1>0 DEF Holders, Admitted, StreamType, NoStream
    <3>4. slots'.n = slots.n - 1
      BY <3>1, <1>0, SlotCommands DEF StreamType, Counter
    <3> QED
      BY <3>1, <3>2, <3>3, <3>4, <1>0, HolderLeaves
  <2>2. CASE ~up
    BY <1>4, <2>2, <1>0, <1>01, WithoutRedis DEF AcquireRefuse, Connection
  <2> QED
    BY <2>1, <2>2
<1>5. ASSUME UNCHANGED deployed, NEW t \in Tabs, ReleaseReset(t) PROVE Kept
  <2>1. tab[t].loc = "reset" /\ tab' = [tab EXCEPT ![t] = NoStream]
    BY <1>5 DEF ReleaseReset, Off
  <2>2. /\ slots' \in Counter /\ (slots'.ttl = 0 => slots' = Absent)
        /\ slots'.n \in Int /\ lost' \in Nat /\ lost' >= lost
        /\ slots'.n + lost' >= slots.n + lost
    BY <1>5, <1>0, SlotsAssumption DEF ReleaseReset, StreamType, Counter
  <2>3. StreamType'
    BY <2>1, <2>2, <1>0, <1>01 DEF StreamType, Counter, NoStream
  <2>4. Holders' \subseteq Holders /\ Admitted' \subseteq Admitted
    BY <2>1, <1>0 DEF Holders, Admitted, StreamType, NoStream
  <2> QED
    BY <2>2, <2>3, <2>4, <1>0, FewerHolders
<1>6. ASSUME UNCHANGED deployed, NEW t \in Tabs, ReleaseSlot(t) PROVE Kept
  <2>1. PICK c \in Connection : /\ tab' = [tab EXCEPT ![t] = c]
                               /\ c.loc \in {"off", "reset"}
    <3>1. CASE tab' = [tab EXCEPT ![t] = NoStream]
      BY <3>1, <1>01 DEF NoStream
    <3>2. CASE tab' = [tab EXCEPT ![t].loc = "reset"]
      <4>1. [tab[t] EXCEPT !.loc = "reset"] \in Connection
        BY <1>01 DEF Connection
      <4> QED
        BY <3>2, <4>1, <1>0 DEF StreamType, Counter, Connection
    <3> QED
      BY <1>6, <3>1, <3>2 DEF ReleaseSlot, Off, At
  <2>2. tab[t].loc = "open" /\ lost' = lost
    BY <1>6 DEF ReleaseSlot
  <2>3. slots' = slots \/ slots' = Incr(slots, -1)
    BY <1>6 DEF ReleaseSlot
  <2>4. StreamType'
    BY <2>1, <2>2, <2>3, <1>0, SlotCommands DEF StreamType, Counter
  <2>5. Holders' = Holders \ {t} /\ Admitted' \subseteq Admitted
    BY <2>1, <2>2, <1>0 DEF Holders, Admitted, StreamType
  <2>6. CASE slots' = slots
    <3>1. Holders' \subseteq Holders /\ slots.n \in Int /\ lost \in Nat
      BY <2>5, <1>0 DEF StreamType, Counter
    <3> QED
      BY <2>2, <2>4, <2>5, <2>6, <3>1, <1>0, FewerHolders
  <2>7. CASE slots' = Incr(slots, -1) /\ slots' # slots
    <3>1. t \in Holders
      BY <1>6, <2>2, <2>7 DEF ReleaseSlot, Holders
    <3>2. slots'.n = slots.n - 1
      BY <2>7, <1>0, SlotCommands DEF StreamType, Counter
    <3> QED
      BY <2>2, <2>4, <2>5, <3>1, <3>2, <1>0, HolderLeaves
  <2> QED
    BY <2>3, <2>6, <2>7
<1>7. ASSUME UNCHANGED deployed, StreamTick PROVE Kept
  <2> DEFINE Forgotten == {t \in Tabs : tab[t].inRedis /\
                              (tab[t].loc \in {"expire", "refuse"} \/ t \in Slow)}
  <2>1. IsFiniteSet(Forgotten) /\ Cardinality(Forgotten) \in Nat
    BY FS_Subset, FS_CardinalityType, SlotsAssumption
  <2>2. /\ tab' = [t \in Tabs |-> IF t \in Open /\ tab[t].inRedis /\ tab[t].since < CounterTTL
                                  THEN [tab[t] EXCEPT !.since = @ + 1] ELSE tab[t]]
        /\ slots' = Aged(slots)
        /\ lost' = IF slots' = Absent /\ slots # Absent THEN lost + Cardinality(Forgotten) ELSE lost
    BY <1>7 DEF StreamTick
  <2>20. ASSUME NEW t \in Tabs
         PROVE  /\ tab'[t] \in Connection /\ tab'[t].loc = tab[t].loc
                /\ tab'[t].inRedis = tab[t].inRedis /\ tab'[t].count = tab[t].count
    <3>1. tab[t] \in Connection
      BY <1>01
    <3> QED
      BY <2>2, <3>1 DEF Connection
  <2>3. StreamType' /\ lost' >= lost
    <3>1. slots' \in Counter /\ (slots'.ttl = 0 => slots' = Absent)
      BY <2>2, <1>0, SlotCommands DEF StreamType, Counter
    <3>2. lost' \in Nat /\ lost' >= lost
      BY <2>1, <2>2, <1>0 DEF StreamType, Counter
    <3>3. tab' \in [Tabs -> Connection]
      BY <2>2, <2>20
    <3> QED
      BY <2>20, <3>1, <3>2, <3>3, <1>0 DEF StreamType, Counter
  <2>4. Holders' = Holders /\ Admitted' = Admitted
    BY <2>20 DEF Holders, Admitted
  <2>5. CASE slots'.n = slots.n
    <3>1. slots.n \in Int /\ lost \in Nat /\ lost' \in Nat /\ slots'.n + lost' >= slots.n + lost
      BY <2>3, <2>5, <1>0 DEF StreamType, Counter
    <3> QED
      BY <2>3, <2>4, <2>5, <3>1, <1>0, FewerHolders
  <2>6. CASE slots'.n # slots.n /\ outages' = 0
    <3>1. slots' = Aged(slots) /\ slots' = Absent /\ slots # Absent /\ slots'.n = 0
      BY <2>2, <2>6, <1>0, SlotCommands DEF StreamType, Counter
    <3>2. lost' = lost + Cardinality(Forgotten)
      BY <2>2, <3>1
    <3>3. slots.ttl = 1
      BY <3>1, <1>0, SlotCommands DEF StreamType, Counter
    <3>4. Holders \subseteq Forgotten
      <4>1. ASSUME NEW t \in Open, tab[t].inRedis PROVE t \in Slow
        <5>1. 1 + tab[t].since >= CounterTTL
          BY <3>3, <4>1, <1>0 DEF SlotsFresh
        <5>2. tab[t].since \in Nat
          BY <1>01 DEF Open, Connection
        <5> QED
          BY <5>1, <5>2, SlotsAssumption DEF Slow
      <4> QED
        BY <4>1 DEF Holders, Open
    <3>5. Cardinality(Holders) <= Cardinality(Forgotten)
      BY <3>4, <2>1, FS_Subset
    <3>6. slots'.n + lost' >= Cardinality(Holders')
      BY <3>1, <3>2, <3>5, <2>1, <2>4, <1>0, HoldersFinite DEF StreamType, Counter
    <3>7. Cardinality(Admitted') <= MaxPerUser + lost'
      <4>1. Cardinality(Admitted) <= MaxPerUser + lost
        BY <1>0, <1>7, <2>6 DEF deployed, SlotsCounted
      <4> QED
        BY <4>1, <2>4, <3>2, <2>1, <1>0, HoldersFinite, SlotsAssumption DEF StreamType, Counter
    <3> QED
      BY <2>3, <3>6, <3>7 DEF SlotsCounted
  <2> QED
    BY <2>3, <2>5, <2>6
<1>8. ASSUME SomeRestart, NEW p \in Processes, StreamsDie(p) PROVE Kept
  <2>1. /\ tab' = [t \in Tabs |-> IF tab[t].at = p THEN NoStream ELSE tab[t]]
        /\ slots' = slots /\ lost' = lost
    BY <1>8 DEF StreamsDie
  <2>2. StreamType'
    BY <2>1, <1>0, <1>01 DEF StreamType, Counter, NoStream
  <2>3. Holders' \subseteq Holders /\ Admitted' \subseteq Admitted
    BY <2>1, <1>0 DEF Holders, Admitted, NoStream
  <2>4. slots.n \in Int /\ lost \in Nat /\ outages' = outages
    BY <1>0, <1>8 DEF StreamType, Counter, SomeRestart
  <2> QED
    BY <2>1, <2>2, <2>3, <2>4, <1>0, FewerHolders
<1>9. ASSUME NEW t \in Tabs, Refresh(t), UNCHANGED deployed PROVE Kept
  <2>1. /\ slots' = Expire(slots, CounterTTL) /\ lost' = lost
        /\ tab' = [tab EXCEPT ![t].since = 0]
    BY <1>9 DEF Refresh
  <2>2. ASSUME NEW u \in Tabs
        PROVE  /\ tab'[u] \in Connection /\ tab'[u].loc = tab[u].loc
               /\ tab'[u].inRedis = tab[u].inRedis /\ tab'[u].count = tab[u].count
    <3>1. tab[u] \in Connection /\ tab \in [Tabs -> Connection]
      BY <1>0, <1>01 DEF StreamType, Counter
    <3> QED
      BY <2>1, <3>1 DEF Connection
  <2>3. tab' \in [Tabs -> Connection]
    BY <2>1, <2>2, <1>0 DEF StreamType, Counter
  <2>4. StreamType' /\ slots'.n = slots.n
    BY <2>1, <2>2, <2>3, <1>0, SlotCommands DEF StreamType, Counter
  <2>5. Holders' = Holders /\ Admitted' = Admitted
    BY <2>2 DEF Holders, Admitted
  <2>6. slots.n \in Int /\ lost \in Nat
    BY <1>0 DEF StreamType, Counter
  <2> QED
    BY <2>1, <2>4, <2>5, <2>6, <1>0, FewerHolders
<1> QED
  BY StreamSteps, FreshStep, <1>0, <1>1, <1>2, <1>3, <1>4, <1>5, <1>6, <1>7, <1>8, <1>9 DEF StreamStep

-----------------------------------------------------------------------------
(* Handshakes *)

(* _expire_sessions leaves at most MAX_SESSIONS. *)
LEMMA ExpiredIsShort ==
    ASSUME NEW s \in Seq(Int)
    PROVE  Expired(s) \in Seq(Int) /\ Len(Expired(s)) <= MaxSessions
<1> DEFINE over == Cardinality({i \in DOMAIN s : s[i] <= 0})
           excess == Len(s) - MaxSessions
           gone == IF excess > over THEN excess ELSE over
<1>1. over \in Nat
  <2>1. IsFiniteSet(1..Len(s))
    BY FS_Interval
  <2>2. {i \in DOMAIN s : s[i] <= 0} \subseteq 1..Len(s)
    OBVIOUS
  <2> QED
    BY <2>1, <2>2, FS_Subset, FS_CardinalityType
<1>2. gone \in Nat /\ gone >= Len(s) - MaxSessions
  <2> HIDE DEF over
  <2> QED
    BY <1>1, HelloAssumption
<1>3. Expired(s) = SubSeq(s, 1 + gone, Len(s))
  BY DEF Expired
<1> HIDE DEF gone
<1>4. SubSeq(s, 1 + gone, Len(s)) \in Seq(Int) /\ Len(SubSeq(s, 1 + gone, Len(s))) <= MaxSessions
  BY <1>2, HelloAssumption
<1> QED
  BY <1>3, <1>4

(* The threads of a process are finitely many. *)
LEMMA ServesFinite ==
    ASSUME NEW p
    PROVE  /\ IsFiniteSet(Serves(p)) /\ Cardinality(Serves(p)) \in Nat
           /\ IsFiniteSet(Serves(p)') /\ Cardinality(Serves(p)') \in Nat
           /\ Cardinality(HelloThreads) \in Nat
           /\ Cardinality(Serves(p)) <= Cardinality(HelloThreads)
           /\ Cardinality(Serves(p)') <= Cardinality(HelloThreads)
           /\ Serves(p)' \subseteq Serves(p) => Cardinality(Serves(p)') <= Cardinality(Serves(p))
<1>1. Serves(p) \subseteq HelloThreads /\ Serves(p)' \subseteq HelloThreads
  BY DEF Serves
<1>2. IsFiniteSet(Serves(p)) /\ IsFiniteSet(Serves(p)')
  BY <1>1, FS_Subset, HelloAssumption
<1> QED
  BY <1>1, <1>2, FS_Subset, FS_CardinalityType, HelloAssumption

(* The part of HelloInv about nonces, and the part about sessions. *)
NoncesKept == production \/ outages = 0 => accepted \subseteq usedRedis /\ replayed = {}

RoomKept ==
    \A p \in Processes :
        Len(sessions[p]) + Cardinality(Serves(p)) <= MaxSessions + Cardinality(HelloThreads)

(* As long as no thread starts and no session is added, room remains. *)
LEMMA RoomRemains ==
    ASSUME RoomKept, sessions \in [Processes -> Seq(Int)],
           \A p \in Processes : Serves(p)' \subseteq Serves(p) /\ sessions'[p] \in {sessions[p], <<>>}
    PROVE  RoomKept'
<1> SUFFICES ASSUME NEW p \in Processes
             PROVE  Len(sessions'[p]) + Cardinality(Serves(p)')
                        <= MaxSessions + Cardinality(HelloThreads)
  BY DEF RoomKept
<1>1. /\ Len(sessions[p]) + Cardinality(Serves(p)) <= MaxSessions + Cardinality(HelloThreads)
      /\ Cardinality(Serves(p)') <= Cardinality(Serves(p))
      /\ Cardinality(Serves(p)') \in Nat /\ Cardinality(Serves(p)) \in Nat
      /\ Cardinality(HelloThreads) \in Nat /\ Len(sessions[p]) \in Nat
  BY ServesFinite DEF RoomKept
<1>2. Len(sessions'[p]) \in Nat /\ Len(sessions'[p]) <= Len(sessions[p])
  <2>1. CASE sessions'[p] = sessions[p]
    BY <2>1, <1>1
  <2>2. CASE sessions'[p] = <<>>
    BY <2>2, <1>1
  <2> QED
    BY <2>1, <2>2
<1> QED
  BY <1>1, <1>2, HelloAssumption

(* Whether a nonce is accepted is decided by the one store that is asked. *)
LEMMA TestedAndSet ==
    ASSUME hello \in [HelloThreads -> Hello], NEW t \in HelloThreads, NEW used, TestAndSet(t, used)
    PROVE  /\ hello' \in [HelloThreads -> Hello]
           /\ hello[t].loc # "free" => \A p \in Processes : Serves(p)' \subseteq Serves(p)
           /\ accepted' \subseteq accepted \cup {hello[t].nonce}
           /\ accepted \subseteq used => replayed' = replayed
<1>1. CASE hello[t].nonce \in used
  <2>1. hello' = [hello EXCEPT ![t] = NoHello] /\ UNCHANGED <<accepted, replayed>>
    BY <1>1 DEF TestAndSet, Refuse
  <2>2. NoHello \in Hello
    BY DEF NoHello, Hello
  <2> QED
    BY <2>1, <2>2 DEF Serves, NoHello
<1>2. CASE hello[t].nonce \notin used
  <2>1. Accept(t)
    BY <1>2 DEF TestAndSet
  <2>2. hello' \in [HelloThreads -> Hello] /\ \A u \in HelloThreads : hello'[u].at = hello[u].at
    BY <2>1 DEF Accept, Hello
  <2>3. \A u \in HelloThreads : u # t => hello'[u] = hello[u]
    BY <2>1 DEF Accept, Hello
  <2>4. hello[t].loc # "free" => \A p \in Processes : Serves(p)' \subseteq Serves(p)
    BY <2>2, <2>3 DEF Serves
  <2> QED
    BY <2>1, <2>2, <2>4, <1>2 DEF Accept
<1> QED
  BY <1>1, <1>2

(* Every step keeps Redis ahead of the nonces that were accepted, and room *)
(* for the sessions that are being made.                                   *)
LEMMA HelloStepKeeps == DeploymentInv /\ HelloInv /\ [Next]_vars => HelloInv'
<1> SUFFICES ASSUME DeploymentInv, HelloInv, [Next]_vars PROVE HelloInv'
  OBVIOUS
<1> DEFINE Types == hello \in [HelloThreads -> Hello] /\ sessions \in [Processes -> Seq(Int)]
<1>0. /\ Types /\ NoncesKept /\ RoomKept
      /\ (~up => outages > 0) /\ outages \in Nat /\ outages' \in Nat
      /\ (production' \/ outages' = 0 => production \/ outages = 0)
  BY DeploymentStep DEF HelloInv, NoncesKept, RoomKept, DeploymentInv, Monotone
<1>00. SUFFICES Types' /\ NoncesKept' /\ RoomKept'
  BY DEF HelloInv, NoncesKept, RoomKept
<1> DEFINE Kept == Types' /\ NoncesKept' /\ RoomKept'
<1>01. NoHello \in Hello
  BY DEF NoHello, Hello
<1>1. ASSUME UNCHANGED helloVars PROVE Kept
  <2>1. Types' /\ NoncesKept' /\ UNCHANGED <<hello, sessions>>
    BY <1>0, <1>1 DEF helloVars, NoncesKept
  <2>2. \A p \in Processes : Serves(p)' \subseteq Serves(p) /\ sessions'[p] \in {sessions[p], <<>>}
    BY <2>1 DEF Serves
  <2> QED
    BY <2>1, <2>2, <1>0, RoomRemains
<1>2. ASSUME NEW t \in HelloThreads, NEW p \in Processes, NEW n \in Nonces, StartHello(t, p, n)
      PROVE  Kept
  <2>1. NoncesKept'
    BY <1>2, <1>0 DEF StartHello, NoncesKept
  <2>2. CASE UNCHANGED <<hello, sessions>>
    <3>1. Types'
      BY <2>2, <1>0
    <3>2. \A q \in Processes : Serves(q)' \subseteq Serves(q) /\ sessions'[q] \in {sessions[q], <<>>}
      BY <2>2 DEF Serves
    <3> QED
      BY <2>1, <3>1, <3>2, <1>0, RoomRemains
  <2>3. CASE /\ hello' = [hello EXCEPT ![t] = [loc |-> "nonce", at |-> p, nonce |-> n]]
             /\ sessions' = [sessions EXCEPT ![p] = Expired(@)]
    <3>1. sessions[p] \in Seq(Int) /\ Expired(sessions[p]) \in Seq(Int)
                                   /\ Len(Expired(sessions[p])) <= MaxSessions
      BY <1>0, ExpiredIsShort
    <3>2. Types'
      <4>1. [loc |-> "nonce", at |-> p, nonce |-> n] \in Hello
        BY DEF Hello
      <4> QED
        BY <2>3, <3>1, <4>1, <1>0
    <3>3. ASSUME NEW q \in Processes
          PROVE  Len(sessions'[q]) + Cardinality(Serves(q)') <= MaxSessions + Cardinality(HelloThreads)
      <4>1. CASE q = p
        <5>1. sessions'[q] = Expired(sessions[p])
          BY <2>3, <4>1, <1>0
        <5>2. Len(sessions'[q]) <= MaxSessions /\ Len(sessions'[q]) \in Nat
          BY <5>1, <3>1
        <5>3. /\ Cardinality(Serves(q)') <= Cardinality(HelloThreads)
              /\ Cardinality(Serves(q)') \in Nat /\ Cardinality(HelloThreads) \in Nat
          BY ServesFinite
        <5> QED
          BY <5>2, <5>3, HelloAssumption
      <4>2. CASE q # p
        <5>1. sessions'[q] = sessions[q]
          BY <2>3, <4>2, <1>0
        <5>2. Serves(q)' \subseteq Serves(q)
          BY <2>3, <4>2, <1>0 DEF Serves
        <5>3. /\ Cardinality(Serves(q)') <= Cardinality(Serves(q))
              /\ Cardinality(Serves(q)') \in Nat /\ Cardinality(Serves(q)) \in Nat
              /\ Cardinality(HelloThreads) \in Nat
          BY <5>2, ServesFinite
        <5>4. Len(sessions[q]) + Cardinality(Serves(q)) <= MaxSessions + Cardinality(HelloThreads)
          BY <1>0 DEF RoomKept
        <5>5. Len(sessions[q]) \in Nat
          BY <1>0
        <5> QED
          BY <5>1, <5>3, <5>4, <5>5, HelloAssumption
      <4> QED
        BY <4>1, <4>2
    <3> QED
      BY <2>1, <3>2, <3>3 DEF RoomKept
  <2> QED
    BY <1>2, <2>2, <2>3 DEF StartHello
<1>3. ASSUME NEW t \in HelloThreads, AskForNonce(t) \/ AnswerTooLate(t) PROVE Kept
  <2>1. hello[t].loc = "nonce" /\ sessions' = sessions
    BY <1>3 DEF AskForNonce, AnswerTooLate
  <2>2. \/ Refuse(t) /\ usedRedis \subseteq usedRedis'
        \/ TestAndSet(t, usedRedis) /\ usedRedis' = usedRedis \cup {hello[t].nonce}
        \/ ~production /\ outages' > 0 /\ \E used : TestAndSet(t, used)
    <3>1. CASE AskForNonce(t)
      <4>1. CASE ~up /\ ~production
        <5>1. TestAndSet(t, usedKv[hello[t].at]) /\ outages' = outages
          BY <3>1, <4>1 DEF AskForNonce, deployed
        <5> QED
          BY <5>1, <4>1, <1>0
      <4> QED
        BY <3>1, <4>1 DEF AskForNonce
    <3>2. CASE AnswerTooLate(t)
      <4>1. outages' > 0
        BY <3>2, <1>0 DEF AnswerTooLate
      <4>2. CASE production
        BY <3>2, <4>2 DEF AnswerTooLate
      <4>3. CASE ~production
        <5>1. TestAndSet(t, usedLocal[hello[t].at])
          BY <3>2, <4>3 DEF AnswerTooLate
        <5> QED
          BY <5>1, <4>1, <4>3
      <4> QED
        BY <4>2, <4>3
    <3> QED
      BY <1>3, <3>1, <3>2
  <2>3. CASE Refuse(t) /\ usedRedis \subseteq usedRedis'
    <3>1. hello' = [hello EXCEPT ![t] = NoHello] /\ UNCHANGED <<accepted, replayed>>
      BY <2>3 DEF Refuse
    <3>2. Types'
      BY <3>1, <2>1, <1>0, <1>01
    <3>3. NoncesKept'
      BY <3>1, <2>3, <1>0 DEF NoncesKept
    <3>4. \A q \in Processes : Serves(q)' \subseteq Serves(q) /\ sessions'[q] \in {sessions[q], <<>>}
      BY <3>1, <2>1, <1>0 DEF Serves, NoHello
    <3> QED
      BY <3>2, <3>3, <3>4, <1>0, RoomRemains
  <2>4. ASSUME NEW used, TestAndSet(t, used) PROVE Types' /\ RoomKept'
    <3>1. hello' \in [HelloThreads -> Hello] /\ \A q \in Processes : Serves(q)' \subseteq Serves(q)
      BY <2>1, <2>4, <1>0, TestedAndSet
    <3> QED
      BY <3>1, <2>1, <1>0, RoomRemains
  <2>5. CASE TestAndSet(t, usedRedis) /\ usedRedis' = usedRedis \cup {hello[t].nonce}
    <3>1. /\ accepted' \subseteq accepted \cup {hello[t].nonce}
          /\ accepted \subseteq usedRedis => replayed' = replayed
      BY <2>5, <1>0, TestedAndSet
    <3>2. NoncesKept'
      BY <3>1, <2>5, <1>0 DEF NoncesKept
    <3> QED
      BY <3>2, <2>4, <2>5
  <2>6. CASE ~production /\ outages' > 0 /\ \E used : TestAndSet(t, used)
    <3>1. production' = production
      BY DeploymentStep DEF Monotone
    <3>2. NoncesKept'
      BY <3>1, <2>6, <1>0 DEF NoncesKept
    <3> QED
      BY <3>2, <2>4, <2>6
  <2> QED
    BY <2>2, <2>3, <2>5, <2>6
<1>4. ASSUME NEW t \in HelloThreads, FinishHello(t) PROVE Kept
  <2>1. /\ hello[t].loc = "sign" /\ hello' = [hello EXCEPT ![t] = NoHello]
        /\ \/ sessions' = [sessions EXCEPT ![hello[t].at] = Append(@, SessionLife)]
           \/ sessions' = sessions
        /\ UNCHANGED <<deployed, usedRedis, accepted, replayed>>
    BY <1>4 DEF FinishHello
  <2>2. Types'
    <3>1. hello' \in [HelloThreads -> Hello]
      BY <2>1, <1>0, <1>01
    <3>2. ASSUME NEW q \in Processes PROVE Append(sessions[q], SessionLife) \in Seq(Int)
      BY <1>0, HelloAssumption
    <3>3. sessions' \in [Processes -> Seq(Int)]
      BY <2>1, <3>2, <1>0
    <3> QED
      BY <3>1, <3>3
  <2>3. NoncesKept'
    BY <2>1, <1>0 DEF NoncesKept, deployed
  <2>4. ASSUME NEW q \in Processes
        PROVE  Len(sessions'[q]) + Cardinality(Serves(q)') <= MaxSessions + Cardinality(HelloThreads)
    <3>0. /\ Len(sessions[q]) + Cardinality(Serves(q)) <= MaxSessions + Cardinality(HelloThreads)
          /\ Len(sessions[q]) \in Nat /\ Cardinality(Serves(q)) \in Nat
          /\ Cardinality(Serves(q)') \in Nat /\ Cardinality(HelloThreads) \in Nat
      BY <1>0, ServesFinite DEF RoomKept
    <3>1. Serves(q)' = Serves(q) \ {t}
      BY <2>1, <1>0 DEF Serves, NoHello
    <3>2. CASE q = hello[t].at
      <4>1. t \in Serves(q)
        BY <2>1, <3>2 DEF Serves
      <4>2. Cardinality(Serves(q)') = Cardinality(Serves(q)) - 1
        BY <4>1, <3>1, FS_RemoveElement, ServesFinite
      <4>3. Len(sessions'[q]) <= Len(sessions[q]) + 1 /\ Len(sessions'[q]) \in Nat
        BY <2>1, <3>2, <1>0, HelloAssumption
      <4> QED
        BY <4>2, <4>3, <3>0, HelloAssumption
    <3>3. CASE q # hello[t].at
      <4>1. sessions'[q] = sessions[q]
        BY <2>1, <3>3, <1>0
      <4>2. Cardinality(Serves(q)') <= Cardinality(Serves(q))
        BY <3>1, ServesFinite
      <4> QED
        BY <4>1, <4>2, <3>0, HelloAssumption
    <3> QED
      BY <3>2, <3>3
  <2> QED
    BY <2>2, <2>3, <2>4 DEF RoomKept
<1>5. ASSUME HelloTick PROVE Kept
  <2>1. /\ usedRedis' = {} /\ accepted' = {} /\ UNCHANGED <<deployed, hello, replayed>>
        /\ sessions' = [p \in Processes |-> [i \in DOMAIN sessions[p] |-> sessions[p][i] - 1]]
    BY <1>5 DEF HelloTick
  <2>2. ASSUME NEW p \in Processes
        PROVE  sessions'[p] \in Seq(Int) /\ Len(sessions'[p]) = Len(sessions[p])
    <3>1. sessions[p] \in Seq(Int) /\ DOMAIN sessions[p] = 1..Len(sessions[p]) /\ Len(sessions[p]) \in Nat
      BY <1>0
    <3>2. sessions'[p] = [i \in 1..Len(sessions[p]) |-> sessions[p][i] - 1]
      BY <2>1, <3>1
    <3> QED
      BY <3>1, <3>2
  <2>3. Types'
    BY <2>1, <2>2, <1>0
  <2>4. NoncesKept'
    BY <2>1, <1>0 DEF NoncesKept, deployed
  <2>5. RoomKept'
    BY <2>1, <2>2, <1>0 DEF RoomKept, Serves
  <2> QED
    BY <2>3, <2>4, <2>5
<1>6. ASSUME NEW p \in Processes, HelloRestart(p) PROVE Kept
  <2>1. /\ hello' = [t \in HelloThreads |-> IF hello[t].at = p THEN NoHello ELSE hello[t]]
        /\ sessions' = [sessions EXCEPT ![p] = <<>>]
        /\ UNCHANGED <<usedRedis, accepted, replayed>>
    BY <1>6 DEF HelloRestart
  <2>2. Types'
    BY <2>1, <1>0, <1>01
  <2>3. NoncesKept'
    BY <2>1, <1>0 DEF NoncesKept
  <2>4. \A q \in Processes : Serves(q)' \subseteq Serves(q) /\ sessions'[q] \in {sessions[q], <<>>}
    BY <2>1, <1>0 DEF Serves, NoHello
  <2> QED
    BY <2>2, <2>3, <2>4, <1>0, RoomRemains
<1> QED
  BY HelloSteps, <1>1, <1>2, <1>3, <1>4, <1>5, <1>6 DEF HelloNext, HelloRedis

-----------------------------------------------------------------------------
(* The deployment *)

(* The initial state satisfies the invariant. *)
LEMMA GateInit == Init => GateInv
<1> SUFFICES ASSUME Init PROVE GateInv
  OBVIOUS
<1>1. DeploymentInv
  BY DEF Init, DeploymentInit, DeploymentInv
<1>2. SwitchInv
  BY DEF Init, SwitchInit, SwitchInv, Unchecked
<1>3. ApiInv
  <2>1. ApiType
    <3>1. NotSent \in SignedRequest /\ LongAgo \in Int /\ -ClockWindow \in Int
      BY ApiAssumption DEF NotSent, SignedRequest, LongAgo
    <3>2. copy \in [Copies -> SignedRequest] /\ passed \in [Copies -> Int] /\ through = {}
      BY <3>1 DEF Init, ApiInit
    <3>3. rate = Absent /\ Absent \in [n : Nat, ttl : Nat \cup {Forever}]
      BY DEF Init, ApiInit, Absent
    <3>4. begun \in Int /\ nonce \in Int /\ stranded \in BOOLEAN /\ through \subseteq Copies
      <4>1. begun = -ClockWindow /\ nonce = 0 /\ through = {}
        BY DEF Init, ApiInit
      <4>2. stranded \in BOOLEAN
        BY Zenon DEF Init, ApiInit
      <4>3. begun \in Int
        BY <4>1, ApiAssumption
      <4> QED
        BY <4>1, <4>2, <4>3
    <3>5. age \in Int /\ -ClockWindow <= age /\ age <= ClockWindow + MaxStall
      BY ApiAssumption DEF Init, ApiInit
    <3>6. rate \in [n : Nat, ttl : Nat \cup {Forever}] /\ (rate.n = 0 => rate = Absent)
      BY <3>3
    <3> QED
      BY <3>2, <3>4, <3>5, <3>6 DEF ApiType
  <2>2. Expiring = {} /\ Recent = {} /\ through = {} /\ rate = Absent
    <3>1. ASSUME NEW c \in Copies PROVE copy[c].loc = "unsent" /\ ~(age - passed[c] < RateWindow)
      <4>1. copy[c].loc = "unsent" /\ passed[c] = -ClockWindow - RateWindow /\ age = -ClockWindow
        BY <3>1 DEF Init, ApiInit, NotSent, LongAgo
      <4> QED
        BY <4>1, ApiAssumption
    <3>2. through = {} /\ rate = Absent
      BY DEF Init, ApiInit
    <3> QED
      BY <3>1, <3>2 DEF Expiring, Recent
  <2>3. BucketInv
    BY <2>2 DEF BucketInv, Absent, Forever
  <2>4. Cardinality(through \cup Expiring) = 0 /\ Cardinality(Recent \ through) = 0
    <3>1. through \cup Expiring = {} /\ Recent \ through = {}
      BY <2>2
    <3> QED
      BY <3>1, FS_EmptySet
  <2>5. \A c \in Copies : passed[c] <= age
    BY ApiAssumption DEF Init, ApiInit, LongAgo
  <2>6. PassedInv
    BY <2>2, <2>4, <2>5, ApiAssumption DEF PassedInv, Absent
  <2>7. NonceInv
    BY DEF Init, ApiInit, NotSent, NonceInv
  <2> QED
    BY <2>1, <2>3, <2>6, <2>7 DEF ApiInv
<1>4. StreamInv
  <2>1. Holders = {} /\ Admitted = {}
    BY DEF Init, StreamInit, NoStream, Holders, Admitted
  <2>2. Cardinality(Holders) = 0 /\ Cardinality(Admitted) = 0
    BY <2>1, FS_EmptySet
  <2>3. \A t \in Tabs : tab[t] = NoStream
    BY DEF Init, StreamInit
  <2>4. Open = {} /\ NoStream \in Connection
    BY <2>3 DEF Open, NoStream, Connection
  <2>5. slots \in Counter /\ lost = 0 /\ slots.n = 0 /\ slots = Absent
    BY DEF Init, StreamInit, Absent, Counter
  <2> QED
    BY <2>2, <2>3, <2>4, <2>5, SlotsAssumption DEF Init, StreamInit, StreamInv, NoStream, Counter
<1>5. HelloInv
  <2>1. hello \in [HelloThreads -> Hello] /\ sessions = [p \in Processes |-> <<>>]
    BY DEF Init, HelloInit, NoHello, Hello
  <2>2. ASSUME NEW p \in Processes PROVE Len(sessions[p]) = 0 /\ sessions[p] \in Seq(Int)
    BY <2>1
  <2>3. ASSUME NEW p \in Processes
        PROVE  Len(sessions[p]) + Cardinality(Serves(p)) <= MaxSessions + Cardinality(HelloThreads)
    BY <2>2, ServesFinite, HelloAssumption
  <2>4. accepted = {} /\ replayed = {}
    BY DEF Init, HelloInit
  <2> QED
    BY <2>1, <2>2, <2>3, <2>4 DEF HelloInv
<1> QED
  BY <1>1, <1>2, <1>3, <1>4, <1>5 DEF GateInv

(* The inductive invariant of the deployment holds always. *)
THEOREM GateInvariant == Spec => []GateInv
<1>1. GateInv /\ [Next]_vars => GateInv'
  BY DeploymentStep, SwitchStep, ApiStepKeeps, StreamStepKeeps, HelloStepKeeps DEF GateInv
<1> QED
  BY <1>1, GateInit, PTL DEF Spec

(* A kill switch that was set stops every order that assert_risk_gate      *)
(* checks from then on, in whatever process, across outages and restarts.  *)
THEOREM SwitchesStopOrders == Spec => []EngagedStopsOrders
<1>1. GateInv => EngagedStopsOrders
  BY DEF GateInv, SwitchInv, EngagedStopsOrders
<1> QED
  BY <1>1, GateInvariant, PTL

(* verify_hmac_request and consume_api_nonce serve a signed request once,  *)
(* and perform_handshake accepts a nonce once in its life, as long as the  *)
(* key of a nonce outlives both sides of the clock window and the longest  *)
(* request. A process keeps no more sessions than MAX_SESSIONS and its     *)
(* threads.                                                                *)
THEOREM NoncesUsedOnce == Spec => []NoncesAreUsedOnce
<1>1. GateInv => ServedOnce
  <2> SUFFICES ASSUME GateInv, production \/ outages = 0
               PROVE  Cardinality({c \in Copies : copy[c].loc = "served"}) <= 1
    BY DEF ServedOnce
  <2> DEFINE Served == {c \in Copies : copy[c].loc = "served"}
  <2>1. \A c, d \in Served : c = d
    BY DEF GateInv, ApiInv, NonceInv
  <2>2. CASE Served = {}
    BY <2>2, FS_EmptySet
  <2>3. CASE Served # {}
    <3>1. PICK c \in Served : Served = {c}
      BY <2>1, <2>3
    <3>2. Cardinality({c}) = 1
      BY FS_Singleton
    <3> HIDE DEF Served
    <3>3. Cardinality(Served) <= 1
      BY <3>1, <3>2
    <3> QED
      BY <3>3 DEF Served
  <2> QED
    BY <2>2, <2>3
<1>2. GateInv => HandshakesAreFresh
  <2> SUFFICES ASSUME GateInv PROVE HandshakesAreFresh
    OBVIOUS
  <2>1. production \/ outages = 0 => replayed = {}
    BY DEF GateInv, HelloInv
  <2>2. ASSUME NEW p \in Processes PROVE Len(sessions[p]) <= MaxSessions + Cardinality(HelloThreads)
    <3>1. /\ Len(sessions[p]) + Cardinality(Serves(p)) <= MaxSessions + Cardinality(HelloThreads)
          /\ Len(sessions[p]) \in Nat
      BY DEF GateInv, HelloInv
    <3> QED
      BY <3>1, ServesFinite, HelloAssumption
  <2> QED
    BY <2>1, <2>2 DEF HandshakesAreFresh
<1> QED
  BY <1>1, <1>2, GateInvariant, PTL DEF NoncesAreUsedOnce

(* The two commands of SecurityHeadersAndRateLimit, INCR and EXPIRE, let   *)
(* less than twice the limit pass in any window, in any number of          *)
(* processes, and no bucket outlives its window, unless a fault came       *)
(* between the INCR that created it and its EXPIRE.                        *)
THEOREM RatesAreKept == Spec => []RateIsKept
<1>1. ASSUME GateInv PROVE RateIsKept
  <2>0. ApiType /\ BucketInv /\ PassedInv
    BY <1>1 DEF GateInv, ApiInv
  <2>1. Cardinality(Recent) < 2 * RateLimit
    <3>1. /\ IsFiniteSet(Recent \ through) /\ IsFiniteSet(through)
          /\ Cardinality(Recent \ through) \in Nat /\ Cardinality(through) \in Nat
          /\ Cardinality(through) <= Cardinality(through \cup Expiring)
          /\ Cardinality(through \cup Expiring) \in Nat
          /\ IsFiniteSet((Recent \ through) \cup through)
      <4>1. /\ Recent \ through \in SUBSET Copies /\ through \in SUBSET Copies
            /\ through \cup Expiring \in SUBSET Copies /\ (Recent \ through) \cup through \in SUBSET Copies
        BY <2>0, CountedCopies DEF ApiType
      <4> QED
        BY <4>1, CopiesFinite
    <3>2. Cardinality((Recent \ through) \cup through) <= Cardinality(Recent \ through) + Cardinality(through)
      <4>1. (Recent \ through) \cap through = {}
        OBVIOUS
      <4>2. Cardinality((Recent \ through) \cup through)
              = Cardinality(Recent \ through) + Cardinality(through)
                - Cardinality((Recent \ through) \cap through)
        BY <3>1, FS_Union
      <4> QED
        BY <3>1, <4>1, <4>2, FS_EmptySet
    <3>3. Cardinality(Recent) <= Cardinality((Recent \ through) \cup through)
      BY <3>1, FS_Subset
    <3>4. Cardinality(Recent) \in Nat /\ Cardinality((Recent \ through) \cup through) \in Nat
      BY <3>1, CountedCopies, CopiesFinite, FS_CardinalityType
    <3> QED
      BY <2>0, <3>1, <3>2, <3>3, <3>4, ApiAssumption DEF PassedInv
  <2>2. ASSUME rate # Absent, age - begun >= RateWindow, ~stranded
        PROVE  \E c \in Copies : copy[c].loc = "expire"
    <3>1. CASE rate.ttl = Forever
      BY <2>0, <2>2, <3>1 DEF BucketInv, Expiring
    <3>2. CASE rate.ttl # Forever
      BY <2>0, <2>2, <3>2, ApiAssumption DEF BucketInv, ApiType
    <3> QED
      BY <3>1, <3>2
  <2> QED
    BY <2>1, <2>2 DEF RateIsKept
<1> QED
  BY <1>1, GateInvariant, PTL

(* _ws_acquire keeps a user's open streams within _WS_MAX_PER_USER across  *)
(* all processes, but for the slots that Redis lost.                       *)
THEOREM SlotsStayWithinLimit == Spec => []SlotsWithinLimit
<1>1. GateInv => SlotsWithinLimit
  <2> SUFFICES ASSUME GateInv, outages = 0
               PROVE  Cardinality({t \in Open : tab[t].inRedis}) <= MaxPerUser + lost
    BY DEF SlotsWithinLimit
  <2>1. {t \in Open : tab[t].inRedis} \subseteq Admitted
    BY DEF GateInv, StreamInv, Open, Admitted
  <2>2. Cardinality({t \in Open : tab[t].inRedis}) <= Cardinality(Admitted)
        /\ IsFiniteSet({t \in Open : tab[t].inRedis})
    BY <2>1, HoldersFinite, FS_Subset
  <2>3. Cardinality({t \in Open : tab[t].inRedis}) \in Nat
    BY <2>2, FS_CardinalityType
  <2>4. Cardinality(Admitted) <= MaxPerUser + lost /\ lost \in Nat
    BY DEF GateInv, StreamInv
  <2> QED
    BY <2>2, <2>3, <2>4, HoldersFinite, SlotsAssumption
<1> QED
  BY <1>1, GateInvariant, PTL
=============================================================================
