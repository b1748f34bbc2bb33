-------------------------- MODULE Research_proofs ---------------------------
(***************************************************************************)
(* Proofs about Research: what enqueue admits, what the experiment         *)
(* registry records and what research reads from datasets, for any number  *)
(* of requests, processes, experiments, jobs, users, symbols and days.     *)
(***************************************************************************)
EXTENDS Research, FiniteSetTheorems, WellFoundedInduction, TLAPS

-----------------------------------------------------------------------------
(* Admission: the limits hold, and no work is queued twice *)

(* The initial state satisfies the invariant. *)
LEMMA AdmissionInit == Init => AdmissionInv /\ WithinActiveLimit /\ NoDuplicateWork
<1> SUFFICES ASSUME Init PROVE AdmissionInv /\ WithinActiveLimit /\ NoDuplicateWork
  OBVIOUS
<1>1. Cardinality(active) = 0 /\ IsFiniteSet(active)
  BY FS_EmptySet DEF Init
<1>2. TypeOK
  BY AdmissionAssumption DEF Init, TypeOK
<1>3. HoldsLocks /\ FindingsHold
  BY DEF Init, HoldsLocks, FindingsHold, Inside
<1> QED
  BY <1>1, <1>2, <1>3, AdmissionAssumption DEF Init, AdmissionInv, WithinActiveLimit, NoDuplicateWork

(* No two requests are inside the user's row lock. *)
LEMMA OneInside ==
    ASSUME HoldsLocks, NEW r \in Requests, NEW q \in Requests,
           pc[r] \in Inside \ {"waiting"}, pc[q] \in Inside \ {"waiting"}
    PROVE  q = r
BY DEF HoldsLocks

(* Every step keeps the types. *)
LEMMA AdmissionType == TypeOK /\ [Next]_vars => TypeOK'
<1> SUFFICES ASSUME TypeOK, [Next]_vars PROVE TypeOK'
  OBVIOUS
<1> USE AdmissionAssumption DEF TypeOK, Goto, Inside, Over
<1>1. CASE UNCHANGED vars
  BY <1>1 DEF vars
<1>2. ASSUME NEW r \in Requests, EnterProcess(r) PROVE TypeOK'
  BY <1>2 DEF EnterProcess
<1>3. ASSUME NEW r \in Requests, LockUser(r) PROVE TypeOK'
  BY <1>3 DEF LockUser
<1>4. ASSUME NEW r \in Requests, FindSame(r) PROVE TypeOK'
  BY <1>4 DEF FindSame, Leave, Same
<1>5. ASSUME NEW r \in Requests, CountActive(r) PROVE TypeOK'
  BY <1>5 DEF CountActive, Leave
<1>6. ASSUME NEW r \in Requests, InsertJob(r) PROVE TypeOK'
  BY <1>6 DEF InsertJob, Leave
<1>7. ASSUME NEW r \in Requests, Fail(r) PROVE TypeOK'
  BY <1>7 DEF Fail, Leave
<1>8. ASSUME NEW r \in Requests, EndJob(r) PROVE TypeOK'
  BY <1>8 DEF EndJob
<1> QED
  BY <1>1, <1>2, <1>3, <1>4, <1>5, <1>6, <1>7, <1>8 DEF Next, Step

(* Every step keeps the lock discipline. *)
LEMMA AdmissionLocks == TypeOK /\ HoldsLocks /\ [Next]_vars => HoldsLocks'
<1> SUFFICES ASSUME TypeOK, HoldsLocks, [Next]_vars PROVE HoldsLocks'
  OBVIOUS
<1> USE AdmissionAssumption DEF TypeOK, Goto, Inside, Over, HoldsLocks
<1>1. CASE UNCHANGED vars
  BY <1>1 DEF vars
<1>2. ASSUME NEW r \in Requests, EnterProcess(r) PROVE HoldsLocks'
  BY <1>2 DEF EnterProcess
<1>3. ASSUME NEW r \in Requests, LockUser(r) PROVE HoldsLocks'
  BY <1>3 DEF LockUser
<1>4. ASSUME NEW r \in Requests, FindSame(r) PROVE HoldsLocks'
  BY <1>4 DEF FindSame, Leave
<1>5. ASSUME NEW r \in Requests, CountActive(r) PROVE HoldsLocks'
  BY <1>5 DEF CountActive, Leave
<1>6. ASSUME NEW r \in Requests, InsertJob(r) PROVE HoldsLocks'
  BY <1>6 DEF InsertJob, Leave
<1>7. ASSUME NEW r \in Requests, Fail(r) PROVE HoldsLocks'
  BY <1>7 DEF Fail, Leave
<1>8. ASSUME NEW r \in Requests, EndJob(r) PROVE HoldsLocks'
  BY <1>8 DEF EndJob
<1> QED
  BY <1>1, <1>2, <1>3, <1>4, <1>5, <1>6, <1>7, <1>8 DEF Next, Step

(* Every step keeps what a request has found out, and the two promises     *)
(* that rest on it. Only InsertJob makes a job appear, and whoever inserts *)
(* holds the row lock, so no other request has findings to lose.           *)
LEMMA AdmissionStep ==
    AdmissionInv /\ WithinActiveLimit /\ NoDuplicateWork /\ [Next]_vars
        => (AdmissionInv /\ WithinActiveLimit /\ NoDuplicateWork)'
<1> SUFFICES ASSUME AdmissionInv, WithinActiveLimit, NoDuplicateWork, [Next]_vars
             PROVE  (AdmissionInv /\ WithinActiveLimit /\ NoDuplicateWork)'
  OBVIOUS
<1>1. TypeOK' /\ HoldsLocks'
  BY AdmissionType, AdmissionLocks DEF AdmissionInv
<1>2. Cardinality(active) \in Nat /\ ActiveLimit \in Nat
  BY FS_CardinalityType, AdmissionAssumption DEF AdmissionInv
<1> DEFINE Kept == /\ IsFiniteSet(active') /\ FindingsHold'
                   /\ WithinActiveLimit' /\ NoDuplicateWork'
<1>3. ASSUME UNCHANGED vars PROVE Kept
  BY <1>3 DEF vars, AdmissionInv, FindingsHold, WithinActiveLimit, NoDuplicateWork, Same
<1>4. ASSUME NEW r \in Requests, EnterProcess(r) \/ LockUser(r) PROVE Kept
  BY <1>4 DEF EnterProcess, LockUser, Goto, AdmissionInv, TypeOK, FindingsHold,
              WithinActiveLimit, NoDuplicateWork, Same
<1>5. ASSUME NEW r \in Requests, FindSame(r) PROVE Kept
  BY <1>5 DEF FindSame, Leave, Goto, AdmissionInv, TypeOK, FindingsHold,
              WithinActiveLimit, NoDuplicateWork, Same
<1>6. ASSUME NEW r \in Requests, CountActive(r) PROVE Kept
  BY <1>6 DEF CountActive, Leave, Goto, AdmissionInv, TypeOK, FindingsHold,
              WithinActiveLimit, NoDuplicateWork, Same
<1>7. ASSUME NEW r \in Requests, InsertJob(r) PROVE Kept
  <2>1. pc[r] = "counted" /\ active' = active \cup {r} /\ pc' = [pc EXCEPT ![r] = "answered"]
    BY <1>7 DEF InsertJob, Leave, Goto
  <2>2. \A q \in Requests : pc'[q] \notin {"unmatched", "counted"}
    BY <2>1, OneInside DEF AdmissionInv, TypeOK, Inside
  <2>3. IsFiniteSet(active') /\ Cardinality(active') <= Cardinality(active) + 1
                            /\ Cardinality(active') \in Nat
    <3>1. /\ IsFiniteSet(active \cup {r})
          /\ \/ Cardinality(active \cup {r}) = Cardinality(active)
             \/ Cardinality(active \cup {r}) = Cardinality(active) + 1
      BY FS_AddElement DEF AdmissionInv
    <3> QED
      BY <2>1, <3>1, <1>2
  <2>4. Cardinality(active) < ActiveLimit
    BY <2>1 DEF AdmissionInv, FindingsHold
  <2>5. FindingsHold'
    BY <2>2 DEF FindingsHold
  <2>6. WithinActiveLimit'
    BY <2>3, <2>4, <1>2 DEF WithinActiveLimit
  <2>7. NoDuplicateWork'
    <3>1. WorkOf[r] \in Shared => \A j \in active : WorkOf[j] # WorkOf[r]
      BY <2>1 DEF AdmissionInv, FindingsHold, Same
    <3> QED
      BY <2>1, <3>1 DEF NoDuplicateWork
  <2> QED
    BY <2>3, <2>5, <2>6, <2>7
<1>8. ASSUME NEW r \in Requests, Fail(r) PROVE Kept
  BY <1>8 DEF Fail, Leave, Goto, AdmissionInv, TypeOK, FindingsHold, WithinActiveLimit,
              NoDuplicateWork, Same
<1>9. ASSUME NEW r \in Requests, EndJob(r) PROVE Kept
  <2>1. r \in active /\ active' = active \ {r} /\ UNCHANGED pc
    BY <1>9 DEF EndJob
  <2>2. IsFiniteSet(active') /\ Cardinality(active') <= Cardinality(active)
                            /\ Cardinality(active') \in Nat
    <3>1. /\ IsFiniteSet(active \ {r})
          /\ Cardinality(active \ {r}) = Cardinality(active) - 1
      BY <2>1, FS_RemoveElement DEF AdmissionInv
    <3>2. Cardinality(active \ {r}) \in Nat
      BY <3>1, FS_CardinalityType
    <3> QED
      BY <2>1, <3>1, <3>2, <1>2
  <2>3. FindingsHold'
    BY <2>1, <2>2, <1>2 DEF AdmissionInv, FindingsHold, Same
  <2>4. WithinActiveLimit' /\ NoDuplicateWork'
    BY <2>1, <2>2, <1>2 DEF WithinActiveLimit, NoDuplicateWork
  <2> QED
    BY <2>2, <2>3, <2>4
<1>10. Kept
  <2> HIDE DEF Kept
  <2> QED
    BY <1>3, <1>4, <1>5, <1>6, <1>7, <1>8, <1>9 DEF Next, Step
<1> QED
  BY <1>1, <1>10 DEF AdmissionInv

(* The inductive invariant of enqueue's critical section holds always. *)
THEOREM AdmissionInvariant == Spec => []AdmissionInv
<1>1. Init => AdmissionInv /\ WithinActiveLimit /\ NoDuplicateWork
  BY AdmissionInit
<1> QED
  BY <1>1, AdmissionStep, PTL DEF Spec

(* enqueue never admits a job beyond RESEARCH_MAX_ACTIVE_JOBS_PER_USER,    *)
(* for any number of API processes and concurrent requests.                *)
THEOREM ActiveLimitHolds == Spec => []WithinActiveLimit
<1>1. Init => AdmissionInv /\ WithinActiveLimit /\ NoDuplicateWork
  BY AdmissionInit
<1> QED
  BY <1>1, AdmissionStep, PTL DEF Spec

(* enqueue never queues shared work (same_as) twice. *)
THEOREM NoDuplicates == Spec => []NoDuplicateWork
<1>1. Init => AdmissionInv /\ WithinActiveLimit /\ NoDuplicateWork
  BY AdmissionInit
<1> QED
  BY <1>1, AdmissionStep, PTL DEF Spec

(* Both limits together, as the runs of Research check them. *)
THEOREM LimitsHold == Spec => []AdmissionLimits
<1>1. WithinActiveLimit /\ NoDuplicateWork => AdmissionLimits
  BY DEF AdmissionLimits
<1> QED
  BY <1>1, ActiveLimitHolds, NoDuplicates, PTL

-----------------------------------------------------------------------------
(* Datasets: a frame is determined by the datasets that supplied it *)

(* A bounded set of integers has a largest member. *)
LEMMA LargestOne ==
    ASSUME NEW S, S \subseteq Int, S # {}, NEW B \in Int, \A n \in S : n <= B
    PROVE  Max(S) \in S /\ Max(S) \in Int /\ \A n \in S : n <= Max(S)
<1> DEFINE T == {k \in Nat : B - k \in S}
<1>1. \A n \in S : B - n \in Nat /\ B - (B - n) = n
  OBVIOUS
<1>2. T \subseteq Nat /\ T # {} /\ \A n \in S : B - n \in T
  BY <1>1
<1> HIDE DEF T
<1>3. PICK k \in T : \A j \in T : ~ (<<j, k>> \in OpToRel(<, Nat))
  BY <1>2, NatLessThanWellFounded, WFMin
<1>4. k \in Nat /\ \A j \in T : j \in Nat /\ ~ (j < k)
  BY <1>2, <1>3 DEF OpToRel
<1> DEFINE m == B - k
<1>5. m \in S /\ m \in Int
  BY <1>3, <1>4 DEF T
<1>6. \A n \in S : m >= n
  BY <1>2, <1>4
<1>7. \E x \in S : \A y \in S : x >= y
  BY <1>5, <1>6
<1>8. Max(S) \in S /\ \A y \in S : Max(S) >= y
  BY <1>7 DEF Max
<1> QED
  BY <1>8

(* The smaller of two integers. *)
LEMMA SmallerOne ==
    ASSUME NEW a \in Int, NEW b \in Int
    PROVE  Min({a, b}) \in Int /\ Min({a, b}) <= a /\ Min({a, b}) <= b
<1>1. \E x \in {a, b} : \A y \in {a, b} : x =< y
  OBVIOUS
<1>2. Min({a, b}) \in {a, b} /\ \A y \in {a, b} : Min({a, b}) =< y
  BY <1>1 DEF Min
<1> QED
  BY <1>2

AllSound(ds) == \A d \in ds : Sound(d)

Bars(ds) == UNION {d.bars : d \in ds}

(* The bars of sound datasets. *)
LEMMA SoundBars ==
    ASSUME NEW ds, AllSound(ds), NEW b \in Bars(ds)
    PROVE  /\ b.symbol \in Symbols /\ b.first \in Int /\ b.last \in Int
           /\ b.first <= b.last /\ b.last < MaxDay
<1>1. PICK d \in ds : b \in d.bars
  BY DEF Bars
<1>2. d \in Dataset /\ Sound(d)
  BY DEF AllSound, Sound
<1>3. b \in Bar
  BY <1>1, <1>2 DEF Dataset
<1> QED
  BY <1>1, <1>2, <1>3 DEF Sound, Bar

(* The anchor is one past the last session of some bar, and of no earlier. *)
LEMMA AnchorIsLast ==
    ASSUME NEW ds, AllSound(ds), Bars(ds) # {}
    PROVE  /\ Anchor(ds) \in Int
           /\ \E b \in Bars(ds) : Anchor(ds) = b.last + 1
           /\ \A b \in Bars(ds) : b.last < Anchor(ds)
<1> DEFINE L == {b.last : b \in Bars(ds)}
<1>1. L \subseteq Int /\ L # {} /\ \A n \in L : n <= MaxDay
  BY SoundBars, DatasetsAssumption
<1>2. Anchor(ds) = 1 + Max(L)
  BY DEF Anchor, Bars
<1> HIDE DEF L
<1>3. Max(L) \in L /\ Max(L) \in Int /\ \A n \in L : n <= Max(L)
  BY <1>1, LargestOne, DatasetsAssumption
<1>4. PICK b \in Bars(ds) : Max(L) = b.last
  BY <1>3 DEF L
<1>5. \A c \in Bars(ds) : c.last \in L
  BY DEF L
<1>6. \A c \in Bars(ds) : c.last \in Int
  BY SoundBars
<1> QED
  BY <1>2, <1>3, <1>4, <1>5, <1>6

(* A session of the symbol s lies in the period. *)
InPeriod(ds, s) == \E b \in Series(ds, s) : \E n \in b.first..b.last : Anchor(ds) - Period <= n

(* A symbol supplies prices if a session of it lies in the period. *)
LEMMA SuppliesInPeriod ==
    ASSUME NEW ds, NEW s
    PROVE  Adjusted(ds, s) # {} <=> InPeriod(ds, s)
<1> DEFINE end == Max({b.last : b \in Series(ds, s)})
           E(n, b) == [symbol |-> s, session |-> n, revision |-> b.revision,
                       dividends |-> Cardinality({x \in ExDates[s] : n < x /\ x <= end})]
           P(b) == {E(n, b) : n \in {m \in b.first..b.last : Anchor(ds) - Period <= m}}
<1>1. Adjusted(ds, s) = UNION {P(b) : b \in Series(ds, s)}
  BY DEF Adjusted
<1> HIDE DEF E
<1>2. \A b : P(b) # {} <=> \E n \in b.first..b.last : Anchor(ds) - Period <= n
  OBVIOUS
<1> HIDE DEF P
<1> QED
  BY <1>1, <1>2 DEF InPeriod

(* What is adjusted depends on the series and on the anchor. *)
LEMMA AdjustedSame ==
    ASSUME NEW ds, NEW us, NEW s, Series(us, s) = Series(ds, s), Anchor(us) = Anchor(ds)
    PROVE  Adjusted(us, s) = Adjusted(ds, s)
BY DEF Adjusted

(* A dataset with a bar of a symbol that supplies prices is used. *)
LEMMA SuppliersAreUsed ==
    ASSUME NEW ds, NEW d \in ds, NEW b \in d.bars, Adjusted(ds, b.symbol) # {}
    PROVE  d \in Used(ds)
BY DEF Used

(* The datasets that are used have the anchor of all of them. *)
LEMMA AnchorOfUsed ==
    ASSUME NEW ds, AllSound(ds), Bars(ds) # {}
    PROVE  Bars(Used(ds)) # {} /\ Anchor(Used(ds)) = Anchor(ds)
<1>1. PICK b \in Bars(ds) : Anchor(ds) = b.last + 1
  BY AnchorIsLast
<1>2. Anchor(ds) \in Int /\ \A c \in Bars(ds) : c.last < Anchor(ds)
  BY AnchorIsLast
<1>3. b.first \in Int /\ b.last \in Int /\ b.first <= b.last
  BY SoundBars
<1>4. b \in Series(ds, b.symbol)
  BY DEF Series, Bars
<1>5. b.last \in b.first..b.last /\ Anchor(ds) - Period <= b.last
  BY <1>1, <1>3, DatasetsAssumption
<1>6. Adjusted(ds, b.symbol) # {}
  BY <1>4, <1>5, SuppliesInPeriod DEF InPeriod
<1>7. PICK d \in ds : b \in d.bars
  BY DEF Bars
<1>8. d \in Used(ds)
  BY <1>6, <1>7, SuppliersAreUsed
<1>9. b \in Bars(Used(ds)) /\ Bars(Used(ds)) \subseteq Bars(ds) /\ AllSound(Used(ds))
  BY <1>7, <1>8 DEF Bars, Used, AllSound
<1>10. /\ Anchor(Used(ds)) \in Int
       /\ \E c \in Bars(Used(ds)) : Anchor(Used(ds)) = c.last + 1
       /\ \A c \in Bars(Used(ds)) : c.last < Anchor(Used(ds))
  BY <1>9, AnchorIsLast
<1>11. PICK c \in Bars(Used(ds)) : Anchor(Used(ds)) = c.last + 1
  BY <1>10
<1>12. c.last \in Int /\ c.last < Anchor(ds) /\ b.last < Anchor(Used(ds))
  BY <1>2, <1>9, <1>10, SoundBars
<1>13. Anchor(Used(ds)) = Anchor(ds)
  BY <1>1, <1>2, <1>3, <1>10, <1>11, <1>12
<1> QED
  BY <1>9, <1>13

(* A rerun on the datasets that were used sees the frame of all of them,   *)
(* and uses all of it: the ones that are left out supply no session of the *)
(* period.                                                                 *)
LEMMA FrameOfUsed ==
    ASSUME NEW ds, AllSound(ds), Frame(ds) # {}
    PROVE  /\ Used(ds) # {} /\ Frame(Used(ds)) = Frame(ds)
           /\ Used(Used(ds)) = Used(ds)
<1> DEFINE U == Used(ds)
<1>1. Bars(ds) # {}
  BY DEF Frame, Found, Series, Bars
<1>2. Bars(U) # {} /\ Anchor(U) = Anchor(ds)
  BY <1>1, AnchorOfUsed
<1>3. U \subseteq ds
  BY DEF Used
<1>4. \A s : Series(U, s) \subseteq Series(ds, s)
  BY <1>3 DEF Series
<1>5. ASSUME NEW s, Adjusted(ds, s) # {} PROVE Series(U, s) = Series(ds, s)
  <2>1. ASSUME NEW b \in Series(ds, s) PROVE b \in Series(U, s)
    <3>1. PICK d \in ds : b \in d.bars /\ b.symbol = s
      BY DEF Series
    <3>2. d \in U
      BY <1>5, <3>1, SuppliersAreUsed
    <3> QED
      BY <3>1, <3>2 DEF Series
  <2> QED
    BY <1>4, <2>1
<1>6. ASSUME NEW s, Adjusted(U, s) # {} PROVE Adjusted(ds, s) # {}
  BY <1>2, <1>4, <1>6, SuppliesInPeriod DEF InPeriod
<1>7. ASSUME NEW s, Adjusted(ds, s) # {} PROVE Adjusted(U, s) = Adjusted(ds, s)
  BY <1>2, <1>5, <1>7, AdjustedSame
<1>8. ASSUME NEW s, Adjusted(ds, s) # {} PROVE Series(U, s) # {}
  BY <1>5, <1>8, SuppliesInPeriod DEF InPeriod
<1> HIDE DEF U
<1>9. ASSUME NEW e \in Frame(ds) PROVE e \in Frame(U)
  <2>1. PICK s \in Symbols : e \in Adjusted(ds, s)
    BY DEF Frame, Found
  <2> QED
    BY <1>7, <1>8, <2>1 DEF Frame, Found
<1>10. ASSUME NEW e \in Frame(U) PROVE e \in Frame(ds)
  <2>1. PICK s \in Symbols : e \in Adjusted(U, s) /\ Series(U, s) # {}
    BY DEF Frame, Found
  <2>2. Series(ds, s) # {} /\ Adjusted(U, s) = Adjusted(ds, s)
    BY <1>4, <1>6, <1>7, <2>1
  <2> QED
    BY <2>1, <2>2 DEF Frame, Found
<1>11. U # {}
  BY <1>2 DEF Bars
<1>12. ASSUME NEW d \in U PROVE d \in Used(U)
  <2>1. PICK b \in d.bars : Adjusted(ds, b.symbol) # {}
    BY DEF U, Used
  <2>2. Adjusted(U, b.symbol) # {}
    BY <1>7, <2>1
  <2> QED
    BY <2>1, <2>2, SuppliersAreUsed
<1>13. Used(U) \subseteq U
  BY DEF Used
<1> QED
  BY <1>9, <1>10, <1>11, <1>12, <1>13 DEF U

(* The parts of a series that agree still agree where some are left out. *)
LEMMA FewerPartsAgree ==
    ASSUME NEW ds, NEW us \in SUBSET ds, \A s \in Found(ds) : Agree(Series(ds, s))
    PROVE  \A s \in Found(us) : Agree(Series(us, s))
<1> SUFFICES ASSUME NEW s \in Found(us) PROVE Agree(Series(us, s))
  OBVIOUS
<1>1. Series(us, s) \subseteq Series(ds, s)
  BY DEF Series
<1>2. s \in Found(ds)
  BY <1>1 DEF Found
<1> QED
  BY <1>1, <1>2 DEF Agree


-----------------------------------------------------------------------------
(* Datasets: the inductive invariant *)

(* A snapshot is sound: it has sessions before today of the symbols that   *)
(* are available.                                                          *)
LEMMA SnapshotIsSound ==
    ASSUME day \in FirstDay..MaxDay, revision \in Nat,
           NEW got \in SUBSET {s \in Symbols : Available(s)}
    PROVE  AllSound(Snapshot(got))
<1> USE DatasetsAssumption
<1>1. ASSUME NEW s \in got
      PROVE  Sessions(s) \in Bar /\ Sessions(s).first <= Sessions(s).last /\ Sessions(s).last < MaxDay
  <2>1. s \in Symbols /\ LastTraded[s] \in Int /\ day \in Int /\ day <= MaxDay
    OBVIOUS
  <2>2. Min({day - 1, LastTraded[s]}) \in Int /\ Min({day - 1, LastTraded[s]}) <= day - 1
    BY <2>1, SmallerOne
  <2>3. Available(s)
    OBVIOUS
  <2> QED
    BY <2>1, <2>2, <2>3 DEF Sessions, Bar, Available
<1>2. ASSUME NEW d \in Snapshot(got) PROVE Sound(d)
  <2>1. PICK f \in {FamilyOf[s] : s \in got} :
            d = [family |-> f, bars |-> {Sessions(s) : s \in {z \in got : FamilyOf[z] = f}}]
    BY DEF Snapshot
  <2>2. PICK s \in got : f = FamilyOf[s]
    OBVIOUS
  <2>3. d.bars = {Sessions(z) : z \in {y \in got : FamilyOf[y] = f}}
    BY <2>1
  <2>4. Sessions(s) \in d.bars
    BY <2>2, <2>3
  <2>5. \A b \in d.bars : \E z \in got : b = Sessions(z)
    BY <2>3
  <2>6. f \in {FamilyOf[z] : z \in Symbols} /\ d.bars \subseteq Bar
    BY <1>1, <2>2, <2>5
  <2>7. d \in Dataset
    BY <2>1, <2>6 DEF Dataset
  <2> QED
    BY <1>1, <2>4, <2>5, <2>7 DEF Sound
<1> QED
  BY <1>2 DEF AllSound

(* What a task computes from sound datasets. *)
LEMMA ComputedFrame ==
    ASSUME NEW k, NEW ds, AllSound(ds), NEW c, c = Computed(k, ds)
    PROVE  \/ c = [at |-> "failed"]
           \/ /\ c.at = "computed" /\ c.user = k.user /\ c.named = k.named
              /\ c.snapshot = k.snapshot
              /\ c.used \subseteq ds /\ c.used # {}
              /\ c.frame = Frame(ds) /\ c.frame = Frame(c.used)
              /\ c.frame # {} /\ Used(c.used) = c.used
              /\ \A s \in Found(c.used) : Agree(Series(c.used, s))
<1>1. CASE c = [at |-> "computed", user |-> k.user, named |-> k.named, snapshot |-> k.snapshot,
                used |-> Used(ds), frame |-> Frame(ds)] /\ Frame(ds) # {}
           /\ \A s \in Found(ds) : Agree(Series(ds, s))
  <2>1. Used(ds) \subseteq ds
    BY DEF Used
  <2>2. Used(ds) # {} /\ Frame(Used(ds)) = Frame(ds) /\ Used(Used(ds)) = Used(ds)
    BY <1>1, FrameOfUsed
  <2>3. \A s \in Found(Used(ds)) : Agree(Series(Used(ds), s))
    BY <1>1, <2>1, FewerPartsAgree
  <2> QED
    BY <1>1, <2>1, <2>2, <2>3
<1>2. CASE c = [at |-> "failed"]
  BY <1>2
<1> QED
  BY <1>1, <1>2 DEF Computed

(* What is registered stays as it was while files are only added. *)
LEMMA VersionsStay ==
    ASSUME DatasetsInv, UNCHANGED <<versions, damaged, spoiled>>, blobs \subseteq blobs'
    PROVE  VersionsInv'
BY DEF DatasetsInv, VersionsInv

(* The other tasks keep the invariant while versions and holdings grow. *)
LEMMA OtherTasks ==
    ASSUME DatasetsInv, NEW t \in Tasks, NEW k, Goes(t, k),
           versions \subseteq versions', holdings \subseteq holdings'
    PROVE  /\ DOMAIN tasks' = Tasks /\ tasks'[t] = k
           /\ \A r \in Tasks \ {t} : TaskInv(r)'
<1>1. DOMAIN tasks' = Tasks /\ tasks'[t] = k /\ \A r \in Tasks \ {t} : tasks'[r] = tasks[r]
  BY DEF Goes, DatasetsInv
<1>2. ASSUME NEW r \in Tasks \ {t} PROVE TaskInv(r)'
  <2>1. TaskInv(r) /\ tasks'[r] = tasks[r]
    BY <1>1 DEF DatasetsInv
  <2> QED
    BY <2>1 DEF TaskInv, FrameInv, Done
<1> QED
  BY <1>1, <1>2


(* A task that goes on. *)
LEMMA TaskGoes ==
    ASSUME DatasetsInv, NEW t \in Tasks, NEW k, Goes(t, k), UNCHANGED <<day, revision>>,
           versions \subseteq versions', holdings \subseteq holdings',
           \A d \in versions' : Sound(d), VersionsInv', TaskInv(t)'
    PROVE  DatasetsInv'
BY OtherTasks DEF DatasetsInv

(* A task that fails. *)
LEMMA TaskFails ==
    ASSUME DatasetsInv, NEW t \in Tasks, Goes(t, [at |-> "failed"]),
           UNCHANGED <<day, revision, versions, holdings>>, VersionsInv'
    PROVE  DatasetsInv'
<1>1. tasks'[t] = [at |-> "failed"]
  BY OtherTasks
<1>2. TaskInv(t)'
  BY <1>1 DEF TaskInv, FrameInv, Done
<1> QED
  BY <1>2, TaskGoes DEF DatasetsInv

(* A task that has computed, from datasets that it named or took. *)
LEMMA TaskComputes ==
    ASSUME DatasetsInv, NEW t \in Tasks, NEW ds, AllSound(ds),
           tasks[t].at \in {"queued", "storing"},
           \/ tasks[t].at = "storing" /\ ds = tasks[t].snapshot
           \/ tasks[t].at = "queued" /\ ds = tasks[t].named /\ tasks[t].snapshot = {},
           Goes(t, Computed(tasks[t], ds)),
           UNCHANGED <<day, revision, versions, holdings>>, VersionsInv'
    PROVE  DatasetsInv'
<1> DEFINE k == tasks[t]
           c == Computed(k, ds)
<1> HIDE DEF c
<1>1. CASE c = [at |-> "failed"]
  BY <1>1, TaskFails DEF c
<1>2. CASE /\ c.at = "computed" /\ c.user = k.user /\ c.named = k.named
           /\ c.snapshot = k.snapshot
           /\ c.used \subseteq ds /\ c.used # {}
           /\ c.frame = Frame(ds) /\ c.frame = Frame(c.used)
           /\ c.frame # {} /\ Used(c.used) = c.used
           /\ \A s \in Found(c.used) : Agree(Series(c.used, s))
  <2>1. tasks'[t] = c
    BY OtherTasks DEF c
  <2>2. TaskInv(t)
    BY DEF DatasetsInv
  <2>3. k.user \in Holders /\ k.named \subseteq versions /\ \A d \in k.snapshot : Sound(d)
    BY <2>2 DEF TaskInv
  <2>4. c.used \subseteq c.snapshot \cup c.named
    BY <1>2
  <2>5. c.named # Unnamed => c.frame = Frame(c.named)
    BY <1>2, <2>2 DEF TaskInv
  <2>6. TaskInv(t)'
    BY <1>2, <2>1, <2>3, <2>4, <2>5 DEF TaskInv, FrameInv, Done
  <2> QED
    BY <2>6, TaskGoes DEF DatasetsInv, c
<1> QED
  BY <1>1, <1>2, ComputedFrame DEF c

(* Every step of research on datasets keeps the invariant. *)
LEMMA DatasetsStep == DatasetsInv /\ [DatasetNext]_datasetVars => DatasetsInv'
<1> SUFFICES ASSUME DatasetsInv, [DatasetNext]_datasetVars PROVE DatasetsInv'
  OBVIOUS
<1> USE DatasetsAssumption
<1>1. ASSUME NEW t \in Tasks, NEW u \in Holders, NEW named \in SUBSET versions,
             QueueResearch(t, u, named)
      PROVE  DatasetsInv'
  <2> DEFINE k == [at |-> "queued", user |-> u, named |-> named, snapshot |-> {}]
  <2>1. Goes(t, k) /\ UNCHANGED <<day, revision, versions, holdings>> /\ VersionsInv'
    BY <1>1, VersionsStay DEF QueueResearch
  <2>2. tasks'[t] = k
    BY <2>1, OtherTasks
  <2>3. named \subseteq Dataset
    BY DEF DatasetsInv, Sound
  <2>4. TaskInv(t)'
    BY <2>1, <2>2, <2>3 DEF TaskInv, FrameInv, Done
  <2> QED
    BY <2>1, <2>4, TaskGoes DEF DatasetsInv
<1>2. ASSUME NEW t \in Tasks, NEW got \in SUBSET {s \in Symbols : Available(s)},
             TakeSnapshot(t, got)
      PROVE  DatasetsInv'
  <2>1. UNCHANGED <<day, revision, versions, holdings>> /\ VersionsInv' /\ tasks[t].at = "queued"
    BY <1>2, VersionsStay DEF TakeSnapshot
  <2>2. TaskInv(t)
    BY DEF DatasetsInv
  <2>3. CASE got = {}
    BY <1>2, <2>1, <2>3, TaskFails DEF TakeSnapshot
  <2>4. CASE got # {}
    <3> DEFINE k == [tasks[t] EXCEPT !.at = "storing", !.snapshot = Snapshot(got)]
    <3>1. Goes(t, k) /\ tasks[t].named = Unnamed
      BY <1>2, <2>4 DEF TakeSnapshot
    <3>2. tasks'[t] = k
      BY <2>1, <3>1, OtherTasks
    <3>3. AllSound(Snapshot(got))
      BY SnapshotIsSound DEF DatasetsInv
    <3>4. Snapshot(got) \subseteq Dataset
      BY <3>3 DEF AllSound, Sound
    <3>5. tasks[t] \in [at : {"queued", "storing"}, user : Holders,
                        named : SUBSET Dataset, snapshot : SUBSET Dataset]
      BY <2>1, <2>2 DEF TaskInv
    <3>6. /\ k \in [at : {"queued", "storing"}, user : Holders,
                    named : SUBSET Dataset, snapshot : SUBSET Dataset]
          /\ k.at = "storing" /\ k.named = Unnamed /\ k.snapshot = Snapshot(got)
      BY <3>1, <3>4, <3>5
    <3>7. TaskInv(t)'
      BY <3>2, <3>3, <3>6 DEF TaskInv, FrameInv, Done, AllSound, Unnamed
    <3> QED
      BY <2>1, <3>1, <3>7, TaskGoes DEF DatasetsInv
  <2> QED
    BY <2>3, <2>4
<1>3. ASSUME NEW t \in Tasks, PutBlob(t) PROVE DatasetsInv'
  <2>1. UNCHANGED <<day, revision, versions, holdings>> /\ VersionsInv'
    BY <1>3, VersionsStay DEF PutBlob
  <2>2. CASE Goes(t, [at |-> "failed"])
    BY <2>1, <2>2, TaskFails
  <2>3. CASE UNCHANGED tasks
    BY <2>1, <2>3 DEF DatasetsInv, TaskInv, FrameInv, Done
  <2> QED
    BY <1>3, <2>2, <2>3 DEF PutBlob
<1>4. ASSUME NEW t \in Tasks, ComputeFromSnapshot(t) PROVE DatasetsInv'
  <2>1. AllSound(tasks[t].snapshot)
    BY <1>4 DEF ComputeFromSnapshot, DatasetsInv, TaskInv, AllSound
  <2>2. VersionsInv'
    BY <1>4, VersionsStay DEF ComputeFromSnapshot
  <2> QED
    BY <1>4, <2>1, <2>2, TaskComputes DEF ComputeFromSnapshot
<1>5. ASSUME NEW t \in Tasks, ComputeFromNamed(t) PROVE DatasetsInv'
  <2>1. UNCHANGED <<day, revision, versions, holdings>> /\ VersionsInv' /\ tasks[t].at = "queued"
    BY <1>5, VersionsStay DEF ComputeFromNamed
  <2>2. AllSound(tasks[t].named) /\ tasks[t].snapshot = {}
    BY <2>1 DEF DatasetsInv, TaskInv, AllSound
  <2>3. CASE Goes(t, [at |-> "failed"])
    BY <2>1, <2>3, TaskFails
  <2>4. CASE Goes(t, Computed(tasks[t], tasks[t].named))
    BY <2>1, <2>2, <2>4, TaskComputes
  <2> QED
    BY <1>5, <2>3, <2>4 DEF ComputeFromNamed
<1>6. ASSUME NEW t \in Tasks, RecordMarketData(t) PROVE DatasetsInv'
  <2> DEFINE k == tasks[t]
             held == holdings \cup {<<k.user, d>> : d \in k.snapshot}
             s == [at |-> "succeeded", user |-> k.user, named |-> k.named,
                   used |-> k.used, frame |-> k.frame]
  <2>1. UNCHANGED <<day, revision, blobs, damaged, spoiled>> /\ k.at = "computed"
    BY <1>6 DEF RecordMarketData
  <2>2. CASE /\ VerifiedAgain(k.snapshot) /\ \A d \in k.used : <<k.user, d>> \in held
             /\ versions' = versions \cup k.snapshot
             /\ holdings' = held /\ Goes(t, s)
    <3>1. TaskInv(t)
      BY DEF DatasetsInv
    <3>2. tasks'[t] = s
      BY <2>2, OtherTasks
    <3>3. \A d \in versions' : Sound(d)
      BY <2>1, <2>2, <3>1 DEF DatasetsInv, TaskInv
    <3>4. /\ k.user \in Holders /\ k.named \subseteq versions /\ k.used \subseteq k.snapshot \cup k.named
          /\ k.used # {} /\ FrameInv(t)
      BY <2>1, <3>1 DEF TaskInv
    <3>5. k.used \subseteq versions' /\ k.named \subseteq versions'
      BY <2>2, <3>4
    <3>6. s.at = "succeeded" /\ s.user = k.user /\ s.named = k.named /\ s.used = k.used /\ s.frame = k.frame
      OBVIOUS
    <3>7. TaskInv(t)'
      BY <2>2, <3>2, <3>4, <3>5, <3>6 DEF TaskInv, FrameInv, Done
    <3>8. VersionsInv'
      BY <2>1, <2>2 DEF VersionsInv, VerifiedAgain, DatasetsInv
    <3> QED
      BY <2>1, <2>2, <3>3, <3>7, <3>8, TaskGoes
  <2>3. CASE Goes(t, [at |-> "failed"]) /\ UNCHANGED <<versions, holdings>>
    BY <2>1, <2>3, TaskFails, VersionsStay
  <2> QED
    BY <1>6, <2>2, <2>3 DEF RecordMarketData
<1>7. ASSUME NEW t \in Tasks, TaskDies(t) PROVE DatasetsInv'
  <2> DEFINE k == [at |-> "queued", user |-> tasks[t].user, named |-> tasks[t].named,
                   snapshot |-> {}]
  <2>1. Goes(t, k) /\ UNCHANGED <<day, revision, versions, holdings>> /\ VersionsInv'
    BY <1>7, VersionsStay DEF TaskDies
  <2>2. tasks'[t] = k
    BY <2>1, OtherTasks
  <2>3. TaskInv(t) /\ tasks[t].at \in {"storing", "computed"}
    BY <1>7 DEF DatasetsInv, TaskDies
  <2>4. tasks[t].user \in Holders /\ tasks[t].named \subseteq versions /\ versions \subseteq Dataset
    BY <2>3 DEF TaskInv, DatasetsInv, Sound
  <2>5. TaskInv(t)'
    BY <2>1, <2>2, <2>4 DEF TaskInv, FrameInv, Done
  <2> QED
    BY <2>1, <2>5, TaskGoes DEF DatasetsInv
<1>8. ASSUME NextDay PROVE DatasetsInv'
  BY <1>8, VersionsStay DEF NextDay, DatasetsInv, TaskInv, FrameInv, Done
<1>9. ASSUME Restate PROVE DatasetsInv'
  BY <1>9, VersionsStay DEF Restate, DatasetsInv, TaskInv, FrameInv, Done
<1>10. ASSUME NEW d \in blobs, DamageBlob(d) PROVE DatasetsInv'
  BY <1>10 DEF DamageBlob, DatasetsInv, VersionsInv, TaskInv, FrameInv, Done
<1>11. CASE UNCHANGED datasetVars
  BY <1>11, VersionsStay DEF datasetVars, DatasetsInv, TaskInv, FrameInv, Done
<1> QED
  BY <1>1, <1>2, <1>3, <1>4, <1>5, <1>6, <1>7, <1>8, <1>9, <1>10, <1>11 DEF DatasetNext


(* The first day satisfies the invariant. *)
LEMMA DatasetsFirst == DatasetInit => DatasetsInv
BY DatasetsAssumption DEF DatasetInit, DatasetsInv, VersionsInv, TaskInv, IdleTask, Done

(* The invariant gives the property. *)
LEMMA RerunFollows == DatasetsInv => RerunSeesTheSame
<1> SUFFICES ASSUME DatasetsInv, NEW t \in Tasks, Done(t)
             PROVE  /\ tasks[t].used \subseteq versions
                    /\ \A d \in tasks[t].used : <<tasks[t].user, d>> \in holdings
                    /\ \A r \in Tasks :
                          Done(r) /\ tasks[t].named = Unnamed /\ tasks[r].named = tasks[t].used =>
                              tasks[r].frame = tasks[t].frame
  BY DEF RerunSeesTheSame
<1>1. TaskInv(t)
  BY DEF DatasetsInv
<1>2. /\ tasks[t].used \subseteq versions /\ tasks[t].used # {}
      /\ \A d \in tasks[t].used : <<tasks[t].user, d>> \in holdings
      /\ tasks[t].frame = Frame(tasks[t].used)
  BY <1>1 DEF TaskInv, FrameInv
<1>3. ASSUME NEW r \in Tasks, Done(r), tasks[r].named = tasks[t].used
      PROVE  tasks[r].frame = tasks[t].frame
  <2>1. TaskInv(r) /\ tasks[r].named # Unnamed
    BY <1>2, <1>3 DEF DatasetsInv, Unnamed
  <2>2. tasks[r].frame = Frame(tasks[r].named)
    BY <1>3, <2>1 DEF TaskInv, FrameInv
  <2> QED
    BY <1>2, <1>3, <2>2
<1> QED
  BY <1>2, <1>3

(* The invariant gives the property: a rerun computes once more. *)
LEMMA RepeatFollows == DatasetsInv => ResultsAreRepeatable
<1> SUFFICES ASSUME DatasetsInv, NEW t \in Tasks, Done(t)
             PROVE  /\ tasks[t].used \subseteq blobs
                    /\ tasks[t].used \cap damaged \subseteq spoiled
                    /\ Rerun(t).at = "computed"
                    /\ Rerun(t).frame = tasks[t].frame /\ Rerun(t).used = tasks[t].used
  BY DEF ResultsAreRepeatable
<1> DEFINE U == tasks[t].used
<1>1. TaskInv(t) /\ VersionsInv
  BY DEF DatasetsInv
<1>2. U \subseteq versions /\ FrameInv(t)
  BY <1>1 DEF TaskInv
<1>3. U \subseteq blobs /\ U \cap damaged \subseteq spoiled
  BY <1>1, <1>2 DEF VersionsInv
<1>4. /\ \A s \in Found(U) : Agree(Series(U, s))
      /\ Frame(U) # {} /\ tasks[t].frame = Frame(U) /\ Used(U) = U
  BY <1>2 DEF FrameInv
<1>5. Rerun(t) = [at |-> "computed", user |-> tasks[t].user, named |-> U, snapshot |-> {},
                  used |-> Used(U), frame |-> Frame(U)]
  BY <1>4 DEF Rerun, Computed
<1> QED
  BY <1>3, <1>4, <1>5


-----------------------------------------------------------------------------
(* Experiments: the inductive invariant *)

Waiting == [at : {"checked", "queued"}, kind : {"run", "validate", "replay"}, exp : Exps,
            inputs : Inputs, execute : BOOLEAN, verification : BOOLEAN \cup {None}]

Executed == [at : {"executed", "registered", "done", "refused"},
             kind : {"run", "validate", "replay"}, exp : Exps,
             inputs : Inputs, execute : BOOLEAN, verification : BOOLEAN \cup {None},
             out : Execution]

(* The record of a job says how far it is. *)
LEMMA JobShapes ==
    ASSUME NEW k \in Job
    PROVE  /\ k.at \in {"idle", "checked", "queued", "executed", "registered", "done", "refused"}
           /\ k.at # "idle" => k.exp \in Exps
           /\ k.at \in {"checked", "queued"} => k \in Waiting
           /\ k.at \in {"executed", "registered"} => k \in Executed
<1>1. CASE k = NoJob
  BY <1>1 DEF NoJob
<1>2. CASE k \in Waiting
  BY <1>2 DEF Waiting
<1>3. CASE k \in Executed
  BY <1>3 DEF Executed
<1>4. CASE k \in [at : {"done"}, kind : {"replay"}, exp : Exps,
                  matches : BOOLEAN \cup {None}, reproduced : BOOLEAN]
  BY <1>4
<1> QED
  BY <1>1, <1>2, <1>3, <1>4 DEF Job, Waiting, Executed

(* A job in the queue or after it has one of the shapes. *)
LEMMA ShapesAreJobs == NoJob \in Job /\ Waiting \subseteq Job /\ Executed \subseteq Job
BY DEF Job, Waiting, Executed

(* The rows stay as they are, and the key table grows. *)
LEMMA RowsStay ==
    ASSUME ExperimentsInv, UNCHANGED <<rows, evidence>>, keyTable \subseteq keyTable'
    PROVE  \A x \in Exps : rows'[x] \in Row => RecordInv(x)' /\ EvidenceInv(x)'
BY DEF ExperimentsInv, RecordInv, EvidenceInv

(* Jobs that stay as they are, while rows do not disappear. *)
LEMMA JobsStay ==
    ASSUME ExperimentsInv, UNCHANGED identity, keyTable \subseteq keyTable',
           \A x \in Exps : rows[x] \in Row => rows'[x] \in Row,
           NEW q \in Jobs, jobs'[q] = jobs[q]
    PROVE  JobInv(q)'
<1>1. JobInv(q) /\ jobs[q] \in Job
  BY DEF ExperimentsInv, ExperimentsType
<1>2. jobs[q].at # "idle" => jobs[q].exp \in Exps
  BY <1>1, JobShapes
<1> QED
  BY <1>1, <1>2 DEF JobInv

(* A step that changes one job. *)
LEMMA OneJobGoes ==
    ASSUME ExperimentsInv, UNCHANGED <<rows, engine, identity, evidence>>,
           keyTable \subseteq keyTable', keyTable' \subseteq Nat,
           NEW j \in Jobs, NEW k \in Job, jobs' = [jobs EXCEPT ![j] = k],
           JobInv(j)'
    PROVE  ExperimentsInv'
<1>1. jobs' \in [Jobs -> Job] /\ \A q \in Jobs \ {j} : jobs'[q] = jobs[q]
  BY DEF ExperimentsInv, ExperimentsType
<1>2. \A q \in Jobs : JobInv(q)'
  BY <1>1, JobsStay
<1>3. ExperimentsType'
  BY <1>1 DEF ExperimentsInv, ExperimentsType
<1> QED
  BY <1>2, <1>3, RowsStay DEF ExperimentsInv

(* The outcome of a task. *)
LEMMA OutcomeType ==
    ASSUME ExperimentsInv, NEW k \in Waiting
    PROVE  /\ ExperimentExecution(k) \in Execution
           /\ k.execute => ExperimentExecution(k).executed
<1>1. k.inputs \in Inputs /\ k.execute \in BOOLEAN /\ engine.worker \in Nat
  BY DEF Waiting, ExperimentsInv, ExperimentsType
<1>2. CASE k.execute
  BY <1>1, <1>2 DEF ExperimentExecution, Execution, RunStrategy, Result
<1>3. CASE ~ k.execute
  BY <1>3 DEF ExperimentExecution, Execution
<1> QED
  BY <1>2, <1>3


(* A request that passed its check. *)
LEMMA CheckedKeeps ==
    ASSUME ExperimentsInv, NEW j \in Jobs, NEW kind \in {"run", "validate", "replay"},
           NEW u, NEW x \in Exps, NEW execute \in BOOLEAN,
           NEW verification \in BOOLEAN \cup {None},
           kind = "run" => execute, Checked(j, kind, u, x, execute, verification)
    PROVE  ExperimentsInv'
<1> DEFINE k == [at |-> "checked", kind |-> kind, exp |-> x, inputs |-> rows[x].inputs,
                 execute |-> execute, verification |-> verification]
<1>1. rows[x] \in Row
  BY DEF Checked, ExperimentsInv, ExperimentsType
<1>2. rows[x].inputs \in Inputs
  BY <1>1 DEF Row
<1>3. k \in Waiting
  BY <1>2 DEF Waiting
<1>4. k \in Job
  BY <1>3, ShapesAreJobs
<1>5. /\ jobs' = [jobs EXCEPT ![j] = k] /\ jobs'[j] = k
      /\ UNCHANGED <<rows, engine, identity, keyTable, evidence>>
  BY DEF Checked, ExperimentsInv, ExperimentsType
<1>6. JobInv(j)'
  BY <1>1, <1>5 DEF JobInv
<1>7. keyTable' \subseteq Nat
  BY <1>5 DEF ExperimentsInv, ExperimentsType
<1> QED
  BY <1>4, <1>5, <1>6, <1>7, OneJobGoes

(* The three endpoints queue jobs of rows that exist. *)
LEMMA RequestsKeep ==
    ASSUME ExperimentsInv, NEW j \in Jobs, NEW u \in Users, NEW x \in Exps,
           \/ RunJobParams(j, u, x)
           \/ ValidateJobParams(j, u, x)
           \/ \E supplied \in Inputs \cup {None} : ReplayJobParams(j, u, x, supplied)
    PROVE  ExperimentsInv'
<1>1. CASE RunJobParams(j, u, x)
  BY <1>1, CheckedKeeps DEF RunJobParams
<1>2. CASE ValidateJobParams(j, u, x)
  <2> DEFINE e == rows[x].inputs \in Executable /\ rows[x].result # None
  <2>1. e \in BOOLEAN /\ Checked(j, "validate", u, x, e, None)
    BY <1>2 DEF ValidateJobParams
  <2> HIDE DEF e
  <2> QED
    BY <2>1, CheckedKeeps
<1>3. ASSUME NEW supplied \in Inputs \cup {None}, ReplayJobParams(j, u, x, supplied)
      PROVE  ExperimentsInv'
  <2> DEFINE m == supplied \in {None, rows[x].inputs}
             e == m /\ rows[x].result # None /\ rows[x].inputs \in Executable
  <2>1. m \in BOOLEAN /\ e \in BOOLEAN /\ Checked(j, "replay", u, x, e, m)
    BY <1>3 DEF ReplayJobParams
  <2> HIDE DEF e, m
  <2>2. m \in BOOLEAN \cup {None}
    BY <2>1
  <2> QED
    BY <2>1, <2>2, CheckedKeeps
<1> QED
  BY <1>1, <1>2, <1>3

(* A job of the queue that goes on without touching rows. *)
LEMMA QueueKeeps ==
    ASSUME ExperimentsInv, NEW j \in Jobs,
           QueueJob(j) \/ Execute(j) \/ RegisterSigningKey(j)
    PROVE  ExperimentsInv'
<1>1. jobs \in [Jobs -> Job] /\ jobs[j] \in Job /\ JobInv(j) /\ keyTable \subseteq Nat /\ identity \in Nat
  BY DEF ExperimentsInv, ExperimentsType
<1>2. CASE QueueJob(j)
  <2> DEFINE q == [jobs[j] EXCEPT !.at = "queued"]
  <2>1. jobs[j] \in Waiting /\ jobs[j].at = "checked"
    BY <1>1, <1>2, JobShapes DEF QueueJob
  <2>2. /\ q \in Waiting /\ q.at = "queued" /\ q.kind = jobs[j].kind /\ q.exp = jobs[j].exp
        /\ q.execute = jobs[j].execute
    BY <2>1 DEF Waiting
  <2>3. UNCHANGED <<rows, engine, identity, keyTable, evidence>>
    BY <1>2 DEF QueueJob
  <2> HIDE DEF q
  <2>4. CASE jobs' = [jobs EXCEPT ![j] = q]
    <3>1. jobs'[j] = q
      BY <1>1, <2>4
    <3>2. JobInv(j)'
      BY <1>1, <2>1, <2>2, <2>3, <3>1 DEF JobInv
    <3> QED
      BY <1>1, <2>2, <2>3, <2>4, <3>2, OneJobGoes, ShapesAreJobs
  <2>5. CASE jobs' = [jobs EXCEPT ![j] = NoJob]
    <3>1. jobs'[j] = NoJob
      BY <1>1, <2>5
    <3>2. JobInv(j)'
      BY <3>1 DEF JobInv, NoJob
    <3> QED
      BY <1>1, <2>3, <2>5, <3>2, OneJobGoes, ShapesAreJobs
  <2> QED
    BY <1>2, <2>4, <2>5 DEF QueueJob, q
<1>3. CASE Execute(j)
  <2> DEFINE o == ExperimentExecution(jobs[j])
             q == [at |-> "executed", kind |-> jobs[j].kind, exp |-> jobs[j].exp,
                   inputs |-> jobs[j].inputs, execute |-> jobs[j].execute,
                   verification |-> jobs[j].verification, out |-> o]
  <2>1. jobs[j] \in Waiting /\ jobs[j].at = "queued"
    BY <1>1, <1>3, JobShapes DEF Execute
  <2>2. o \in Execution /\ (jobs[j].execute => o.executed)
    BY <2>1, OutcomeType
  <2>3. /\ jobs' = [jobs EXCEPT ![j] = q]
        /\ UNCHANGED <<rows, engine, identity, keyTable, evidence>>
    BY <1>1, <1>3 DEF Execute
  <2> HIDE DEF o
  <2>4. q \in Executed
    BY <2>1, <2>2 DEF Waiting, Executed
  <2>5. jobs'[j] = q
    BY <1>1, <2>3
  <2>6. JobInv(j)'
    BY <1>1, <2>1, <2>2, <2>3, <2>5 DEF JobInv
  <2> QED
    BY <1>1, <2>3, <2>4, <2>6, OneJobGoes, ShapesAreJobs
<1>4. CASE RegisterSigningKey(j)
  <2> DEFINE q == [jobs[j] EXCEPT !.at = "registered"]
  <2>1. jobs[j] \in Executed /\ jobs[j].at = "executed" /\ jobs[j].kind = "run"
    BY <1>1, <1>4, JobShapes DEF RegisterSigningKey
  <2>2. /\ q \in Executed /\ q.at = "registered" /\ q.kind = "run" /\ q.exp = jobs[j].exp
        /\ q.execute = jobs[j].execute /\ q.out = jobs[j].out
    BY <2>1 DEF Executed
  <2>3. /\ keyTable' = keyTable \cup {identity} /\ UNCHANGED <<rows, engine, identity, evidence>>
        /\ jobs' = [jobs EXCEPT ![j] = q]
    BY <1>1, <1>4 DEF RegisterSigningKey, Ends
  <2> HIDE DEF q
  <2>4. jobs'[j] = q
    BY <1>1, <2>3
  <2>5. JobInv(j)'
    BY <1>1, <2>1, <2>2, <2>3, <2>4 DEF JobInv
  <2> QED
    BY <1>1, <2>2, <2>3, <2>5, OneJobGoes, ShapesAreJobs
<1> QED
  BY <1>2, <1>3, <1>4


(* A step that changes one row. *)
LEMMA OneRowGoes ==
    ASSUME ExperimentsInv, NEW x \in Exps, NEW row \in Row, rows' = [rows EXCEPT ![x] = row],
           NEW e \in Execution \cup {None}, evidence' = [evidence EXCEPT ![x] = e],
           UNCHANGED keyTable,
           rows'[x] = row /\ evidence'[x] = e => RecordInv(x)' /\ EvidenceInv(x)'
    PROVE  /\ rows' \in [Exps -> Row \cup {None}]
           /\ evidence' \in [Exps -> Execution \cup {None}]
           /\ \A y \in Exps : rows[y] \in Row => rows'[y] \in Row
           /\ \A y \in Exps : rows'[y] \in Row => RecordInv(y)' /\ EvidenceInv(y)'
<1>1. /\ rows \in [Exps -> Row \cup {None}]
      /\ evidence \in [Exps -> Execution \cup {None}]
      /\ \A y \in Exps : rows[y] \in Row => RecordInv(y) /\ EvidenceInv(y)
  BY DEF ExperimentsInv, ExperimentsType
<1>2. /\ rows' \in [Exps -> Row \cup {None}] /\ rows'[x] = row
      /\ \A y \in Exps \ {x} : rows'[y] = rows[y]
  BY <1>1
<1>3. /\ evidence' \in [Exps -> Execution \cup {None}] /\ evidence'[x] = e
      /\ \A y \in Exps \ {x} : evidence'[y] = evidence[y]
  BY <1>1
<1>4. ASSUME NEW y \in Exps \ {x}, rows'[y] \in Row PROVE RecordInv(y)' /\ EvidenceInv(y)'
  BY <1>1, <1>2, <1>3, <1>4 DEF RecordInv, EvidenceInv
<1> QED
  BY <1>2, <1>3, <1>4

(* A step that ends one job. *)
LEMMA OneJobEnds ==
    ASSUME ExperimentsInv, NEW j \in Jobs, jobs[j].at \in {"executed", "registered"},
           NEW end \in {"done", "refused"}, Ends(j, end), UNCHANGED <<identity, keyTable>>,
           \A x \in Exps : rows[x] \in Row => rows'[x] \in Row
    PROVE  jobs' \in [Jobs -> Job] /\ \A q \in Jobs : JobInv(q)'
<1> DEFINE k == [jobs[j] EXCEPT !.at = end]
<1>1. jobs \in [Jobs -> Job] /\ JobInv(j)
  BY DEF ExperimentsInv, ExperimentsType
<1>2. jobs[j] \in Executed
  BY <1>1, JobShapes
<1>3. k \in Executed /\ k.at = end /\ k.exp = jobs[j].exp /\ k.exp \in Exps
  BY <1>2 DEF Executed
<1>4. jobs' = [jobs EXCEPT ![j] = k]
  BY <1>1 DEF Ends
<1> HIDE DEF k
<1>5. /\ jobs' \in [Jobs -> Job] /\ jobs'[j] = k
      /\ \A q \in Jobs \ {j} : jobs'[q] = jobs[q]
  BY <1>1, <1>3, <1>4, ShapesAreJobs
<1>6. rows[jobs[j].exp] \in Row
  BY <1>1, <1>2 DEF JobInv
<1>7. JobInv(j)'
  BY <1>3, <1>5, <1>6 DEF JobInv
<1> QED
  BY <1>5, <1>7, JobsStay

(* A job whose finalizer refuses. *)
LEMMA RefusalKeeps ==
    ASSUME ExperimentsInv, NEW j \in Jobs, jobs[j].at \in {"executed", "registered"},
           Ends(j, "refused"), UNCHANGED <<rows, engine, identity, keyTable, evidence>>
    PROVE  ExperimentsInv'
<1>1. jobs' \in [Jobs -> Job] /\ \A q \in Jobs : JobInv(q)'
  BY OneJobEnds
<1>2. ExperimentsType'
  BY <1>1 DEF ExperimentsInv, ExperimentsType
<1> QED
  BY <1>1, <1>2, RowsStay DEF ExperimentsInv

(* A job whose finalizer changes its row. *)
LEMMA FinalKeeps ==
    ASSUME ExperimentsInv, NEW j \in Jobs, jobs[j].at \in {"executed", "registered"},
           Ends(j, "done"), UNCHANGED <<engine, identity, keyTable>>,
           NEW x \in Exps, NEW row \in Row, rows' = [rows EXCEPT ![x] = row],
           NEW e \in Execution \cup {None}, evidence' = [evidence EXCEPT ![x] = e],
           rows'[x] = row /\ evidence'[x] = e => RecordInv(x)' /\ EvidenceInv(x)'
    PROVE  ExperimentsInv'
<1>1. /\ rows' \in [Exps -> Row \cup {None}]
      /\ evidence' \in [Exps -> Execution \cup {None}]
      /\ \A y \in Exps : rows[y] \in Row => rows'[y] \in Row
      /\ \A y \in Exps : rows'[y] \in Row => RecordInv(y)' /\ EvidenceInv(y)'
  BY OneRowGoes
<1>2. jobs' \in [Jobs -> Job] /\ \A q \in Jobs : JobInv(q)'
  BY <1>1, OneJobEnds
<1>3. ExperimentsType'
  BY <1>1, <1>2 DEF ExperimentsInv, ExperimentsType
<1> QED
  BY <1>1, <1>2, <1>3 DEF ExperimentsInv


(* A run records its result and the manifest it signs, whose key is        *)
(* registered.                                                             *)
LEMMA RunKeeps ==
    ASSUME ExperimentsInv, NEW j \in Jobs, FinalizeRunJob(j)
    PROVE  ExperimentsInv'
<1>1. /\ jobs[j] \in Job /\ jobs[j].at = "registered" /\ JobInv(j)
      /\ rows \in [Exps -> Row \cup {None}] /\ evidence \in [Exps -> Execution \cup {None}]
      /\ identity \in Nat
  BY DEF ExperimentsInv, ExperimentsType, FinalizeRunJob
<1>2. jobs[j] \in Executed
  BY <1>1, JobShapes
<1>3. PICK x \in Exps : x = jobs[j].exp
  BY <1>2 DEF Executed
<1>4. /\ rows[x] \in Row /\ jobs[j].out.executed /\ jobs[j].out \in Execution
      /\ identity \in keyTable
  BY <1>1, <1>2, <1>3 DEF JobInv, Executed
<1>5. PICK r \in Result : r = jobs[j].out.result
  BY <1>4 DEF Execution
<1>6. CASE Ends(j, "refused") /\ UNCHANGED <<rows, engine, identity, keyTable, evidence>>
  BY <1>1, <1>6, RefusalKeeps
<1>7. CASE /\ rows' = [rows EXCEPT ![x] = Recorded(rows[x], r)] /\ Ends(j, "done")
           /\ UNCHANGED <<engine, identity, keyTable, evidence>>
  <2>1. PICK m \in SignedManifest : m = BuildManifest(rows[x], r, identity)
    BY <1>1, <1>4, <1>5 DEF BuildManifest, SignedManifest, Row
  <2>2. m.key = identity /\ m.inputs = rows[x].inputs /\ m.result = r
    BY <2>1 DEF BuildManifest
  <2>3. PICK s \in [of : SignedManifest, by : Nat] : s = [of |-> m, by |-> identity]
    BY <1>1
  <2>4. PICK row : row = [rows[x] EXCEPT !.status = "COMPLETED", !.result = r, !.manifest = m,
                                         !.signature = s]
    OBVIOUS
  <2>5. rows' = [rows EXCEPT ![x] = row]
    BY <1>7, <2>1, <2>3, <2>4 DEF Recorded, SignManifest
  <2>6. /\ row \in Row /\ row.status = "COMPLETED" /\ row.inputs = rows[x].inputs
        /\ row.result = r /\ row.manifest = m /\ row.signature = s
    <3>1. PICK w \in Row : w = rows[x]
      BY <1>4
    <3>2. row = [w EXCEPT !.status = "COMPLETED", !.result = r, !.manifest = m, !.signature = s]
      BY <2>4, <3>1
    <3>3. /\ row \in Row /\ row.status = "COMPLETED" /\ row.inputs = w.inputs
          /\ row.result = r /\ row.manifest = m /\ row.signature = s
      BY <3>2 DEF Row
    <3> QED
      BY <3>1, <3>3
  <2>7. rows'[x] = row => RecordInv(x)' /\ EvidenceInv(x)'
    BY <1>4, <1>7, <2>2, <2>3, <2>6 DEF RecordInv, EvidenceInv
  <2>8. PICK e \in Execution \cup {None} : e = evidence[x]
    BY <1>1, <1>3
  <2>9. evidence' = [evidence EXCEPT ![x] = e]
    BY <1>1, <1>7, <2>8
  <2> QED
    BY <1>1, <1>3, <1>7, <2>5, <2>6, <2>7, <2>9, FinalKeeps
<1> QED
  BY <1>1, <1>3, <1>5, <1>6, <1>7 DEF FinalizeRunJob

(* A validation judges the row by what its job executed. *)
LEMMA ValidationKeeps ==
    ASSUME ExperimentsInv, NEW j \in Jobs, FinalizeValidateJob(j)
    PROVE  ExperimentsInv'
<1>1. /\ jobs[j] \in Job /\ jobs[j].at = "executed" /\ JobInv(j)
      /\ rows \in [Exps -> Row \cup {None}] /\ evidence \in [Exps -> Execution \cup {None}]
  BY DEF ExperimentsInv, ExperimentsType, FinalizeValidateJob
<1>2. jobs[j] \in Executed
  BY <1>1, JobShapes
<1>3. PICK x \in Exps : x = jobs[j].exp
  BY <1>2 DEF Executed
<1>4. PICK o \in Execution : o = jobs[j].out
  BY <1>2 DEF Executed
<1>5. rows[x] \in Row /\ RecordInv(x)
  BY <1>1, <1>3 DEF JobInv, ExperimentsInv
<1>6. CASE Ends(j, "refused") /\ UNCHANGED <<rows, engine, identity, keyTable, evidence>>
  BY <1>1, <1>6, RefusalKeeps
<1>7. ASSUME NEW status \in {"VALIDATED", "COMPLETED"}, Validatable(rows[x]),
             status = "VALIDATED" => GatesPass(rows[x], o),
             rows' = [rows EXCEPT ![x].status = status],
             evidence' = [evidence EXCEPT ![x] = o], Ends(j, "done"),
             UNCHANGED <<engine, identity, keyTable>>
      PROVE  ExperimentsInv'
  <2>1. PICK row : row = [rows[x] EXCEPT !.status = status]
    OBVIOUS
  <2>2. rows' = [rows EXCEPT ![x] = row]
    BY <1>1, <1>7, <2>1
  <2>3. /\ row \in Row /\ row.status = status /\ row.inputs = rows[x].inputs
        /\ row.result = rows[x].result /\ row.manifest = rows[x].manifest
        /\ row.signature = rows[x].signature
    BY <1>5, <2>1 DEF Row
  <2>4. rows'[x] = row => RecordInv(x)'
    BY <1>5, <1>7, <2>3 DEF RecordInv, Validatable
  <2>5. status = "VALIDATED" => o.executed /\ o.inputs = rows[x].inputs /\ o.result = rows[x].result
    BY <1>7 DEF GatesPass, ReplayOutcome
  <2>6. status = "VALIDATED" =>
            o = [executed |-> TRUE, inputs |-> rows[x].inputs, result |-> rows[x].result]
    BY <1>4, <2>5 DEF Execution
  <2>7. rows'[x] = row /\ evidence'[x] = o => EvidenceInv(x)'
    BY <2>3, <2>6 DEF EvidenceInv
  <2> QED
    BY <1>1, <1>3, <1>7, <2>2, <2>3, <2>4, <2>7, FinalKeeps
<1>8. CASE Validatable(rows[x])
  <2> DEFINE status == IF GatesPass(rows[x], o) THEN "VALIDATED" ELSE "COMPLETED"
  <2>1. /\ rows' = [rows EXCEPT ![x].status = status]
        /\ evidence' = [evidence EXCEPT ![x] = o] /\ Ends(j, "done")
        /\ UNCHANGED <<engine, identity, keyTable>>
    BY <1>3, <1>4, <1>8 DEF FinalizeValidateJob
  <2>2. /\ status \in {"VALIDATED", "COMPLETED"}
        /\ status = "VALIDATED" => GatesPass(rows[x], o)
    OBVIOUS
  <2> HIDE DEF status
  <2> QED
    BY <1>7, <1>8, <2>1, <2>2
<1> QED
  BY <1>3, <1>6, <1>8 DEF FinalizeValidateJob


(* A replay answers and changes no row. *)
LEMMA ReplayKeeps ==
    ASSUME ExperimentsInv, NEW j \in Jobs, FinalizeReplayJob(j)
    PROVE  ExperimentsInv'
<1> DEFINE o == ReplayOutcome(rows[jobs[j].exp], jobs[j].out).reproduced
           k == [at |-> "done", kind |-> "replay", exp |-> jobs[j].exp,
                 matches |-> jobs[j].verification, reproduced |-> o]
<1>1. /\ jobs \in [Jobs -> Job] /\ jobs[j] \in Job /\ jobs[j].at = "executed" /\ JobInv(j)
      /\ keyTable \subseteq Nat
  BY DEF ExperimentsInv, ExperimentsType, FinalizeReplayJob
<1>2. jobs[j] \in Executed
  BY <1>1, JobShapes
<1>3. jobs[j].exp \in Exps /\ jobs[j].verification \in BOOLEAN \cup {None} /\ rows[jobs[j].exp] \in Row
  BY <1>1, <1>2 DEF Executed, JobInv
<1>4. o \in BOOLEAN
  BY DEF ReplayOutcome
<1>5. /\ jobs' = [jobs EXCEPT ![j] = k]
      /\ UNCHANGED <<rows, engine, identity, keyTable, evidence>>
  BY DEF FinalizeReplayJob
<1> HIDE DEF o
<1>6. k \in Job
  BY <1>3, <1>4 DEF Job
<1>7. jobs'[j] = k
  BY <1>1, <1>5
<1>8. JobInv(j)'
  BY <1>3, <1>5, <1>7 DEF JobInv
<1> QED
  BY <1>1, <1>5, <1>6, <1>8, OneJobGoes

(* A row that is created or approved, while the jobs stay. *)
LEMMA RowKeeps ==
    ASSUME ExperimentsInv, UNCHANGED <<jobs, engine, identity, keyTable, evidence>>,
           NEW x \in Exps, NEW row \in Row, rows' = [rows EXCEPT ![x] = row],
           rows'[x] = row => RecordInv(x)' /\ EvidenceInv(x)'
    PROVE  ExperimentsInv'
<1>1. evidence \in [Exps -> Execution \cup {None}]
  BY DEF ExperimentsInv, ExperimentsType
<1>2. PICK e \in Execution \cup {None} : e = evidence[x]
  BY <1>1
<1>3. evidence' = [evidence EXCEPT ![x] = e]
  BY <1>1, <1>2
<1>4. /\ rows' \in [Exps -> Row \cup {None}]
      /\ evidence' \in [Exps -> Execution \cup {None}]
      /\ \A y \in Exps : rows[y] \in Row => rows'[y] \in Row
      /\ \A y \in Exps : rows'[y] \in Row => RecordInv(y)' /\ EvidenceInv(y)'
  BY <1>3, OneRowGoes
<1>5. \A q \in Jobs : JobInv(q)'
  BY <1>4, JobsStay
<1>6. ExperimentsType'
  BY <1>4 DEF ExperimentsInv, ExperimentsType
<1> QED
  BY <1>4, <1>5, <1>6 DEF ExperimentsInv

(* A new experiment. *)
LEMMA CreateKeeps ==
    ASSUME ExperimentsInv, NEW u \in Users, NEW x \in Exps, NEW i \in Inputs, Create(u, x, i)
    PROVE  ExperimentsInv'
<1> DEFINE row == [owner |-> u, inputs |-> i, engine |-> engine.api, status |-> "CREATED",
                   result |-> None, manifest |-> None, signature |-> None, approvedBy |-> None]
<1>1. engine.api \in Nat
  BY DEF ExperimentsInv, ExperimentsType
<1>2. row \in Row /\ row.status = "CREATED" /\ row.result = None
  BY <1>1 DEF Row
<1>3. /\ rows' = [rows EXCEPT ![x] = row]
      /\ UNCHANGED <<jobs, engine, identity, keyTable, evidence>>
  BY DEF Create
<1> HIDE DEF row
<1>4. PICK w \in Row : w = row
  BY <1>2
<1>5. rows'[x] = w => RecordInv(x)' /\ EvidenceInv(x)'
  BY <1>2, <1>4 DEF RecordInv, EvidenceInv
<1> QED
  BY <1>3, <1>4, <1>5, RowKeeps

(* An approval. *)
LEMMA ApprovalKeeps ==
    ASSUME ExperimentsInv, NEW u \in Users, NEW x \in Exps, ApproveExperiment(u, x)
    PROVE  ExperimentsInv'
<1>1. /\ rows[x] \in Row /\ RecordInv(x) /\ EvidenceInv(x)
      /\ rows \in [Exps -> Row \cup {None}]
  BY DEF ExperimentsInv, ExperimentsType, ApproveExperiment
<1>2. PICK row : row = [rows[x] EXCEPT !.status = "APPROVED", !.approvedBy = u]
  OBVIOUS
<1>3. /\ rows' = [rows EXCEPT ![x] = row]
      /\ UNCHANGED <<jobs, engine, identity, keyTable, evidence>>
  BY <1>1, <1>2 DEF ApproveExperiment
<1>4. /\ row \in Row /\ row.status = "APPROVED" /\ row.inputs = rows[x].inputs
      /\ row.result = rows[x].result /\ row.manifest = rows[x].manifest
      /\ row.signature = rows[x].signature /\ row.owner = rows[x].owner /\ row.approvedBy = u
  BY <1>1, <1>2 DEF Row
<1>5. rows[x].status = "VALIDATED" /\ u \in Operators /\ u # rows[x].owner
  BY DEF ApproveExperiment
<1>6. rows'[x] = row => RecordInv(x)' /\ EvidenceInv(x)'
  BY <1>1, <1>3, <1>4, <1>5 DEF RecordInv, EvidenceInv
<1> QED
  BY <1>3, <1>4, <1>6, RowKeeps

(* A deployment changes an engine. *)
LEMMA UpgradeKeeps ==
    ASSUME ExperimentsInv, NEW p \in {"api", "worker"}, Upgrade(p)
    PROVE  ExperimentsInv'
<1>1. UNCHANGED <<rows, jobs, identity, keyTable, evidence>>
  BY DEF Upgrade
<1>2. engine' \in [{"api", "worker"} -> Nat]
  BY DEF Upgrade, ExperimentsInv, ExperimentsType
<1>3. ExperimentsType'
  BY <1>1, <1>2 DEF ExperimentsInv, ExperimentsType
<1>4. \A q \in Jobs : JobInv(q)'
  BY <1>1, JobsStay
<1> QED
  BY <1>1, <1>3, <1>4, RowsStay DEF ExperimentsInv

(* A restart sends the jobs that were executed back to the queue, so that  *)
(* none is left that would sign with a key that was not registered.        *)
LEMMA RestartKeeps ==
    ASSUME ExperimentsInv, RestartWorker
    PROVE  ExperimentsInv'
<1>1. UNCHANGED <<rows, engine, keyTable, evidence>> /\ identity' \in Nat
  BY DEF RestartWorker, ExperimentsInv, ExperimentsType
<1>2. ASSUME NEW j \in Jobs PROVE jobs'[j] \in Job /\ JobInv(j)'
  <2>1. jobs[j] \in Job /\ JobInv(j)
    BY DEF ExperimentsInv, ExperimentsType
  <2>2. CASE jobs[j].at \in {"executed", "registered"}
    <3> DEFINE k == [at |-> "queued", kind |-> jobs[j].kind, exp |-> jobs[j].exp,
                     inputs |-> jobs[j].inputs, execute |-> jobs[j].execute,
                     verification |-> jobs[j].verification]
    <3>1. jobs[j] \in Executed
      BY <2>1, <2>2, JobShapes
    <3>2. k \in Waiting
      BY <3>1 DEF Executed, Waiting
    <3>3. jobs'[j] = k
      BY <2>2 DEF RestartWorker
    <3> QED
      BY <1>1, <2>1, <2>2, <3>2, <3>3, ShapesAreJobs DEF JobInv
  <2>3. CASE ~ (jobs[j].at \in {"executed", "registered"})
    <3>1. jobs'[j] = jobs[j]
      BY <2>3 DEF RestartWorker
    <3> QED
      BY <1>1, <2>1, <2>3, <3>1 DEF JobInv
  <2> QED
    BY <2>2, <2>3
<1>3. jobs' \in [Jobs -> Job]
  BY <1>2 DEF RestartWorker
<1>4. ExperimentsType'
  BY <1>1, <1>3 DEF ExperimentsInv, ExperimentsType
<1> QED
  BY <1>1, <1>2, <1>4, RowsStay DEF ExperimentsInv

(* Every step of the registry keeps the invariant. *)
LEMMA ExperimentsStep == ExperimentsInv /\ [ExperimentNext]_experimentVars => ExperimentsInv'
<1> SUFFICES ASSUME ExperimentsInv, [ExperimentNext]_experimentVars PROVE ExperimentsInv'
  OBVIOUS
<1>1. CASE UNCHANGED experimentVars
  <2>1. UNCHANGED <<rows, jobs, engine, identity, keyTable, evidence>>
    BY <1>1 DEF experimentVars
  <2>2. ExperimentsType'
    BY <2>1 DEF ExperimentsInv, ExperimentsType
  <2>3. \A q \in Jobs : JobInv(q)'
    BY <2>1, JobsStay
  <2> QED
    BY <2>1, <2>2, <2>3, RowsStay DEF ExperimentsInv
<1>2. CASE ExperimentNext
  BY <1>2, CreateKeeps, RequestsKeep, ApprovalKeeps, QueueKeeps, RunKeeps, ValidationKeeps,
     ReplayKeeps, UpgradeKeeps, RestartKeeps DEF ExperimentNext
<1> QED
  BY <1>1, <1>2

(* An empty registry satisfies the invariant. *)
LEMMA ExperimentsFirst == ExperimentInit => ExperimentsInv
<1> SUFFICES ASSUME ExperimentInit PROVE ExperimentsInv
  OBVIOUS
<1>1. /\ rows \in [Exps -> Row \cup {None}] /\ evidence \in [Exps -> Execution \cup {None}]
      /\ jobs \in [Jobs -> Job] /\ \A j \in Jobs : jobs[j] = NoJob
  BY ShapesAreJobs DEF ExperimentInit
<1>2. engine \in [{"api", "worker"} -> Nat] /\ identity \in Nat /\ keyTable \subseteq Nat
  BY DEF ExperimentInit
<1>3. \A j \in Jobs : JobInv(j)
  BY <1>1 DEF JobInv, NoJob
<1> QED
  BY <1>1, <1>2, <1>3, ExperimentsAssumption DEF ExperimentsInv, ExperimentsType, ExperimentInit


-----------------------------------------------------------------------------
(* Experiments: the properties *)

(* The invariant gives the property: a manifest of a row names a key of    *)
(* the table, so that it verifies whatever the worker's identity is now.   *)
LEMMA ValidatedFollows == ExperimentsInv => ValidatedIsReproduced
<1> SUFFICES ASSUME ExperimentsInv, NEW x \in Exps, rows[x] # None,
                    rows[x].status \in {"VALIDATED", "APPROVED"}
             PROVE  /\ ManifestView(rows[x]) = [valid |-> TRUE, consistent |-> TRUE]
                    /\ evidence[x].executed
                    /\ evidence[x].inputs = rows[x].inputs /\ evidence[x].result = rows[x].result
                    /\ rows[x].status = "APPROVED" =>
                          rows[x].approvedBy \in Operators \ {rows[x].owner}
  BY DEF ValidatedIsReproduced
<1>1. rows[x] \in Row /\ RecordInv(x) /\ EvidenceInv(x)
  BY DEF ExperimentsInv, ExperimentsType
<1>2. /\ rows[x].manifest.key \in keyTable
      /\ rows[x].manifest.inputs = rows[x].inputs
      /\ rows[x].manifest.result = rows[x].result
      /\ rows[x].signature = [of |-> rows[x].manifest, by |-> rows[x].manifest.key]
  BY <1>1 DEF RecordInv
<1>3. VerifyManifestSignature(rows[x].manifest, rows[x].signature) = TRUE
  BY <1>2 DEF VerifyManifestSignature, ManifestPublicKey
<1>4. (rows[x].manifest.inputs = rows[x].inputs /\ rows[x].manifest.result = rows[x].result) = TRUE
  BY <1>2
<1>5. ManifestView(rows[x]) = [valid |-> TRUE, consistent |-> TRUE]
  BY <1>3, <1>4, Zenon DEF ManifestView
<1>6. evidence[x] = [executed |-> TRUE, inputs |-> rows[x].inputs, result |-> rows[x].result]
  BY <1>1 DEF EvidenceInv
<1> QED
  BY <1>1, <1>5, <1>6 DEF EvidenceInv

(* What no step may do to a row. *)
Kept(x) ==
    rows[x] # None =>
        /\ rows'[x].inputs = rows[x].inputs
        /\ rows[x].result # None =>
              /\ rows'[x].result = rows[x].result
              /\ rows'[x].manifest = rows[x].manifest
        /\ rows[x].status = "APPROVED" => rows'[x] = rows[x]

(* Steps that do not touch rows. *)
LEMMA OtherStepsKeep ==
    ASSUME [ExperimentNext]_experimentVars, ~ UNCHANGED rows
    PROVE  \/ \E u \in Users, x \in Exps, i \in Inputs : Create(u, x, i)
           \/ \E u \in Users, x \in Exps : ApproveExperiment(u, x)
           \/ \E j \in Jobs : FinalizeRunJob(j) \/ FinalizeValidateJob(j)
BY DEF ExperimentNext, experimentVars, RunJobParams, ValidateJobParams, ReplayJobParams, Checked,
       QueueJob, Execute, RegisterSigningKey, FinalizeReplayJob, Upgrade, RestartWorker

(* No step replaces a record, and none touches an approved experiment. *)
LEMMA RowsAreKept ==
    ASSUME ExperimentsInv, [ExperimentNext]_experimentVars, NEW x \in Exps
    PROVE  Kept(x)
<1> SUFFICES ASSUME rows[x] # None PROVE Kept(x)
  BY DEF Kept
<1>1. rows \in [Exps -> Row \cup {None}] /\ rows[x] \in Row /\ RecordInv(x)
  BY DEF ExperimentsInv, ExperimentsType
<1>2. CASE rows'[x] = rows[x]
  BY <1>2 DEF Kept
<1>3. ASSUME NEW u \in Users, NEW y \in Exps, NEW i \in Inputs, Create(u, y, i)
      PROVE  rows'[x] = rows[x]
  BY <1>1, <1>3 DEF Create
<1>4. ASSUME NEW u \in Users, NEW y \in Exps, ApproveExperiment(u, y) PROVE Kept(x)
  <2>1. CASE y # x
    BY <1>1, <1>2, <1>4, <2>1 DEF ApproveExperiment
  <2>2. CASE y = x
    <3>1. rows[x].status = "VALIDATED" /\ rows'[x] = [rows[x] EXCEPT !.status = "APPROVED", !.approvedBy = u]
      BY <1>1, <1>4, <2>2 DEF ApproveExperiment
    <3> QED
      BY <1>1, <3>1 DEF Kept, Row
  <2> QED
    BY <2>1, <2>2
<1>5. ASSUME NEW j \in Jobs, FinalizeRunJob(j) PROVE Kept(x)
  <2>1. CASE rows'[x] # rows[x]
    <3>1. /\ x = jobs[j].exp /\ rows[x].status = "CREATED"
          /\ rows'[x] = Recorded(rows[x], jobs[j].out.result)
      BY <1>1, <1>5, <2>1 DEF FinalizeRunJob, Recordable
    <3>2. rows[x].result = None
      BY <1>1, <3>1 DEF RecordInv
    <3>3. rows'[x].inputs = rows[x].inputs
      BY <1>1, <3>1 DEF Recorded, Row
    <3> QED
      BY <3>1, <3>2, <3>3 DEF Kept
  <2> QED
    BY <1>2, <2>1
<1>6. ASSUME NEW j \in Jobs, FinalizeValidateJob(j) PROVE Kept(x)
  <2>1. CASE rows'[x] # rows[x]
    <3>1. /\ x = jobs[j].exp /\ Validatable(rows[x])
          /\ rows'[x] = [rows[x] EXCEPT !.status =
                            IF GatesPass(rows[x], jobs[j].out) THEN "VALIDATED" ELSE "COMPLETED"]
      BY <1>1, <1>6, <2>1 DEF FinalizeValidateJob
    <3> QED
      BY <1>1, <3>1 DEF Kept, Row, Validatable
  <2> QED
    BY <1>2, <2>1
<1> QED
  BY <1>2, <1>3, <1>4, <1>5, <1>6, OtherStepsKeep

-----------------------------------------------------------------------------
(* Theorems *)

(* A step of research is a step of the registry, or leaves it alone; and   *)
(* the same for the datasets.                                              *)
LEMMA ResearchParts ==
    [ResearchNext]_researchVars =>
        [ExperimentNext]_experimentVars /\ [DatasetNext]_datasetVars
BY DEF ResearchNext, researchVars, experimentVars, datasetVars

(* The inductive invariant of the registry and of the datasets holds of    *)
(* every behaviour of Research.                                            *)
THEOREM ResearchInvariant == ResearchSpec => [](ExperimentsInv /\ DatasetsInv)
<1>1. ResearchInit => ExperimentsInv /\ DatasetsInv
  BY ExperimentsFirst, DatasetsFirst DEF ResearchInit
<1>2. ExperimentsInv /\ DatasetsInv /\ [ResearchNext]_researchVars => (ExperimentsInv /\ DatasetsInv)'
  BY ResearchParts, ExperimentsStep, DatasetsStep
<1> QED
  BY <1>1, <1>2, PTL DEF ResearchSpec

(* An experiment is validated or approved only with a manifest that        *)
(* verifies and an execution that reproduced it (finalize_run_job,         *)
(* finalize_validate_job), across restarts and upgrades, for any number of *)
(* experiments and of jobs that race each other.                           *)
THEOREM ValidationsReproduce == ResearchSpec => []ValidatedIsReproduced
BY ResearchInvariant, ValidatedFollows, PTL

(* No job, whenever it was queued, replaces a recorded result, and none    *)
(* touches an approved experiment.                                         *)
THEOREM RecordsStayFinal == ResearchSpec => RecordsAreFinal
<1>1. ExperimentsInv /\ [ResearchNext]_researchVars =>
          [\A x \in Exps : Kept(x)]_experimentVars
  BY ResearchParts, RowsAreKept
<1>2. ResearchSpec => [][\A x \in Exps : Kept(x)]_experimentVars
  BY <1>1, ResearchInvariant, PTL DEF ResearchSpec
<1> QED
  BY <1>2 DEF RecordsAreFinal, Kept

(* A rerun on the datasets of a result sees the bars the first run saw,    *)
(* for any symbols, dividends, days and restatements.                      *)
THEOREM RerunsSeeTheSame == ResearchSpec => []RerunSeesTheSame
BY ResearchInvariant, RerunFollows, PTL

(* A result can be had again from the files it names, as long as those     *)
(* that were registered do not go bad, whatever happened to a file before  *)
(* it was registered (DatasetStore.put, record_market_data), for any       *)
(* number of tasks, users, symbols and damaged files.                      *)
THEOREM ResultsStayRepeatable == ResearchSpec => []ResultsAreRepeatable
BY ResearchInvariant, RepeatFollows, PTL

=============================================================================
