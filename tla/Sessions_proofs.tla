--------------------------- MODULE Sessions_proofs --------------------------
(***************************************************************************)
(* Proofs about Sessions: one head per family, ended families, the         *)
(* absolute lifetime and the bound on guesses, for any number of accounts, *)
(* tokens and concurrent requests, and any lengths of the periods.         *)
(***************************************************************************)
EXTENDS Sessions, FiniteSetTheorems, WellFoundedInduction, TLAPS

(* The assumptions about the constants, one by one. *)
LEMMA Constants ==
    /\ MaxAttempts \in Nat \ {0} /\ FailWindow \in Nat \ {0} /\ LockoutSeconds \in Nat \ {0}
    /\ RefreshSeconds \in Nat \ {0} /\ AbsoluteSeconds \in Nat \ {0} /\ JwtSeconds \in Nat \ {0}
    /\ FailWindow <= LockoutSeconds
    /\ IsFiniteSet(Requests) /\ Cardinality(Requests) \in Nat
<1>1. IsFiniteSet(Requests) => Cardinality(Requests) \in Nat
  BY FS_CardinalityType
<1> QED
  BY <1>1, SessionsAssumption

-----------------------------------------------------------------------------
(* Times and requests *)

(* A set of numbers has a smallest one. *)
LEMMA Smallest ==
    ASSUME NEW T, T \subseteq Nat, T # {}
    PROVE  \E n \in T : \A j \in T : n <= j
<1>1. PICK n \in T : \A j \in T : ~ (<<j, n>> \in OpToRel(<, Nat))
  BY NatLessThanWellFounded, WFMin
<1>2. \A j \in T : ~ (j < n)
  BY <1>1 DEF OpToRel
<1> QED
  BY <1>2

(* The end of a sequence. *)
LEMMA Suffix ==
    ASSUME NEW S, NEW s \in Seq(S), NEW n \in 0..Len(s)
    PROVE  LET back == SubSeq(s, n + 1, Len(s))
           IN  /\ back \in Seq(S) /\ Len(back) = Len(s) - n /\ DOMAIN back = 1..(Len(s) - n)
               /\ \A i \in 1..(Len(s) - n) : n + i \in DOMAIN s /\ back[i] = s[n + i]
OBVIOUS

(* A sequence and one more. *)
LEMMA OneMore ==
    ASSUME NEW S, NEW s \in Seq(S), NEW x \in S
    PROVE  /\ Append(s, x) \in Seq(S) /\ Len(Append(s, x)) = Len(s) + 1
           /\ DOMAIN Append(s, x) = 1..(Len(s) + 1) /\ DOMAIN s = 1..Len(s) /\ Len(s) \in Nat
           /\ Append(s, x)[Len(s) + 1] = x /\ \A i \in 1..Len(s) : Append(s, x)[i] = s[i]
OBVIOUS

(* The recent times are the last ones. *)
LEMMA RecentSplit ==
    ASSUME now \in Nat, NEW times \in Seq(Nat), InOrder(times)
    PROVE  \E n \in 0..Len(times) :
              /\ Recent(times) = SubSeq(times, n + 1, Len(times))
              /\ Recent(times) \in Seq(Nat) /\ Len(Recent(times)) = Len(times) - n
              /\ \A i \in 1..(Len(times) - n) : Recent(times)[i] = times[n + i]
              /\ \A i \in DOMAIN times : now - times[i] >= FailWindow <=> i <= n
<1> DEFINE old == {i \in DOMAIN times : now - times[i] >= FailWindow}
           new == {i \in DOMAIN times : now - times[i] < FailWindow}
<1>0. FailWindow \in Nat
  BY Constants
<1>1. Len(times) \in Nat /\ DOMAIN times = 1..Len(times) /\ \A i \in DOMAIN times : times[i] \in Nat
  OBVIOUS
<1>2. PICK n \in 0..Len(times) : \A i \in DOMAIN times : now - times[i] >= FailWindow <=> i <= n
  <2>1. CASE new = {}
    <3>1. ASSUME NEW i \in DOMAIN times PROVE now - times[i] >= FailWindow /\ i <= Len(times)
      <4>1. ~(now - times[i] < FailWindow)
        BY <2>1
      <4> QED
        BY <1>0, <1>1, <4>1
    <3>2. Len(times) \in 0..Len(times)
      BY <1>1
    <3> QED
      BY <3>1, <3>2
  <2>2. CASE new # {}
    <3>1. new \subseteq Nat
      BY <1>1
    <3>2. PICK m \in new : \A j \in new : m <= j
      <4> HIDE DEF new
      <4> QED
        BY <2>2, <3>1, Smallest
    <3>3. m - 1 \in 0..Len(times) /\ m \in DOMAIN times /\ now - times[m] < FailWindow
      BY <1>1, <3>2
    <3>4. ASSUME NEW i \in DOMAIN times PROVE now - times[i] >= FailWindow <=> i <= m - 1
      <4>1. CASE i <= m - 1
        <5>1. i \notin new
          BY <1>1, <3>2, <3>3, <4>1
        <5> QED
          BY <1>0, <1>1, <4>1, <5>1
      <4>2. CASE ~(i <= m - 1)
        <5>1. times[m] <= times[i]
          BY <1>1, <3>3, <4>2 DEF InOrder
        <5> QED
          BY <1>0, <1>1, <3>3, <4>2, <5>1
      <4> QED
        BY <4>1, <4>2
    <3> QED
      BY <3>3, <3>4
  <2> QED
    BY <2>1, <2>2
<1>3. old = 1..n
  BY <1>1, <1>2
<1>4. Cardinality(1..n) = n
  <2>1. n \in Nat /\ 1 \in Int /\ n \in Int
    BY <1>1
  <2>2. Cardinality(1..n) = IF 1 > n THEN 0 ELSE n - 1 + 1
    BY <2>1, FS_Interval
  <2> QED
    BY <2>1, <2>2
<1>5. Recent(times) = SubSeq(times, n + 1, Len(times))
  <2>1. Recent(times) = SubSeq(times, Cardinality(old) + 1, Len(times))
    BY DEF Recent
  <2> HIDE DEF old
  <2> QED
    BY <1>3, <1>4, <2>1
<1> DEFINE s == SubSeq(times, n + 1, Len(times))
<1>6. /\ s \in Seq(Nat) /\ Len(s) = Len(times) - n
      /\ \A i \in 1..(Len(times) - n) : s[i] = times[n + i]
  BY Suffix
<1> HIDE DEF s
<1>9. Recent(times) = s
  BY <1>5 DEF s
<1> QED
  BY <1>2, <1>6, <1>9 DEF s

(* The last times of an ordered sequence are in order. *)
LEMMA RecentInOrder ==
    ASSUME now \in Nat, NEW times \in Seq(Nat), InOrder(times)
    PROVE  /\ Recent(times) \in Seq(Nat) /\ InOrder(Recent(times))
           /\ Append(Recent(times), now) \in Seq(Nat) /\ InOrder(Append(Recent(times), now))
           /\ Len(Append(Recent(times), now)) = Len(Recent(times)) + 1
<1>1. PICK n \in 0..Len(times) : Recent(times) = SubSeq(times, n + 1, Len(times))
  BY RecentSplit
<1> DEFINE s == Recent(times)
           a == Append(s, now)
           k == Len(times) - n
<1>2. /\ s \in Seq(Nat) /\ DOMAIN s = 1..k /\ Len(s) = k
      /\ \A i \in 1..k : n + i \in DOMAIN times /\ s[i] = times[n + i]
  <2> DEFINE back == SubSeq(times, n + 1, Len(times))
  <2>1. /\ back \in Seq(Nat) /\ DOMAIN back = 1..k /\ Len(back) = k
        /\ \A i \in 1..k : n + i \in DOMAIN times /\ back[i] = times[n + i]
    BY Suffix
  <2> HIDE DEF back
  <2>2. s = back
    BY <1>1 DEF back
  <2> QED
    BY <2>1, <2>2
<1>3. /\ a \in Seq(Nat) /\ Len(a) = k + 1 /\ DOMAIN a = 1..(k + 1) /\ k \in Nat
      /\ a[k + 1] = now /\ \A i \in 1..k : a[i] = s[i]
  <2> HIDE DEF s, k
  <2>1. /\ a \in Seq(Nat) /\ Len(a) = Len(s) + 1 /\ DOMAIN a = 1..(Len(s) + 1) /\ Len(s) \in Nat
        /\ a[Len(s) + 1] = now /\ \A i \in 1..Len(s) : a[i] = s[i]
    BY <1>2, OneMore
  <2> HIDE DEF a
  <2> QED
    BY <1>2, <2>1
<1>4. n \in Int /\ \A i \in DOMAIN times : times[i] \in Nat
  OBVIOUS
<1> HIDE DEF s, a, k
<1>5. InOrder(s)
  <2>1. ASSUME NEW i \in 1..k, NEW j \in 1..k, i <= j PROVE s[i] <= s[j]
    <3>1. n + i <= n + j /\ n + i \in DOMAIN times /\ n + j \in DOMAIN times
      BY <1>2, <1>4, <2>1
    <3> QED
      BY <1>2, <3>1 DEF InOrder
  <2>2. ASSUME NEW i \in 1..k PROVE s[i] <= now
    BY <1>2 DEF InOrder
  <2> QED
    BY <1>2, <2>1, <2>2 DEF InOrder
<1>6. InOrder(a)
  <2>1. ASSUME NEW i \in 1..(k + 1), NEW j \in 1..(k + 1), i <= j PROVE a[i] <= a[j]
    <3>1. CASE j \in 1..k
      <4>1. i \in 1..k
        BY <1>3, <2>1, <3>1
      <4> QED
        BY <1>2, <1>3, <1>5, <2>1, <3>1, <4>1 DEF InOrder
    <3>2. CASE j = k + 1
      <4>1. CASE i \in 1..k
        BY <1>2, <1>3, <1>5, <3>2, <4>1 DEF InOrder
      <4>2. CASE i = k + 1
        BY <1>3, <3>2, <4>2
      <4> QED
        BY <1>3, <4>1, <4>2
    <3> QED
      BY <1>3, <3>1, <3>2
  <2>2. ASSUME NEW i \in 1..(k + 1) PROVE a[i] <= now
    BY <1>3, <2>1
  <2> QED
    BY <1>3, <2>1, <2>2 DEF InOrder
<1> QED
  BY <1>2, <1>3, <1>5, <1>6 DEF s, a

(* A record that a request may be. *)
LEMMA IdleType == Idle \in Request /\ Idle.loc = "idle" /\ Idle.held = {} /\ Idle.todo = {}
BY DEF Idle, Request


-----------------------------------------------------------------------------
(* Types *)

(* The fields of a request and of a token. *)
LEMMA FieldTypes ==
    ASSUME SessionsType
    PROVE  /\ \A r \in Requests : req[r] \in Request
           /\ \A t \in DOMAIN tokens : tokens[t] \in Token
           /\ DOMAIN tokens = 1..Len(tokens) /\ Len(tokens) \in Nat /\ DOMAIN tokens \subseteq Nat
<1>1. tokens \in Seq(Token)
  BY DEF SessionsType
<1>2. /\ \A t \in DOMAIN tokens : tokens[t] \in Token
      /\ DOMAIN tokens = 1..Len(tokens) /\ Len(tokens) \in Nat
  BY <1>1
<1> QED
  BY <1>2 DEF SessionsType

(* Revoking rows changes nothing else of them. *)
LEMMA RevokedFacts ==
    ASSUME SessionsType, NEW rows
    PROVE  /\ Revoked(rows) \in Seq(Token) /\ DOMAIN Revoked(rows) = DOMAIN tokens
           /\ \A t \in DOMAIN tokens :
                 /\ Revoked(rows)[t].user = tokens[t].user /\ Revoked(rows)[t].family = tokens[t].family
                 /\ Revoked(rows)[t].created = tokens[t].created
                 /\ Revoked(rows)[t].used = tokens[t].used
                 /\ Revoked(rows)[t].revoked = (tokens[t].revoked \/ t \in rows)
<1> DEFINE row(t) == [tokens[t] EXCEPT !.revoked = @ \/ t \in rows]
<1>1. Revoked(rows) = [t \in DOMAIN tokens |-> row(t)]
  BY DEF Revoked
<1>2. ASSUME NEW t \in DOMAIN tokens
      PROVE  /\ row(t) \in Token
             /\ row(t).user = tokens[t].user /\ row(t).family = tokens[t].family
             /\ row(t).created = tokens[t].created /\ row(t).used = tokens[t].used
             /\ row(t).revoked = (tokens[t].revoked \/ t \in rows)
  <2>1. tokens[t] \in Token
    BY FieldTypes
  <2> QED
    BY <2>1 DEF Token
<1> HIDE DEF row
<1>3. DOMAIN tokens = 1..Len(tokens) /\ Len(tokens) \in Nat
  BY FieldTypes
<1>4. [t \in DOMAIN tokens |-> row(t)] \in Seq(Token)
  BY <1>2, <1>3
<1> QED
  BY <1>1, <1>2, <1>4

(* One member of a sequence replaced. *)
LEMMA Replaced ==
    ASSUME NEW S, NEW s \in Seq(S), NEW i \in DOMAIN s, NEW x \in S
    PROVE  /\ [s EXCEPT ![i] = x] \in Seq(S) /\ Len([s EXCEPT ![i] = x]) = Len(s)
           /\ [s EXCEPT ![i] = x][i] = x
           /\ \A j \in DOMAIN s : j # i => [s EXCEPT ![i] = x][j] = s[j]
OBVIOUS

(* Marking a token used changes nothing else of it. *)
LEMMA UsedFacts ==
    ASSUME NEW row \in Token
    PROVE  LET new == [row EXCEPT !.used = TRUE]
           IN  /\ new \in Token /\ new.user = row.user /\ new.family = row.family
               /\ new.created = row.created /\ new.revoked = row.revoked /\ new.used = TRUE
BY DEF Token

(* What a rotation makes of the rows. *)
LEMMA RotatedFacts ==
    ASSUME SessionsType, NEW t \in DOMAIN tokens, NEW row \in Token
    PROVE  LET new == Append([tokens EXCEPT ![t].used = TRUE], row)
           IN  /\ new \in Seq(Token) /\ DOMAIN new = 1..(Len(tokens) + 1)
               /\ Len(new) = Len(tokens) + 1 /\ new[Len(tokens) + 1] = row
               /\ \A s \in DOMAIN tokens :
                     /\ new[s].user = tokens[s].user /\ new[s].family = tokens[s].family
                     /\ new[s].created = tokens[s].created /\ new[s].revoked = tokens[s].revoked
                     /\ new[s].used = IF s = t THEN TRUE ELSE tokens[s].used
<1> DEFINE used == [tokens[t] EXCEPT !.used = TRUE]
           old == [tokens EXCEPT ![t] = used]
           new == Append(old, row)
<1>1. tokens \in Seq(Token) /\ DOMAIN tokens = 1..Len(tokens) /\ tokens[t] \in Token
  BY FieldTypes DEF SessionsType
<1>2. /\ used \in Token /\ used.user = tokens[t].user /\ used.family = tokens[t].family
      /\ used.created = tokens[t].created /\ used.revoked = tokens[t].revoked /\ used.used = TRUE
  BY <1>1, UsedFacts
<1>3. [tokens EXCEPT ![t].used = TRUE] = old
  OBVIOUS
<1> HIDE DEF used
<1>4. /\ old \in Seq(Token) /\ Len(old) = Len(tokens) /\ old[t] = used
      /\ \A j \in DOMAIN tokens : j # t => old[j] = tokens[j]
  BY <1>1, <1>2, Replaced
<1> HIDE DEF old
<1>5. /\ new \in Seq(Token) /\ DOMAIN new = 1..(Len(old) + 1) /\ Len(new) = Len(old) + 1
      /\ new[Len(old) + 1] = row /\ \A s \in 1..Len(old) : new[s] = old[s]
  BY <1>4, OneMore
<1> HIDE DEF new
<1>6. /\ new \in Seq(Token) /\ DOMAIN new = 1..(Len(tokens) + 1)
      /\ Len(new) = Len(tokens) + 1 /\ new[Len(tokens) + 1] = row
      /\ \A s \in DOMAIN tokens :
            /\ new[s].user = tokens[s].user /\ new[s].family = tokens[s].family
            /\ new[s].created = tokens[s].created /\ new[s].revoked = tokens[s].revoked
            /\ new[s].used = IF s = t THEN TRUE ELSE tokens[s].used
  BY <1>1, <1>2, <1>4, <1>5
<1>7. new = Append([tokens EXCEPT ![t].used = TRUE], row)
  BY <1>3 DEF new
<1> QED
  BY <1>6, <1>7

(* A new row behind the others. *)
LEMMA AppendedFacts ==
    ASSUME SessionsType, NEW row \in Token, tokens' = Append(tokens, row)
    PROVE  /\ tokens' \in Seq(Token) /\ DOMAIN tokens' = 1..(Len(tokens) + 1)
           /\ Len(tokens') = Len(tokens) + 1
           /\ tokens'[Len(tokens) + 1] = row
           /\ \A s \in DOMAIN tokens : tokens'[s] = tokens[s]
<1>1. tokens \in Seq(Token)
  BY DEF SessionsType
<1> QED
  BY <1>1, OneMore

(* A request that goes from one place to another is still one. *)
LEMMA RequestFacts ==
    ASSUME SessionsType, NEW r \in Requests, NEW rec \in Request, req' = [req EXCEPT ![r] = rec]
    PROVE  /\ req' \in [Requests -> Request] /\ req'[r] = rec
           /\ \A q \in Requests : q # r => req'[q] = req[q]
BY DEF SessionsType

(* What returning does to a request. *)
LEMMA ReturnFacts ==
    ASSUME SessionsType, NEW r \in Requests, Return(r)
    PROVE  /\ req' \in [Requests -> Request] /\ req'[r] = Idle
           /\ \A q \in Requests : q # r => req'[q] = req[q]
BY IdleType, RequestFacts DEF Return

(* What moving on does to a request. *)
LEMMA GotoFacts ==
    ASSUME SessionsType, NEW r \in Requests,
           NEW loc \in {"keys", "issue", "rotate"}, Goto(r, loc)
    PROVE  /\ req' \in [Requests -> Request]
           /\ req'[r].loc = loc /\ req'[r].user = req[r].user /\ req'[r].tok = req[r].tok
           /\ req'[r].old = req[r].old /\ req'[r].held = req[r].held /\ req'[r].todo = req[r].todo
           /\ \A q \in Requests : q # r => req'[q] = req[q]
<1>1. req[r] \in Request
  BY FieldTypes
<1> DEFINE rec == [req[r] EXCEPT !.loc = loc]
<1>2. /\ rec \in Request /\ rec.loc = loc /\ rec.user = req[r].user /\ rec.tok = req[r].tok
      /\ rec.old = req[r].old /\ rec.held = req[r].held /\ rec.todo = req[r].todo
  BY <1>1 DEF Request
<1>3. req' = [req EXCEPT ![r] = rec]
  BY DEF Goto
<1> HIDE DEF rec
<1> QED
  BY <1>2, <1>3, RequestFacts


(* The counted failures are in order, and so are those of them in the      *)
(* window.                                                                 *)
LEMMA FailsInOrder ==
    ASSUME SessionsType, GuessesInv, NEW c \in Counters
    PROVE  /\ fails[c] \in Seq(Nat) /\ InOrder(fails[c]) /\ wrong[c] \in Seq(Nat) /\ InOrder(wrong[c])
           /\ now \in Nat
           /\ Recent(fails[c]) \in Seq(Nat) /\ Append(Recent(fails[c]), now) \in Seq(Nat)
           /\ Recent(wrong[c]) \in Seq(Nat) /\ Append(Recent(wrong[c]), now) \in Seq(Nat)
<1> DEFINE f == fails[c]
           w == wrong[c]
           k == Len(w) - Len(f)
<1>1. f \in Seq(Nat) /\ w \in Seq(Nat) /\ now \in Nat
  BY DEF SessionsType
<1>2. InOrder(w) /\ k >= 0 /\ \A i \in DOMAIN f : f[i] = w[k + i]
  BY DEF GuessesInv
<1> HIDE DEF f, w
<1>3. DOMAIN f = 1..Len(f) /\ DOMAIN w = 1..Len(w) /\ Len(f) \in Nat /\ Len(w) \in Nat
  BY <1>1
<1>31. k \in Int /\ \A i \in DOMAIN f : k + i \in DOMAIN w
  BY <1>2, <1>3
<1> HIDE DEF k
<1>4. InOrder(f)
  <2>1. ASSUME NEW i \in DOMAIN f, NEW j \in DOMAIN f, i <= j PROVE f[i] <= f[j]
    <3>1. k + i <= k + j /\ k + i \in DOMAIN w /\ k + j \in DOMAIN w
      BY <1>3, <1>31, <2>1
    <3> QED
      BY <1>2, <3>1 DEF InOrder
  <2> QED
    BY <1>2, <1>31, <2>1 DEF InOrder
<1> QED
  BY <1>1, <1>2, <1>4, RecentInOrder DEF f, w

(* Every step keeps the types. *)
LEMMA TypeStep == SessionsType /\ LocksInv /\ GuessesInv /\ [Next]_vars => SessionsType'
<1> SUFFICES ASSUME SessionsType, LocksInv, GuessesInv, [Next]_vars PROVE SessionsType'
  OBVIOUS
<1> DEFINE Rest == UNCHANGED <<now, tokens, fails, wrong, lockedTill, access, known>>
<1>0. /\ \A r \in Requests : req[r] \in Request
      /\ \A t \in DOMAIN tokens : tokens[t] \in Token
      /\ DOMAIN tokens = 1..Len(tokens) /\ Len(tokens) \in Nat /\ DOMAIN tokens \subseteq Nat
  BY FieldTypes
<1>01. ASSUME NEW r \in Requests, NEW rec \in Request, req' = [req EXCEPT ![r] = rec]
       PROVE  req' \in [Requests -> Request]
  BY <1>01, RequestFacts
<1>02. /\ SessionsType => now \in Nat /\ accounts \subseteq Users /\ tokens \in Seq(Token)
                          /\ fails \in [Counters -> Seq(Nat)] /\ wrong \in [Counters -> Seq(Nat)]
                          /\ lockedTill \in [Counters -> Nat] /\ access \in [Users -> Nat]
                          /\ known \subseteq DOMAIN tokens /\ req \in [Requests -> Request]
  BY DEF SessionsType
<1>1. CASE UNCHANGED vars
  BY <1>1 DEF vars, db, guard, hist, SessionsType
<1>2. ASSUME req' \in [Requests -> Request], Rest, accounts' \subseteq Users PROVE SessionsType'
  BY <1>2 DEF SessionsType
<1>3. ASSUME NEW r \in Requests, LockRow(r) PROVE SessionsType'
  <2>1. PICK t \in req[r].todo \ req[r].held : req' = [req EXCEPT ![r].held = @ \cup {t}]
    BY <1>3 DEF LockRow
  <2> DEFINE rec == [req[r] EXCEPT !.held = @ \cup {t}]
  <2>2. rec \in Request /\ req' = [req EXCEPT ![r] = rec]
    BY <1>0, <2>1 DEF Request
  <2> HIDE DEF rec
  <2> QED
    BY <1>01, <1>02, <1>2, <1>3, <2>2 DEF LockRow, db, guard
<1>4. ASSUME NEW r \in Requests, DeadlockAbort(r) PROVE SessionsType'
  <2>1. Return(r) /\ Rest /\ accounts' = accounts
    BY <1>4 DEF DeadlockAbort, db, guard
  <2> QED
    BY <1>02, <1>2, <2>1, ReturnFacts
<1>5. ASSUME NEW r \in Requests, RegisterCommit(r) PROVE SessionsType'
  <2>1. req[r].user \in Users
    BY <1>5 DEF RegisterCommit, LocksInv
  <2>2. Rest /\ accounts' \subseteq Users /\ (Return(r) \/ Goto(r, "keys"))
    BY <1>02, <1>5, <2>1 DEF RegisterCommit, guard
  <2> QED
    BY <1>2, <2>2, ReturnFacts, GotoFacts
<1>6. ASSUME NEW r \in Requests, RegisterKeys(r) PROVE SessionsType'
  <2>1. Return(r) /\ Rest /\ accounts' = accounts
    BY <1>6 DEF RegisterKeys, guard
  <2> QED
    BY <1>02, <1>2, <2>1, ReturnFacts
<1>7. ASSUME NEW r \in Requests, RotateDecide(r) PROVE SessionsType'
  <2>1. Rest /\ accounts' = accounts
    BY <1>7 DEF RotateDecide, db, guard
  <2>2. \/ Return(r) \/ Goto(r, "rotate")
        \/ \E f : req' = [req EXCEPT ![r].loc = "revoke", ![r].todo = Family(f)]
    BY <1>7 DEF RotateDecide
  <2>3. ASSUME NEW f, req' = [req EXCEPT ![r].loc = "revoke", ![r].todo = Family(f)]
        PROVE  req' \in [Requests -> Request]
    <3> DEFINE rec == [req[r] EXCEPT !.loc = "revoke", !.todo = Family(f)]
    <3>1. Family(f) \subseteq Nat
      BY <1>0 DEF Family
    <3>2. rec \in Request /\ req' = [req EXCEPT ![r] = rec]
      BY <1>0, <2>3, <3>1 DEF Request
    <3> HIDE DEF rec
    <3> QED
      BY <1>01, <3>2
  <2> QED
    BY <1>02, <1>2, <2>1, <2>2, <2>3, ReturnFacts, GotoFacts
<1>8. ASSUME NEW r \in Requests, RevokeCommit(r) \/ LogoutCommit(r) PROVE SessionsType'
  <2>1. PICK rows : tokens' = Revoked(rows)
    BY <1>8 DEF RevokeCommit, LogoutCommit
  <2>2. /\ Return(r)
        /\ UNCHANGED <<now, accounts, fails, wrong, lockedTill, access, known>>
    BY <1>8 DEF RevokeCommit, LogoutCommit, guard
  <2>3. tokens' \in Seq(Token) /\ DOMAIN tokens' = DOMAIN tokens
    BY <2>1, RevokedFacts
  <2> QED
    BY <1>02, <2>2, <2>3, ReturnFacts DEF SessionsType
<1>9. ASSUME NEW r \in Requests, CreateRefreshToken(r) PROVE SessionsType'
  <2> DEFINE row == Row(req[r].user, Len(tokens) + 1, now)
             rec == [req[r] EXCEPT !.loc = "respond", !.tok = Len(tokens) + 1]
  <2>1. req[r].user \in Users
    BY <1>9 DEF CreateRefreshToken, LocksInv
  <2>2. row \in Token
    BY <1>0, <1>02, <2>1 DEF Row, Token
  <2>3. rec \in Request /\ req' = [req EXCEPT ![r] = rec]
    <3> DEFINE n == Len(tokens) + 1
    <3>0. n \in Nat /\ req[r] \in Request
      BY <1>0
    <3>1. rec \in Request
      <4> HIDE DEF n
      <4>1. [req[r] EXCEPT !.loc = "respond", !.tok = n] \in Request
        BY <3>0 DEF Request
      <4> QED
        BY <4>1 DEF n
    <3>2. req' = [req EXCEPT ![r] = rec]
      BY <1>9 DEF CreateRefreshToken
    <3> QED
      BY <3>1, <3>2
  <2>4. /\ tokens' = Append(tokens, row)
        /\ UNCHANGED <<now, accounts, fails, wrong, lockedTill, access, known>>
    BY <1>9 DEF CreateRefreshToken, guard
  <2> HIDE DEF row, rec
  <2>5. tokens' \in Seq(Token) /\ DOMAIN tokens \subseteq DOMAIN tokens'
    BY <1>0, <2>2, <2>4, AppendedFacts
  <2> QED
    BY <1>01, <1>02, <2>3, <2>4, <2>5 DEF SessionsType
<1>10. ASSUME NEW r \in Requests, RotateCommit(r) PROVE SessionsType'
  <2> DEFINE t == req[r].tok
             row == Row(tokens[t].user, tokens[t].family, now)
             rec == [Idle EXCEPT !.loc = "respond", !.old = t, !.tok = Len(tokens) + 1]
  <2>1. t \in DOMAIN tokens
    BY <1>10 DEF RotateCommit, LocksInv
  <2>2. row \in Token
    BY <1>0, <1>02, <2>1 DEF Row, Token
  <2>3. rec \in Request /\ req' = [req EXCEPT ![r] = rec]
    <3>1. t \in Nat /\ Len(tokens) + 1 \in Nat
      BY <1>0, <2>1
    <3>2. rec \in Request
      BY <3>1, IdleType DEF Request
    <3>3. req' = [req EXCEPT ![r] = rec]
      BY <1>10 DEF RotateCommit
    <3> QED
      BY <3>2, <3>3
  <2>4. /\ tokens' = Append([tokens EXCEPT ![t].used = TRUE], row)
        /\ UNCHANGED <<now, accounts, fails, wrong, lockedTill, access, known>>
    BY <1>10 DEF RotateCommit, guard
  <2> HIDE DEF row, rec, t
  <2>5. tokens' \in Seq(Token) /\ DOMAIN tokens' = 1..(Len(tokens) + 1)
    BY <2>1, <2>2, <2>4, RotatedFacts
  <2>6. DOMAIN tokens \subseteq DOMAIN tokens'
    BY <1>0, <2>5
  <2> QED
    BY <1>01, <1>02, <2>3, <2>4, <2>5, <2>6 DEF SessionsType
<1>11. ASSUME NEW r \in Requests, LoginRespond(r) \/ RefreshRespond(r) PROVE SessionsType'
  <2>1. Cookies(r) /\ req[r].loc = "respond"
    BY <1>11 DEF LoginRespond, RefreshRespond
  <2>2. req[r].tok \in DOMAIN tokens
    BY <2>1 DEF LocksInv
  <2>3. /\ known' = known \cup {req[r].tok} /\ Return(r)
        /\ access' = [access EXCEPT ![tokens[req[r].tok].user] = now + JwtSeconds]
        /\ UNCHANGED <<now, accounts, tokens, fails, wrong, lockedTill>>
    BY <2>1 DEF Cookies, db, guard
  <2>4. access' \in [Users -> Nat]
    <3>1. now + JwtSeconds \in Nat
      BY <1>02, Constants
    <3> QED
      BY <1>02, <2>3, <3>1
  <2> QED
    BY <1>02, <2>2, <2>3, <2>4, ReturnFacts DEF SessionsType
<1>12. ASSUME NEW r \in Requests, NEW rec \in Request, Begin(r, rec), Rest, accounts' = accounts
       PROVE  SessionsType'
  BY <1>01, <1>02, <1>2, <1>12 DEF Begin
<1>13. ASSUME NEW r \in Requests, RefreshBegin(r) \/ LogoutBegin(r) PROVE SessionsType'
  <2>1. PICK t \in known, loc \in {"read", "logout"} :
           Begin(r, [Idle EXCEPT !.loc = loc, !.tok = t, !.todo = {t}]) /\ Rest /\ accounts' = accounts
    BY <1>13 DEF RefreshBegin, LogoutBegin, db, guard
  <2>2. t \in Nat
    BY <1>0, <1>02
  <2>3. [Idle EXCEPT !.loc = loc, !.tok = t, !.todo = {t}] \in Request
    BY <2>2, IdleType DEF Request
  <2> QED
    BY <1>12, <2>1, <2>3
<1>14. ASSUME NEW r \in Requests, NEW u \in Users, RegisterLookup(r, u) PROVE SessionsType'
  <2>1. [Idle EXCEPT !.loc = "register", !.user = u] \in Request
    BY IdleType DEF Request
  <2> QED
    BY <1>12, <1>14, <2>1 DEF RegisterLookup, db, guard
<1>15. ASSUME NEW r \in Requests, NEW u \in Users, LogoutAllBegin(r, u) PROVE SessionsType'
  <2> DEFINE rows == {t \in DOMAIN tokens : tokens[t].user = u /\ ~tokens[t].revoked}
  <2>1. rows \subseteq Nat
    BY <1>0
  <2>2. Begin(r, [Idle EXCEPT !.loc = "revoke", !.user = u, !.todo = rows]) /\ Rest /\ accounts' = accounts
    BY <1>15 DEF LogoutAllBegin, db, guard
  <2> HIDE DEF rows
  <2>3. [Idle EXCEPT !.loc = "revoke", !.user = u, !.todo = rows] \in Request
    BY <2>1, IdleType DEF Request
  <2> QED
    BY <1>12, <2>2, <2>3
<1>16. CASE Tick
  BY <1>02, <1>16 DEF Tick, db, guard, SessionsType
<1>17. ASSUME NEW p \in Processes, Crash(p) PROVE SessionsType'
  <2>1. << >> \in Seq(Nat) /\ 0 \in Nat
    OBVIOUS
  <2>2. PICK gone : req' = [r \in Requests |-> IF r \in gone THEN Idle ELSE req[r]]
    BY <1>17 DEF Crash
  <2>3. req' \in [Requests -> Request]
    BY <1>0, <2>2, IdleType
  <2>4. /\ fails' \in [Counters -> Seq(Nat)] /\ wrong' \in [Counters -> Seq(Nat)]
        /\ lockedTill' \in [Counters -> Nat]
    BY <1>02, <1>17, <2>1 DEF Crash
  <2> QED
    BY <1>02, <1>17, <2>3, <2>4 DEF Crash, db, SessionsType
<1>18. ASSUME NEW r \in Requests, NEW p \in Processes, NEW u \in Users, NEW a \in Addresses,
              CheckRateLimit(r, p, u, a)
       PROVE  SessionsType'
  <2>1. /\ fails' = [d \in Counters |-> IF d[1] = p THEN Recent(fails[d]) ELSE fails[d]]
        /\ lockedTill' = [d \in Counters |->
                             IF d[1] # p \/ now < lockedTill[d] THEN lockedTill[d] ELSE 0]
        /\ UNCHANGED <<now, accounts, tokens, wrong, access, known>>
    BY <1>18 DEF CheckRateLimit, ExpireLockoutState, db
  <2>2. req' \in [Requests -> Request]
    <3>1. req' = req \/ Begin(r, [Idle EXCEPT !.loc = "verify", !.at = p, !.user = u, !.from = a])
      BY <1>18 DEF CheckRateLimit
    <3>2. [Idle EXCEPT !.loc = "verify", !.at = p, !.user = u, !.from = a] \in Request
      BY IdleType DEF Request
    <3> QED
      BY <1>01, <1>02, <3>1, <3>2 DEF Begin
  <2>3. fails' \in [Counters -> Seq(Nat)] /\ lockedTill' \in [Counters -> Nat]
    BY <1>02, <2>1, FailsInOrder
  <2> QED
    BY <1>02, <2>1, <2>2, <2>3 DEF SessionsType
<1>19. ASSUME NEW r \in Requests, LoginFails(r) PROVE SessionsType'
  <2> DEFINE c == CounterOf(r)
  <2>1. c \in Counters /\ << >> \in Seq(Nat)
    BY <1>19 DEF LoginFails, LocksInv
  <2>2. PICK full \in BOOLEAN :
           /\ fails' = [[d \in Counters |-> IF d[1] = c[1] THEN Recent(fails[d]) ELSE fails[d]]
                          EXCEPT ![c] = IF full THEN << >> ELSE Append(Recent(fails[c]), now)]
           /\ lockedTill' = [[d \in Counters |->
                                 IF d[1] # c[1] \/ now < lockedTill[d] THEN lockedTill[d] ELSE 0]
                               EXCEPT ![c] = IF full THEN now + LockoutSeconds ELSE @]
    BY <1>19, <2>1 DEF LoginFails, RecordFailedAttempt, ExpireLockoutState
  <2>3. /\ wrong' = [wrong EXCEPT ![c] = Append(Recent(@), now)] /\ Return(r)
        /\ UNCHANGED <<now, accounts, tokens, access, known>>
    BY <1>19 DEF LoginFails, db
  <2> HIDE DEF c
  <2>4. fails' \in [Counters -> Seq(Nat)]
    BY <1>02, <2>1, <2>2, FailsInOrder
  <2>5. lockedTill' \in [Counters -> Nat]
    BY <1>02, <2>1, <2>2, Constants
  <2>6. wrong' \in [Counters -> Seq(Nat)]
    BY <1>02, <2>1, <2>3, FailsInOrder
  <2> QED
    BY <1>02, <2>3, <2>4, <2>5, <2>6, ReturnFacts DEF SessionsType
<1>20. ASSUME NEW r \in Requests, LoginSucceeds(r) PROVE SessionsType'
  <2>1. << >> \in Seq(Nat)
    OBVIOUS
  <2>2. req' \in [Requests -> Request]
    <3>1. req[r].user \in Users
      BY <1>20 DEF LoginSucceeds, LocksInv
    <3>2. [Idle EXCEPT !.loc = "issue", !.user = req[r].user] \in Request
      BY <3>1, IdleType DEF Request
    <3> QED
      BY <1>01, <1>20, <3>2 DEF LoginSucceeds
  <2> QED
    BY <1>02, <1>20, <2>1, <2>2 DEF LoginSucceeds, ClearFailedAttempts, db, SessionsType
<1> QED
  BY <1>1, <1>3, <1>4, <1>5, <1>6, <1>7, <1>8, <1>9, <1>10, <1>11, <1>13, <1>14, <1>15, <1>16, <1>17,
     <1>18, <1>19, <1>20 DEF Next, Step


-----------------------------------------------------------------------------
(* Families and row locks *)

(* What LocksInv says of one request. *)
LockOk(r) ==
    LET t == req[r].tok
    IN  /\ req[r].todo \subseteq DOMAIN tokens
        /\ req[r].loc \in {"register", "keys", "verify", "issue"} => req[r].user \in Users
        /\ req[r].loc = "verify" => CounterOf(r) \in Counters
        /\ req[r].loc \in {"respond", "read", "rotate", "logout"} => t \in DOMAIN tokens
        /\ req[r].loc \in {"read", "logout"} => req[r].todo = {t}
        /\ req[r].loc = "rotate" =>
              t \in req[r].held /\ Live(t) /\ now <= tokens[tokens[t].family].created + AbsoluteSeconds
        /\ req[r].loc = "revoke" =>
              \A s \in req[r].todo, v \in DOMAIN tokens :
                  tokens[s].family = tokens[v].family /\ Live(v) =>
                      v \in req[r].todo \/ tokens[v].family \in raced

Apart == \A q, r \in Requests : q # r => req[q].held \cap req[r].held = {}

(* The parts of LocksInv. *)
LEMMA LocksParts == LocksInv <=> Apart /\ \A q \in Requests : LockOk(q)
BY DEF LocksInv, LockOk, Apart

(* The same in the next state. *)
LEMMA LocksPartsNext == (LocksInv <=> Apart /\ \A q \in Requests : LockOk(q))'
BY LocksParts, PTL

(* The age of a family is the age of its first token. *)
LEMMA FamilyStart ==
    ASSUME SessionsType, TokensInv, NEW t \in DOMAIN tokens
    PROVE  FamilyAge(t) = now - tokens[tokens[t].family].created
<1> DEFINE f == tokens[t].family
           times == {tokens[s].created : s \in Family(f)}
<1>1. f \in Family(f) /\ \A s \in Family(f) : tokens[f].created <= tokens[s].created
  BY DEF TokensInv, Family
<1>2. \A s \in Family(f) : tokens[s].created \in Nat
  BY FieldTypes DEF Family, Token
<1>3. /\ tokens[f].created \in times /\ \A x \in times : tokens[f].created <= x
      /\ times \subseteq Nat
  BY <1>1, <1>2
<1>4. FamilyAge(t) = now - Min(times)
  BY DEF FamilyAge
<1> HIDE DEF times
<1>5. Min(times) \in times /\ \A x \in times : Min(times) <= x
  BY <1>3 DEF Min
<1>6. Min(times) = tokens[f].created
  <2>1. Min(times) \in Nat /\ tokens[f].created \in Nat
    BY <1>3, <1>5
  <2>2. Min(times) <= tokens[f].created /\ tokens[f].created <= Min(times)
    BY <1>3, <1>5
  <2> QED
    BY <2>1, <2>2
<1> QED
  BY <1>4, <1>6

(* A step that leaves the rows alone keeps the invariants of the rows, and *)
(* those of the locks if the request it moves has its own.                 *)
LEMMA QuietStep ==
    ASSUME SessionsType, TokensInv, LocksInv, EndedStaysEnded,
           UNCHANGED <<now, tokens, ended, raced>>,
           NEW r \in Requests, \A q \in Requests : q # r => req'[q] = req[q],
           \A q \in Requests : q # r => req'[r].held \cap req[q].held = {},
           LockOk(r)'
    PROVE  TokensInv' /\ LocksInv' /\ EndedStaysEnded'
<1>1. TokensInv' /\ EndedStaysEnded'
  BY DEF TokensInv, EndedStaysEnded, Live
<1>2. Apart /\ \A q \in Requests : LockOk(q)
  BY LocksParts
<1>3. Apart'
  BY <1>2 DEF Apart
<1>4. ASSUME NEW q \in Requests PROVE LockOk(q)'
  <2>1. CASE q = r
    BY <2>1
  <2>2. CASE q # r
    <3>1. req'[q] = req[q] /\ LockOk(q)
      BY <1>2, <2>2
    <3> QED
      BY <3>1 DEF LockOk, Live, CounterOf
  <2> QED
    BY <2>1, <2>2
<1>5. (LocksInv <=> Apart /\ \A q \in Requests : LockOk(q))'
  BY LocksPartsNext
<1> QED
  BY <1>1, <1>3, <1>4, <1>5

(* A request that is done holds and wants nothing. *)
LEMMA IdleOk ==
    ASSUME NEW r \in Requests, req'[r] = Idle
    PROVE  LockOk(r)' /\ req'[r].held = {}
BY DEF LockOk, Idle

(* Every step that leaves the rows alone keeps the invariants. *)
LEMMA RowsUntouched ==
    ASSUME SessionsType, TokensInv, LocksInv, EndedStaysEnded, NEW r \in Requests,
           \/ LockRow(r) \/ DeadlockAbort(r) \/ RegisterCommit(r) \/ RegisterKeys(r) \/ LoginFails(r)
           \/ LoginSucceeds(r) \/ LoginRespond(r) \/ RefreshRespond(r) \/ RotateDecide(r)
           \/ RefreshBegin(r) \/ LogoutBegin(r)
           \/ \E u \in Users : RegisterLookup(r, u) \/ LogoutAllBegin(r, u)
           \/ \E p \in Processes, u \in Users, a \in Addresses : CheckRateLimit(r, p, u, a)
    PROVE  TokensInv' /\ LocksInv' /\ EndedStaysEnded'
<1> DEFINE Goal == TokensInv' /\ LocksInv' /\ EndedStaysEnded'
           Rest == UNCHANGED <<now, tokens, ended, raced>>
<1>0. Apart /\ LockOk(r) /\ req[r] \in Request /\ DOMAIN tokens \subseteq Nat
  BY LocksParts, FieldTypes
<1>1. ASSUME Return(r), Rest PROVE Goal
  BY <1>1, ReturnFacts, IdleOk, QuietStep
<1>2. ASSUME Goto(r, "keys"), Rest, req[r].user \in Users PROVE Goal
  <2>1. /\ req'[r].loc = "keys" /\ req'[r].user = req[r].user /\ req'[r].held = req[r].held
        /\ req'[r].todo = req[r].todo /\ \A q \in Requests : q # r => req'[q] = req[q]
    BY <1>2, GotoFacts
  <2>2. LockOk(r)'
    BY <1>0, <1>2, <2>1 DEF LockOk
  <2>3. \A q \in Requests : q # r => req'[r].held \cap req[q].held = {}
    BY <1>0, <2>1 DEF Apart
  <2> QED
    BY <1>2, <2>1, <2>2, <2>3, QuietStep
<1>3. ASSUME NEW rec \in Request, Begin(r, rec), Rest, rec.held = {}, LockOk(r)' PROVE Goal
  <2>1. req'[r] = rec /\ \A q \in Requests : q # r => req'[q] = req[q]
    BY <1>3, RequestFacts DEF Begin
  <2>2. \A q \in Requests : q # r => req'[r].held \cap req[q].held = {}
    BY <1>3, <2>1
  <2> QED
    BY <1>3, <2>1, <2>2, QuietStep
<1>4. CASE LockRow(r)
  <2>1. PICK t \in req[r].todo \ req[r].held :
           ~LockedByOther(r, t) /\ req' = [req EXCEPT ![r].held = @ \cup {t}]
    BY <1>4 DEF LockRow
  <2>2. Rest
    BY <1>4 DEF LockRow, db, hist
  <2>3. /\ req'[r].loc = req[r].loc /\ req'[r].user = req[r].user /\ req'[r].tok = req[r].tok
        /\ req'[r].todo = req[r].todo /\ req'[r].held = req[r].held \cup {t}
        /\ CounterOf(r)' = CounterOf(r)
        /\ \A q \in Requests : q # r => req'[q] = req[q]
    <3> DEFINE rec == [req[r] EXCEPT !.held = @ \cup {t}]
    <3>1. /\ rec \in Request /\ rec.loc = req[r].loc /\ rec.user = req[r].user /\ rec.tok = req[r].tok
          /\ rec.todo = req[r].todo /\ rec.held = req[r].held \cup {t}
          /\ rec.at = req[r].at /\ rec.from = req[r].from
      BY <1>0, <2>1 DEF Request
    <3>2. req' = [req EXCEPT ![r] = rec]
      BY <2>1
    <3> HIDE DEF rec
    <3> QED
      BY <3>1, <3>2, RequestFacts DEF CounterOf
  <2>4. \A q \in Requests : q # r => req'[r].held \cap req[q].held = {}
    BY <1>0, <2>1, <2>3 DEF Apart, LockedByOther
  <2>5. LockOk(r)'
    BY <1>0, <2>2, <2>3 DEF LockOk, Live, CounterOf
  <2> QED
    BY <2>2, <2>3, <2>4, <2>5, QuietStep
<1>5. CASE DeadlockAbort(r) \/ RegisterKeys(r) \/ LoginFails(r) \/ LoginRespond(r) \/ RefreshRespond(r)
  BY <1>1, <1>5 DEF DeadlockAbort, RegisterKeys, LoginFails, LoginRespond, RefreshRespond, Cookies, db, hist
<1>6. CASE RegisterCommit(r)
  <2>1. req[r].user \in Users
    BY <1>0, <1>6 DEF RegisterCommit, LockOk
  <2>2. Rest /\ (Return(r) \/ Goto(r, "keys"))
    BY <1>6 DEF RegisterCommit, hist
  <2> QED
    BY <1>1, <1>2, <2>1, <2>2
<1>7. CASE LoginSucceeds(r)
  <2>1. req[r].user \in Users
    BY <1>0, <1>7 DEF LoginSucceeds, LockOk
  <2> DEFINE rec == [Idle EXCEPT !.loc = "issue", !.user = req[r].user]
  <2>2. rec \in Request /\ rec.loc = "issue" /\ rec.user \in Users /\ rec.todo = {} /\ rec.held = {}
    BY <2>1, IdleType DEF Request
  <2>3. req' = [req EXCEPT ![r] = rec] /\ Rest
    BY <1>7 DEF LoginSucceeds, db, hist
  <2> HIDE DEF rec
  <2>4. req'[r] = rec /\ \A q \in Requests : q # r => req'[q] = req[q]
    BY <2>2, <2>3, RequestFacts
  <2>5. LockOk(r)'
    BY <2>2, <2>3, <2>4 DEF LockOk
  <2>6. \A q \in Requests : q # r => req'[r].held \cap req[q].held = {}
    BY <2>2, <2>4
  <2> QED
    BY <2>3, <2>4, <2>5, <2>6, QuietStep
<1>8. CASE RotateDecide(r)
  <2> DEFINE t == req[r].tok
  <2>1. Rest /\ req[r].loc = "read" /\ HasItsRows(r)
    BY <1>8 DEF RotateDecide, db, hist
  <2>2. t \in DOMAIN tokens /\ req[r].todo = {t} /\ t \in req[r].held
    BY <1>0, <2>1 DEF LockOk, HasItsRows
  <2>3. \/ Return(r)
        \/ req' = [req EXCEPT ![r].loc = "revoke", ![r].todo = Family(tokens[t].family)]
        \/ /\ Goto(r, "rotate") /\ ~tokens[t].revoked /\ ~tokens[t].used
           /\ ~(FamilyAge(t) > AbsoluteSeconds)
    BY <1>8 DEF RotateDecide
  <2>4. ASSUME req' = [req EXCEPT ![r].loc = "revoke", ![r].todo = Family(tokens[t].family)] PROVE Goal
    <3> DEFINE F == Family(tokens[t].family)
               rec == [req[r] EXCEPT !.loc = "revoke", !.todo = F]
    <3>1. F \subseteq DOMAIN tokens
      BY DEF Family
    <3>2. req' = [req EXCEPT ![r] = rec]
      BY <2>4
    <3> HIDE DEF F
    <3>3. rec \in Request /\ rec.loc = "revoke" /\ rec.todo = F /\ rec.held = req[r].held
      BY <1>0, <3>1 DEF Request
    <3> HIDE DEF rec
    <3>4. /\ req'[r].loc = "revoke" /\ req'[r].todo = F /\ req'[r].held = req[r].held
          /\ \A q \in Requests : q # r => req'[q] = req[q]
      BY <3>2, <3>3, RequestFacts
    <3>5. \A s \in F, v \in DOMAIN tokens : tokens[s].family = tokens[v].family => v \in F
      BY DEF F, Family
    <3>6. LockOk(r)'
      BY <2>1, <3>1, <3>4, <3>5 DEF LockOk
    <3>7. \A q \in Requests : q # r => req'[r].held \cap req[q].held = {}
      BY <1>0, <3>4 DEF Apart
    <3> QED
      BY <2>1, <3>4, <3>6, <3>7, QuietStep
  <2>5. ASSUME Goto(r, "rotate"), ~tokens[t].revoked, ~tokens[t].used,
               ~(FamilyAge(t) > AbsoluteSeconds)
        PROVE  Goal
    <3>1. /\ req'[r].loc = "rotate" /\ req'[r].tok = t /\ req'[r].held = req[r].held
          /\ req'[r].todo = req[r].todo /\ \A q \in Requests : q # r => req'[q] = req[q]
      BY <2>5, GotoFacts
    <3>2. now <= tokens[tokens[t].family].created + AbsoluteSeconds
      <4>1. tokens[tokens[t].family].created \in Nat /\ now \in Nat
        BY <2>2, FieldTypes DEF TokensInv, Token, SessionsType
      <4>2. ~(now - tokens[tokens[t].family].created > AbsoluteSeconds)
        BY <2>2, <2>5, FamilyStart
      <4>3. AbsoluteSeconds \in Nat
        BY Constants
      <4> QED
        BY <4>1, <4>2, <4>3
    <3>3. LockOk(r)'
      BY <1>0, <2>1, <2>2, <2>5, <3>1, <3>2 DEF LockOk, Live, CounterOf
    <3>4. \A q \in Requests : q # r => req'[r].held \cap req[q].held = {}
      BY <1>0, <3>1 DEF Apart
    <3> QED
      BY <2>1, <3>1, <3>3, <3>4, QuietStep
  <2> QED
    BY <1>1, <2>1, <2>3, <2>4, <2>5
<1>9. CASE RefreshBegin(r) \/ LogoutBegin(r)
  <2>1. PICK t \in known, loc \in {"read", "logout"} :
           Begin(r, [Idle EXCEPT !.loc = loc, !.tok = t, !.todo = {t}]) /\ Rest
    BY <1>9 DEF RefreshBegin, LogoutBegin, db, hist
  <2> DEFINE rec == [Idle EXCEPT !.loc = loc, !.tok = t, !.todo = {t}]
  <2>2. t \in DOMAIN tokens /\ t \in Nat
    BY <1>0 DEF SessionsType
  <2>3. rec \in Request /\ rec.loc = loc /\ rec.tok = t /\ rec.todo = {t} /\ rec.held = {}
    BY <2>2, IdleType DEF Request
  <2>4. Begin(r, rec)
    BY <2>1
  <2> HIDE DEF rec
  <2>5. req'[r] = rec
    BY <2>3, <2>4, RequestFacts DEF Begin
  <2>6. LockOk(r)'
    BY <2>1, <2>2, <2>3, <2>5 DEF LockOk
  <2> QED
    BY <1>3, <2>1, <2>3, <2>4, <2>6
<1>10. ASSUME NEW u \in Users, RegisterLookup(r, u) PROVE Goal
  <2> DEFINE rec == [Idle EXCEPT !.loc = "register", !.user = u]
  <2>1. rec \in Request /\ rec.loc = "register" /\ rec.user = u /\ rec.todo = {} /\ rec.held = {}
    BY IdleType DEF Request
  <2>2. Rest /\ Begin(r, rec)
    BY <1>10 DEF RegisterLookup, db, hist
  <2> HIDE DEF rec
  <2>3. req'[r] = rec
    BY <2>1, <2>2, RequestFacts DEF Begin
  <2>4. LockOk(r)'
    BY <2>1, <2>3 DEF LockOk
  <2> QED
    BY <1>3, <2>1, <2>2, <2>4
<1>12. ASSUME NEW p \in Processes, NEW u \in Users, NEW a \in Addresses, CheckRateLimit(r, p, u, a)
       PROVE  Goal
  <2> DEFINE rec == [Idle EXCEPT !.loc = "verify", !.at = p, !.user = u, !.from = a]
  <2>1. Rest /\ (req' = req \/ Begin(r, rec))
    BY <1>12 DEF CheckRateLimit, db, hist
  <2>2. /\ rec \in Request /\ rec.loc = "verify" /\ rec.user = u /\ rec.todo = {} /\ rec.held = {}
        /\ <<rec.at, rec.user, rec.from>> \in Counters
    BY IdleType DEF Request, Counters
  <2> HIDE DEF rec
  <2>3. CASE req' = req
    <3>1. LockOk(r)'
      BY <1>0, <2>1, <2>3 DEF LockOk, Live, CounterOf
    <3> QED
      BY <1>0, <2>1, <2>3, <3>1, QuietStep DEF Apart
  <2>4. CASE Begin(r, rec)
    <3>1. req'[r] = rec
      BY <2>2, <2>4, RequestFacts DEF Begin
    <3>2. LockOk(r)'
      BY <2>1, <2>2, <3>1 DEF LockOk, CounterOf
    <3> QED
      BY <1>3, <2>1, <2>2, <2>4, <3>2
  <2> QED
    BY <2>1, <2>3, <2>4
<1>11. ASSUME NEW u \in Users, LogoutAllBegin(r, u) PROVE Goal
  <2> DEFINE rows == {t \in DOMAIN tokens : tokens[t].user = u /\ ~tokens[t].revoked}
             rec == [Idle EXCEPT !.loc = "revoke", !.user = u, !.todo = rows]
  <2>1. rows \subseteq DOMAIN tokens /\ rows \subseteq Nat
    BY <1>0
  <2>2. \A s \in rows, v \in DOMAIN tokens :
            tokens[s].family = tokens[v].family /\ Live(v) => v \in rows
    BY DEF TokensInv, Live
  <2>3. Begin(r, rec) /\ Rest
    BY <1>11 DEF LogoutAllBegin, db, hist
  <2> HIDE DEF rows
  <2>4. rec \in Request /\ rec.loc = "revoke" /\ rec.todo = rows /\ rec.held = {}
    BY <2>1, IdleType DEF Request
  <2> HIDE DEF rec
  <2>5. req'[r] = rec
    BY <2>3, <2>4, RequestFacts DEF Begin
  <2>6. LockOk(r)'
    BY <2>1, <2>2, <2>3, <2>4, <2>5 DEF LockOk, Live, CounterOf
  <2> QED
    BY <1>3, <2>3, <2>4, <2>6
<1> QED
  BY <1>4, <1>5, <1>6, <1>7, <1>8, <1>9, <1>10, <1>11, <1>12


(* Revoking rows that a request holds keeps the invariants: no rotation    *)
(* depends on them.                                                        *)
LEMMA RevokeStep ==
    ASSUME SessionsType, TokensInv, LocksInv, EndedStaysEnded, NEW r \in Requests,
           RevokeCommit(r) \/ LogoutCommit(r)
    PROVE  TokensInv' /\ LocksInv' /\ EndedStaysEnded'
<1>0. Apart /\ \A q \in Requests : LockOk(q)
  BY LocksParts
<1> DEFINE rows == req[r].todo
<1>1. /\ tokens' = Revoked(rows) /\ rows \subseteq req[r].held /\ Return(r)
      /\ now' = now /\ raced' = raced
  BY <1>0 DEF RevokeCommit, LogoutCommit, HasItsRows, LockOk
<1>2. /\ req'[r] = Idle /\ \A q \in Requests : q # r => req'[q] = req[q]
  BY <1>1, ReturnFacts
<1>3. /\ DOMAIN tokens' = DOMAIN tokens
      /\ \A t \in DOMAIN tokens :
            /\ tokens'[t].user = tokens[t].user /\ tokens'[t].family = tokens[t].family
            /\ tokens'[t].created = tokens[t].created /\ tokens'[t].used = tokens[t].used
            /\ tokens'[t].revoked = (tokens[t].revoked \/ t \in rows)
  <2> DEFINE new == Revoked(rows)
  <2>1. /\ DOMAIN new = DOMAIN tokens
        /\ \A t \in DOMAIN tokens :
              /\ new[t].user = tokens[t].user /\ new[t].family = tokens[t].family
              /\ new[t].created = tokens[t].created /\ new[t].used = tokens[t].used
              /\ new[t].revoked = (tokens[t].revoked \/ t \in rows)
    BY RevokedFacts
  <2> HIDE DEF new
  <2>2. tokens' = new
    BY <1>1 DEF new
  <2> QED
    BY <2>1, <2>2
<1> HIDE DEF rows
<1>4. TokensInv'
  <2>1. ended' \subseteq DOMAIN tokens
    <3>1. rows \subseteq DOMAIN tokens /\ (LogoutCommit(r) => req[r].tok \in DOMAIN tokens)
      BY <1>0 DEF LockOk, LogoutCommit, rows
    <3>2. \A f \in ended' : f \in ended \/ \E t \in DOMAIN tokens : f = tokens[t].family
      BY <3>1 DEF RevokeCommit, LogoutCommit, rows
    <3> QED
      BY <3>2 DEF TokensInv
  <2> QED
    BY <1>1, <1>3, <2>1 DEF TokensInv
<1>5. \A t \in DOMAIN tokens : Live(t)' <=> Live(t) /\ t \notin rows
  BY <1>3 DEF Live
<1>6. ASSUME NEW q \in Requests PROVE LockOk(q)'
  <2>1. CASE q = r
    BY <1>2, <2>1, IdleOk
  <2>2. CASE q # r
    <3>1. req'[q] = req[q] /\ LockOk(q) /\ req[q].held \cap rows = {}
      BY <1>0, <1>1, <1>2, <2>2 DEF Apart
    <3>2. req[q].loc = "rotate" =>
             /\ req[q].tok \in DOMAIN tokens /\ tokens[req[q].tok].family \in DOMAIN tokens
             /\ Live(req[q].tok)'
      BY <1>5, <3>1 DEF LockOk, TokensInv
    <3>3. req[q].loc = "revoke" =>
             \A s \in req[q].todo, v \in DOMAIN tokens :
                tokens'[s].family = tokens'[v].family /\ Live(v)' =>
                    v \in req[q].todo \/ tokens'[v].family \in raced
      BY <1>3, <1>5, <3>1 DEF LockOk
    <3> QED
      BY <1>1, <1>3, <3>1, <3>2, <3>3 DEF LockOk, CounterOf
  <2> QED
    BY <2>1, <2>2
<1>7. Apart'
  BY <1>0, <1>2, IdleType DEF Apart
<1>8. EndedStaysEnded'
  <2> SUFFICES ASSUME NEW t \in DOMAIN tokens, Live(t)', tokens'[t].family \in ended', tokens'[t].family \notin raced
               PROVE  FALSE
    BY <1>1, <1>3 DEF EndedStaysEnded
  <2>1. Live(t) /\ t \notin rows /\ tokens[t].family \notin ended
    BY <1>3, <1>5 DEF EndedStaysEnded
  <2>2. CASE RevokeCommit(r)
    <3>1. PICK s \in rows : tokens[s].family = tokens[t].family
      BY <1>3, <2>1, <2>2 DEF RevokeCommit, rows
    <3> QED
      BY <1>0, <1>3, <2>1, <2>2, <3>1 DEF RevokeCommit, LockOk, rows
  <2>3. CASE LogoutCommit(r)
    <3> DEFINE s == req[r].tok
    <3>1. s \in DOMAIN tokens /\ rows = {s}
      BY <1>0, <2>3 DEF LogoutCommit, LockOk, rows
    <3>2. ~tokens[s].used /\ tokens[s].family = tokens[t].family
      BY <1>3, <2>1, <2>3 DEF LogoutCommit
    <3>3. s = t
      BY <2>1, <3>1, <3>2 DEF TokensInv, Live
    <3> QED
      BY <2>1, <3>1, <3>3
  <2> QED
    BY <2>2, <2>3
<1> QED
  BY <1>4, <1>6, <1>7, <1>8, LocksPartsNext

(* A new family keeps the invariants. *)
LEMMA IssueStep ==
    ASSUME SessionsType, TokensInv, LocksInv, EndedStaysEnded, NEW r \in Requests, CreateRefreshToken(r)
    PROVE  TokensInv' /\ LocksInv' /\ EndedStaysEnded'
<1>0. /\ Apart /\ \A q \in Requests : LockOk(q)
  BY LocksParts
<1> DEFINE n == Len(tokens) + 1
           row == Row(req[r].user, n, now)
<1>01. n \in Nat /\ n \notin DOMAIN tokens /\ now \in Nat /\ DOMAIN tokens = 1..Len(tokens)
  BY FieldTypes DEF SessionsType
<1>1. /\ req[r].loc = "issue" /\ req[r].user \in Users
      /\ tokens' = Append(tokens, row) /\ UNCHANGED <<now, ended, raced>>
      /\ req' = [req EXCEPT ![r].loc = "respond", ![r].tok = n]
  BY <1>0 DEF CreateRefreshToken, LockOk, hist
<1>2. /\ row \in Token /\ row.family = n /\ row.created = now /\ row.user = req[r].user
      /\ row.used = FALSE /\ row.revoked = FALSE
  BY <1>01, <1>1 DEF Row, Token
<1>3. /\ DOMAIN tokens' = DOMAIN tokens \cup {n} /\ tokens'[n] = row
      /\ \A s \in DOMAIN tokens : tokens'[s] = tokens[s]
  <2> HIDE DEF row
  <2>1. DOMAIN tokens' = 1..n /\ tokens'[n] = row /\ \A s \in DOMAIN tokens : tokens'[s] = tokens[s]
    BY <1>1, <1>2, AppendedFacts
  <2>2. 1..n = DOMAIN tokens \cup {n}
    BY <1>01, FieldTypes
  <2> QED
    BY <2>1, <2>2
<1>4. /\ req'[r].loc = "respond" /\ req'[r].tok = n /\ req'[r].held = req[r].held
      /\ req'[r].todo = req[r].todo /\ \A q \in Requests : q # r => req'[q] = req[q]
  <2> HIDE DEF n
  <2> DEFINE rec == [req[r] EXCEPT !.loc = "respond", !.tok = n]
  <2>1. req[r] \in Request
    BY FieldTypes
  <2>2. /\ rec \in Request /\ rec.loc = "respond" /\ rec.tok = n /\ rec.held = req[r].held
        /\ rec.todo = req[r].todo
    BY <1>01, <2>1 DEF Request
  <2>3. req' = [req EXCEPT ![r] = rec]
    BY <1>1
  <2> HIDE DEF rec
  <2> QED
    BY <2>2, <2>3, RequestFacts
<1> HIDE DEF n, row
<1>5. TokensInv'
  <2>0. AbsoluteSeconds \in Nat
    BY Constants
  <2>1. ASSUME NEW t \in DOMAIN tokens'
        PROVE  LET f == tokens'[t].family
               IN  /\ f \in DOMAIN tokens' /\ tokens'[f].family = f /\ tokens'[f].user = tokens'[t].user
                   /\ tokens'[f].created <= tokens'[t].created /\ tokens'[t].created <= now
                   /\ tokens'[t].created <= tokens'[f].created + AbsoluteSeconds
    <3>1. CASE t = n
      BY <1>01, <1>2, <1>3, <2>0, <3>1
    <3>2. CASE t \in DOMAIN tokens
      BY <1>3, <3>2 DEF TokensInv
    <3> QED
      BY <1>3, <3>1, <3>2
  <2>2. \A t \in DOMAIN tokens : tokens[t].family # n
    BY <1>01 DEF TokensInv
  <2>3. \A s, t \in DOMAIN tokens' :
           tokens'[s].family = tokens'[t].family /\ ~tokens'[s].used /\ ~tokens'[t].used => s = t
    BY <1>2, <1>3, <2>2 DEF TokensInv
  <2> QED
    BY <1>1, <1>3, <2>1, <2>3 DEF TokensInv
<1>6. /\ \A t \in DOMAIN tokens : (Live(t)' <=> Live(t)) /\ tokens[t].family # n
      /\ \A t \in DOMAIN tokens : tokens[t].family \in DOMAIN tokens
  BY <1>01, <1>3 DEF Live, TokensInv
<1>7. ASSUME NEW q \in Requests PROVE LockOk(q)'
  <2>1. LockOk(q)
    BY <1>0
  <2>2. CASE q = r
    BY <1>1, <1>3, <1>4, <2>1, <2>2 DEF LockOk
  <2>3. CASE q # r
    <3>1. req'[q] = req[q]
      BY <1>4, <2>3
    <3>2. req[q].loc = "revoke" =>
             \A s \in req[q].todo, v \in DOMAIN tokens' :
                tokens'[s].family = tokens'[v].family /\ Live(v)' =>
                    v \in req[q].todo \/ tokens'[v].family \in raced
      <4> SUFFICES ASSUME req[q].loc = "revoke", NEW s \in req[q].todo, NEW v \in DOMAIN tokens',
                          tokens'[s].family = tokens'[v].family, Live(v)'
                   PROVE  v \in req[q].todo \/ tokens'[v].family \in raced
        OBVIOUS
      <4>1. s \in DOMAIN tokens /\ tokens'[s] = tokens[s]
        BY <1>3, <2>1 DEF LockOk
      <4>2. v # n
        BY <1>2, <1>3, <1>6, <4>1
      <4> QED
        BY <1>3, <1>6, <2>1, <4>1, <4>2 DEF LockOk
    <3> DEFINE t == req[q].tok
    <3>3. req[q].loc = "rotate" =>
             /\ ~tokens'[t].used /\ ~tokens'[t].revoked
             /\ now <= tokens'[tokens'[t].family].created + AbsoluteSeconds
      <4>1. SUFFICES ASSUME req[q].loc = "rotate"
                     PROVE  /\ ~tokens'[t].used /\ ~tokens'[t].revoked
                            /\ now <= tokens'[tokens'[t].family].created + AbsoluteSeconds
        OBVIOUS
      <4>2. t \in DOMAIN tokens /\ Live(t) /\ now <= tokens[tokens[t].family].created + AbsoluteSeconds
        BY <2>1, <4>1 DEF LockOk
      <4>3. tokens'[t] = tokens[t] /\ tokens'[tokens[t].family] = tokens[tokens[t].family]
        BY <1>3, <1>6, <4>2
      <4> QED
        BY <4>2, <4>3 DEF Live
    <3>4. /\ req[q].todo \subseteq DOMAIN tokens'
          /\ req[q].loc \in {"register", "keys", "verify", "issue"} => req[q].user \in Users
          /\ req[q].loc = "verify" => CounterOf(q) \in Counters
          /\ req[q].loc \in {"respond", "read", "rotate", "logout"} => t \in DOMAIN tokens'
          /\ req[q].loc \in {"read", "logout"} => req[q].todo = {t}
          /\ req[q].loc = "rotate" => t \in req[q].held
      BY <1>3, <2>1 DEF LockOk
    <3> QED
      BY <1>1, <3>1, <3>2, <3>3, <3>4 DEF LockOk, Live, CounterOf
  <2> QED
    BY <2>2, <2>3
<1>8. Apart'
  BY <1>0, <1>4 DEF Apart
<1>9. EndedStaysEnded'
  <2>1. ended \subseteq DOMAIN tokens
    BY DEF TokensInv
  <2> QED
    BY <1>01, <1>1, <1>2, <1>3, <1>6, <2>1 DEF EndedStaysEnded
<1> QED
  BY <1>5, <1>7, <1>8, <1>9, LocksPartsNext


(* A rotation keeps the invariants: the request holds the row of the live  *)
(* token, so the family's one head moves to the new row.                   *)
LEMMA RotateStep ==
    ASSUME SessionsType, TokensInv, LocksInv, EndedStaysEnded, NEW r \in Requests, RotateCommit(r)
    PROVE  TokensInv' /\ LocksInv' /\ EndedStaysEnded'
<1>0. /\ Apart /\ \A q \in Requests : LockOk(q)
  BY LocksParts
<1>00. PICK t : t = req[r].tok
  OBVIOUS
<1>01. PICK f : f = tokens[t].family
  OBVIOUS
<1>02. PICK n : n = Len(tokens) + 1
  OBVIOUS
<1>03. n \in Nat /\ n \notin DOMAIN tokens /\ now \in Nat /\ DOMAIN tokens = 1..Len(tokens)
  BY <1>02, FieldTypes DEF SessionsType
<1> DEFINE row == Row(tokens[t].user, f, now)
<1>1. /\ t \in DOMAIN tokens /\ t \in req[r].held /\ Live(t)
      /\ now <= tokens[f].created + AbsoluteSeconds
  BY <1>0, <1>00, <1>01 DEF RotateCommit, LockOk
<1>2. /\ f \in DOMAIN tokens /\ tokens[f].family = f /\ tokens[f].user = tokens[t].user
      /\ tokens[f].created <= now /\ f \in Nat /\ tokens[t].user \in Users
  BY <1>01, <1>03, <1>1, FieldTypes DEF TokensInv, Token
<1>3. /\ tokens' = Append([tokens EXCEPT ![t].used = TRUE], row)
      /\ req' = [req EXCEPT ![r] = [Idle EXCEPT !.loc = "respond", !.old = t, !.tok = n]]
      /\ now' = now /\ ended' = ended /\ raced \subseteq raced'
      /\ (\E q \in Requests : req[q].loc = "revoke" /\ req[q].todo \cap Family(f) # {}) => f \in raced'
  BY <1>00, <1>01, <1>02 DEF RotateCommit
<1>4. /\ row \in Token /\ row.family = f /\ row.created = now /\ row.user = tokens[t].user
      /\ row.used = FALSE /\ row.revoked = FALSE
  BY <1>03, <1>2 DEF Row, Token
<1>5. /\ DOMAIN tokens' = DOMAIN tokens \cup {n} /\ tokens'[n] = row
      /\ \A s \in DOMAIN tokens :
            /\ tokens'[s].user = tokens[s].user /\ tokens'[s].family = tokens[s].family
            /\ tokens'[s].created = tokens[s].created /\ tokens'[s].revoked = tokens[s].revoked
            /\ tokens'[s].used = IF s = t THEN TRUE ELSE tokens[s].used
  <2> HIDE DEF row
  <2> DEFINE new == Append([tokens EXCEPT ![t].used = TRUE], row)
  <2>1. /\ DOMAIN new = 1..(Len(tokens) + 1) /\ new[Len(tokens) + 1] = row
        /\ \A s \in DOMAIN tokens :
              /\ new[s].user = tokens[s].user /\ new[s].family = tokens[s].family
              /\ new[s].created = tokens[s].created /\ new[s].revoked = tokens[s].revoked
              /\ new[s].used = IF s = t THEN TRUE ELSE tokens[s].used
    BY <1>1, <1>4, RotatedFacts, ZenonT(60)
  <2>2. 1..n = DOMAIN tokens \cup {n}
    BY <1>02, <1>03, FieldTypes
  <2> HIDE DEF new
  <2>3. tokens' = new
    BY <1>3 DEF new
  <2> QED
    BY <1>02, <2>1, <2>2, <2>3
<1>6. /\ req'[r].loc = "respond" /\ req'[r].tok = n /\ req'[r].held = {}
      /\ req'[r].todo = {} /\ \A q \in Requests : q # r => req'[q] = req[q]
  <2> DEFINE rec == [Idle EXCEPT !.loc = "respond", !.old = t, !.tok = n]
  <2>1. t \in Nat
    BY <1>1, FieldTypes
  <2>2. rec \in Request /\ rec.loc = "respond" /\ rec.tok = n /\ rec.held = {} /\ rec.todo = {}
    BY <1>03, <2>1, IdleType DEF Request
  <2>3. req' = [req EXCEPT ![r] = rec]
    BY <1>3
  <2> HIDE DEF rec
  <2> QED
    BY <2>2, <2>3, RequestFacts
<1> HIDE DEF row
<1>7. /\ Live(n)'
      /\ \A v \in DOMAIN tokens : Live(v)' <=> Live(v) /\ v # t
  BY <1>4, <1>5 DEF Live
<1>8. TokensInv'
  <2>0. AbsoluteSeconds \in Nat /\ \A s \in DOMAIN tokens : tokens[s].created \in Nat
    BY Constants, FieldTypes DEF Token
  <2>1. ASSUME NEW s \in DOMAIN tokens'
        PROVE  LET g == tokens'[s].family
               IN  /\ g \in DOMAIN tokens' /\ tokens'[g].family = g /\ tokens'[g].user = tokens'[s].user
                   /\ tokens'[g].created <= tokens'[s].created /\ tokens'[s].created <= now
                   /\ tokens'[s].created <= tokens'[g].created + AbsoluteSeconds
    <3>1. CASE s = n
      <4>1. tokens'[s].family = f /\ tokens'[s].created = now /\ tokens'[s].user = tokens[t].user
        BY <1>4, <1>5, <3>1
      <4>2. /\ f \in DOMAIN tokens' /\ tokens'[f].family = f /\ tokens'[f].user = tokens[t].user
            /\ tokens'[f].created = tokens[f].created
        BY <1>2, <1>5
      <4> QED
        BY <1>03, <1>1, <1>2, <4>1, <4>2
    <3>2. CASE s \in DOMAIN tokens
      <4> DEFINE g == tokens[s].family
      <4>1. /\ g \in DOMAIN tokens /\ tokens[g].family = g /\ tokens[g].user = tokens[s].user
            /\ tokens[g].created <= tokens[s].created /\ tokens[s].created <= now
            /\ tokens[s].created <= tokens[g].created + AbsoluteSeconds
        BY <3>2 DEF TokensInv
      <4>2. /\ tokens'[s].family = g /\ tokens'[s].created = tokens[s].created
            /\ tokens'[s].user = tokens[s].user
            /\ tokens'[g].family = tokens[g].family /\ tokens'[g].created = tokens[g].created
            /\ tokens'[g].user = tokens[g].user /\ g \in DOMAIN tokens'
        BY <1>5, <3>2, <4>1
      <4> HIDE DEF g
      <4> QED
        BY <4>1, <4>2
    <3> QED
      BY <1>5, <3>1, <3>2
  <2>2. \A s \in DOMAIN tokens : tokens[s].family = f /\ ~tokens[s].used => s = t
    BY <1>01, <1>1 DEF TokensInv, Live
  <2>3. \A s, v \in DOMAIN tokens' :
           tokens'[s].family = tokens'[v].family /\ ~tokens'[s].used /\ ~tokens'[v].used => s = v
    <3> SUFFICES ASSUME NEW s \in DOMAIN tokens', NEW v \in DOMAIN tokens', ~tokens'[s].used,
                        tokens'[s].family = tokens'[v].family, ~tokens'[v].used
                 PROVE  s = v
      OBVIOUS
    <3>1. \A w \in DOMAIN tokens : ~tokens'[w].used => w # t /\ ~tokens[w].used /\ tokens[w].family # f
      BY <1>5, <2>2
    <3>2. CASE s = n \/ v = n
      BY <1>4, <1>5, <3>1, <3>2
    <3>3. CASE s \in DOMAIN tokens /\ v \in DOMAIN tokens
      BY <1>5, <3>1, <3>3 DEF TokensInv
    <3> QED
      BY <1>5, <3>2, <3>3
  <2>4. ended' \subseteq DOMAIN tokens'
    BY <1>3, <1>5 DEF TokensInv
  <2> QED
    BY <1>3, <2>1, <2>3, <2>4 DEF TokensInv
<1>9. ASSUME NEW q \in Requests PROVE LockOk(q)'
  <2>1. LockOk(q)
    BY <1>0
  <2>2. CASE q = r
    BY <1>5, <1>6, <2>2 DEF LockOk
  <2>3. CASE q # r
    <3>1. req'[q] = req[q] /\ t \notin req[q].held
      BY <1>0, <1>1, <1>6, <2>3 DEF Apart
    <3>2. req[q].loc = "revoke" =>
             \A s \in req[q].todo, v \in DOMAIN tokens' :
                tokens'[s].family = tokens'[v].family /\ Live(v)' =>
                    v \in req[q].todo \/ tokens'[v].family \in raced'
      <4>1. SUFFICES ASSUME req[q].loc = "revoke", NEW s \in req[q].todo, NEW v \in DOMAIN tokens',
                            tokens'[s].family = tokens'[v].family, Live(v)'
                     PROVE  v \in req[q].todo \/ tokens'[v].family \in raced'
        OBVIOUS
      <4>2. s \in DOMAIN tokens /\ tokens'[s].family = tokens[s].family
        BY <1>5, <2>1 DEF LockOk
      <4>3. CASE v = n
        <5>1. tokens'[v].family = f /\ s \in Family(f)
          BY <1>4, <1>5, <4>1, <4>2, <4>3 DEF Family
        <5> QED
          BY <1>3, <4>1, <5>1
      <4>4. CASE v \in DOMAIN tokens
        <5>1. Live(v) /\ tokens'[v].family = tokens[v].family
          BY <1>5, <1>7, <4>1, <4>4
        <5> QED
          BY <1>3, <2>1, <4>1, <4>2, <4>4, <5>1 DEF LockOk
      <4> QED
        BY <1>5, <4>3, <4>4
    <3> DEFINE s == req[q].tok
    <3>3. req[q].loc = "rotate" =>
             /\ ~tokens'[s].used /\ ~tokens'[s].revoked
             /\ now <= tokens'[tokens'[s].family].created + AbsoluteSeconds
      <4>1. SUFFICES ASSUME req[q].loc = "rotate"
                     PROVE  /\ ~tokens'[s].used /\ ~tokens'[s].revoked
                            /\ now <= tokens'[tokens'[s].family].created + AbsoluteSeconds
        OBVIOUS
      <4>2. /\ s \in DOMAIN tokens /\ s # t /\ ~tokens[s].used /\ ~tokens[s].revoked
            /\ now <= tokens[tokens[s].family].created + AbsoluteSeconds
        BY <2>1, <3>1, <4>1 DEF LockOk, Live, CounterOf
      <4>3. /\ tokens'[s].used = tokens[s].used /\ tokens'[s].revoked = tokens[s].revoked
            /\ tokens'[s].family = tokens[s].family
        BY <1>5, <4>2
      <4>4. tokens'[tokens[s].family].created = tokens[tokens[s].family].created
        BY <1>5, <4>2 DEF TokensInv
      <4> QED
        BY <4>2, <4>3, <4>4
    <3>4. /\ req[q].todo \subseteq DOMAIN tokens'
          /\ req[q].loc \in {"register", "keys", "verify", "issue"} => req[q].user \in Users
          /\ req[q].loc = "verify" => CounterOf(q) \in Counters
          /\ req[q].loc \in {"respond", "read", "rotate", "logout"} => s \in DOMAIN tokens'
          /\ req[q].loc \in {"read", "logout"} => req[q].todo = {s}
          /\ req[q].loc = "rotate" => s \in req[q].held
      BY <1>5, <2>1 DEF LockOk
    <3> QED
      BY <1>3, <3>1, <3>2, <3>3, <3>4 DEF LockOk, Live, CounterOf
  <2> QED
    BY <2>2, <2>3
<1>10. Apart'
  BY <1>0, <1>6 DEF Apart
<1>11. EndedStaysEnded'
  <2>1. f \notin ended \ raced
    BY <1>01, <1>1 DEF EndedStaysEnded
  <2> QED
    BY <1>3, <1>4, <1>5, <1>7, <2>1 DEF EndedStaysEnded
<1> QED
  BY <1>8, <1>9, <1>10, <1>11, LocksPartsNext

(* The passing of time disturbs no rotation, for none is under way, and a  *)
(* crash lets go of what its requests held.                                *)
LEMMA TickCrashRows ==
    ASSUME SessionsType, TokensInv, LocksInv, EndedStaysEnded, Tick \/ \E p \in Processes : Crash(p)
    PROVE  TokensInv' /\ LocksInv' /\ EndedStaysEnded'
<1>0. /\ Apart /\ \A q \in Requests : LockOk(q)
  BY LocksParts
<1>1. UNCHANGED <<tokens, ended, raced>> /\ (now' = now \/ now' = now + 1)
  BY DEF Tick, Crash, db, hist
<1>2. EndedStaysEnded'
  BY <1>1 DEF EndedStaysEnded, Live
<1>3. TokensInv'
  <2>1. \A t \in DOMAIN tokens : tokens[t].created <= now'
    <3>1. \A t \in DOMAIN tokens : tokens[t].created \in Nat /\ tokens[t].created <= now
      BY FieldTypes DEF Token, TokensInv
    <3>2. now \in Nat
      BY DEF SessionsType
    <3> QED
      BY <1>1, <3>1, <3>2
  <2> QED
    BY <1>1, <2>1 DEF TokensInv
<1>4. CASE Tick
  <2>1. req' = req /\ \A q \in Requests : req[q].loc # "rotate"
    BY <1>4 DEF Tick
  <2>2. ASSUME NEW q \in Requests PROVE LockOk(q)'
    <3>1. LockOk(q) /\ req[q].loc # "rotate"
      BY <1>0, <2>1
    <3> QED
      BY <1>1, <2>1, <3>1 DEF LockOk, Live, CounterOf
  <2>3. Apart'
    BY <1>0, <2>1 DEF Apart
  <2> QED
    BY <1>2, <1>3, <2>2, <2>3, LocksPartsNext
<1>5. CASE \E p \in Processes : Crash(p)
  <2>1. PICK gone : req' = [q \in Requests |-> IF q \in gone THEN Idle ELSE req[q]]
    BY <1>5 DEF Crash
  <2>2. now' = now
    BY <1>5 DEF Crash
  <2>3. ASSUME NEW q \in Requests PROVE LockOk(q)'
    <3>1. CASE req'[q] = Idle
      BY <3>1, IdleOk
    <3>2. CASE req'[q] = req[q]
      BY <1>0, <1>1, <2>2, <3>2 DEF LockOk, Live, CounterOf
    <3> QED
      BY <2>1, <3>1, <3>2
  <2>4. Apart'
    <3>1. \A q \in Requests : req'[q].held \subseteq req[q].held
      BY <2>1, IdleType
    <3> QED
      BY <1>0, <3>1 DEF Apart
  <2> QED
    BY <1>2, <1>3, <2>3, <2>4, LocksPartsNext
<1> QED
  BY <1>4, <1>5

(* Every step keeps the invariants of the rows and of the locks. *)
LEMMA RowsStep ==
    SessionsType /\ TokensInv /\ LocksInv /\ EndedStaysEnded /\ [Next]_vars =>
        TokensInv' /\ LocksInv' /\ EndedStaysEnded'
<1> SUFFICES ASSUME SessionsType, TokensInv, LocksInv, EndedStaysEnded, [Next]_vars
             PROVE  TokensInv' /\ LocksInv' /\ EndedStaysEnded'
  OBVIOUS
<1>1. CASE UNCHANGED vars
  BY <1>1 DEF vars, db, hist, TokensInv, LocksInv, EndedStaysEnded, Live, CounterOf
<1>2. ASSUME NEW r \in Requests, Step(r) \/ RefreshBegin(r) \/ LogoutBegin(r)
      PROVE  TokensInv' /\ LocksInv' /\ EndedStaysEnded'
  BY <1>2, RowsUntouched, RevokeStep, IssueStep, RotateStep DEF Step
<1>3. ASSUME NEW r \in Requests,
             \/ \E u \in Users : RegisterLookup(r, u) \/ LogoutAllBegin(r, u)
             \/ \E p \in Processes, u \in Users, a \in Addresses : CheckRateLimit(r, p, u, a)
      PROVE  TokensInv' /\ LocksInv' /\ EndedStaysEnded'
  BY <1>3, RowsUntouched
<1> QED
  BY <1>1, <1>2, <1>3, TickCrashRows DEF Next


-----------------------------------------------------------------------------
(* Guesses *)

(* What GuessesInv says of a counter: of its wrong guesses w, its counted  *)
(* failures f and the end l of its lockout, at time t.                     *)
Counted(w, f, l, t) ==
    /\ \A i, j \in DOMAIN w : i <= j => w[i] <= w[j]
    /\ \A i \in DOMAIN w : w[i] <= t
    /\ Len(w) - Len(f) >= 0 /\ Len(f) < MaxAttempts
    /\ \A i \in DOMAIN f : f[i] = w[Len(w) - Len(f) + i]
    /\ \A i \in 1..(Len(w) - Len(f)) :
          t - w[i] >= FailWindow \/ w[i] + LockoutSeconds <= l

Room(c) == Len(Recent(wrong[c])) + Cardinality(Verifying(c)) < MaxAttempts + Cardinality(Requests)

(* The parts of GuessesInv. *)
LEMMA GuessParts ==
    GuessesInv <=> \A c \in Counters : Counted(wrong[c], fails[c], lockedTill[c], now) /\ Room(c)
BY DEF GuessesInv, Counted, Room, InOrder

(* The same in the next state. *)
LEMMA GuessPartsNext ==
    (GuessesInv <=> \A c \in Counters : Counted(wrong[c], fails[c], lockedTill[c], now) /\ Room(c))'
BY GuessParts, PTL

(* How many of the times are recent. *)
LEMMA RecentLength ==
    now \in Nat =>
        \A times \in Seq(Nat) : InOrder(times) =>
            \E n \in 0..Len(times) :
                /\ Len(Recent(times)) = Len(times) - n
                /\ \A i \in DOMAIN times : now - times[i] >= FailWindow <=> i <= n
<1> SUFFICES ASSUME now \in Nat, NEW times \in Seq(Nat), InOrder(times)
             PROVE  \E n \in 0..Len(times) :
                       /\ Len(Recent(times)) = Len(times) - n
                       /\ \A i \in DOMAIN times : now - times[i] >= FailWindow <=> i <= n
  OBVIOUS
<1> QED
  BY RecentSplit

(* The same in the next state. *)
LEMMA RecentLengthNext ==
    (now \in Nat =>
        \A times \in Seq(Nat) : InOrder(times) =>
            \E n \in 0..Len(times) :
                /\ Len(Recent(times)) = Len(times) - n
                /\ \A i \in DOMAIN times : now - times[i] >= FailWindow <=> i <= n)'
BY RecentLength, PTL

(* Numbers of a sequence of times. *)
LEMMA TimesFacts ==
    ASSUME NEW w \in Seq(Nat)
    PROVE  DOMAIN w = 1..Len(w) /\ Len(w) \in Nat /\ \A i \in 1..Len(w) : w[i] \in Nat
OBVIOUS

(* Places in the two sequences of a counter.  *)
LEMMA Places ==
    ASSUME NEW a \in Nat, NEW b \in Nat, NEW c \in Nat, NEW m \in Nat, NEW n \in Nat,
           c = b - a, n <= c + m, NEW i \in 1..(a - m)
    PROVE  /\ m + i \in 1..a /\ c + (m + i) = c + m + i /\ c + m + i \in 1..b
           /\ c + m - n + i \in 1..(b - n) /\ n + (c + m - n + i) = c + m + i
OBVIOUS

(* Dropping what is out of the window, and a lockout that is over, leaves  *)
(* the counter well counted.                                               *)
LEMMA ExpireCounted ==
    ASSUME now \in Nat, NEW w \in Seq(Nat), NEW f \in Seq(Nat), NEW l \in Nat, NEW k,
           Counted(w, f, l, now), k = IF now < l THEN l ELSE 0
    PROVE  Counted(w, Recent(f), k, now) /\ Counted(Recent(w), Recent(f), k, now)
<1>0. /\ FailWindow \in Nat \ {0} /\ LockoutSeconds \in Nat \ {0} /\ MaxAttempts \in Nat
      /\ FailWindow <= LockoutSeconds
  BY Constants
<1>1. /\ DOMAIN w = 1..Len(w) /\ Len(w) \in Nat /\ \A i \in 1..Len(w) : w[i] \in Nat
      /\ DOMAIN f = 1..Len(f) /\ Len(f) \in Nat /\ \A i \in 1..Len(f) : f[i] \in Nat
  BY TimesFacts
<1>2. PICK c \in Nat : c = Len(w) - Len(f)
  <2>1. Len(w) - Len(f) >= 0
    BY DEF Counted
  <2>2. Len(w) - Len(f) \in Nat
    BY <1>1, <2>1
  <2> QED
    BY <2>2
<1>3. /\ \A i, j \in 1..Len(w) : i <= j => w[i] <= w[j]
      /\ \A i \in 1..Len(w) : w[i] <= now
      /\ Len(f) < MaxAttempts
      /\ \A i \in 1..Len(f) : f[i] = w[c + i]
      /\ \A i \in 1..c : now - w[i] >= FailWindow \/ w[i] + LockoutSeconds <= l
  BY <1>1, <1>2 DEF Counted
<1>4. InOrder(w)
  BY <1>1, <1>3 DEF InOrder
<1>5. InOrder(f)
  <2>1. ASSUME NEW i \in 1..Len(f), NEW j \in 1..Len(f), i <= j PROVE f[i] <= f[j]
    <3>1. c + i \in 1..Len(w) /\ c + j \in 1..Len(w) /\ c + i <= c + j
      BY <1>1, <1>2, <2>1
    <3> QED
      BY <1>3, <3>1
  <2>2. ASSUME NEW i \in 1..Len(f) PROVE f[i] <= now
    <3>1. c + i \in 1..Len(w)
      BY <1>1, <1>2
    <3> QED
      BY <1>3, <3>1
  <2> QED
    BY <1>1, <2>1, <2>2 DEF InOrder
<1>6. PICK n \in 0..Len(w) :
         /\ Recent(w) \in Seq(Nat) /\ Len(Recent(w)) = Len(w) - n
         /\ \A i \in 1..(Len(w) - n) : Recent(w)[i] = w[n + i]
         /\ \A i \in DOMAIN w : now - w[i] >= FailWindow <=> i <= n
  BY <1>4, RecentSplit
<1>7. PICK m \in 0..Len(f) :
         /\ Recent(f) \in Seq(Nat) /\ Len(Recent(f)) = Len(f) - m
         /\ \A i \in 1..(Len(f) - m) : Recent(f)[i] = f[m + i]
         /\ \A i \in DOMAIN f : now - f[i] >= FailWindow <=> i <= m
  BY <1>5, RecentSplit
<1>8. PICK rw, rf : rw = Recent(w) /\ rf = Recent(f)
  OBVIOUS
<1>9. /\ rw \in Seq(Nat) /\ Len(rw) = Len(w) - n /\ DOMAIN rw = 1..(Len(w) - n)
      /\ \A i \in 1..(Len(w) - n) : rw[i] = w[n + i]
      /\ rf \in Seq(Nat) /\ Len(rf) = Len(f) - m /\ DOMAIN rf = 1..(Len(f) - m)
      /\ \A i \in 1..(Len(f) - m) : rf[i] = f[m + i]
  BY <1>6, <1>7, <1>8, TimesFacts
<1>10. /\ \A i \in 1..Len(w) : now - w[i] >= FailWindow <=> i <= n
       /\ \A i \in 1..Len(f) : now - f[i] >= FailWindow <=> i <= m
  BY <1>1, <1>6, <1>7
<1>11. n \in Nat /\ m \in Nat /\ n <= Len(w) /\ m <= Len(f)
  BY <1>1
<1>12. n - c <= m
  <2>1. CASE n <= c
    BY <1>2, <1>11, <2>1
  <2>2. CASE ~(n <= c)
    <3>1. n - c \in 1..Len(f) /\ n \in 1..Len(w) /\ c + (n - c) = n
      BY <1>1, <1>2, <1>11, <2>2
    <3>2. f[n - c] = w[n]
      BY <1>3, <3>1
    <3> QED
      BY <1>10, <1>11, <3>1, <3>2, SMTT(30)
  <2> QED
    BY <2>1, <2>2
<1>121. n <= c + m
  BY <1>2, <1>11, <1>12
<1>122. \A i \in 1..(Len(f) - m) :
           /\ m + i \in 1..Len(f) /\ c + (m + i) = c + m + i /\ c + m + i \in 1..Len(w)
           /\ c + m - n + i \in 1..(Len(w) - n) /\ n + (c + m - n + i) = c + m + i
  <2>1. PICK a \in Nat, b \in Nat : a = Len(f) /\ b = Len(w)
    BY <1>1
  <2>2. c = b - a
    BY <1>2, <2>1
  <2>3. \A i \in 1..(a - m) :
           /\ m + i \in 1..a /\ c + (m + i) = c + m + i /\ c + m + i \in 1..b
           /\ c + m - n + i \in 1..(b - n) /\ n + (c + m - n + i) = c + m + i
    BY <1>11, <1>121, <2>2, Places
  <2> QED
    BY <2>1, <2>3
<1>13. m = 0 \/ m = n - c
  <2>1. CASE m # 0
    <3>1. m \in 1..Len(f) /\ c + m \in 1..Len(w)
      BY <1>1, <1>2, <1>11, <2>1
    <3>2. now - w[c + m] >= FailWindow
      <4>1. f[m] = w[c + m] /\ m <= m
        BY <1>3, <1>11, <3>1
      <4>2. now - f[m] >= FailWindow
        BY <1>10, <3>1, <4>1
      <4> QED
        BY <4>1, <4>2
    <3>3. c + m <= n
      BY <1>10, <3>1, <3>2
    <3>4. c \in Nat /\ n \in Nat /\ m \in Nat
      BY <1>2, <1>11
    <3>5. m = n - c
      BY ONLY <1>12, <3>3, <3>4
    <3> QED
      BY <3>5
  <2> QED
    BY <2>1
<1>14. ASSUME NEW i \in 1..(c + m) PROVE now - w[i] >= FailWindow \/ w[i] + LockoutSeconds <= k
  <2>0. i \in 1..Len(w) /\ w[i] \in Nat
    BY <1>1, <1>2, <1>11
  <2>1. CASE i <= c
    <3>1. now - w[i] >= FailWindow \/ w[i] + LockoutSeconds <= l
      BY <1>2, <1>3, <2>1
    <3>2. CASE now < l
      BY <3>1, <3>2
    <3>3. CASE ~(now < l)
      BY <1>0, <2>0, <3>1, <3>3
    <3> QED
      BY <3>2, <3>3
  <2>2. CASE ~(i <= c)
    <3>1. i - c \in 1..Len(f) /\ i - c <= m /\ c + (i - c) = i
      BY <1>1, <1>2, <1>11, <2>2
    <3> QED
      BY <1>3, <1>10, <3>1
  <2> QED
    BY <2>1, <2>2
<1>15. Counted(w, rf, k, now)
  <2>1. Len(w) - Len(rf) = c + m
    BY <1>1, <1>2, <1>9, <1>11
  <2>2. ASSUME NEW i \in DOMAIN rf PROVE rf[i] = w[c + m + i]
    <3>0. i \in 1..(Len(f) - m)
      BY <1>9
    <3>1. m + i \in 1..Len(f) /\ c + (m + i) = c + m + i /\ c + m + i \in 1..Len(w)
      BY <1>122, <3>0
    <3> QED
      BY <1>3, <1>9, <3>0, <3>1
  <2>3. Len(rf) < MaxAttempts /\ c + m >= 0
    BY <1>0, <1>1, <1>2, <1>3, <1>9, <1>11
  <2> QED
    BY <1>1, <1>3, <1>14, <2>1, <2>2, <2>3 DEF Counted
<1>16. Counted(rw, rf, k, now)
  <2>1. Len(rw) - Len(rf) = c + m - n /\ c + m - n >= 0 /\ c + m - n \in Nat
    BY <1>1, <1>2, <1>9, <1>11, <1>12
  <2>2. ASSUME NEW i \in DOMAIN rf PROVE rf[i] = rw[c + m - n + i]
    <3>0. i \in 1..(Len(f) - m)
      BY <1>9
    <3>1. m + i \in 1..Len(f) /\ c + (m + i) = c + m + i /\ c + m + i \in 1..Len(w)
      BY <1>122, <3>0
    <3>2. c + m - n + i \in 1..(Len(w) - n) /\ n + (c + m - n + i) = c + m + i
      BY <1>122, <3>0
    <3>3. rf[i] = w[c + m + i]
      BY <1>3, <1>9, <3>0, <3>1
    <3>4. rw[c + m - n + i] = w[c + m + i]
      BY <1>9, <3>2
    <3> QED
      BY <3>3, <3>4
  <2>3. Len(rf) < MaxAttempts
    BY <1>0, <1>1, <1>3, <1>9, <1>11
  <2>4. ASSUME NEW i \in 1..(c + m - n)
        PROVE  now - rw[i] >= FailWindow \/ rw[i] + LockoutSeconds <= k
    <3>1. i \in 1..(Len(w) - n) /\ n + i \in 1..(c + m)
      BY <1>1, <1>2, <1>11, <2>1
    <3> QED
      BY <1>9, <1>14, <3>1
  <2>5. InOrder(rw)
    BY <1>4, <1>8, RecentInOrder
  <2> QED
    BY <2>1, <2>2, <2>3, <2>4, <2>5 DEF Counted, InOrder
<1> QED
  BY <1>8, <1>15, <1>16

(* Another failure now keeps the counter well counted, whether it is one   *)
(* more or the one that locks the counter.                                 *)
LEMMA AppendCounted ==
    ASSUME NEW w \in Seq(Nat), NEW f \in Seq(Nat), NEW l \in Nat, NEW t \in Nat, Counted(w, f, l, t)
    PROVE  /\ Counted(Append(w, t), << >>, t + LockoutSeconds, t)
           /\ Len(f) + 1 < MaxAttempts => Counted(Append(w, t), Append(f, t), l, t)
<1>0. LockoutSeconds \in Nat /\ MaxAttempts \in Nat \ {0} /\ FailWindow \in Nat
  BY Constants
<1>1. /\ DOMAIN w = 1..Len(w) /\ Len(w) \in Nat /\ \A i \in 1..Len(w) : w[i] \in Nat
      /\ DOMAIN f = 1..Len(f) /\ Len(f) \in Nat
  BY TimesFacts
<1>2. PICK a, g : a = Append(w, t) /\ g = Append(f, t)
  OBVIOUS
<1>3. /\ DOMAIN a = 1..(Len(w) + 1) /\ Len(a) = Len(w) + 1 /\ a[Len(w) + 1] = t
      /\ \A i \in 1..Len(w) : a[i] = w[i]
      /\ DOMAIN g = 1..(Len(f) + 1) /\ Len(g) = Len(f) + 1 /\ g[Len(f) + 1] = t
      /\ \A i \in 1..Len(f) : g[i] = f[i]
  BY <1>2, OneMore
<1>4. PICK c \in Nat : c = Len(w) - Len(f)
  <2>1. Len(w) - Len(f) >= 0
    BY DEF Counted
  <2>2. Len(w) - Len(f) \in Nat
    BY <1>1, <2>1
  <2> QED
    BY <2>2
<1>5. /\ \A i, j \in 1..Len(w) : i <= j => w[i] <= w[j]
      /\ \A i \in 1..Len(w) : w[i] <= t
      /\ \A i \in 1..Len(f) : f[i] = w[c + i]
      /\ \A i \in 1..c : t - w[i] >= FailWindow \/ w[i] + LockoutSeconds <= l
  BY <1>1, <1>4 DEF Counted
<1>6. /\ \A i, j \in DOMAIN a : i <= j => a[i] <= a[j]
      /\ \A i \in DOMAIN a : a[i] <= t /\ a[i] \in Nat
  <2>1. ASSUME NEW i \in DOMAIN a PROVE a[i] <= t /\ a[i] \in Nat
    <3>1. i \in 1..Len(w) \/ i = Len(w) + 1
      BY <1>1, <1>3, SMTT(30)
    <3> QED
      BY <1>1, <1>3, <1>5, <3>1
  <2>2. ASSUME NEW i \in DOMAIN a, NEW j \in DOMAIN a, i <= j PROVE a[i] <= a[j]
    <3>1. CASE j = Len(w) + 1
      BY <1>3, <2>1, <3>1
    <3>2. CASE j # Len(w) + 1
      <4>1. i \in 1..Len(w) /\ j \in 1..Len(w)
        BY <1>1, <1>3, <2>2, <3>2
      <4> QED
        BY <1>3, <1>5, <2>2, <4>1
    <3> QED
      BY <3>1, <3>2
  <2> QED
    BY <2>1, <2>2
<1>7. Counted(a, << >>, t + LockoutSeconds, t)
  <2>1. Len(<< >>) = 0 /\ DOMAIN << >> = {} /\ Len(a) - 0 >= 0 /\ 0 < MaxAttempts /\ Len(a) \in Nat
    BY <1>0, <1>1, <1>3
  <2>2. ASSUME NEW i \in 1..(Len(a) - 0) PROVE a[i] + LockoutSeconds <= t + LockoutSeconds
    <3>1. i \in DOMAIN a
      BY <1>1, <1>3
    <3>2. a[i] <= t /\ a[i] \in Nat
      BY <1>6, <3>1
    <3> QED
      BY <1>0, <3>2
  <2> QED
    BY <1>6, <2>1, <2>2 DEF Counted
<1>8. ASSUME Len(f) + 1 < MaxAttempts PROVE Counted(a, g, l, t)
  <2>1. Len(a) - Len(g) = c /\ c >= 0 /\ Len(g) < MaxAttempts
    BY <1>1, <1>3, <1>4, <1>8
  <2>2. ASSUME NEW i \in DOMAIN g PROVE g[i] = a[c + i]
    <3>1. CASE i \in 1..Len(f)
      <4>1. c + i \in 1..Len(w)
        BY <1>1, <1>4, <3>1
      <4> QED
        BY <1>3, <1>5, <3>1, <4>1
    <3>2. CASE i = Len(f) + 1
      <4>1. c + i = Len(w) + 1
        BY <1>1, <1>4, <3>2
      <4> QED
        BY <1>3, <3>2, <4>1
    <3> QED
      BY <1>1, <1>3, <3>1, <3>2
  <2>3. ASSUME NEW i \in 1..c PROVE t - a[i] >= FailWindow \/ a[i] + LockoutSeconds <= l
    <3>1. i \in 1..Len(w)
      BY <1>1, <1>4
    <3> QED
      BY <1>3, <1>5, <3>1
  <2> QED
    BY <1>6, <2>1, <2>2, <2>3 DEF Counted
<1> QED
  BY <1>2, <1>7, <1>8

(* A counter that is not locked has fewer recent guesses than attempts.    *)
LEMMA OpenAccount ==
    ASSUME now \in Nat, NEW w \in Seq(Nat), NEW f \in Seq(Nat), Counted(w, f, 0, now)
    PROVE  Len(Recent(w)) < MaxAttempts
<1>0. LockoutSeconds \in Nat \ {0} /\ MaxAttempts \in Nat
  BY Constants
<1>1. /\ DOMAIN w = 1..Len(w) /\ Len(w) \in Nat /\ \A i \in 1..Len(w) : w[i] \in Nat
      /\ Len(f) \in Nat
  BY TimesFacts
<1>2. PICK c \in Nat : c = Len(w) - Len(f)
  <2>1. Len(w) - Len(f) >= 0
    BY DEF Counted
  <2>2. Len(w) - Len(f) \in Nat
    BY <1>1, <2>1
  <2> QED
    BY <2>2
<1>3. /\ InOrder(w) /\ Len(f) < MaxAttempts
      /\ \A i \in 1..c : now - w[i] >= FailWindow \/ w[i] + LockoutSeconds <= 0
  BY <1>1, <1>2 DEF Counted, InOrder
<1>4. PICK n \in 0..Len(w) :
         /\ Len(Recent(w)) = Len(w) - n
         /\ \A i \in DOMAIN w : now - w[i] >= FailWindow <=> i <= n
  BY <1>3, RecentSplit
<1>5. c <= n
  <2>1. CASE c = 0
    BY <1>1, <2>1
  <2>2. CASE c # 0
    <3>1. c \in 1..c /\ c \in 1..Len(w)
      BY <1>1, <1>2, <2>2
    <3>2. ~(w[c] + LockoutSeconds <= 0)
      BY <1>0, <1>1, <3>1
    <3> QED
      BY <1>1, <1>3, <1>4, <3>1, <3>2
  <2> QED
    BY <2>1, <2>2
<1> QED
  BY <1>0, <1>1, <1>2, <1>3, <1>4, <1>5


(* A set of requests is finite. *)
LEMMA SomeRequests ==
    ASSUME NEW S, S \subseteq Requests
    PROVE  IsFiniteSet(S) /\ Cardinality(S) \in Nat /\ Cardinality(S) <= Cardinality(Requests)
<1>1. IsFiniteSet(S) /\ Cardinality(S) <= Cardinality(Requests)
  BY Constants, FS_Subset
<1> QED
  BY <1>1, FS_CardinalityType

(* Fewer requests are fewer. *)
LEMMA FewerRequests ==
    ASSUME NEW S, S \subseteq Requests, NEW T, T \subseteq S
    PROVE  Cardinality(T) \in Nat /\ Cardinality(S) \in Nat /\ Cardinality(T) <= Cardinality(S)
<1>1. IsFiniteSet(S) /\ Cardinality(S) \in Nat /\ T \subseteq Requests
  BY SomeRequests
<1>2. Cardinality(T) \in Nat
  BY <1>1, SomeRequests
<1>3. Cardinality(T) <= Cardinality(S)
  BY <1>1, FS_Subset
<1> QED
  BY <1>1, <1>2, <1>3

(* What is known of a counter.  *)
LEMMA AccountFacts ==
    ASSUME SessionsType, GuessesInv, NEW c \in Counters
    PROVE  /\ now \in Nat /\ wrong[c] \in Seq(Nat) /\ fails[c] \in Seq(Nat) /\ lockedTill[c] \in Nat
           /\ Counted(wrong[c], fails[c], lockedTill[c], now) /\ Room(c)
           /\ InOrder(wrong[c]) /\ Len(Recent(wrong[c])) \in Nat
<1>1. /\ now \in Nat /\ wrong[c] \in Seq(Nat) /\ fails[c] \in Seq(Nat) /\ lockedTill[c] \in Nat
  BY DEF SessionsType
<1>2. Counted(wrong[c], fails[c], lockedTill[c], now) /\ Room(c)
  BY GuessParts
<1>3. InOrder(wrong[c]) /\ Recent(wrong[c]) \in Seq(Nat)
  BY FailsInOrder
<1>4. Len(Recent(wrong[c])) \in Nat
  BY <1>3, TimesFacts
<1> QED
  BY <1>1, <1>2, <1>3, <1>4

(* A counter whose guesses are as they were, and with no more passwords    *)
(* being verified, stays within the bound.                                 *)
LEMMA RoomKept ==
    ASSUME SessionsType, GuessesInv, NEW c \in Counters, wrong'[c] = wrong[c], now' = now,
           Verifying(c)' \subseteq Verifying(c)
    PROVE  Room(c)'
<1>1. Len(Recent(wrong[c]))' = Len(Recent(wrong[c]))
  BY DEF Recent
<1>2. PICK S, T : S = Verifying(c) /\ T = Verifying(c)'
  OBVIOUS
<1>3. S \subseteq Requests /\ T \subseteq S
  BY <1>2 DEF Verifying
<1>4. Cardinality(T) \in Nat /\ Cardinality(S) \in Nat /\ Cardinality(T) <= Cardinality(S)
  BY <1>3, FewerRequests
<1>5. Len(Recent(wrong[c])) \in Nat
  BY AccountFacts
<1>6. Len(Recent(wrong[c])) + Cardinality(S) < MaxAttempts + Cardinality(Requests)
  BY <1>2, AccountFacts DEF Room
<1>7. MaxAttempts \in Nat /\ Cardinality(Requests) \in Nat
  BY Constants
<1>8. Len(Recent(wrong[c])) + Cardinality(T) < MaxAttempts + Cardinality(Requests)
  BY <1>4, <1>5, <1>6, <1>7
<1> QED
  BY <1>1, <1>2, <1>8 DEF Room

(* A step that has nothing to do with passwords keeps the guesses bounded. *)
LEMMA QuietGuesses ==
    ASSUME SessionsType, GuessesInv, UNCHANGED <<now, fails, wrong, lockedTill>>,
           NEW r \in Requests, \A q \in Requests : q # r => req'[q] = req[q],
           req'[r].loc # "verify" \/ (req'[r].loc = req[r].loc /\ CounterOf(r)' = CounterOf(r))
    PROVE  GuessesInv'
<1>1. ASSUME NEW c \in Counters PROVE Counted(wrong[c], fails[c], lockedTill[c], now)' /\ Room(c)'
  <2>1. Verifying(c)' \subseteq Verifying(c)
    BY DEF Verifying, CounterOf
  <2>2. Room(c)'
    BY <2>1, RoomKept
  <2>3. Counted(wrong[c], fails[c], lockedTill[c], now)
    BY AccountFacts
  <2> QED
    BY <2>2, <2>3
<1> QED
  BY <1>1, GuessPartsNext

(* Every step but those of login, of the clock and a crash is of that      *)
(* kind.                                                                   *)
LEMMA OtherGuesses ==
    ASSUME SessionsType, GuessesInv, NEW r \in Requests,
           \/ LockRow(r) \/ DeadlockAbort(r) \/ RegisterCommit(r) \/ RegisterKeys(r)
           \/ CreateRefreshToken(r) \/ LoginRespond(r) \/ RefreshRespond(r) \/ RotateDecide(r)
           \/ RotateCommit(r) \/ RevokeCommit(r) \/ LogoutCommit(r) \/ RefreshBegin(r) \/ LogoutBegin(r)
           \/ \E u \in Users : RegisterLookup(r, u) \/ LogoutAllBegin(r, u)
    PROVE  GuessesInv'
<1> DEFINE Rest == UNCHANGED <<now, fails, wrong, lockedTill>>
<1>0. req \in [Requests -> Request] /\ req[r] \in Request
  BY FieldTypes DEF SessionsType
<1>1. ASSUME Rest, NEW rec, req' = [req EXCEPT ![r] = rec],
             \/ rec.loc # "verify"
             \/ rec.loc = req[r].loc /\ <<rec.at, rec.user, rec.from>> = CounterOf(r)
      PROVE  GuessesInv'
  <2>1. req'[r] = rec /\ \A q \in Requests : q # r => req'[q] = req[q]
    BY <1>0, <1>1
  <2> QED
    BY <1>1, <2>1, QuietGuesses DEF CounterOf
<1>2. ASSUME Rest, Return(r) PROVE GuessesInv'
  <2>1. Idle.loc # "verify"
    BY DEF Idle
  <2> QED
    BY <1>1, <1>2, <2>1 DEF Return
<1>3. ASSUME Rest, NEW loc \in {"keys", "rotate"}, Goto(r, loc) PROVE GuessesInv'
  <2>1. req'[r].loc = loc /\ \A q \in Requests : q # r => req'[q] = req[q]
    BY <1>3, GotoFacts
  <2> QED
    BY <1>3, <2>1, QuietGuesses
<1>4. CASE LockRow(r)
  <2>1. PICK t \in req[r].todo \ req[r].held : req' = [req EXCEPT ![r].held = @ \cup {t}]
    BY <1>4 DEF LockRow
  <2> DEFINE rec == [req[r] EXCEPT !.held = @ \cup {t}]
  <2>2. req' = [req EXCEPT ![r] = rec] /\ rec.loc = req[r].loc
        /\ <<rec.at, rec.user, rec.from>> = CounterOf(r)
    BY <1>0, <2>1 DEF Request, CounterOf
  <2>3. Rest
    BY <1>4 DEF LockRow, guard
  <2> HIDE DEF rec
  <2> QED
    BY <1>1, <2>2, <2>3
<1>5. CASE DeadlockAbort(r) \/ RegisterKeys(r) \/ LoginRespond(r) \/ RefreshRespond(r)
           \/ RevokeCommit(r) \/ LogoutCommit(r)
  BY <1>2, <1>5 DEF DeadlockAbort, RegisterKeys, LoginRespond, RefreshRespond, Cookies, RevokeCommit,
                    LogoutCommit, guard
<1>6. CASE RegisterCommit(r)
  BY <1>2, <1>3, <1>6 DEF RegisterCommit, guard
<1>7. CASE CreateRefreshToken(r)
  <2> DEFINE rec == [req[r] EXCEPT !.loc = "respond", !.tok = Len(tokens) + 1]
  <2>1. req' = [req EXCEPT ![r] = rec] /\ rec.loc = "respond"
    BY <1>0, <1>7 DEF CreateRefreshToken, Request
  <2>2. Rest
    BY <1>7 DEF CreateRefreshToken, guard
  <2> HIDE DEF rec
  <2> QED
    BY <1>1, <2>1, <2>2
<1>8. CASE RotateCommit(r)
  <2> DEFINE rec == [Idle EXCEPT !.loc = "respond", !.old = req[r].tok, !.tok = Len(tokens) + 1]
  <2>1. req' = [req EXCEPT ![r] = rec] /\ rec.loc = "respond"
    BY <1>8 DEF RotateCommit, Idle
  <2>2. Rest
    BY <1>8 DEF RotateCommit, guard
  <2> HIDE DEF rec
  <2> QED
    BY <1>1, <2>1, <2>2
<1>9. CASE RotateDecide(r)
  <2>1. \/ Return(r) \/ Goto(r, "rotate")
        \/ \E F : req' = [req EXCEPT ![r].loc = "revoke", ![r].todo = F]
    BY <1>9 DEF RotateDecide
  <2>2. Rest
    BY <1>9 DEF RotateDecide, guard
  <2>3. ASSUME NEW F, req' = [req EXCEPT ![r].loc = "revoke", ![r].todo = F] PROVE GuessesInv'
    <3> DEFINE rec == [req[r] EXCEPT !.loc = "revoke", !.todo = F]
    <3>1. req' = [req EXCEPT ![r] = rec] /\ rec.loc = "revoke"
      BY <1>0, <2>3 DEF Request
    <3> HIDE DEF rec
    <3> QED
      BY <1>1, <2>2, <3>1
  <2> QED
    BY <1>2, <1>3, <2>1, <2>2, <2>3
<1>10. ASSUME Rest, NEW rec, Begin(r, rec), rec.loc # "verify" PROVE GuessesInv'
  BY <1>1, <1>10 DEF Begin
<1>11. CASE RefreshBegin(r) \/ LogoutBegin(r)
  <2>1. PICK t \in known, loc \in {"read", "logout"} :
           Begin(r, [Idle EXCEPT !.loc = loc, !.tok = t, !.todo = {t}])
    BY <1>11 DEF RefreshBegin, LogoutBegin
  <2>2. Rest
    BY <1>11 DEF RefreshBegin, LogoutBegin, guard
  <2> DEFINE rec == [Idle EXCEPT !.loc = loc, !.tok = t, !.todo = {t}]
  <2>3. rec.loc # "verify"
    BY IdleType DEF Request
  <2>4. Begin(r, rec)
    BY <2>1
  <2> HIDE DEF rec
  <2> QED
    BY <1>10, <2>2, <2>3, <2>4
<1>12. ASSUME NEW u \in Users, RegisterLookup(r, u) PROVE GuessesInv'
  <2> DEFINE rec == [Idle EXCEPT !.loc = "register", !.user = u]
  <2>1. Begin(r, rec) /\ Rest
    BY <1>12 DEF RegisterLookup, guard
  <2>2. rec.loc # "verify"
    BY IdleType DEF Request
  <2> HIDE DEF rec
  <2> QED
    BY <1>10, <2>1, <2>2
<1>13. ASSUME NEW u \in Users, LogoutAllBegin(r, u) PROVE GuessesInv'
  <2> DEFINE rows == {t \in DOMAIN tokens : tokens[t].user = u /\ ~tokens[t].revoked}
             rec == [Idle EXCEPT !.loc = "revoke", !.user = u, !.todo = rows]
  <2>1. Begin(r, rec) /\ Rest
    BY <1>13 DEF LogoutAllBegin, guard
  <2> HIDE DEF rows
  <2>2. rec.loc # "verify"
    BY IdleType DEF Request
  <2> HIDE DEF rec
  <2> QED
    BY <1>10, <2>1, <2>2
<1> QED
  BY <1>4, <1>5, <1>6, <1>7, <1>8, <1>9, <1>11, <1>12, <1>13


(* Expiring the lockout state of a process keeps its counters well counted *)
(* and leaves those of the others.                                         *)
LEMMA ExpireStep ==
    ASSUME SessionsType, GuessesInv, NEW p, NEW d \in Counters, now' = now, wrong'[d] = wrong[d],
           fails'[d] = IF d[1] = p THEN Recent(fails[d]) ELSE fails[d],
           lockedTill'[d] = IF d[1] # p \/ now < lockedTill[d] THEN lockedTill[d] ELSE 0
    PROVE  Counted(wrong[d], fails[d], lockedTill[d], now)'
<1>1. CASE d[1] = p
  <2>1. PICK k : k = IF now < lockedTill[d] THEN lockedTill[d] ELSE 0
    OBVIOUS
  <2>2. Counted(wrong[d], Recent(fails[d]), k, now)
    BY <2>1, AccountFacts, ExpireCounted
  <2> QED
    BY <1>1, <2>1, <2>2
<1>2. CASE d[1] # p
  <2>1. Counted(wrong[d], fails[d], lockedTill[d], now)
    BY AccountFacts
  <2> QED
    BY <1>2, <2>1
<1> QED
  BY <1>1, <1>2

(* A login that starts keeps the guesses bounded: its counter is open.     *)
LEMMA CheckGuesses ==
    ASSUME SessionsType, GuessesInv, NEW r \in Requests,
           NEW p \in Processes, NEW u \in Users, NEW a \in Addresses, CheckRateLimit(r, p, u, a)
    PROVE  GuessesInv'
<1>0. PICK c \in Counters : c = <<p, u, a>> /\ c[1] = p
  <2>1. <<p, u, a>> \in Counters /\ <<p, u, a>>[1] = p
    BY DEF Counters
  <2> QED
    BY <2>1
<1>1. /\ fails' = [d \in Counters |-> IF d[1] = p THEN Recent(fails[d]) ELSE fails[d]]
      /\ lockedTill' = [d \in Counters |->
                           IF d[1] # p \/ now < lockedTill[d] THEN lockedTill[d] ELSE 0]
      /\ now' = now /\ wrong' = wrong
  BY DEF CheckRateLimit, ExpireLockoutState
<1>2. \A d \in Counters : Counted(wrong[d], fails[d], lockedTill[d], now)'
  <2> SUFFICES ASSUME NEW d \in Counters PROVE Counted(wrong[d], fails[d], lockedTill[d], now)'
    OBVIOUS
  <2>1. /\ fails'[d] = IF d[1] = p THEN Recent(fails[d]) ELSE fails[d]
        /\ lockedTill'[d] = IF d[1] # p \/ now < lockedTill[d] THEN lockedTill[d] ELSE 0
        /\ wrong'[d] = wrong[d]
    BY <1>1
  <2> QED
    BY <1>1, <2>1, ExpireStep
<1>3. CASE req' = req
  <2>1. ASSUME NEW d \in Counters PROVE Room(d)'
    <3>1. Verifying(d)' \subseteq Verifying(d)
      BY <1>3 DEF Verifying, CounterOf
    <3> QED
      BY <1>1, <3>1, RoomKept
  <2> QED
    BY <1>2, <2>1, GuessPartsNext
<1> DEFINE new == [Idle EXCEPT !.loc = "verify", !.at = p, !.user = u, !.from = a]
<1>4. CASE ~(lockedTill'[c] > 0) /\ Begin(r, new)
  <2>1. new \in Request /\ <<new.at, new.user, new.from>> = c
    BY <1>0, IdleType DEF Request
  <2>2. Begin(r, new)
    BY <1>4
  <2> HIDE DEF new
  <2>3. CounterOf(r)' = c /\ \A q \in Requests : q # r => req'[q] = req[q]
    BY <2>1, <2>2, RequestFacts DEF Begin, CounterOf
  <2>4. ASSUME NEW d \in Counters, d # c PROVE Room(d)'
    <3>1. Verifying(d)' \subseteq Verifying(d)
      BY <2>3, <2>4 DEF Verifying, CounterOf
    <3> QED
      BY <1>1, <3>1, RoomKept
  <2>5. Room(c)'
    <3>1. lockedTill'[c] = 0
      <4>1. lockedTill'[c] \in Nat
        BY <1>1, AccountFacts
      <4> QED
        BY <1>4, <4>1
    <3>2. Counted(wrong[c], Recent(fails[c]), 0, now)
      <4>1. Counted(wrong'[c], fails'[c], lockedTill'[c], now')
        BY <1>2
      <4>2. wrong'[c] = wrong[c] /\ fails'[c] = Recent(fails[c])
        BY <1>0, <1>1
      <4> QED
        BY <1>1, <3>1, <4>1, <4>2
    <3>3. Len(Recent(wrong[c])) < MaxAttempts
      BY <3>2, AccountFacts, FailsInOrder, OpenAccount
    <3>4. PICK T : T = Verifying(c)'
      OBVIOUS
    <3>5. T \subseteq Requests
      BY <3>4 DEF Verifying
    <3>6. Cardinality(T) \in Nat /\ Cardinality(T) <= Cardinality(Requests)
      BY <3>5, SomeRequests
    <3>7. MaxAttempts \in Nat /\ Cardinality(Requests) \in Nat /\ Len(Recent(wrong[c])) \in Nat
      BY Constants, AccountFacts
    <3>8. Len(Recent(wrong[c])) + Cardinality(T) < MaxAttempts + Cardinality(Requests)
      BY <3>3, <3>6, <3>7
    <3>9. Len(Recent(wrong[c]))' = Len(Recent(wrong[c]))
      BY <1>1 DEF Recent
    <3> QED
      BY <3>4, <3>8, <3>9 DEF Room
  <2> QED
    BY <1>2, <2>4, <2>5, GuessPartsNext
<1>5. req' = req \/ (~(lockedTill'[c] > 0) /\ Begin(r, new))
  BY <1>0, <1>1 DEF CheckRateLimit, ExpireLockoutState
<1> QED
  BY <1>3, <1>4, <1>5

(* A wrong password counts, and its request verifies no more. *)
LEMMA FailGuesses ==
    ASSUME SessionsType, LocksInv, GuessesInv, NEW r \in Requests, LoginFails(r)
    PROVE  GuessesInv'
<1>0. PICK c : c = CounterOf(r)
  OBVIOUS
<1>1. c \in Counters /\ req[r].loc = "verify"
  BY <1>0 DEF LoginFails, LocksInv
<1>2. PICK full \in BOOLEAN :
         /\ full <=> Len(Append(Recent(fails[c]), now)) >= MaxAttempts
         /\ fails' = [[d \in Counters |-> IF d[1] = c[1] THEN Recent(fails[d]) ELSE fails[d]]
                        EXCEPT ![c] = IF full THEN << >> ELSE Append(Recent(fails[c]), now)]
         /\ lockedTill' = [[d \in Counters |->
                               IF d[1] # c[1] \/ now < lockedTill[d] THEN lockedTill[d] ELSE 0]
                             EXCEPT ![c] = IF full THEN now + LockoutSeconds ELSE @]
  BY <1>0, <1>1 DEF LoginFails, RecordFailedAttempt, ExpireLockoutState
<1>3. /\ wrong' = [wrong EXCEPT ![c] = Append(Recent(@), now)] /\ Return(r) /\ now' = now
  BY <1>0 DEF LoginFails
<1>4. req'[r].loc # "verify" /\ \A q \in Requests : q # r => req'[q] = req[q]
  BY <1>3, ReturnFacts, IdleType
<1>5. wrong \in [Counters -> Seq(Nat)]
  BY DEF SessionsType
<1>6. ASSUME NEW d \in Counters, d # c
      PROVE  Counted(wrong[d], fails[d], lockedTill[d], now)' /\ Room(d)'
  <2>1. /\ fails'[d] = IF d[1] = c[1] THEN Recent(fails[d]) ELSE fails[d]
        /\ lockedTill'[d] = IF d[1] # c[1] \/ now < lockedTill[d] THEN lockedTill[d] ELSE 0
        /\ wrong'[d] = wrong[d]
    BY <1>1, <1>2, <1>3, <1>5, <1>6
  <2>2. Verifying(d)' \subseteq Verifying(d)
    BY <1>4 DEF Verifying, CounterOf
  <2> QED
    BY <1>3, <2>1, <2>2, ExpireStep, RoomKept
<1>7. PICK w, f, k :
         /\ w = Recent(wrong[c]) /\ f = Recent(fails[c])
         /\ k = IF now < lockedTill[c] THEN lockedTill[c] ELSE 0
  OBVIOUS
<1>8. w \in Seq(Nat) /\ f \in Seq(Nat) /\ k \in Nat /\ now \in Nat /\ Counted(w, f, k, now)
  BY <1>1, <1>7, AccountFacts, FailsInOrder, ExpireCounted
<1>9. /\ wrong'[c] = Append(w, now)
      /\ fails'[c] = IF full THEN << >> ELSE Append(f, now)
      /\ lockedTill'[c] = IF full THEN now + LockoutSeconds ELSE k
  BY <1>1, <1>2, <1>3, <1>5, <1>7
<1>10. full <=> Len(f) + 1 >= MaxAttempts
  <2>1. Len(Append(f, now)) = Len(f) + 1
    BY <1>8, OneMore
  <2> QED
    BY <1>2, <1>7, <2>1
<1>11. Counted(wrong[c], fails[c], lockedTill[c], now)'
  <2>1. /\ Counted(Append(w, now), << >>, now + LockoutSeconds, now)
        /\ Len(f) + 1 < MaxAttempts => Counted(Append(w, now), Append(f, now), k, now)
    BY <1>8, AppendCounted
  <2>2. CASE full
    BY <1>3, <1>9, <2>1, <2>2
  <2>3. CASE ~full
    <3>1. Len(f) + 1 < MaxAttempts
      BY <1>8, <1>10, <2>3, Constants, TimesFacts
    <3> QED
      BY <1>3, <1>9, <2>1, <2>3, <3>1
  <2> QED
    BY <2>2, <2>3
<1>12. Room(c)'
  <2>1. PICK S, T : S = Verifying(c) /\ T = Verifying(c)'
    OBVIOUS
  <2>2. S \subseteq Requests /\ r \in S /\ T = S \ {r}
    <3>1. \A q \in Requests : q # r => CounterOf(q)' = CounterOf(q)
      BY <1>4 DEF CounterOf
    <3> QED
      BY <1>0, <1>1, <1>4, <2>1, <3>1 DEF Verifying
  <2>3. Cardinality(S) \in Nat /\ Cardinality(T) = Cardinality(S) - 1
    <3>1. IsFiniteSet(S) /\ Cardinality(S) \in Nat
      BY <2>2, SomeRequests
    <3> QED
      BY <2>2, <3>1, FS_RemoveElement
  <2>4. Len(w) + Cardinality(S) < MaxAttempts + Cardinality(Requests)
    BY <1>1, <1>7, <2>1, AccountFacts DEF Room
  <2>5. PICK m \in Nat : m = Len(Recent(wrong[c]))' /\ m <= Len(w) + 1
    <3>1. InOrder(Append(w, now)) /\ Append(w, now) \in Seq(Nat) /\ Len(Append(w, now)) = Len(w) + 1
      BY <1>1, <1>7, AccountFacts, RecentInOrder
    <3>2. PICK a : a = Append(w, now)
      OBVIOUS
    <3>3. PICK n \in 0..Len(a) : Len(Recent(a)) = Len(a) - n
      BY <1>8, <3>1, <3>2, RecentSplit
    <3>4. Len(Recent(wrong[c]))' = Len(Recent(a))
      BY <1>3, <1>9, <3>2 DEF Recent
    <3>5. Len(a) \in Nat /\ Len(a) = Len(w) + 1
      BY <3>1, <3>2, TimesFacts
    <3>6. Len(a) - n \in Nat /\ Len(a) - n <= Len(w) + 1
      BY <3>5
    <3> QED
      BY <3>3, <3>4, <3>6
  <2>6. MaxAttempts \in Nat /\ Cardinality(Requests) \in Nat /\ Len(w) \in Nat
    BY <1>8, Constants, TimesFacts
  <2>7. m + Cardinality(T) < MaxAttempts + Cardinality(Requests)
    BY <2>3, <2>4, <2>5, <2>6
  <2> QED
    BY <2>1, <2>5, <2>7 DEF Room
<1> QED
  BY <1>6, <1>11, <1>12, GuessPartsNext

(* A counter without guesses is well counted.  *)
LEMMA NothingCounted ==
    ASSUME NEW t \in Nat PROVE Counted(<< >>, << >>, 0, t)
<1>1. Len(<< >>) = 0 /\ DOMAIN << >> = {} /\ MaxAttempts \in Nat \ {0}
  BY Constants
<1>2. 0 - 0 >= 0 /\ 0 < MaxAttempts /\ 1..(0 - 0) = {}
  BY <1>1
<1> QED
  BY <1>1, <1>2 DEF Counted

(* A counter without guesses has room for every request.  *)
LEMMA NothingRecent ==
    ASSUME NEW c, wrong'[c] = << >>, now' \in Nat PROVE Room(c)'
<1>1. InOrder(<< >>)' /\ << >> \in Seq(Nat) /\ Len(<< >>) = 0
  BY DEF InOrder
<1>2. PICK n \in 0..Len(<< >>) : Len(Recent(<< >>))' = Len(<< >>) - n
  BY <1>1, RecentLengthNext
<1>3. Len(Recent(wrong[c]))' = Len(Recent(<< >>))'
  BY DEF Recent
<1>4. Len(Recent(wrong[c]))' = 0
  BY <1>1, <1>2, <1>3
<1>5. PICK T : T = Verifying(c)'
  OBVIOUS
<1>6. T \subseteq Requests
  BY <1>5 DEF Verifying
<1>7. Cardinality(T) \in Nat /\ Cardinality(T) <= Cardinality(Requests)
  BY <1>6, SomeRequests
<1>8. 0 + Cardinality(T) < MaxAttempts + Cardinality(Requests)
  BY <1>7, Constants
<1> QED
  BY <1>4, <1>5, <1>8 DEF Room

(* The right password clears the counter. *)
LEMMA SuccessGuesses ==
    ASSUME SessionsType, LocksInv, GuessesInv, NEW r \in Requests, LoginSucceeds(r)
    PROVE  GuessesInv'
<1>0. PICK c : c = CounterOf(r)
  OBVIOUS
<1>1. c \in Counters /\ now \in Nat /\ now' = now
  BY <1>0 DEF LoginSucceeds, LocksInv, SessionsType
<1>2. /\ fails' = [fails EXCEPT ![c] = << >>] /\ lockedTill' = [lockedTill EXCEPT ![c] = 0]
      /\ wrong' = [wrong EXCEPT ![c] = << >>]
      /\ req' = [req EXCEPT ![r] = [Idle EXCEPT !.loc = "issue", !.user = req[r].user]]
  BY <1>0 DEF LoginSucceeds, ClearFailedAttempts
<1>3. /\ fails \in [Counters -> Seq(Nat)] /\ wrong \in [Counters -> Seq(Nat)]
      /\ lockedTill \in [Counters -> Nat]
  BY DEF SessionsType
<1>4. req'[r].loc # "verify" /\ \A q \in Requests : q # r => req'[q] = req[q]
  <2>1. [Idle EXCEPT !.loc = "issue", !.user = req[r].user].loc = "issue" /\ req \in [Requests -> Request]
    BY DEF Idle, SessionsType
  <2> QED
    BY <1>2, <2>1
<1>5. ASSUME NEW d \in Counters, d # c
      PROVE  Counted(wrong[d], fails[d], lockedTill[d], now)' /\ Room(d)'
  <2>1. fails'[d] = fails[d] /\ wrong'[d] = wrong[d] /\ lockedTill'[d] = lockedTill[d]
    BY <1>2, <1>3, <1>5
  <2>2. Verifying(d)' \subseteq Verifying(d)
    BY <1>4 DEF Verifying, CounterOf
  <2> QED
    BY <1>1, <2>1, <2>2, AccountFacts, RoomKept
<1>6. fails'[c] = << >> /\ wrong'[c] = << >> /\ lockedTill'[c] = 0
  BY <1>1, <1>2, <1>3
<1>7. Counted(wrong[c], fails[c], lockedTill[c], now)' /\ Room(c)'
  BY <1>1, <1>6, NothingCounted, NothingRecent
<1> QED
  BY <1>5, <1>7, GuessPartsNext

(* As time passes, guesses only leave the window. *)
LEMMA TickGuesses ==
    ASSUME SessionsType, GuessesInv, Tick
    PROVE  GuessesInv'
<1>1. /\ now' = now + 1 /\ now \in Nat /\ now' \in Nat /\ FailWindow \in Nat
      /\ UNCHANGED <<fails, wrong, lockedTill, req>>
  BY Constants DEF Tick, guard, SessionsType
<1>2. ASSUME NEW c \in Counters PROVE Counted(wrong[c], fails[c], lockedTill[c], now)' /\ Room(c)'
  <2>1. PICK w, f, l : w = wrong[c] /\ f = fails[c] /\ l = lockedTill[c]
    OBVIOUS
  <2>2. w \in Seq(Nat) /\ f \in Seq(Nat) /\ Counted(w, f, l, now) /\ InOrder(w)
    BY <2>1, AccountFacts
  <2>3. DOMAIN w = 1..Len(w) /\ Len(w) \in Nat /\ Len(f) \in Nat /\ \A i \in 1..Len(w) : w[i] \in Nat
    BY <2>2, TimesFacts
  <2>4. Counted(w, f, l, now + 1)
    <3>1. \A i \in DOMAIN w : w[i] <= now + 1
      BY <1>1, <2>2, <2>3 DEF Counted
    <3>2. ASSUME NEW i \in 1..(Len(w) - Len(f))
          PROVE  (now + 1) - w[i] >= FailWindow \/ w[i] + LockoutSeconds <= l
      <4>1. now - w[i] >= FailWindow \/ w[i] + LockoutSeconds <= l
        BY <2>2 DEF Counted
      <4>2. w[i] \in Nat
        BY <2>3
      <4> QED
        BY <1>1, <4>1, <4>2
    <3> QED
      BY <2>2, <3>1, <3>2 DEF Counted
  <2>5. Counted(wrong[c], fails[c], lockedTill[c], now)'
    BY <1>1, <2>1, <2>4
  <2>6. InOrder(w)'
    BY <1>1, <2>2, <2>3 DEF InOrder
  <2>7. PICK n \in 0..Len(w) :
           /\ Len(Recent(w)) = Len(w) - n
           /\ \A i \in DOMAIN w : now - w[i] >= FailWindow <=> i <= n
    BY <1>1, <2>2, RecentLength
  <2>8. PICK m \in 0..Len(w) :
           /\ Len(Recent(w))' = Len(w) - m
           /\ \A i \in DOMAIN w : now' - w[i] >= FailWindow <=> i <= m
    BY <1>1, <2>2, <2>6, RecentLengthNext
  <2>9. n <= m
    <3>1. CASE n = 0
      BY <2>3, <3>1
    <3>2. CASE n # 0
      <4>1. n \in 1..Len(w) /\ n <= n
        BY <2>3, <3>2
      <4>2. now - w[n] >= FailWindow /\ w[n] \in Nat
        BY <2>3, <2>7, <4>1
      <4>3. now' - w[n] >= FailWindow
        BY <1>1, <4>2
      <4> QED
        BY <2>3, <2>8, <4>1, <4>3
    <3> QED
      BY <3>1, <3>2
  <2>10. Len(Recent(wrong[c]))' = Len(w) - m
    <3>1. Len(Recent(wrong[c]))' = Len(Recent(w))'
      BY <1>1, <2>1 DEF Recent
    <3> QED
      BY <2>8, <3>1
  <2>11. PICK S : S = Verifying(c) /\ S = Verifying(c)'
    BY <1>1 DEF Verifying, CounterOf
  <2>12. Cardinality(S) \in Nat
    <3>1. S \subseteq Requests
      BY <2>11 DEF Verifying
    <3> QED
      BY <3>1, SomeRequests
  <2>13. (Len(w) - n) + Cardinality(S) < MaxAttempts + Cardinality(Requests)
    BY <2>1, <2>7, <2>11, AccountFacts DEF Room
  <2>14. (Len(w) - m) + Cardinality(S) < MaxAttempts + Cardinality(Requests)
    BY <2>3, <2>9, <2>12, <2>13, Constants
  <2>15. Room(c)'
    BY <2>10, <2>11, <2>14 DEF Room
  <2> QED
    BY <2>5, <2>15
<1> QED
  BY <1>2, GuessPartsNext

(* Every step keeps the guesses bounded. *)
LEMMA GuessesStep ==
    SessionsType /\ LocksInv /\ GuessesInv /\ [Next]_vars => GuessesInv'
<1> SUFFICES ASSUME SessionsType, LocksInv, GuessesInv, [Next]_vars PROVE GuessesInv'
  OBVIOUS
<1>1. CASE UNCHANGED vars
  <2>1. UNCHANGED <<now, fails, wrong, lockedTill, req>>
    BY <1>1 DEF vars, guard
  <2>2. ASSUME NEW c \in Counters PROVE Counted(wrong[c], fails[c], lockedTill[c], now)' /\ Room(c)'
    <3>1. Verifying(c)' \subseteq Verifying(c)
      BY <2>1 DEF Verifying, CounterOf
    <3> QED
      BY <2>1, <3>1, AccountFacts, RoomKept
  <2> QED
    BY <2>2, GuessPartsNext
<1>2. ASSUME NEW p \in Processes, Crash(p) PROVE GuessesInv'
  <2>1. now' = now /\ now \in Nat
    BY <1>2 DEF Crash, SessionsType
  <2>2. ASSUME NEW d \in Counters PROVE Counted(wrong[d], fails[d], lockedTill[d], now)' /\ Room(d)'
    <3>1. CASE d[1] = p
      <4>1. fails'[d] = << >> /\ wrong'[d] = << >> /\ lockedTill'[d] = 0
        BY <1>2, <3>1 DEF Crash
      <4> QED
        BY <2>1, <4>1, NothingCounted, NothingRecent
    <3>2. CASE d[1] # p
      <4>1. fails'[d] = fails[d] /\ wrong'[d] = wrong[d] /\ lockedTill'[d] = lockedTill[d]
        BY <1>2, <3>2 DEF Crash
      <4>2. PICK gone : req' = [q \in Requests |-> IF q \in gone THEN Idle ELSE req[q]]
        BY <1>2 DEF Crash
      <4>3. Verifying(d)' \subseteq Verifying(d)
        BY <4>2, IdleType DEF Verifying, CounterOf
      <4> QED
        BY <2>1, <4>1, <4>3, AccountFacts, RoomKept
    <3> QED
      BY <3>1, <3>2
  <2> QED
    BY <2>2, GuessPartsNext
<1>3. ASSUME NEW r \in Requests, Step(r) \/ RefreshBegin(r) \/ LogoutBegin(r) PROVE GuessesInv'
  BY <1>3, OtherGuesses, FailGuesses, SuccessGuesses DEF Step
<1>4. ASSUME NEW r \in Requests,
             \/ \E u \in Users : RegisterLookup(r, u) \/ LogoutAllBegin(r, u)
             \/ \E p \in Processes, u \in Users, a \in Addresses : CheckRateLimit(r, p, u, a)
      PROVE  GuessesInv'
  BY <1>4, OtherGuesses, CheckGuesses
<1> QED
  BY <1>1, <1>2, <1>3, <1>4, TickGuesses DEF Next


-----------------------------------------------------------------------------
(* The invariant and what follows *)

(* It holds when the service starts. *)
LEMMA SessionsInit == Init => SessionsInv
<1> SUFFICES ASSUME Init PROVE SessionsInv
  OBVIOUS
<1>1. << >> \in Seq(Nat) /\ << >> \in Seq(Token) /\ DOMAIN << >> = {} /\ Len(<< >>) = 0
  OBVIOUS
<1>2. SessionsType
  BY <1>1, IdleType DEF Init, SessionsType
<1>3. TokensInv /\ EndedStaysEnded
  BY <1>1 DEF Init, TokensInv, EndedStaysEnded
<1>4. LocksInv
  BY IdleType DEF Init, LocksInv
<1>5. ASSUME NEW c \in Counters PROVE Counted(wrong[c], fails[c], lockedTill[c], now) /\ Room(c)
  <2>1. fails[c] = << >> /\ wrong[c] = << >> /\ lockedTill[c] = 0 /\ now \in Nat
    BY DEF Init
  <2>2. Counted(wrong[c], fails[c], lockedTill[c], now)
    BY <2>1, NothingCounted
  <2>3. InOrder(<< >>)
    BY <1>1 DEF InOrder
  <2>4. PICK n \in 0..Len(<< >>) : Len(Recent(<< >>)) = Len(<< >>) - n
    BY <1>1, <2>1, <2>3, RecentLength
  <2>5. Len(Recent(wrong[c])) = 0
    BY <1>1, <2>1, <2>4
  <2>6. Verifying(c) \subseteq Requests
    BY DEF Verifying
  <2>7. Cardinality(Verifying(c)) \in Nat /\ Cardinality(Verifying(c)) <= Cardinality(Requests)
    BY <2>6, SomeRequests
  <2>8. 0 + Cardinality(Verifying(c)) < MaxAttempts + Cardinality(Requests)
    BY <2>7, Constants
  <2> QED
    BY <2>2, <2>5, <2>8 DEF Room
<1>6. GuessesInv
  BY <1>5, GuessParts
<1> QED
  BY <1>2, <1>3, <1>4, <1>6 DEF SessionsInv

(* Types, families, row locks, ended families and lockout counters: every  *)
(* statement of the auth endpoints keeps them, however the requests are    *)
(* interleaved, aborted by a deadlock or cut off by a crash.               *)
THEOREM SessionsInvariant == Spec => []SessionsInv
<1>1. SessionsInv /\ [Next]_vars => SessionsInv'
  BY TypeStep, RowsStep, GuessesStep DEF SessionsInv
<1> QED
  BY <1>1, SessionsInit, PTL DEF Spec

(* rotate_refresh_token never mints two successors of one token: a family  *)
(* has at most one token that is still accepted, for any number of         *)
(* concurrent refreshes and replays.                                       *)
THEOREM FamiliesHaveOneHead == Spec => []OneHeadPerFamily
<1>1. SessionsInv => OneHeadPerFamily
  BY DEF SessionsInv, TokensInv, OneHeadPerFamily, Live
<1> QED
  BY <1>1, SessionsInvariant, PTL

(* A family that _revoke_family, revoke_user_refresh_tokens or logout has  *)
(* ended has no accepted token, unless a rotation committed while the      *)
(* UPDATE ran.                                                             *)
THEOREM EndedFamiliesStayEnded == Spec => []EndedStaysEnded
<1>1. SessionsInv => EndedStaysEnded
  BY DEF SessionsInv
<1> QED
  BY <1>1, SessionsInvariant, PTL

(* No chain of rotations keeps a session alive past the absolute lifetime  *)
(* and one sliding period after its login.                                 *)
THEOREM SessionsDoEnd == Spec => []LifetimeIsAbsolute
<1>1. SessionsInv => LifetimeIsAbsolute
  <2> SUFFICES ASSUME SessionsInv, NEW t \in DOMAIN tokens, ~Expired(t)
               PROVE  now <= tokens[tokens[t].family].created + AbsoluteSeconds + RefreshSeconds
    BY DEF LifetimeIsAbsolute
  <2> DEFINE f == tokens[t].family
  <2>1. f \in DOMAIN tokens /\ tokens[t].created <= tokens[f].created + AbsoluteSeconds
    BY DEF SessionsInv, TokensInv
  <2>2. tokens[t].created \in Nat /\ tokens[f].created \in Nat /\ now \in Nat
    BY <2>1, FieldTypes DEF SessionsInv, SessionsType, Token
  <2>3. AbsoluteSeconds \in Nat /\ RefreshSeconds \in Nat
    BY Constants
  <2>4. now <= tokens[t].created + RefreshSeconds
    BY <2>2, <2>3 DEF Expired
  <2> QED
    BY <2>1, <2>2, <2>3, <2>4
<1> QED
  BY <1>1, SessionsInvariant, PTL

(* Between two successes, one e-mail from one address sees fewer wrong     *)
(* guesses in a window at one process than the limit and one for every     *)
(* request that can run at once, although check_rate_limit and             *)
(* record_failed_attempt are two steps.                                    *)
THEOREM GuessesAreBounded == Spec => []GuessesBounded
<1>1. SessionsInv => GuessesBounded
  <2> SUFFICES ASSUME SessionsInv, NEW c \in Counters
               PROVE  Len(Recent(wrong[c])) < MaxAttempts + Cardinality(Requests)
    BY DEF GuessesBounded
  <2>1. Room(c) /\ Len(Recent(wrong[c])) \in Nat
    BY AccountFacts DEF SessionsInv
  <2>2. Verifying(c) \subseteq Requests
    BY DEF Verifying
  <2>3. Cardinality(Verifying(c)) \in Nat
    BY <2>2, SomeRequests
  <2> QED
    BY <2>1, <2>3, Constants DEF Room
<1> QED
  BY <1>1, SessionsInvariant, PTL
=============================================================================
