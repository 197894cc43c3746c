---------------------------- MODULE RoundRobin_proofs ----------------------------
(***************************************************************************)
(* The round-robin router is a BackendPool, for any configured list and    *)
(* any index, and its rotation is fair if no backend is configured twice.  *)
(* The heart of it is that n steps modulo n meet every position            *)
(* (ScanMeetsAll), and none twice (ScanMeetsOnce).                         *)
(***************************************************************************)
EXTENDS RoundRobinTurns, Integers, TLAPS

-----------------------------------------------------------------------------
(* Arithmetic. *)

LEMMA DivisionIsUnique ==
  ASSUME NEW n \in Nat \ {0}, NEW q \in Int, NEW r \in 0..(n - 1)
  PROVE  (n * q + r) % n = r
BY SMT

LEMMA Division ==
  ASSUME NEW a \in Nat, NEW n \in Nat \ {0}
  PROVE  /\ a = n * (a \div n) + (a % n)
         /\ a % n \in 0..(n - 1)
         /\ a \div n \in Int
BY SMT

LEMMA PlaceInRange ==
  ASSUME NEW a \in Nat, NEW k \in Nat, NEW n \in Nat \ {0}
  PROVE  (a + k) % n \in 0..(n - 1)
<1>1. a + k \in Nat
  OBVIOUS
<1> QED
  BY <1>1, Division

(* From any index, the n steps of a scan meet every position of the list.  *)
LEMMA ScanMeetsAll ==
  ASSUME NEW a \in Nat, NEW n \in Nat \ {0}, NEW p \in 0..(n - 1)
  PROVE  \E k \in 0..(n - 1) : (a + k) % n = p
<1> DEFINE r == a % n
           q == a \div n
<1>1. a = n * q + r /\ r \in 0..(n - 1) /\ q \in Int
  BY Division
<1> HIDE DEF r, q
<1>2. CASE p >= r
  <2>1. a + (p - r) = n * q + p /\ p - r \in 0..(n - 1)
    BY <1>1, <1>2
  <2>2. (n * q + p) % n = p
    BY <1>1, DivisionIsUnique
  <2> QED
    BY <2>1, <2>2
<1>3. CASE p < r
  <2>1. n * (q + 1) = n * q + n
    BY <1>1
  <2>2. a + (n + p - r) = n * (q + 1) + p /\ n + p - r \in 0..(n - 1)
    BY <1>1, <1>3, <2>1
  <2>3. q + 1 \in Int
    BY <1>1
  <2>4. (n * (q + 1) + p) % n = p
    BY <2>3, DivisionIsUnique
  <2> QED
    BY <2>2, <2>4
<1> QED
  BY <1>1, <1>2, <1>3

(* They meet each once, and the n-th step is at the first one's again.     *)
LEMMA ScanMeetsOnce ==
  ASSUME NEW a \in Nat, NEW n \in Nat \ {0}, NEW j \in 0..n, NEW k \in 0..n,
         (a + j) % n = (a + k) % n, j < k
  PROVE  j = 0 /\ k = n
<1> DEFINE q == (a + j) \div n
           r == (a + k) \div n
           m == (a + j) % n
<1>1. /\ a + j = n * q + m /\ q \in Int
      /\ a + k = n * r + m /\ r \in Int
      /\ m \in 0..(n - 1)
  <2>1. a + j \in Nat /\ a + k \in Nat
    OBVIOUS
  <2>2. a + j = n * ((a + j) \div n) + ((a + j) % n) /\ q \in Int /\ m \in 0..(n - 1)
    BY <2>1, Division
  <2>3. a + k = n * ((a + k) \div n) + ((a + k) % n) /\ r \in Int
    BY <2>1, Division
  <2> QED
    BY <2>2, <2>3
<1> HIDE DEF q, r, m
<1>2. k - j = n * (r - q) /\ k - j \in 1..n
  BY <1>1
<1>3. r - q >= 1
  BY <1>1, <1>2
<1>4. CASE r - q = 1
  BY <1>2, <1>4
<1>5. CASE r - q >= 2
  BY <1>1, <1>2, <1>5
<1> QED
  BY <1>1, <1>3, <1>4, <1>5

-----------------------------------------------------------------------------
(* list.remove *)

LEMMA Concatenation ==
  ASSUME NEW S, NEW u \in Seq(S), NEW v \in Seq(S)
  PROVE  /\ u \o v \in Seq(S)
         /\ Len(u \o v) = Len(u) + Len(v)
         /\ \A j \in 1..(Len(u) + Len(v)) :
              (u \o v)[j] = IF j <= Len(u) THEN u[j] ELSE v[j - Len(u)]
OBVIOUS

LEMMA Removal ==
  ASSUME NEW S, NEW s \in Seq(S), NEW i \in 1..Len(s)
  PROVE  /\ RemoveAt(s, i) \in Seq(S)
         /\ Len(RemoveAt(s, i)) = Len(s) - 1
         /\ \A j \in 1..(Len(s) - 1) :
              RemoveAt(s, i)[j] = IF j < i THEN s[j] ELSE s[j + 1]
<1> DEFINE head == SubSeq(s, 1, i - 1)
           tail == SubSeq(s, i + 1, Len(s))
<1>1. Len(s) \in Nat /\ i - 1 \in Nat /\ Len(s) - i \in Nat
  OBVIOUS
<1>2. /\ head \in Seq(S) /\ Len(head) = i - 1
      /\ \A j \in 1..(i - 1) : head[j] = s[j]
  BY <1>1
<1>3. /\ tail \in Seq(S) /\ Len(tail) = Len(s) - i
      /\ \A j \in 1..(Len(s) - i) : tail[j] = s[i + j]
  BY <1>1
<1>4. RemoveAt(s, i) = head \o tail
  BY DEF RemoveAt
<1> HIDE DEF head, tail
<1>5. /\ head \o tail \in Seq(S)
      /\ Len(head \o tail) = (i - 1) + (Len(s) - i)
      /\ \A j \in 1..((i - 1) + (Len(s) - i)) :
           (head \o tail)[j] = IF j <= i - 1 THEN head[j] ELSE tail[j - (i - 1)]
  <2>1. /\ head \o tail \in Seq(S)
        /\ Len(head \o tail) = Len(head) + Len(tail)
        /\ \A j \in 1..(Len(head) + Len(tail)) :
             (head \o tail)[j] = IF j <= Len(head) THEN head[j]
                                 ELSE tail[j - Len(head)]
    <3>1. head \in Seq(S) /\ tail \in Seq(S)
      BY <1>2, <1>3
    <3> QED
      BY <3>1, Concatenation
  <2>2. Len(head) = i - 1 /\ Len(tail) = Len(s) - i
    BY <1>2, <1>3
  <2> QED
    BY <2>1, <2>2, Zenon
<1>6. ASSUME NEW j \in 1..(Len(s) - 1), ~(j < i)
      PROVE  tail[j - (i - 1)] = s[j + 1]
  <2>1. j - (i - 1) \in 1..(Len(s) - i) /\ i + (j - (i - 1)) = j + 1
    BY <1>1, <1>6
  <2> QED
    BY <1>3, <2>1
<1>7. (i - 1) + (Len(s) - i) = Len(s) - 1
  BY <1>1
<1>8. \A j \in 1..(Len(s) - 1) :
        (head \o tail)[j] = IF j < i THEN s[j] ELSE s[j + 1]
  <2> SUFFICES ASSUME NEW j \in 1..(Len(s) - 1)
               PROVE  (head \o tail)[j] = IF j < i THEN s[j] ELSE s[j + 1]
    OBVIOUS
  <2>1. CASE j < i
    <3>1. j <= i - 1 /\ j \in 1..(i - 1)
      BY <1>1, <2>1
    <3> QED
      BY <1>2, <1>5, <1>7, <2>1, <3>1
  <2>2. CASE ~(j < i)
    <3>1. ~(j <= i - 1)
      BY <1>1, <2>2
    <3> QED
      BY <1>5, <1>6, <1>7, <2>2, <3>1
  <2> QED
    BY <2>1, <2>2
<1> QED
  BY <1>4, <1>5, <1>7, <1>8

LEMMA RemovalKeepsOthers ==
  ASSUME NEW S, NEW s \in Seq(S), NEW i \in 1..Len(s)
  PROVE  LET t == RemoveAt(s, i)
             before == {s[j] : j \in 1..Len(s)}
             after == {t[j] : j \in 1..Len(t)}
         IN before \ {s[i]} \subseteq after /\ after \subseteq before
<1> DEFINE t == RemoveAt(s, i)
<1>1. /\ t \in Seq(S) /\ Len(t) = Len(s) - 1 /\ Len(s) \in Nat
      /\ \A j \in 1..(Len(s) - 1) : t[j] = IF j < i THEN s[j] ELSE s[j + 1]
  BY Removal
<1> HIDE DEF t
<1>2. ASSUME NEW j \in 1..Len(s), s[j] # s[i]
      PROVE  s[j] \in {t[k] : k \in 1..Len(t)}
  <2>1. CASE j < i
    <3>1. j \in 1..Len(t) /\ t[j] = s[j]
      BY <1>1, <2>1
    <3> QED
      BY <3>1
  <2>2. CASE j > i
    <3>1. j - 1 \in 1..Len(t) /\ t[j - 1] = s[j]
      BY <1>1, <2>2
    <3> QED
      BY <3>1
  <2> QED
    BY <1>2, <2>1, <2>2
<1>3. ASSUME NEW j \in 1..Len(t)
      PROVE  t[j] \in {s[k] : k \in 1..Len(s)}
  <2>1. CASE j < i
    BY <1>1, <2>1
  <2>2. CASE j >= i
    <3>1. j + 1 \in 1..Len(s) /\ t[j] = s[j + 1]
      BY <1>1, <2>2
    <3> QED
      BY <3>1
  <2> QED
    BY <2>1, <2>2
<1> QED
  BY <1>2, <1>3 DEF t

-----------------------------------------------------------------------------

LEMMA NextKeepsTypes == TypeOK /\ [Next]_vars => TypeOK'
<1> SUFFICES ASSUME TypeOK, [Next]_vars PROVE TypeOK'
  OBVIOUS
<1> USE DEF TypeOK
<1>1. ASSUME NEW exclude \in SUBSET Backends,
             NEW ret \in Backends \cup {NoBackend}, Call(exclude, ret)
      PROVE  TypeOK'
  <2>1. ASSUME NEW n \in Nat, Advance(n)
        PROVE  index' \in Nat
    BY <2>1 DEF Advance
  <2>2. Len(pool) \in Nat /\ \A k \in 0..(Len(pool) - 1) : k + 1 \in Nat
    OBVIOUS
  <2>3. index' \in Nat
    BY <1>1, <2>1, <2>2 DEF Call, NextBackend
  <2> QED
    BY <1>1, <2>3 DEF Call, NextBackend
<1>2. ASSUME NEW b \in Backends, HealthChange(b)
      PROVE  TypeOK'
  <2>1. CASE MarkUnhealthy(b)
    BY <1>2, <2>1, Removal DEF HealthChange, MarkUnhealthy
  <2>2. CASE MarkHealthy(b)
    BY <1>2, <2>2 DEF HealthChange, MarkHealthy
  <2> QED
    BY <1>2, <2>1, <2>2 DEF HealthChange
<1>3. CASE UNCHANGED vars
  BY <1>3 DEF vars
<1> QED
  BY <1>1, <1>2, <1>3 DEF Next

(* The list holds configured backends, whatever the order of the marks.    *)
THEOREM Types == Spec => []TypeOK
<1>1. Init => TypeOK
  BY ConfigAssumption DEF Init, TypeOK
<1> QED
  BY <1>1, NextKeepsTypes, PTL DEF Spec

LEMMA CallMaps ==
  ASSUME TypeOK, NEW exclude \in SUBSET Backends,
         NEW ret \in Backends \cup {NoBackend}, Call(exclude, ret)
  PROVE  Pool!Call(exclude, ret)
<1> USE DEF TypeOK
<1> DEFINE n == Len(pool)
<1>1. n \in Nat /\ index \in Nat
  OBVIOUS
<1>2. pool' = pool /\ last' = [exclude |-> exclude, ret |-> ret]
  BY DEF Call, NextBackend
<1>3. ASSUME NEW k \in 0..(n - 1), ret = Scanned(k), ret \notin exclude
      PROVE  ret \in Healthy \ exclude
  <2>1. (index + k) % n \in 0..(n - 1)
    BY <1>1
  <2> QED
    BY <1>1, <1>3, <2>1 DEF Scanned, Healthy
<1>4. ASSUME \A k \in 0..(n - 1) : Scanned(k) \in exclude
      PROVE  Healthy \subseteq exclude
  <2> SUFFICES ASSUME NEW i \in 1..n PROVE pool[i] \in exclude
    BY DEF Healthy
  <2>1. PICK k \in 0..(n - 1) : (index + k) % n = i - 1
    <3>1. n \in Nat \ {0} /\ i - 1 \in 0..(n - 1)
      BY <1>1
    <3> QED
      BY <1>1, <3>1, ScanMeetsAll
  <2>2. Scanned(k) = pool[i]
    BY <1>1, <2>1 DEF Scanned
  <2> QED
    BY <1>4, <2>2
<1>5. \/ \E k \in 0..(n - 1) : ret = Scanned(k) /\ ret \notin exclude
      \/ ret = NoBackend /\ \A k \in 0..(n - 1) : Scanned(k) \in exclude
  BY DEF Call, NextBackend
<1>6. Healthy' = Healthy
  BY <1>2 DEF Healthy
<1> QED
  BY <1>2, <1>3, <1>4, <1>5, <1>6 DEF Pool!Call, Pool!NextBackend

LEMMA HealthChangeMaps ==
  ASSUME TypeOK, NEW b \in Backends, HealthChange(b)
  PROVE  Pool!Notify(b)
<1> USE DEF TypeOK
<1>1. last' = last
  BY DEF HealthChange
<1>2. CASE MarkUnhealthy(b)
  <2>1. CASE pool' = pool
    BY <1>1, <2>1 DEF Healthy, Pool!Notify, Pool!OnDisconnect
  <2>2. ASSUME NEW i \in 1..Len(pool), pool[i] = b, pool' = RemoveAt(pool, i)
        PROVE  Healthy' = Healthy \/ Healthy' = Healthy \ {b}
    <3>1. Healthy \ {b} \subseteq Healthy' /\ Healthy' \subseteq Healthy
      <4>1. pool \in Seq(Backends) /\ i \in 1..Len(pool)
        OBVIOUS
      <4>2. LET t == RemoveAt(pool, i)
                before == {pool[j] : j \in 1..Len(pool)}
                after == {t[j] : j \in 1..Len(t)}
            IN before \ {pool[i]} \subseteq after /\ after \subseteq before
        BY <4>1, RemovalKeepsOthers
      <4> QED
        BY <2>2, <4>2 DEF Healthy
    <3> QED
      BY <3>1
  <2> QED
    BY <1>1, <1>2, <2>1, <2>2
       DEF MarkUnhealthy, Pool!Notify, Pool!OnDisconnect, Pool!MarkUnhealthy
<1>3. CASE MarkHealthy(b)
  <2>1. pool' = Append(pool, b)
    BY <1>3 DEF MarkHealthy
  <2>2. /\ Len(pool') = Len(pool) + 1 /\ Len(pool) \in Nat
        /\ pool'[Len(pool) + 1] = b
        /\ \A i \in 1..Len(pool) : pool'[i] = pool[i]
    BY <2>1
  <2>3. Healthy' = Healthy \cup {b}
    BY <2>2 DEF Healthy
  <2> QED
    BY <1>1, <2>3 DEF Pool!Notify, Pool!MarkHealthy
<1> QED
  BY <1>2, <1>3 DEF HealthChange

(* next_backend returns a healthy backend that is not excluded, and None   *)
(* only when there is none, wherever the index stands and however the list *)
(* has changed since.                                                      *)
THEOREM Implementation == Spec => ImplementsPool
<1>1. Init => Pool!Init
  BY DEF Init, Healthy, Backends, Pool!Init, Pool!NoCall
<1>2. TypeOK /\ [Next]_vars => [Pool!Next]_(Pool!vars)
  <2>1. UNCHANGED vars => UNCHANGED Pool!vars
    BY DEF vars, Pool!vars, Healthy
  <2> QED
    BY <2>1, CallMaps, HealthChangeMaps DEF Next, Pool!Next
<1> QED
  BY <1>1, <1>2, Types, PTL DEF Spec, ImplementsPool, Pool!Spec

-----------------------------------------------------------------------------
(* The rotation.  While turns are taken, the backends that the backend of  *)
(* the k-th place from the index owes a turn are among those of the places *)
(* before it.                                                              *)

NoRepeats(s) == \A i, j \in 1..Len(s) : s[i] = s[j] => i = j

OwedAreAhead ==
  \A k \in 0..(Len(pool) - 1) :
    owed[Scanned(k)] \subseteq {Scanned(j) : j \in 0..(k - 1)}

RotationInv ==
  /\ TypeOK
  /\ NoRepeats(pool)
  /\ owed \in [Backends -> SUBSET Backends]
  /\ OwedAreAhead

LEMMA ScannedPlaces ==
  ASSUME TypeOK, NoRepeats(pool), pool # << >>
  PROVE  /\ Healthy = {Scanned(k) : k \in 0..(Len(pool) - 1)}
         /\ \A j, k \in 0..(Len(pool) - 1) : Scanned(j) = Scanned(k) => j = k
         /\ Scanned(Len(pool)) = Scanned(0)
         /\ \A k \in Nat : Scanned(k) \in Backends
<1> DEFINE n == Len(pool)
<1>1. n \in Nat \ {0} /\ index \in Nat /\ pool \in Seq(Backends)
  BY DEF TypeOK
<1>2. \A k \in Nat : (index + k) % n \in 0..(n - 1)
  BY <1>1, PlaceInRange
<1> HIDE DEF n
<1>3. ASSUME NEW k \in Nat
      PROVE  /\ ((index + k) % n) + 1 \in 1..n
             /\ Scanned(k) \in Healthy /\ Scanned(k) \in Backends
  <2>1. ((index + k) % n) + 1 \in 1..n
    BY <1>1, <1>2
  <2> QED
    BY <1>1, <2>1 DEF Scanned, Healthy, n
<1>4. ASSUME NEW i \in 1..n
      PROVE  \E k \in 0..(n - 1) : Scanned(k) = pool[i]
  <2> DEFINE p == i - 1
  <2>0. p \in 0..(n - 1)
    BY <1>1
  <2> HIDE DEF p
  <2>1. PICK k \in 0..(n - 1) : (index + k) % n = p
    BY <1>1, <2>0, ScanMeetsAll
  <2>2. ((index + k) % n) + 1 = i
    BY <1>1, <2>1 DEF p
  <2> QED
    BY <2>2 DEF Scanned, n
<1>5. Healthy = {Scanned(k) : k \in 0..(n - 1)}
  <2>1. \A k \in 0..(n - 1) : k \in Nat
    OBVIOUS
  <2> QED
    BY <1>3, <1>4, <2>1 DEF Healthy, n
<1>6. ASSUME NEW j \in 0..(n - 1), NEW k \in 0..(n - 1), Scanned(j) = Scanned(k)
      PROVE  j = k
  <2>1. j \in Nat /\ k \in Nat
    OBVIOUS
  <2>2. ((index + j) % n) + 1 = ((index + k) % n) + 1
    BY <1>3, <1>6, <2>1 DEF Scanned, NoRepeats, n
  <2>3. (index + j) % n = (index + k) % n
    BY <1>2, <2>1, <2>2
  <2>4. ~(j < k) /\ ~(k < j)
    BY <1>1, <2>3, ScanMeetsOnce
  <2> QED
    BY <2>1, <2>4
<1>7. Scanned(n) = Scanned(0)
  <2>1. PICK k \in 0..(n - 1) : Scanned(k) = Scanned(n)
    BY <1>1, <1>3, <1>5
  <2>2. ((index + k) % n) + 1 = ((index + n) % n) + 1
    BY <1>1, <1>3, <2>1 DEF Scanned, NoRepeats, n
  <2>3. (index + k) % n = (index + n) % n
    BY <1>1, <1>2, <2>2
  <2>4. k = 0
    BY <1>1, <2>3, ScanMeetsOnce
  <2> QED
    BY <2>1, <2>4
<1> QED
  BY <1>3, <1>5, <1>6, <1>7 DEF n

(* A call that excludes nothing takes the backend at the index.            *)
LEMMA TurnIsFirst ==
  ASSUME TypeOK, NEW b \in Backends, Call({}, b)
  PROVE  pool # << >> /\ b = Scanned(0) /\ index' = index + 1 /\ pool' = pool
<1>1. b # NoBackend
  BY ConfigAssumption
<1>2. PICK k \in 0..(Len(pool) - 1) :
        /\ b = Scanned(k) /\ Advance(k + 1)
        /\ \A j \in 0..(k - 1) : Scanned(j) \in {}
  BY <1>1 DEF Call, NextBackend
<1>3. k = 0
  BY <1>2
<1>4. pool # << >>
  BY <1>2 DEF TypeOK
<1> QED
  BY <1>2, <1>3, <1>4 DEF Advance, Call, NextBackend

LEMMA TurnIsFair ==
  ASSUME RotationInv, NEW b \in Backends, Call({}, b)
  PROVE  History!Fair(b)
<1>1. b = Scanned(0) /\ Len(pool) \in Nat \ {0}
  BY TurnIsFirst DEF RotationInv, TypeOK
<1>2. owed[Scanned(0)] \subseteq {Scanned(j) : j \in 0..(0 - 1)}
  BY <1>1 DEF RotationInv, OwedAreAhead
<1> QED
  BY <1>1, <1>2 DEF History!Fair

LEMMA TurnKeepsAhead ==
  ASSUME RotationInv, NEW b \in Backends, Call({}, b), History!Turn(b, Healthy)
  PROVE  OwedAreAhead'
<1> DEFINE n == Len(pool)
<1>1. /\ pool # << >> /\ b = Scanned(0) /\ index' = index + 1 /\ pool' = pool
      /\ TypeOK /\ n \in Nat \ {0} /\ index \in Nat
  BY TurnIsFirst DEF RotationInv, TypeOK
<1>2. /\ Healthy = {Scanned(k) : k \in 0..(n - 1)}
      /\ \A j, k \in 0..(n - 1) : Scanned(j) = Scanned(k) => j = k
      /\ Scanned(n) = Scanned(0)
      /\ \A k \in Nat : Scanned(k) \in Backends
  BY <1>1, ScannedPlaces DEF RotationInv
<1>3. \A k \in Nat : Scanned(k)' = Scanned(k + 1)
  <2>1. \A k \in Nat : (index + 1) + k = index + (k + 1)
    BY <1>1
  <2> QED
    BY <1>1, <2>1 DEF Scanned
<1>4. owed' = [x \in Backends |-> IF x = b THEN Healthy \ {b} ELSE owed[x] \ {b}]
  BY DEF History!Turn
<1>5. \A k \in 0..(n - 1) : owed[Scanned(k)] \subseteq {Scanned(j) : j \in 0..(k - 1)}
  BY DEF RotationInv, OwedAreAhead
<1> HIDE DEF n
<1>6. ASSUME NEW k \in 0..(n - 1)
      PROVE  owed'[Scanned(k + 1)] \subseteq {Scanned(j + 1) : j \in 0..(k - 1)}
  <2>1. k \in Nat /\ k + 1 \in Nat
    BY <1>1
  <2>2. CASE k = n - 1
    <3>1. k + 1 = n
      BY <1>1, <2>2
    <3>2. owed'[Scanned(k + 1)] = Healthy \ {b}
      BY <1>1, <1>2, <1>4, <3>1
    <3>3. ASSUME NEW i \in 0..(n - 1), Scanned(i) # b
          PROVE  \E j \in 0..(k - 1) : Scanned(i) = Scanned(j + 1)
      <4>1. i # 0
        BY <1>1, <3>3
      <4>2. i - 1 \in 0..(k - 1) /\ (i - 1) + 1 = i
        BY <1>1, <2>2, <4>1
      <4> QED
        BY <4>2
    <3> QED
      BY <1>2, <3>2, <3>3
  <2>3. CASE k # n - 1
    <3>1. k + 1 \in 0..(n - 1) /\ 0 \in 0..(n - 1) /\ k + 1 # 0
      BY <1>1, <2>3
    <3>2. Scanned(k + 1) # b
      BY <1>1, <1>2, <3>1
    <3>3. owed'[Scanned(k + 1)] = owed[Scanned(k + 1)] \ {b}
      BY <1>2, <1>4, <2>1, <3>2
    <3>4. owed[Scanned(k + 1)] \subseteq {Scanned(j) : j \in 0..((k + 1) - 1)}
      BY <1>5, <3>1
    <3>5. ASSUME NEW i \in 0..((k + 1) - 1), Scanned(i) # b
          PROVE  \E j \in 0..(k - 1) : Scanned(i) = Scanned(j + 1)
      <4>1. i # 0
        BY <1>1, <3>5
      <4>2. i - 1 \in 0..(k - 1) /\ (i - 1) + 1 = i
        BY <2>1, <4>1
      <4> QED
        BY <4>2
    <3> QED
      BY <3>3, <3>4, <3>5
  <2> QED
    BY <2>2, <2>3
<1>7. ASSUME NEW k \in 0..(n - 1)
      PROVE  owed'[Scanned(k)'] \subseteq {Scanned(j)' : j \in 0..(k - 1)}
  <2>1. k \in Nat /\ \A j \in 0..(k - 1) : j \in Nat
    BY <1>1
  <2>2. Scanned(k)' = Scanned(k + 1) /\ \A j \in 0..(k - 1) : Scanned(j)' = Scanned(j + 1)
    BY <1>3, <2>1
  <2>3. {Scanned(j)' : j \in 0..(k - 1)} = {Scanned(j + 1) : j \in 0..(k - 1)}
    BY <2>2
  <2> QED
    BY <1>6, <2>2, <2>3
<1> QED
  BY <1>1, <1>7 DEF OwedAreAhead, n

LEMMA HealthChangeKeepsNoRepeats ==
  ASSUME TypeOK, NoRepeats(pool), NEW b \in Backends, HealthChange(b)
  PROVE  NoRepeats(pool')
<1>1. pool \in Seq(Backends) /\ Len(pool) \in Nat
  BY DEF TypeOK
<1>2. ASSUME NEW i \in 1..Len(pool), pool' = RemoveAt(pool, i)
      PROVE  NoRepeats(pool')
  <2>1. /\ Len(pool') = Len(pool) - 1
        /\ \A j \in 1..(Len(pool) - 1) : pool'[j] = IF j < i THEN pool[j] ELSE pool[j + 1]
    BY <1>1, <1>2, Removal
  <2> QED
    BY <1>1, <2>1 DEF NoRepeats
<1>3. CASE MarkHealthy(b)
  <2>1. pool' = Append(pool, b) /\ \A i \in 1..Len(pool) : pool[i] # b
    BY <1>3 DEF MarkHealthy, Healthy
  <2>2. /\ Len(pool') = Len(pool) + 1 /\ pool'[Len(pool) + 1] = b
        /\ \A i \in 1..Len(pool) : pool'[i] = pool[i]
    BY <1>1, <2>1
  <2> QED
    BY <1>1, <2>1, <2>2 DEF NoRepeats
<1> QED
  BY <1>2, <1>3 DEF HealthChange, MarkUnhealthy

LEMMA ResetOwesNothing ==
  ASSUME TypeOK', History!Reset
  PROVE  owed' \in [Backends -> SUBSET Backends] /\ OwedAreAhead'
<1>1. owed' = [b \in Backends |-> {}]
  BY DEF History!Reset, History!Nothing
<1>2. ASSUME NEW k \in 0..(Len(pool') - 1)
      PROVE  owed'[Scanned(k)'] = {}
  <2>1. /\ Len(pool') \in Nat \ {0} /\ index' \in Nat /\ pool' \in Seq(Backends)
        /\ k \in Nat
    BY DEF TypeOK
  <2>2. (index' + k) % Len(pool') \in 0..(Len(pool') - 1)
    BY <2>1, PlaceInRange
  <2>3. Scanned(k)' \in Backends
    BY <2>1, <2>2 DEF Scanned
  <2> QED
    BY <1>1, <2>3
<1>3. OwedAreAhead'
  BY <1>2 DEF OwedAreAhead
<1> QED
  BY <1>1, <1>3

LEMMA NextKeepsRotation == RotationInv /\ [TNext]_tvars => RotationInv'
<1> SUFFICES ASSUME RotationInv, [TNext]_tvars
             PROVE  RotationInv'
  OBVIOUS
<1>1. TypeOK'
  BY NextKeepsTypes DEF RotationInv, TNext, TCall, THealthChange, Next, vars, tvars
<1>2. ASSUME NEW exclude \in SUBSET Backends, NEW ret \in Backends \cup {NoBackend},
             TCall(exclude, ret)
      PROVE  RotationInv'
  <2>1. NoRepeats(pool')
    BY <1>2 DEF TCall, Call, NextBackend, RotationInv
  <2>2. CASE exclude = {} /\ ret # NoBackend
    <3>1. ret \in Backends /\ Call({}, ret) /\ History!Turn(ret, Healthy)
      BY <1>2, <2>2 DEF TCall
    <3>2. OwedAreAhead'
      BY <3>1, TurnKeepsAhead
    <3>3. Healthy \subseteq Backends
      BY DEF RotationInv, TypeOK, Healthy
    <3>4. owed' \in [Backends -> SUBSET Backends]
      BY <3>1, <3>3 DEF History!Turn, RotationInv
    <3> QED
      BY <1>1, <2>1, <3>2, <3>4 DEF RotationInv
  <2>3. CASE ~(exclude = {} /\ ret # NoBackend)
    BY <1>1, <1>2, <2>1, <2>3, ResetOwesNothing DEF TCall, RotationInv
  <2> QED
    BY <2>2, <2>3
<1>3. ASSUME NEW b \in Backends, THealthChange(b)
      PROVE  RotationInv'
  <2>1. NoRepeats(pool')
    BY <1>3, HealthChangeKeepsNoRepeats DEF THealthChange, RotationInv
  <2> QED
    BY <1>1, <1>3, <2>1, ResetOwesNothing DEF THealthChange, RotationInv
<1>4. CASE UNCHANGED tvars
  <2>1. pool' = pool /\ owed' = owed /\ \A k \in Nat : Scanned(k)' = Scanned(k)
    BY <1>4 DEF tvars, Scanned
  <2>2. ASSUME NEW k \in 0..(Len(pool) - 1)
        PROVE  owed[Scanned(k)]' \subseteq {Scanned(j)' : j \in 0..(k - 1)}
    <3>1. Len(pool) \in Nat
      BY DEF RotationInv, TypeOK
    <3>2. k \in Nat /\ \A j \in 0..(k - 1) : j \in Nat
      BY <3>1
    <3>3. {Scanned(j)' : j \in 0..(k - 1)} = {Scanned(j) : j \in 0..(k - 1)}
      BY <2>1, <3>2
    <3>4. owed[Scanned(k)] \subseteq {Scanned(j) : j \in 0..(k - 1)}
      BY DEF RotationInv, OwedAreAhead
    <3> QED
      BY <2>1, <3>2, <3>3, <3>4
  <2>3. OwedAreAhead'
    BY <2>1, <2>2 DEF OwedAreAhead
  <2> QED
    BY <1>1, <2>1, <2>3 DEF RotationInv
<1> QED
  BY <1>2, <1>3, <1>4 DEF TNext

(* If no backend is configured twice, none gets two turns before each      *)
(* other healthy one has had one, while the pool stays as it is            *)
(* (router.py:24), from any index and after any changes of the pool.       *)
THEOREM TurnsAreFair ==
  ASSUME NoRepeats(Configured)
  PROVE  TSpec => Rotation
<1> DEFINE Step == \A b \in Backends : TCall({}, b) => History!Fair(b)
<1>1. TInit => RotationInv
  <2> SUFFICES ASSUME TInit
               PROVE  RotationInv
    OBVIOUS
  <2>1. TypeOK
    BY ConfigAssumption DEF TInit, Init, TypeOK
  <2>2. owed = [b \in Backends |-> {}] /\ pool = Configured
    BY DEF TInit, Init, History!Init, History!Nothing
  <2>3. ASSUME NEW k \in 0..(Len(pool) - 1)
        PROVE  owed[Scanned(k)] = {}
    <3>1. /\ Len(pool) \in Nat \ {0} /\ index \in Nat /\ pool \in Seq(Backends)
          /\ k \in Nat
      BY <2>1 DEF TypeOK
    <3>2. (index + k) % Len(pool) \in 0..(Len(pool) - 1)
      BY <3>1, PlaceInRange
    <3>3. Scanned(k) \in Backends
      BY <3>1, <3>2 DEF Scanned
    <3> QED
      BY <2>2, <3>3
  <2>4. OwedAreAhead
    BY <2>3 DEF OwedAreAhead
  <2> QED
    BY <2>1, <2>2, <2>4 DEF RotationInv
<1>2. RotationInv => Step
  BY TurnIsFair DEF TCall
<1> QED
  BY <1>1, <1>2, NextKeepsRotation, PTL DEF TSpec, Rotation
=============================================================================
