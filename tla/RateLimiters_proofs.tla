-------------------------- MODULE RateLimiters_proofs --------------------------
(***************************************************************************)
(* What the rate limiters promise for any limits, window lengths and clock  *)
(* offsets, and any number of concurrent requests.                          *)
(***************************************************************************)
EXTENDS RateLimiters, FiniteSetTheorems, WellFoundedInduction, TLAPS

-------------------------------------------------------------------------------
(* Largest elements. *)

\* The least-number principle, from the well-foundedness of < on Nat.
LEMMA LeastNat ==
    ASSUME NEW T \in SUBSET Nat, T # {}
    PROVE  \E x \in T : \A y \in T : x <= y
<1> DEFINE R == {ss \in Nat \X Nat : ss[1] < ss[2]}
<1>1. IsWellFoundedOn(R, Nat)
  BY NatLessThanWellFounded DEF OpToRel
<1>2. PICK x \in T : \A y \in T : ~(<<y, x>> \in R)
  BY <1>1, WFMin
<1>3. ASSUME NEW y \in T PROVE x <= y
  <2>1. <<y, x>> \in Nat \X Nat /\ <<y, x>>[1] = y /\ <<y, x>>[2] = x
    OBVIOUS
  <2>2. ~(<<y, x>>[1] < <<y, x>>[2])
    BY <1>2, <2>1
  <2> QED
    BY <2>1, <2>2
<1> QED
  BY <1>3

\* A finite set of limits is bounded: the least prefix of an enumeration
\* without a bound would follow one that has it.
LEMMA FiniteIsBounded ==
    ASSUME NEW S \in SUBSET Nat, IsFiniteSet(S)
    PROVE  \E b \in Nat : \A y \in S : y <= b
<1>0. PICK n \in Nat : ExistsSurjection(1..n, S)
  BY FS_NatSurjection
<1>1. PICK f \in [1..n -> S] : \A y \in S : \E i \in 1..n : f[i] = y
  BY <1>0 DEF ExistsSurjection, Surjection
<1>f. \A i \in 1..n : f[i] \in Nat
  OBVIOUS
<1> DEFINE Bounded(k) == \E b \in Nat : \A i \in 1..k : f[i] <= b
           Bad == {k \in 0..n : ~Bounded(k)}
<1>2. Bounded(0)
  OBVIOUS
<1>3. ASSUME NEW k \in 1..n, Bounded(k - 1) PROVE Bounded(k)
  <2>1. PICK b \in Nat : \A i \in 1..(k - 1) : f[i] <= b
    BY <1>3
  <2>2. PICK c \in Nat : c >= b /\ c >= f[k]
    BY <1>f
  <2>3. ASSUME NEW i \in 1..k PROVE f[i] <= c
    <3>1. i = k \/ i \in 1..(k - 1)
      OBVIOUS
    <3>2. f[i] \in Nat
      BY <1>f
    <3> QED
      BY <2>1, <2>2, <3>1, <3>2
  <2> QED
    BY <2>3
<1>4. Bounded(n) => \E b \in Nat : \A y \in S : y <= b
  BY <1>1
<1> HIDE DEF Bounded
<1>5. Bad \in SUBSET Nat
  OBVIOUS
<1>6. ASSUME Bad # {} PROVE FALSE
  <2>1. PICK k \in Bad : \A j \in Bad : k <= j
    <3> HIDE DEF Bad
    <3> QED
      BY <1>5, <1>6, LeastNat
  <2>2. k \in 0..n /\ ~Bounded(k)
    OBVIOUS
  <2>3. k \in 1..n /\ k - 1 \in 0..n /\ k - 1 < k
    BY <1>2, <2>2
  <2>4. k - 1 \notin Bad
    BY <2>1, <2>3
  <2> QED
    BY <1>3, <2>2, <2>3, <2>4
<1>7. n \in 0..n
  OBVIOUS
<1> QED
  BY <1>4, <1>6, <1>7

\* A finite set of naturals has a largest element.
LEMMA LargestNat ==
    ASSUME NEW S \in SUBSET Nat, IsFiniteSet(S), S # {}
    PROVE  \E x \in S : \A y \in S : x >= y
<1> DEFINE Bounds == {b \in Nat : \A y \in S : y <= b}
<1>1. PICK x \in Bounds : \A b \in Bounds : x <= b
  <2>1. Bounds # {}
    BY FiniteIsBounded
  <2>2. Bounds \in SUBSET Nat
    OBVIOUS
  <2> HIDE DEF Bounds
  <2> QED
    BY <2>1, <2>2, LeastNat
<1>2. x \in Nat /\ \A y \in S : y \in Nat /\ y <= x
  OBVIOUS
<1>3. x \in S
  <2> SUFFICES ASSUME x \notin S PROVE FALSE
    OBVIOUS
  <2>1. \A y \in S : y <= x - 1
    BY <1>2
  <2>2. x - 1 \in Nat
    <3>1. PICK y \in S : TRUE
      OBVIOUS
    <3> QED
      BY <1>2, <2>1, <3>1
  <2>3. x - 1 \in Bounds
    BY <2>1, <2>2
  <2> QED
    BY <1>1, <1>2, <2>3
<1> QED
  BY <1>2, <1>3

\* LargestLimit bounds every limit a request asks for.
LEMMA LargestLimitBounds ==
    /\ Memory!LargestLimit \in Nat /\ \A l \in Limits : l \in Nat /\ l <= Memory!LargestLimit
    /\ Sqlite!LargestLimit \in Nat /\ \A l \in Limits : l \in Nat /\ l <= Sqlite!LargestLimit
    /\ Redis!LargestLimit \in Nat /\ \A l \in Limits : l \in Nat /\ l <= Redis!LargestLimit
<1> DEFINE S == Limits \cup {0}
<1>1. S \in SUBSET Nat /\ IsFiniteSet(S) /\ S # {}
  BY LimitersAssumption, FS_AddElement
<1>2. PICK x \in S : \A y \in S : x >= y
  BY <1>1, LargestNat
<1> DEFINE m == CHOOSE z \in S : \A y \in S : z >= y
<1>3. m \in S /\ \A y \in S : m >= y
  BY <1>2
<1>4. Memory!LargestLimit = m /\ Sqlite!LargestLimit = m /\ Redis!LargestLimit = m
  BY DEF Memory!LargestLimit, Sqlite!LargestLimit, Redis!LargestLimit, Memory!Max, Sqlite!Max, Redis!Max
<1>5. \A l \in Limits : l \in S
  OBVIOUS
<1> HIDE DEF m, S
<1>6. m \in Nat /\ \A l \in Limits : l \in Nat /\ l <= m
  BY <1>1, <1>3, <1>5
<1> QED
  BY <1>4, <1>6

\* Skew covers the offset of every server clock.
LEMMA SkewBounds ==
    /\ Redis!Max(Offsets \cup {0}) \in Nat
    /\ \A o \in Offsets : o \in 0..Redis!Max(Offsets \cup {0})
    /\ Redis!Skew = Redis!Max(Offsets \cup {0}) + MaxDelay
    /\ Redis!Skew \in Nat
<1> DEFINE S == Offsets \cup {0}
<1>1. S \in SUBSET Nat /\ IsFiniteSet(S) /\ S # {}
  BY LimitersAssumption, FS_AddElement
<1>2. PICK x \in S : \A y \in S : x >= y
  BY <1>1, LargestNat
<1> DEFINE m == Redis!Max(S)
<1>3. m \in S /\ \A y \in S : m >= y
  BY <1>2 DEF Redis!Max
<1>4. \A l \in Offsets : l \in S
  OBVIOUS
<1>5. Redis!Skew = m + MaxDelay
  BY DEF Redis!Skew
<1>6. MaxDelay \in Nat
  BY LimitersAssumption
<1>7. ASSUME NEW p, p = m PROVE p \in Nat /\ (\A o \in Offsets : o \in 0..p) /\ p + MaxDelay \in Nat
  <2> HIDE DEF m, S
  <2>1. p \in Nat
    BY <1>1, <1>3, <1>7
  <2>2. ASSUME NEW o \in Offsets PROVE o \in 0..p
    <3>1. o \in Nat /\ m >= o
      BY <1>1, <1>3, <1>4
    <3> QED
      BY <1>7, <2>1, <3>1
  <2> QED
    BY <1>6, <2>1, <2>2
<1> QED
  BY <1>5, <1>7

-------------------------------------------------------------------------------
(* The fixed windows. *)

\* An admitted request opens a window or is counted in the open one, and either
\* way was below its limit (check_and_record).
LEMMA SqliteNextBucket ==
    ASSUME NEW row \in Sqlite!Bucket \cup {None}, NEW now \in Nat, NEW limit \in Limits,
           NEW b, b = Sqlite!NextBucket(row, now, limit), b # None
    PROVE  /\ b \in Sqlite!Bucket
           /\ \/ /\ row # None => row.start < now
                 /\ b.count = 1 /\ b.start = now /\ 0 < limit
              \/ /\ row # None
                 /\ b.count = row.count + 1 /\ b.start = row.start /\ row.count < limit
<1>1. FixedWindow \in Nat /\ FixedWindow >= 1 /\ limit \in Nat
  BY LimitersAssumption
<1>2. row # None => row.count \in Nat /\ row.start \in Nat
  BY DEF Sqlite!Bucket
<1>3. CASE Sqlite!Opens(row, now)
  <2>1. b = [count |-> 1, start |-> now, expires |-> now + FixedWindow] /\ 0 < limit
    BY <1>1, <1>3 DEF Sqlite!NextBucket
  <2>2. row # None => row.start < now
    BY <1>1, <1>2, <1>3 DEF Sqlite!Opens
  <2> QED
    BY <1>1, <2>1, <2>2 DEF Sqlite!Bucket
<1>4. CASE ~Sqlite!Opens(row, now)
  <2>1. row # None
    BY <1>4 DEF Sqlite!Opens
  <2>2. row.count < limit /\ b = [count |-> row.count + 1, start |-> row.start, expires |-> now + FixedWindow]
    BY <1>1, <1>2, <1>4, <2>1 DEF Sqlite!NextBucket
  <2> QED
    BY <1>1, <1>2, <2>1, <2>2 DEF Sqlite!Bucket
<1> QED
  BY <1>3, <1>4

\* The count of a bucket is exact on SQLite, where a transaction that read an
\* older row cannot write (rate_limit.rs sqlite_check_and_record).
LEMMA SqliteStep ==
    ASSUME Sqlite!IInv, [Sqlite!Next]_sqliteVars
    PROVE  Sqlite!IInv'
<1> DEFINE L == Sqlite!LargestLimit
<1>1. L \in Nat /\ \A l \in Limits : l \in Nat /\ l <= L
  BY LargestLimitBounds
<1>2. Sqlite!TypeOK /\ granted <= L /\ (bucket # None => bucket.count = granted)
  BY DEF Sqlite!IInv, Sqlite!LimitPerWindow, Sqlite!CountIsExact
<1>3. FixedMaxClock \in Nat
  BY LimitersAssumption
<1>4. ASSUME Sqlite!TypeOK', granted' <= L, bucket' # None => bucket'.count = granted'
      PROVE  Sqlite!IInv'
  <2>1. L' = L
    BY DEF Sqlite!LargestLimit
  <2> QED
    BY <1>4, <2>1 DEF Sqlite!IInv, Sqlite!LimitPerWindow, Sqlite!CountIsExact
<1> HIDE DEF L
<1>5. ASSUME NEW c \in Caller, NEW limit \in Limits, Sqlite!StartCheck(c, limit) PROVE Sqlite!IInv'
  <2>1. [limit |-> limit, now |-> sqliteClock, read |-> FALSE, row |-> None] \in Sqlite!Call
    BY <1>2 DEF Sqlite!TypeOK, Sqlite!Call
  <2>2. Sqlite!TypeOK'
    BY <1>2, <1>5, <2>1 DEF Sqlite!TypeOK, Sqlite!StartCheck
  <2> QED
    BY <1>2, <1>4, <1>5, <2>2 DEF Sqlite!StartCheck
<1>6. ASSUME NEW c \in Caller, Sqlite!SelectBucket(c) PROVE Sqlite!IInv'
  <2>1. sqlitePending[c] \in Sqlite!Call
    BY <1>2, <1>6 DEF Sqlite!TypeOK, Sqlite!SelectBucket
  <2>2. [sqlitePending[c] EXCEPT !.read = TRUE, !.row = bucket] \in Sqlite!Call
    BY <1>2, <2>1 DEF Sqlite!TypeOK, Sqlite!Call
  <2>3. Sqlite!TypeOK'
    BY <1>2, <1>6, <2>2 DEF Sqlite!TypeOK, Sqlite!SelectBucket
  <2> QED
    BY <1>2, <1>4, <1>6, <2>3 DEF Sqlite!SelectBucket
<1>7. ASSUME NEW c \in Caller, Sqlite!UpsertBucket(c) PROVE Sqlite!IInv'
  <2>1. PICK call : call = sqlitePending[c]
    OBVIOUS
  <2>2. PICK b : b = Sqlite!NextBucket(call.row, call.now, call.limit)
    OBVIOUS
  <2>3. /\ call # None
        /\ (b # None /\ bucket = call.row /\ Sqlite!Admit(b)) \/ Sqlite!Refuse
        /\ sqlitePending' = [sqlitePending EXCEPT ![c] = None]
        /\ UNCHANGED <<sqliteClock, sqliteAdmitted>>
    BY <1>7, <2>1, <2>2 DEF Sqlite!UpsertBucket, Sqlite!CanWrite
  <2>4. call \in Sqlite!Call
    BY <1>2, <2>1, <2>3 DEF Sqlite!TypeOK
  <2>5. CASE Sqlite!Refuse
    <3>1. Sqlite!TypeOK'
      BY <1>2, <2>3, <2>5 DEF Sqlite!TypeOK, Sqlite!Refuse
    <3> QED
      BY <1>2, <1>4, <2>5, <3>1 DEF Sqlite!Refuse
  <2>6. CASE b # None /\ bucket = call.row /\ Sqlite!Admit(b)
    <3>1. call.row \in Sqlite!Bucket \cup {None} /\ call.now \in Nat /\ call.limit \in Limits
      BY <2>4 DEF Sqlite!Call
    <3>2. /\ b \in Sqlite!Bucket
          /\ \/ /\ bucket # None => bucket.start < call.now
                /\ b.count = 1 /\ b.start = call.now /\ 0 < call.limit
             \/ /\ bucket # None
                /\ b.count = bucket.count + 1 /\ b.start = bucket.start /\ bucket.count < call.limit
      BY <2>2, <2>6, <3>1, SqliteNextBucket
    <3>3. bucket' = b /\ granted' = IF bucket # None /\ bucket.start = b.start THEN granted + 1 ELSE 1
      BY <2>6 DEF Sqlite!Admit
    <3>4. granted \in Nat /\ call.limit \in Nat /\ call.limit <= L
      BY <1>1, <1>2, <3>1 DEF Sqlite!TypeOK
    <3>5. granted' \in Nat /\ granted' <= L /\ b.count = granted'
      <4>1. CASE /\ bucket # None => bucket.start < call.now
                 /\ b.count = 1 /\ b.start = call.now /\ 0 < call.limit
        <5>1. bucket # None => bucket.start # call.now
          <6>1. bucket # None => bucket.start \in Nat
            BY <1>2 DEF Sqlite!TypeOK, Sqlite!Bucket
          <6> QED
            BY <3>1, <4>1, <6>1
        <5>2. granted' = 1
          BY <3>3, <4>1, <5>1
        <5> QED
          BY <1>1, <3>4, <4>1, <5>2
      <4>2. CASE /\ bucket # None
                 /\ b.count = bucket.count + 1 /\ b.start = bucket.start /\ bucket.count < call.limit
        <5>1. granted' = granted + 1 /\ b.count = granted + 1 /\ granted < call.limit
          BY <1>2, <3>3, <4>2
        <5> QED
          BY <1>1, <3>4, <5>1
      <4> QED
        BY <3>2, <4>1, <4>2
    <3>6. Sqlite!TypeOK'
      BY <1>2, <2>3, <3>2, <3>3, <3>5 DEF Sqlite!TypeOK
    <3> QED
      BY <1>4, <3>3, <3>5, <3>6
  <2> QED
    BY <2>3, <2>5, <2>6
<1>8. CASE Sqlite!PurgeBucket
  <2>1. Sqlite!TypeOK'
    BY <1>2, <1>8 DEF Sqlite!TypeOK, Sqlite!PurgeBucket
  <2> QED
    BY <1>2, <1>4, <1>8, <2>1 DEF Sqlite!PurgeBucket
<1>9. CASE Sqlite!Tick
  <2>1. Sqlite!TypeOK'
    BY <1>2, <1>3, <1>9 DEF Sqlite!TypeOK, Sqlite!Tick
  <2> QED
    BY <1>2, <1>4, <1>9, <2>1 DEF Sqlite!Tick
<1>10. CASE UNCHANGED sqliteVars
  <2>1. Sqlite!TypeOK'
    BY <1>2, <1>10 DEF Sqlite!TypeOK, sqliteVars
  <2> QED
    BY <1>2, <1>4, <1>10, <2>1 DEF sqliteVars
<1> QED
  BY <1>5, <1>6, <1>7, <1>8, <1>9, <1>10 DEF Sqlite!Next, Sqlite!CheckMemory, Sqlite!RefuseMemory

\* The same of the memory store, which reads its clock under the mutex, so that
\* a request falls into the window it is counted in.
LEMMA MemoryNextBucket ==
    ASSUME NEW row \in Memory!Bucket \cup {None}, NEW now \in Nat, NEW limit \in Limits,
           NEW b, b = Memory!NextBucket(row, now, limit), b # None, row # None => row.start <= now
    PROVE  /\ b \in Memory!Bucket
           /\ b.start <= now /\ now < b.start + FixedWindow
           /\ \/ /\ row # None => row.start + FixedWindow <= now
                 /\ b.count = 1 /\ b.start = now /\ 0 < limit
              \/ /\ row # None
                 /\ b.count = row.count + 1 /\ b.start = row.start /\ row.count < limit
<1>1. FixedWindow \in Nat /\ FixedWindow >= 1 /\ limit \in Nat
  BY LimitersAssumption
<1>2. row # None => row.count \in Nat /\ row.start \in Nat
  BY DEF Memory!Bucket
<1>3. CASE Memory!Opens(row, now)
  <2>1. b = [count |-> 1, start |-> now, expires |-> now + FixedWindow] /\ 0 < limit
    BY <1>1, <1>3 DEF Memory!NextBucket
  <2>2. row # None => row.start + FixedWindow <= now
    BY <1>1, <1>2, <1>3 DEF Memory!Opens
  <2> QED
    BY <1>1, <2>1, <2>2 DEF Memory!Bucket
<1>4. CASE ~Memory!Opens(row, now)
  <2>1. row # None /\ now < row.start + FixedWindow
    BY <1>1, <1>2, <1>4 DEF Memory!Opens
  <2>2. row.count < limit /\ b = [count |-> row.count + 1, start |-> row.start, expires |-> now + FixedWindow]
    BY <1>1, <1>2, <1>4, <2>1 DEF Memory!NextBucket
  <2> QED
    BY <1>1, <1>2, <2>1, <2>2 DEF Memory!Bucket
<1> QED
  BY <1>3, <1>4

\* In memory the count is exact as well, and every admitted request is told
\* apart by its window and its rank in it (stores.rs check_and_record).
LEMMA MemoryStep ==
    ASSUME Memory!IInv, [Memory!Next]_memoryVars
    PROVE  Memory!IInv'
<1> DEFINE L == Memory!LargestLimit
           W == FixedWindow
<1>1. L \in Nat /\ (\A l \in Limits : l \in Nat /\ l <= L) /\ W \in Nat /\ W >= 1 /\ FixedMaxClock \in Nat
  BY LargestLimitBounds, LimitersAssumption
<1>2. /\ Memory!TypeOK /\ memoryGranted <= L /\ (memoryBucket # None => memoryBucket.count = memoryGranted)
      /\ Memory!AdmittedInWindows /\ Memory!WindowsAreApart /\ Memory!RanksAreUnique /\ Memory!BucketIsLast
      /\ memoryPending = [c \in Caller |-> None]
  BY DEF Memory!IInv, Memory!LimitPerWindow, Memory!CountIsExact
<1>3. L' = L
  BY DEF Memory!LargestLimit
<1>4. ASSUME Memory!TypeOK', memoryGranted' <= L, memoryBucket' # None => memoryBucket'.count = memoryGranted',
             Memory!AdmittedInWindows', Memory!WindowsAreApart', Memory!RanksAreUnique', Memory!BucketIsLast',
             UNCHANGED memoryPending
      PROVE  Memory!IInv'
  BY <1>2, <1>3, <1>4 DEF Memory!IInv, Memory!LimitPerWindow, Memory!CountIsExact
<1>5. /\ memoryClock \in Nat /\ memoryGranted \in Nat
      /\ memoryBucket # None => memoryBucket \in Memory!Bucket /\ memoryBucket.start \in Nat
                                /\ memoryBucket.count \in Nat /\ memoryBucket.start <= memoryClock
      /\ \A a \in memoryAdmitted : a \in [at : Nat, start : Nat, n : Nat]
                                   /\ a.at \in Nat /\ a.start \in Nat /\ a.n \in Nat
  BY <1>2 DEF Memory!TypeOK, Memory!Bucket, Memory!BucketIsLast
<1>6. ASSUME UNCHANGED memoryAdmitted
      PROVE  Memory!AdmittedInWindows' /\ Memory!WindowsAreApart' /\ Memory!RanksAreUnique'
  BY <1>2, <1>3, <1>6 DEF Memory!AdmittedInWindows, Memory!WindowsAreApart, Memory!RanksAreUnique, Memory!Apart
<1>7. ASSUME NEW limit \in Limits, Memory!CheckMemory(limit) PROVE Memory!IInv'
  <2>1. PICK b : b = Memory!NextBucket(memoryBucket, memoryClock, limit)
    OBVIOUS
  <2>2. PICK new : new = [at |-> memoryClock, start |-> b.start, n |-> b.count]
    OBVIOUS
  <2>3. /\ b # None /\ memoryBucket' = b
        /\ memoryGranted' = IF memoryBucket # None /\ memoryBucket.start = b.start THEN memoryGranted + 1 ELSE 1
        /\ memoryAdmitted' = memoryAdmitted \cup {new}
        /\ UNCHANGED <<memoryClock, memoryPending>>
    BY <1>7, <2>1, <2>2 DEF Memory!CheckMemory, Memory!Admit
  <2>4. memoryBucket \in Memory!Bucket \cup {None}
    BY <1>2 DEF Memory!TypeOK
  <2>5. /\ b \in Memory!Bucket
        /\ b.start <= memoryClock /\ memoryClock < b.start + W
        /\ \/ /\ memoryBucket # None => memoryBucket.start + W <= memoryClock
              /\ b.count = 1 /\ b.start = memoryClock /\ 0 < limit
           \/ /\ memoryBucket # None
              /\ b.count = memoryBucket.count + 1 /\ b.start = memoryBucket.start /\ memoryBucket.count < limit
    BY <1>5, <2>1, <2>3, <2>4, MemoryNextBucket
  <2>6. b.start \in Nat /\ b.count \in Nat /\ limit \in Nat /\ limit <= L
    BY <1>1, <2>5 DEF Memory!Bucket
  <2>7. new \in [at : Nat, start : Nat, n : Nat] /\ new.at = memoryClock /\ new.start = b.start /\ new.n = b.count
    BY <1>5, <2>2, <2>6
  <2>8. \* every earlier request has a lower rank or an earlier window
        \A a \in memoryAdmitted : \/ a.start = b.start /\ a.n < b.count
                                  \/ a.start + W <= b.start
    <3> SUFFICES ASSUME NEW a \in memoryAdmitted
                 PROVE  (a.start = b.start /\ a.n < b.count) \/ a.start + W <= b.start
      OBVIOUS
    <3>1. /\ memoryBucket # None
          /\ \/ a.start = memoryBucket.start /\ a.n <= memoryBucket.count
             \/ a.start + W <= memoryBucket.start
      BY <1>2 DEF Memory!BucketIsLast
    <3> HIDE DEF W
    <3> QED
      BY <1>1, <1>5, <2>5, <2>6, <3>1
  <2>9. memoryGranted' \in Nat /\ memoryGranted' <= L /\ b.count = memoryGranted' /\ 1 <= b.count
    <3>1. CASE /\ memoryBucket # None => memoryBucket.start + W <= memoryClock
               /\ b.count = 1 /\ b.start = memoryClock /\ 0 < limit
      <4>1. memoryBucket # None => memoryBucket.start # b.start
        BY <1>1, <1>5, <3>1
      <4>2. memoryGranted' = 1
        BY <2>3, <4>1
      <4> QED
        BY <1>1, <2>6, <3>1, <4>2
    <3>2. CASE /\ memoryBucket # None
               /\ b.count = memoryBucket.count + 1 /\ b.start = memoryBucket.start /\ memoryBucket.count < limit
      <4>1. memoryGranted' = memoryGranted + 1 /\ b.count = memoryGranted + 1 /\ memoryGranted < limit
        BY <1>2, <2>3, <3>2
      <4> QED
        BY <1>1, <1>5, <2>6, <4>1
    <3> QED
      BY <2>5, <3>1, <3>2
  <2>10. Memory!TypeOK'
    <3>1. Memory!IsFiniteSet(memoryAdmitted \cup {new})
      <4>1. IsFiniteSet(memoryAdmitted)
        BY <1>2 DEF Memory!TypeOK, Memory!IsFiniteSet, IsFiniteSet
      <4>2. IsFiniteSet(memoryAdmitted \cup {new})
        BY <4>1, FS_AddElement
      <4> QED
        BY <4>2 DEF Memory!IsFiniteSet, IsFiniteSet
    <3> QED
      BY <1>2, <2>3, <2>5, <2>7, <2>9, <3>1 DEF Memory!TypeOK
  <2>11. Memory!AdmittedInWindows'
    <3>1. 1 <= new.n /\ new.n <= L /\ new.start <= new.at /\ new.at < new.start + W
      BY <2>5, <2>7, <2>9
    <3> QED
      BY <1>2, <1>3, <2>3, <3>1 DEF Memory!AdmittedInWindows
  <2>12. Memory!WindowsAreApart'
    <3>1. \A a \in memoryAdmitted : Memory!Apart(a.start, new.start) /\ Memory!Apart(new.start, a.start)
      BY <2>7, <2>8 DEF Memory!Apart
    <3>2. Memory!Apart(new.start, new.start)
      BY DEF Memory!Apart
    <3>3. \A a, d \in memoryAdmitted : Memory!Apart(a.start, d.start)
      BY <1>2 DEF Memory!WindowsAreApart
    <3>4. \A a, d \in memoryAdmitted \cup {new} : Memory!Apart(a.start, d.start)
      BY <3>1, <3>2, <3>3
    <3> QED
      BY <2>3, <3>4 DEF Memory!WindowsAreApart, Memory!Apart
  <2>13. Memory!RanksAreUnique'
    <3>1. \A a \in memoryAdmitted : ~(a.start = new.start /\ a.n = new.n)
      BY <1>1, <1>5, <2>6, <2>7, <2>8
    <3> QED
      BY <1>2, <2>3, <3>1 DEF Memory!RanksAreUnique
  <2>14. Memory!BucketIsLast'
    <3>1. \A a \in memoryAdmitted \cup {new} : \/ a.start = b.start /\ a.n <= b.count
                                              \/ a.start + W <= b.start
      BY <1>5, <2>6, <2>7, <2>8
    <3> QED
      BY <2>3, <2>5, <3>1 DEF Memory!BucketIsLast
  <2> QED
    BY <1>4, <2>3, <2>9, <2>10, <2>11, <2>12, <2>13, <2>14
<1>8. ASSUME NEW limit \in Limits, Memory!RefuseMemory(limit) PROVE Memory!IInv'
  <2>1. PICK b : b = [count |-> 0, start |-> memoryClock, expires |-> memoryClock + W]
    OBVIOUS
  <2>2. /\ memoryBucket' = b /\ memoryGranted' = 0
        /\ memoryBucket # None => memoryClock - memoryBucket.start >= W
        /\ UNCHANGED <<memoryClock, memoryPending, memoryAdmitted>>
    BY <1>8, <2>1 DEF Memory!RefuseMemory, Memory!Opens
  <2>3. b \in Memory!Bucket /\ b.start = memoryClock /\ b.count = 0
    BY <1>1, <1>5, <2>1 DEF Memory!Bucket
  <2>4. \A a \in memoryAdmitted : a.start + W <= memoryClock
    <3> SUFFICES ASSUME NEW a \in memoryAdmitted PROVE a.start + W <= memoryClock
      OBVIOUS
    <3>1. /\ memoryBucket # None
          /\ a.start = memoryBucket.start \/ a.start + W <= memoryBucket.start
      BY <1>2 DEF Memory!BucketIsLast
    <3> HIDE DEF W
    <3> QED
      BY <1>1, <1>5, <2>2, <3>1
  <2>5. Memory!TypeOK'
    BY <1>2, <2>2, <2>3 DEF Memory!TypeOK
  <2>6. Memory!BucketIsLast'
    <3>1. memoryClock <= memoryClock
      BY <1>5
    <3>2. memoryBucket'.start <= memoryClock'
      BY <2>2, <2>3, <3>1
    <3>3. \A a \in memoryAdmitted' : a.start + W <= memoryBucket'.start
      BY <2>2, <2>3, <2>4
    <3>4. b # None
      BY <2>3, NoneAssumption DEF Memory!Bucket
    <3> QED
      BY <2>2, <3>2, <3>3, <3>4 DEF Memory!BucketIsLast
  <2> QED
    BY <1>1, <1>4, <1>6, <2>2, <2>3, <2>5, <2>6
<1>9. CASE Memory!Tick
  <2>1. Memory!TypeOK'
    BY <1>1, <1>2, <1>9 DEF Memory!TypeOK, Memory!Tick
  <2>2. Memory!BucketIsLast'
    BY <1>2, <1>5, <1>9 DEF Memory!BucketIsLast, Memory!Tick
  <2> QED
    BY <1>2, <1>4, <1>6, <1>9, <2>1, <2>2 DEF Memory!Tick
<1>10. CASE UNCHANGED memoryVars
  <2>1. Memory!TypeOK' /\ Memory!BucketIsLast'
    BY <1>2, <1>10 DEF Memory!TypeOK, Memory!BucketIsLast, memoryVars
  <2> QED
    BY <1>2, <1>4, <1>6, <1>10, <2>1 DEF memoryVars
<1>11. ASSUME NEW c \in Caller, Memory!SelectBucket(c) \/ Memory!UpsertBucket(c) PROVE Memory!IInv'
  BY <1>2, <1>11 DEF Memory!SelectBucket, Memory!UpsertBucket
<1> QED
  BY <1>7, <1>8, <1>9, <1>10, <1>11 DEF Memory!Next, Memory!StartCheck, Memory!PurgeBucket

\* Requests of one window are told apart by a rank between 1 and the limit, so
\* there are no more of them than the limit.
LEMMA OneWindowIsLimited ==
    ASSUME NEW S \in SUBSET [at : Nat, start : Nat, n : Nat], NEW L \in Nat,
           \A a \in S : 1 <= a.n /\ a.n <= L,
           \A a, b \in S : a.n = b.n => a = b
    PROVE  IsFiniteSet(S) /\ Cardinality(S) \in Nat /\ Cardinality(S) <= L
<1> DEFINE f == [a \in S |-> a.n]
<1>1. f \in [S -> 1..L]
  OBVIOUS
<1>2. \A a, b \in S : f[a] = f[b] => a = b
  OBVIOUS
<1>3. f \in Injection(S, 1..L)
  BY <1>1, <1>2 DEF Injection, IsInjective
<1>4. IsFiniteSet(1..L) /\ Cardinality(1..L) = L
  BY FS_Interval
<1> HIDE DEF f
<1>5. IsFiniteSet(S) /\ Cardinality(S) <= L
  BY <1>3, <1>4, FS_Injection
<1> QED
  BY <1>5, FS_CardinalityType

\* An interval of one window's length meets at most two windows
\* (stores.rs MemoryRateLimitStore).
LEMMA MemoryBurst == Memory!IInv => Memory!BoundaryBurst
<1> SUFFICES ASSUME Memory!IInv, NEW t \in 0..FixedMaxClock
             PROVE  Memory!Cardinality(Memory!AdmittedFrom(t)) <= 2 * Memory!LargestLimit
  BY DEF Memory!BoundaryBurst
<1>1. PICK L : L = Memory!LargestLimit
  OBVIOUS
<1>2. L \in Nat /\ FixedWindow \in Nat /\ t \in Nat
  BY <1>1, LargestLimitBounds, LimitersAssumption
<1>3. PICK A : A = Memory!AdmittedFrom(t)
  OBVIOUS
<1>4. \A a \in A :
         /\ a \in [at : Nat, start : Nat, n : Nat] /\ a.start \in Nat /\ a.at \in Nat
         /\ 1 <= a.n /\ a.n <= L /\ a.start <= a.at /\ a.at < a.start + FixedWindow
         /\ t <= a.at /\ a.at < t + FixedWindow
  BY <1>1, <1>3 DEF Memory!IInv, Memory!TypeOK, Memory!AdmittedInWindows, Memory!AdmittedFrom
<1>5. \A a, b \in A : /\ Memory!Apart(a.start, b.start)
                      /\ a.start = b.start /\ a.n = b.n => a = b
  BY <1>3 DEF Memory!IInv, Memory!WindowsAreApart, Memory!RanksAreUnique, Memory!AdmittedFrom
<1>6. PICK old : old = {a \in A : a.start <= t}
  OBVIOUS
<1>7. PICK new : new = {a \in A : a.start > t}
  OBVIOUS
<1>8. IsFiniteSet(old) /\ Cardinality(old) \in Nat /\ Cardinality(old) <= L
  <2>1. \A a, b \in old : a.start = b.start
    BY <1>2, <1>4, <1>5, <1>6 DEF Memory!Apart
  <2>2. \A a, b \in old : a.n = b.n => a = b
    BY <1>5, <1>6, <2>1
  <2>3. old \in SUBSET [at : Nat, start : Nat, n : Nat] /\ \A a \in old : 1 <= a.n /\ a.n <= L
    BY <1>4, <1>6
  <2> QED
    BY <1>2, <2>2, <2>3, OneWindowIsLimited
<1>9. IsFiniteSet(new) /\ Cardinality(new) \in Nat /\ Cardinality(new) <= L
  <2>1. \A a, b \in new : a.start = b.start
    BY <1>2, <1>4, <1>5, <1>7 DEF Memory!Apart
  <2>2. \A a, b \in new : a.n = b.n => a = b
    BY <1>5, <1>7, <2>1
  <2>3. new \in SUBSET [at : Nat, start : Nat, n : Nat] /\ \A a \in new : 1 <= a.n /\ a.n <= L
    BY <1>4, <1>7
  <2> QED
    BY <1>2, <2>2, <2>3, OneWindowIsLimited
<1>10. A = old \cup new /\ old \cap new = {}
  BY <1>2, <1>4, <1>6, <1>7
<1>11. Cardinality(old \cap new) = 0
  BY <1>10, FS_EmptySet
<1>12. Cardinality(A) = Cardinality(old) + Cardinality(new)
  <2>1. Cardinality(old \cup new) = Cardinality(old) + Cardinality(new) - Cardinality(old \cap new)
    BY <1>8, <1>9, FS_Union
  <2>2. Cardinality(old \cup new) = Cardinality(old) + Cardinality(new)
    BY <1>8, <1>9, <1>11, <2>1
  <2> QED
    BY <1>10, <2>2
<1>13. Cardinality(A) <= 2 * L
  BY <1>2, <1>8, <1>9, <1>12
<1>14. Memory!Cardinality(A) = Cardinality(A)
  BY DEF Memory!Cardinality, Cardinality
<1> QED
  BY <1>1, <1>3, <1>13, <1>14

-------------------------------------------------------------------------------
(* The sliding window. *)

\* Members of a sorted set that hold every request of a set are no fewer.
LEMMA MembersCover ==
    ASSUME NEW M, IsFiniteSet(M), NEW A,
           \A a \in A : a \in [at : 0..MaxClock, n : Nat],
           \A a \in A : \E m \in M : m.at = a.at /\ m.n = a.n
    PROVE  IsFiniteSet(A) /\ Cardinality(A) \in Nat /\ Cardinality(A) <= Cardinality(M)
<1> DEFINE f == [a \in A |-> CHOOSE m \in M : m.at = a.at /\ m.n = a.n]
<1>1. \A a \in A : f[a] \in M /\ f[a].at = a.at /\ f[a].n = a.n
  OBVIOUS
<1>2. f \in [A -> M]
  BY <1>1
<1> HIDE DEF f
<1>3. \A a, b \in A : f[a] = f[b] => a = b
  BY <1>1
<1>4. f \in Injection(A, M)
  BY <1>2, <1>3 DEF Injection, IsInjective
<1>5. IsFiniteSet(A) /\ Cardinality(A) <= Cardinality(M)
  BY <1>4, FS_Injection
<1> QED
  BY <1>5, FS_CardinalityType

\* The finiteness and the number of a set mean the same in the limiter's module.
LEMMA SameCardinality ==
    /\ \A S : Redis!Cardinality(S) = Cardinality(S)
    /\ \A S : Redis!IsFiniteSet(S) <=> IsFiniteSet(S)
BY DEF Redis!Cardinality, Cardinality, Redis!IsFiniteSet, IsFiniteSet

\* The reach of NoBoundaryBurst: a window less the skew of the clocks.
Reach == Window - Redis!Skew

\* What the parts of the invariant say of the numbers involved.
LEMMA RedisFacts ==
    ASSUME Redis!IInv
    PROVE  /\ clock \in Nat /\ clock \in 0..MaxClock /\ expires \in Nat
           /\ Window \in Nat /\ Window >= 1 /\ MaxDelay \in Nat /\ MaxClock \in Nat
           /\ Redis!Skew \in Nat /\ Reach \in Int /\ Reach <= Window
           /\ IsFiniteSet(members) /\ IsFiniteSet(admitted)
           /\ \A m \in members : m \in Redis!Member /\ m.at \in Nat /\ m.score \in Nat /\ m.at - m.score <= MaxDelay
           /\ \A a \in admitted : a \in [at : 0..MaxClock, n : Nat] /\ a.at \in Nat /\ a.n \in Nat
                                  /\ a.at <= clock /\ a.at + Window <= expires
           /\ \A a \in admitted : a.at > clock - Reach => \E m \in members : m.at = a.at /\ m.n = a.n
<1>1. Window \in Nat /\ Window >= 1 /\ MaxDelay \in Nat /\ MaxClock \in Nat
  BY LimitersAssumption
<1>2. Redis!Skew \in Nat
  BY SkewBounds
<1>3. Reach \in Int /\ Reach <= Window
  BY <1>1, <1>2 DEF Reach
<1>4. Redis!TypeOK /\ Redis!ScoresAreRecent /\ Redis!KeyOutlivesWindow /\ Redis!RecentIsKept
  BY DEF Redis!IInv
<1>5. clock \in 0..MaxClock /\ expires \in Nat /\ members \subseteq Redis!Member
      /\ admitted \subseteq [at : 0..MaxClock, n : Nat]
  BY <1>4 DEF Redis!TypeOK
<1>6. IsFiniteSet(members) /\ IsFiniteSet(admitted)
  BY <1>4, SameCardinality DEF Redis!TypeOK
<1>7. ASSUME NEW m \in members
      PROVE  m \in Redis!Member /\ m.at \in Nat /\ m.score \in Nat /\ m.at - m.score <= MaxDelay
  BY <1>1, <1>4, <1>5 DEF Redis!Member, Redis!ScoresAreRecent
<1>8. ASSUME NEW a \in admitted
      PROVE  a \in [at : 0..MaxClock, n : Nat] /\ a.at \in Nat /\ a.n \in Nat
             /\ a.at <= clock /\ a.at + Window <= expires
  BY <1>1, <1>4, <1>5 DEF Redis!KeyOutlivesWindow
<1>9. ASSUME NEW a \in admitted, a.at > clock - Reach PROVE \E m \in members : m.at = a.at /\ m.n = a.n
  BY <1>4, <1>8, <1>9 DEF Redis!RecentIsKept, Redis!AdmittedIn, Reach
<1> QED
  BY <1>1, <1>2, <1>3, <1>5, <1>6, <1>7, <1>8, <1>9

\* Removing what is older than a window by the caller's clock leaves every
\* request admitted within the reach: the score is at most MaxDelay older than
\* the admission, the caller's clock ahead by its offset at most (ZREMRANGEBYSCORE).
LEMMA RestHoldsRecent ==
    ASSUME Redis!IInv, NEW c \in Caller, pending[c] # None,
           NEW a \in admitted, a.at > clock - Reach
    PROVE  \E m \in Redis!InWindow(pending[c].stamp) : m.at = a.at /\ m.n = a.n
<1>1. PICK m \in members : m.at = a.at /\ m.n = a.n
  BY RedisFacts
<1>2. PICK o : o = Redis!Max(Offsets \cup {0})
  OBVIOUS
<1>3. o \in Nat /\ Reach = Window - (o + MaxDelay)
  BY <1>2, SkewBounds DEF Reach
<1>4. pending[c] \in Redis!Call
  BY DEF Redis!IInv, Redis!TypeOK
<1>5. PICK s, k : s = pending[c].stamp /\ k = pending[c].taken
  OBVIOUS
<1>6. s \in Nat /\ k \in 0..MaxClock
  BY <1>4, <1>5 DEF Redis!Call
<1>7. k <= clock /\ s - k \in 0..o
  BY <1>2, <1>5 DEF Redis!IInv, Redis!ReadingsAreRecent
<1>8. clock \in Nat /\ MaxClock \in Nat /\ Window \in Nat /\ MaxDelay \in Nat
      /\ m.at \in Nat /\ m.score \in Nat /\ m.at - m.score <= MaxDelay
  BY RedisFacts
<1>9. m.score > s - Window
  BY <1>1, <1>3, <1>6, <1>7, <1>8
<1> QED
  BY <1>1, <1>5, <1>9 DEF Redis!InWindow

\* The script admits a request below its limit only, and keeps what it needs to
\* count the next (RATE_LIMIT_SCRIPT).
LEMMA ScriptAdmits ==
    ASSUME Redis!IInv, NEW c \in Caller, NEW s, NEW rest, NEW new, NEW rank,
           pending[c] # None, s = pending[c].stamp, rest = Redis!InWindow(s), rank = Redis!Rank,
           Redis!Cardinality(rest) < pending[c].limit,
           new = [at |-> clock, n |-> rank],
           members' = rest \cup {[score |-> s, at |-> clock, n |-> rank]},
           expires' = clock + Window, admitted' = admitted \cup {new},
           pending' = [pending EXCEPT ![c] = None], clock' = clock
    PROVE  Redis!IInv'
<1> DEFINE m0 == [score |-> s, at |-> clock, n |-> rank]
<1>1. Redis!TypeOK /\ Redis!ReadingsAreRecent
  BY DEF Redis!IInv
<1>2. pending[c] \in Redis!Call
  BY <1>1 DEF Redis!TypeOK
<1>3. s \in Nat /\ pending[c].limit \in Limits
  BY <1>2 DEF Redis!Call
<1>4. clock \in 0..MaxClock /\ clock \in Nat /\ MaxDelay \in Nat /\ Window \in Nat /\ Window >= 1
      /\ Reach \in Int /\ IsFiniteSet(admitted) /\ IsFiniteSet(members)
  BY RedisFacts
<1>5. rank \in Nat /\ rank = Cardinality({a \in admitted : a.at = clock})
  <2>1. IsFiniteSet({a \in admitted : a.at = clock})
    BY <1>4, FS_Subset
  <2> QED
    BY <2>1, FS_CardinalityType, SameCardinality DEF Redis!Rank
<1>6. new \in [at : 0..MaxClock, n : Nat] /\ new.at = clock /\ new.n = rank
  BY <1>4, <1>5
<1>7. m0 \in Redis!Member /\ m0.at = clock /\ m0.n = rank /\ m0.score = s
  BY <1>3, <1>4, <1>5 DEF Redis!Member
<1>8. rest \subseteq members /\ IsFiniteSet(rest) /\ Cardinality(rest) \in Nat
  <2>1. rest \in SUBSET members
    BY DEF Redis!InWindow
  <2> QED
    BY <1>4, <2>1, FS_Subset, FS_CardinalityType
<1>9. Redis!TypeOK'
  <2>1. IsFiniteSet(members') /\ IsFiniteSet(admitted')
    BY <1>4, <1>8, FS_AddElement
  <2>2. Redis!IsFiniteSet(members') /\ Redis!IsFiniteSet(admitted')
    BY <2>1, SameCardinality
  <2>3. members' \subseteq Redis!Member /\ admitted' \subseteq [at : 0..MaxClock, n : Nat]
    BY <1>1, <1>6, <1>7, <1>8 DEF Redis!TypeOK
  <2>4. clock + Window \in Nat
    BY <1>4
  <2> QED
    BY <1>1, <2>2, <2>3, <2>4 DEF Redis!TypeOK
<1>10. Redis!ReadingsAreRecent'
  BY <1>1 DEF Redis!ReadingsAreRecent, Redis!TypeOK
<1>11. Redis!ScoresAreRecent'
  <2>1. PICK o, k : o = Redis!Max(Offsets \cup {0}) /\ k = pending[c].taken
    OBVIOUS
  <2>2. o \in Nat /\ k \in 0..MaxClock /\ clock - k <= MaxDelay /\ k <= clock /\ s - k \in 0..o
    BY <1>1, <1>2, <2>1, SkewBounds DEF Redis!Call, Redis!ReadingsAreRecent
  <2>3. m0.at - m0.score <= MaxDelay
    <3>1. clock - s <= MaxDelay
      BY <1>3, <1>4, <2>2
    <3> QED
      BY <1>7, <3>1
  <2>4. \A m \in rest : m.at - m.score <= MaxDelay
    BY <1>8 DEF Redis!IInv, Redis!ScoresAreRecent
  <2> QED
    BY <2>3, <2>4 DEF Redis!ScoresAreRecent
<1>12. Redis!KeyOutlivesWindow'
  <2>1. ASSUME NEW a \in admitted' PROVE a.at <= clock /\ a.at + Window <= clock + Window
    <3>1. a \in admitted \/ a = new
      OBVIOUS
    <3>2. a.at \in Nat /\ a.at <= clock
      BY <1>4, <1>6, <3>1, RedisFacts
    <3> QED
      BY <1>4, <3>2
  <2> QED
    BY <2>1 DEF Redis!KeyOutlivesWindow
<1>13. \A a \in admitted : a.at > clock - Reach => \E m \in rest : m.at = a.at /\ m.n = a.n
  BY RestHoldsRecent
<1>14. Redis!RecentIsKept'
  <2>1. ASSUME NEW a \in admitted', a.at > clock - Reach PROVE \E m \in members' : m.at = a.at /\ m.n = a.n
    <3>1. CASE a \in admitted
      BY <1>13, <2>1, <3>1
    <3>2. CASE a = new
      BY <1>6, <1>7, <3>2
    <3> QED
      BY <3>1, <3>2
  <2>2. ASSUME NEW a \in admitted, clock - Reach < a.at PROVE a.at > clock - Reach
    BY <1>4, <2>2, RedisFacts
  <2>3. clock - Reach < new.at => new.at > clock - Reach
    BY <1>4, <1>6
  <2>4. (Window - Redis!Skew)' = Reach
    BY DEF Reach, Redis!Skew, Redis!Max
  <2> QED
    BY <2>1, <2>2, <2>3, <2>4 DEF Redis!RecentIsKept, Redis!AdmittedIn
<1>15. new \notin admitted /\ Redis!RanksAreFresh'
  <2> DEFINE Same(S, t) == {b \in S : b.at = t}
  <2>1. \A a \in admitted : a.n \in Nat /\ a.n < Cardinality(Same(admitted, a.at))
    BY SameCardinality, RedisFacts DEF Redis!IInv, Redis!RanksAreFresh
  <2>2. new \notin admitted
    <3> SUFFICES ASSUME new \in admitted PROVE FALSE
      OBVIOUS
    <3>1. rank < Cardinality(Same(admitted, clock))
      BY <1>6, <2>1
    <3> QED
      BY <1>5, <3>1
  <2>3. \A t : Same(admitted, t) \subseteq Same(admitted', t) /\ IsFiniteSet(Same(admitted', t))
               /\ Cardinality(Same(admitted', t)) \in Nat /\ Cardinality(Same(admitted, t)) \in Nat
               /\ Cardinality(Same(admitted, t)) <= Cardinality(Same(admitted', t))
    <3> SUFFICES ASSUME NEW t
                 PROVE  Same(admitted, t) \subseteq Same(admitted', t) /\ IsFiniteSet(Same(admitted', t))
                        /\ Cardinality(Same(admitted', t)) \in Nat /\ Cardinality(Same(admitted, t)) \in Nat
                        /\ Cardinality(Same(admitted, t)) <= Cardinality(Same(admitted', t))
      OBVIOUS
    <3>1. IsFiniteSet(admitted')
      BY <1>4, FS_AddElement
    <3>2. Same(admitted', t) \in SUBSET admitted' /\ Same(admitted, t) \in SUBSET Same(admitted', t)
      OBVIOUS
    <3> HIDE DEF Same
    <3>3. IsFiniteSet(Same(admitted', t))
      BY <3>1, <3>2, FS_Subset
    <3>4. IsFiniteSet(Same(admitted, t)) /\ Cardinality(Same(admitted, t)) <= Cardinality(Same(admitted', t))
      BY <3>2, <3>3, FS_Subset
    <3> QED
      BY <3>2, <3>3, <3>4, FS_CardinalityType
  <2>4. rank < Cardinality(Same(admitted', clock))
    <3>1. Same(admitted', clock) = Same(admitted, clock) \cup {new} /\ new \notin Same(admitted, clock)
          /\ IsFiniteSet(Same(admitted, clock))
      <4>1. Same(admitted, clock) \in SUBSET admitted
        OBVIOUS
      <4>2. IsFiniteSet(Same(admitted, clock))
        BY <1>4, <4>1, FS_Subset
      <4> QED
        BY <1>6, <2>2, <4>2
    <3>2. rank = Cardinality(Same(admitted, clock))
      BY <1>5
    <3> HIDE DEF Same
    <3>3. Cardinality(Same(admitted', clock)) = Cardinality(Same(admitted, clock)) + 1
      BY <3>1, FS_AddElement
    <3> QED
      BY <1>5, <3>2, <3>3
  <2>5. ASSUME NEW a \in admitted' PROVE a.n < Cardinality(Same(admitted', a.at))
    <3>1. CASE a \in admitted
      <4> HIDE DEF Same
      <4>1. PICK t, p, q : t = a.at /\ p = Cardinality(Same(admitted, t)) /\ q = Cardinality(Same(admitted', t))
        OBVIOUS
      <4>2. a.n \in Nat /\ a.n < p
        BY <2>1, <3>1, <4>1
      <4>3. p \in Nat /\ q \in Nat /\ p <= q
        BY <2>3, <4>1
      <4>4. a.n < q
        BY <4>2, <4>3
      <4> QED
        BY <4>1, <4>4
    <3>2. CASE a = new
      <4> HIDE DEF Same
      <4> QED
        BY <1>6, <2>4, <3>2
    <3> QED
      BY <3>1, <3>2
  <2>6. ASSUME NEW a \in admitted' PROVE a.n < Redis!Cardinality({b \in admitted' : b.at = a.at})
    BY <2>5, SameCardinality
  <2> QED
    BY <2>2, <2>6 DEF Redis!RanksAreFresh, Redis!Cardinality
<1>16. Redis!NoBoundaryBurst'
  <2>1. PICK L : L = Redis!LargestLimit
    OBVIOUS
  <2>2. L \in Nat /\ pending[c].limit \in Nat /\ pending[c].limit <= L /\ Cardinality(rest) < pending[c].limit
    BY <1>3, <2>1, LargestLimitBounds, SameCardinality
  <2>3. ASSUME Redis!Skew < Window, NEW hi \in 0..MaxClock
        PROVE  Cardinality({a \in admitted' : hi - Reach < a.at /\ a.at <= hi}) <= L
    <3> DEFINE In(S) == {a \in S : hi - Reach < a.at /\ a.at <= hi}
    <3>1. Cardinality(In(admitted)) <= L
      BY <2>1, <2>3, SameCardinality DEF Redis!IInv, Redis!NoBoundaryBurst, Redis!AdmittedIn, Reach
    <3>2. CASE In(admitted') = In(admitted)
      BY <3>1, <3>2
    <3>3. CASE In(admitted') # In(admitted)
      <4>1. new \in In(admitted') /\ In(admitted') = In(admitted) \cup {new}
        BY <3>3
      <4>2. hi \in Nat /\ clock <= hi
        BY <1>4, <1>6, <4>1
      <4>3. \A a \in In(admitted) : a \in [at : 0..MaxClock, n : Nat] /\ \E m \in rest : m.at = a.at /\ m.n = a.n
        <5> SUFFICES ASSUME NEW a \in In(admitted)
                     PROVE  a \in [at : 0..MaxClock, n : Nat] /\ \E m \in rest : m.at = a.at /\ m.n = a.n
          OBVIOUS
        <5>1. a \in admitted /\ hi - Reach < a.at /\ a.at \in Nat /\ a \in [at : 0..MaxClock, n : Nat]
          BY RedisFacts
        <5>2. a.at > clock - Reach
          BY <1>4, <4>2, <5>1
        <5> QED
          BY <1>13, <5>1, <5>2
      <4> HIDE DEF In
      <4>4. IsFiniteSet(In(admitted)) /\ Cardinality(In(admitted)) \in Nat
            /\ Cardinality(In(admitted)) <= Cardinality(rest)
        BY <1>8, <4>3, MembersCover
      <4>5. \/ Cardinality(In(admitted')) = Cardinality(In(admitted))
            \/ Cardinality(In(admitted')) = Cardinality(In(admitted)) + 1
        <5>1. Cardinality(In(admitted) \cup {new}) =
                IF new \in In(admitted) THEN Cardinality(In(admitted)) ELSE Cardinality(In(admitted)) + 1
          BY <4>4, FS_AddElement
        <5> QED
          BY <4>1, <5>1
      <4>6. Cardinality(In(admitted')) <= L
        BY <1>8, <2>2, <4>4, <4>5
      <4> QED
        BY <4>6 DEF In
    <3> QED
      BY <3>2, <3>3
  <2>4. L = Redis!LargestLimit' /\ Redis!Skew' = Redis!Skew
    BY <2>1 DEF Redis!LargestLimit, Redis!Skew, Redis!Max
  <2> QED
    BY <2>3, <2>4, SameCardinality DEF Redis!NoBoundaryBurst, Redis!AdmittedIn, Reach
<1> QED
  BY <1>9, <1>10, <1>11, <1>12, <1>14, <1>15, <1>16 DEF Redis!IInv

\* A refusal removes what is out of the window and nothing else.
LEMMA ScriptRefuses ==
    ASSUME Redis!IInv, NEW c \in Caller, pending[c] # None,
           members' = Redis!InWindow(pending[c].stamp),
           pending' = [pending EXCEPT ![c] = None], UNCHANGED <<clock, expires, admitted>>
    PROVE  Redis!IInv'
<1>1. Redis!TypeOK /\ Redis!ReadingsAreRecent /\ Redis!ScoresAreRecent /\ Redis!KeyOutlivesWindow
      /\ Redis!RanksAreFresh /\ Redis!NoBoundaryBurst
  BY DEF Redis!IInv
<1>2. members' \in SUBSET members
  BY DEF Redis!InWindow
<1>3. Redis!TypeOK'
  <2>1. IsFiniteSet(members')
    BY <1>2, FS_Subset, RedisFacts
  <2>2. Redis!IsFiniteSet(members')
    BY <2>1, SameCardinality
  <2> QED
    BY <1>1, <1>2, <2>2 DEF Redis!TypeOK
<1>4. Redis!ReadingsAreRecent' /\ Redis!ScoresAreRecent' /\ Redis!KeyOutlivesWindow'
  BY <1>1, <1>2 DEF Redis!TypeOK, Redis!ReadingsAreRecent, Redis!ScoresAreRecent, Redis!KeyOutlivesWindow
<1>5. Redis!RecentIsKept'
  <2>1. \A a \in admitted : a.at > clock - Reach => \E m \in members' : m.at = a.at /\ m.n = a.n
    BY RestHoldsRecent
  <2>2. \A a \in admitted : clock - Reach < a.at => a.at > clock - Reach
    BY RedisFacts
  <2> QED
    BY <2>1, <2>2 DEF Redis!RecentIsKept, Redis!AdmittedIn, Redis!Skew, Reach
<1>6. Redis!RanksAreFresh' /\ Redis!NoBoundaryBurst'
  BY <1>1 DEF Redis!RanksAreFresh, Redis!NoBoundaryBurst, Redis!AdmittedIn, Redis!LargestLimit, Redis!Skew
<1> QED
  BY <1>3, <1>4, <1>5, <1>6 DEF Redis!IInv

\* Nothing is admitted within the reach that the sorted set no longer holds:
\* its key outlives the last admission by a window, and time only moves on.
LEMMA RedisStep ==
    ASSUME Redis!IInv, [Redis!Next]_redisVars
    PROVE  Redis!IInv'
<1>1. Redis!TypeOK /\ Redis!ReadingsAreRecent /\ Redis!ScoresAreRecent /\ Redis!KeyOutlivesWindow
      /\ Redis!RecentIsKept /\ Redis!RanksAreFresh /\ Redis!NoBoundaryBurst
  BY DEF Redis!IInv
<1>2. ASSUME UNCHANGED admitted PROVE Redis!RanksAreFresh' /\ Redis!NoBoundaryBurst'
  BY <1>1, <1>2 DEF Redis!RanksAreFresh, Redis!NoBoundaryBurst, Redis!AdmittedIn, Redis!LargestLimit, Redis!Skew
<1>3. ASSUME NEW c \in Caller, Redis!RunScript(c) PROVE Redis!IInv'
  <2>1. PICK s, rest, rank, new :
          s = pending[c].stamp /\ rest = Redis!InWindow(s) /\ rank = Redis!Rank /\ new = [at |-> clock, n |-> rank]
    OBVIOUS
  <2>2. /\ pending[c] # None
        /\ \/ /\ Redis!Cardinality(rest) < pending[c].limit
              /\ members' = rest \cup {[score |-> s, at |-> clock, n |-> rank]}
              /\ expires' = clock + Window
              /\ admitted' = admitted \cup {new}
           \/ members' = rest /\ UNCHANGED <<expires, admitted>>
        /\ pending' = [pending EXCEPT ![c] = None]
        /\ clock' = clock
    BY <1>3, <2>1 DEF Redis!RunScript
  <2>3. CASE members' = rest /\ UNCHANGED <<expires, admitted>>
    BY <2>1, <2>2, <2>3, ScriptRefuses
  <2>4. CASE /\ Redis!Cardinality(rest) < pending[c].limit
             /\ members' = rest \cup {[score |-> s, at |-> clock, n |-> rank]}
             /\ expires' = clock + Window
             /\ admitted' = admitted \cup {new}
    BY <2>1, <2>2, <2>4, ScriptAdmits
  <2> QED
    BY <2>2, <2>3, <2>4
<1>4. ASSUME NEW c \in Caller, NEW limit \in Limits, NEW offset \in Offsets, Redis!StartCheck(c, limit, offset)
      PROVE  Redis!IInv'
  <2>1. PICK o, call : o = Redis!Max(Offsets \cup {0})
                       /\ call = [limit |-> limit, stamp |-> clock + offset, taken |-> clock]
    OBVIOUS
  <2>2. /\ pending' = [pending EXCEPT ![c] = call]
        /\ UNCHANGED <<members, expires, clock, admitted>>
    BY <1>4, <2>1 DEF Redis!StartCheck
  <2>3. clock \in 0..MaxClock /\ clock \in Nat /\ MaxDelay \in Nat /\ o \in Nat /\ offset \in 0..o
    BY <2>1, RedisFacts, SkewBounds
  <2>4. call \in Redis!Call /\ call.taken = clock /\ call.stamp - call.taken = offset
        /\ call.taken <= clock /\ clock - call.taken <= MaxDelay
    BY <2>1, <2>3 DEF Redis!Call
  <2>5. Redis!TypeOK'
    BY <1>1, <2>2, <2>4 DEF Redis!TypeOK
  <2>6. Redis!ReadingsAreRecent'
    <3> SUFFICES ASSUME NEW d \in Caller, pending'[d] # None
                 PROVE  /\ pending'[d].taken <= clock /\ clock - pending'[d].taken <= MaxDelay
                        /\ pending'[d].stamp - pending'[d].taken \in 0..o
      BY <2>1, <2>2 DEF Redis!ReadingsAreRecent, Redis!Max
    <3>1. CASE d = c
      BY <1>1, <2>2, <2>3, <2>4, <3>1 DEF Redis!TypeOK
    <3>2. CASE d # c
      BY <1>1, <2>1, <2>2, <3>2 DEF Redis!TypeOK, Redis!ReadingsAreRecent
    <3> QED
      BY <3>1, <3>2
  <2>7. Redis!ScoresAreRecent' /\ Redis!KeyOutlivesWindow' /\ Redis!RecentIsKept'
    BY <1>1, <2>2 DEF Redis!ScoresAreRecent, Redis!KeyOutlivesWindow, Redis!RecentIsKept, Redis!AdmittedIn, Redis!Skew
  <2> QED
    BY <1>2, <2>2, <2>5, <2>6, <2>7 DEF Redis!IInv
<1>5. CASE Redis!KeyExpires
  <2>1. members' = {} /\ clock >= expires /\ UNCHANGED <<expires, clock, pending, admitted>>
    BY <1>5 DEF Redis!KeyExpires
  <2>2. Redis!TypeOK'
    <3>1. Redis!IsFiniteSet({})
      BY SameCardinality, FS_EmptySet
    <3> QED
      BY <1>1, <2>1, <3>1 DEF Redis!TypeOK
  <2>3. Redis!ReadingsAreRecent' /\ Redis!ScoresAreRecent' /\ Redis!KeyOutlivesWindow'
    BY <1>1, <2>1 DEF Redis!ReadingsAreRecent, Redis!ScoresAreRecent, Redis!KeyOutlivesWindow
  <2>4. Redis!RecentIsKept'
    <3>1. ASSUME NEW a \in admitted PROVE ~(clock - Reach < a.at)
      <4>1. a.at \in Nat /\ a.at + Window <= expires /\ expires \in Nat /\ clock \in Nat
            /\ Window \in Nat /\ Reach \in Int /\ Reach <= Window
        BY RedisFacts
      <4> QED
        BY <2>1, <4>1
    <3> QED
      BY <2>1, <3>1 DEF Redis!RecentIsKept, Redis!AdmittedIn, Redis!Skew, Reach
  <2> QED
    BY <1>2, <2>1, <2>2, <2>3, <2>4 DEF Redis!IInv
<1>6. CASE Redis!Tick
  <2>1. /\ clock < MaxClock /\ clock' = clock + 1
        /\ \A c \in Caller : pending[c] # None => clock - pending[c].taken < MaxDelay
        /\ UNCHANGED <<members, expires, pending, admitted>>
    BY <1>6 DEF Redis!Tick
  <2>2. clock \in Nat /\ MaxClock \in Nat /\ MaxDelay \in Nat /\ Reach \in Int
    BY RedisFacts
  <2>3. clock + 1 \in 0..MaxClock
    BY <2>1, <2>2
  <2>4. Redis!TypeOK'
    BY <1>1, <2>1, <2>3 DEF Redis!TypeOK
  <2>5. Redis!ReadingsAreRecent'
    <3> SUFFICES ASSUME NEW d \in Caller, pending[d] # None
                 PROVE  /\ pending[d].taken <= clock + 1 /\ (clock + 1) - pending[d].taken <= MaxDelay
                        /\ pending[d].stamp - pending[d].taken \in 0..Redis!Max(Offsets \cup {0})
      BY <2>1 DEF Redis!ReadingsAreRecent, Redis!Max
    <3>1. pending[d] \in Redis!Call
      BY <1>1 DEF Redis!TypeOK
    <3>2. pending[d].taken \in Nat
      BY <2>2, <3>1 DEF Redis!Call
    <3>3. /\ pending[d].taken <= clock
          /\ pending[d].stamp - pending[d].taken \in 0..Redis!Max(Offsets \cup {0})
      BY <1>1 DEF Redis!ReadingsAreRecent
    <3>4. pending[d].taken <= clock + 1 /\ (clock + 1) - pending[d].taken <= MaxDelay
      BY <2>1, <2>2, <3>2, <3>3
    <3> QED
      BY <3>3, <3>4
  <2>6. Redis!ScoresAreRecent'
    BY <1>1, <2>1 DEF Redis!ScoresAreRecent
  <2>7. Redis!KeyOutlivesWindow'
    <3>1. \A a \in admitted : a.at <= clock + 1
      BY <2>2, RedisFacts
    <3> QED
      BY <1>1, <2>1, <3>1 DEF Redis!KeyOutlivesWindow
  <2>8. Redis!RecentIsKept'
    <3>1. ASSUME NEW a \in admitted, (clock + 1) - Reach < a.at
          PROVE  \E m \in members : m.at = a.at /\ m.n = a.n
      <4>1. a.at \in Nat
        BY RedisFacts
      <4>2. a.at > clock - Reach
        BY <2>2, <3>1, <4>1
      <4> QED
        BY <4>2, RedisFacts
    <3> QED
      BY <2>1, <3>1 DEF Redis!RecentIsKept, Redis!AdmittedIn, Redis!Skew, Reach
  <2> QED
    BY <1>2, <2>1, <2>4, <2>5, <2>6, <2>7, <2>8 DEF Redis!IInv
<1>7. CASE UNCHANGED redisVars
  <2>1. UNCHANGED members /\ UNCHANGED expires /\ UNCHANGED clock /\ UNCHANGED pending /\ UNCHANGED admitted
    BY <1>7 DEF redisVars
  <2>2. Redis!TypeOK'
    BY <1>1, <2>1 DEF Redis!TypeOK
  <2>3. Redis!ReadingsAreRecent' /\ Redis!ScoresAreRecent' /\ Redis!KeyOutlivesWindow' /\ Redis!RecentIsKept'
    BY <1>1, <2>1 DEF Redis!ReadingsAreRecent, Redis!ScoresAreRecent, Redis!KeyOutlivesWindow, Redis!RecentIsKept,
                      Redis!AdmittedIn, Redis!Skew
  <2> QED
    BY <1>2, <2>1, <2>2, <2>3 DEF Redis!IInv
<1> QED
  BY <1>3, <1>4, <1>5, <1>6, <1>7 DEF Redis!Next

-------------------------------------------------------------------------------
(* The three stores. *)

\* No store has admitted anything when it is assembled.
LEMMA LimitersInit == Init => IInv
<1> SUFFICES ASSUME Init PROVE IInv
  OBVIOUS
<1>1. Memory!Init /\ Sqlite!Init /\ Redis!Init
  BY DEF Init
<1>2. FixedMaxClock \in Nat /\ MaxClock \in Nat
  BY LimitersAssumption
<1>3. Memory!IsFiniteSet({}) /\ Sqlite!IsFiniteSet({}) /\ Redis!IsFiniteSet({})
  <2>1. IsFiniteSet({})
    BY FS_EmptySet
  <2> QED
    BY <2>1 DEF IsFiniteSet, Memory!IsFiniteSet, Sqlite!IsFiniteSet, Redis!IsFiniteSet
<1>4. Memory!IInv
  <2>1. Memory!TypeOK
    BY <1>1, <1>2, <1>3 DEF Memory!Init, Memory!TypeOK
  <2>2. Memory!LimitPerWindow /\ Memory!CountIsExact
    BY <1>1, LargestLimitBounds DEF Memory!Init, Memory!LimitPerWindow, Memory!CountIsExact
  <2>3. Memory!AdmittedInWindows /\ Memory!WindowsAreApart /\ Memory!RanksAreUnique /\ Memory!BucketIsLast
    BY <1>1 DEF Memory!Init, Memory!AdmittedInWindows, Memory!WindowsAreApart, Memory!RanksAreUnique, Memory!BucketIsLast
  <2> QED
    BY <1>1, <2>1, <2>2, <2>3 DEF Memory!IInv, Memory!Init
<1>5. Sqlite!IInv
  <2>1. Sqlite!TypeOK
    BY <1>1, <1>2, <1>3 DEF Sqlite!Init, Sqlite!TypeOK
  <2>2. Sqlite!LimitPerWindow /\ Sqlite!CountIsExact
    BY <1>1, LargestLimitBounds DEF Sqlite!Init, Sqlite!LimitPerWindow, Sqlite!CountIsExact
  <2> QED
    BY <2>1, <2>2 DEF Sqlite!IInv
<1>6. Redis!IInv
  <2>1. Redis!TypeOK
    BY <1>1, <1>2, <1>3 DEF Redis!Init, Redis!TypeOK
  <2>2. Redis!ReadingsAreRecent /\ Redis!ScoresAreRecent /\ Redis!KeyOutlivesWindow /\ Redis!RanksAreFresh
    BY <1>1 DEF Redis!Init, Redis!ReadingsAreRecent, Redis!ScoresAreRecent, Redis!KeyOutlivesWindow, Redis!RanksAreFresh
  <2>3. \A lo, hi : Redis!AdmittedIn(lo, hi) = {}
    BY <1>1 DEF Redis!Init, Redis!AdmittedIn
  <2>4. Redis!RecentIsKept
    BY <2>3 DEF Redis!RecentIsKept
  <2>5. Redis!Cardinality({}) = 0
    BY SameCardinality, FS_EmptySet
  <2>6. Redis!NoBoundaryBurst
    BY <2>3, <2>5, LargestLimitBounds DEF Redis!NoBoundaryBurst
  <2> QED
    BY <2>1, <2>2, <2>4, <2>6 DEF Redis!IInv
<1> QED
  BY <1>4, <1>5, <1>6 DEF IInv

\* A step is a step of the assembled store and leaves the others alone.
THEOREM Invariance == Spec => []IInv
<1>1. IInv /\ [Next]_vars => IInv'
  <2> SUFFICES ASSUME IInv, [Next]_vars PROVE IInv'
    OBVIOUS
  <2>1. [Memory!Next]_memoryVars /\ [Sqlite!Next]_sqliteVars /\ [Redis!Next]_redisVars
    BY DEF Next, vars
  <2> QED
    BY <2>1, MemoryStep, SqliteStep, RedisStep DEF IInv
<1> QED
  BY LimitersInit, <1>1, PTL DEF Spec

\* For any limits and any number of concurrent requests, no fixed window admits
\* more than the largest limit, and the count it compares with the limit is the
\* number of requests it admitted (stores.rs and rate_limit.rs check_and_record).
THEOREM WindowsAreLimited == Spec => []FixedWindowLimit
<1>1. IInv => FixedWindowLimit
  BY DEF IInv, FixedWindowLimit, Memory!IInv, Sqlite!IInv
<1> QED
  BY Invariance, <1>1, PTL

\* For any window length and any clock offsets of the servers, at most twice the
\* limit passes in memory in an interval of a window's length, and at most the
\* limit on Redis in one shorter by the skew (stores.rs, lib.rs RATE_LIMIT_SCRIPT).
THEOREM BurstsAreLimited == Spec => []BurstsAreBounded
<1>1. IInv => BurstsAreBounded
  BY MemoryBurst DEF IInv, BurstsAreBounded, Redis!IInv
<1> QED
  BY Invariance, <1>1, PTL

===============================================================================
